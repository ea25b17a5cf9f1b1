----------------------------- MODULE ReplyDesk -----------------------------
(***************************************************************************)
(* The channel endpoint of Pulse Web: it delivers the assistant's replies  *)
(* to the IM or web channel and remembers for a while, in memory, which it *)
(* has taken on, so that a reply posted twice is delivered once            *)
(* (pulse/web/internal_channel_api.py).                                    *)
(***************************************************************************)
EXTENDS Naturals

CONSTANT Reply

VARIABLES
  slot,       \* replies the endpoint has claimed: _recent_channel_deliveries
  sending,    \* replies a request thread is handing to the channel
  delivered   \* how often each reply has reached the user

deskVars == <<slot, sending, delivered>>

DeskTypeOK ==
  /\ slot \subseteq Reply
  /\ sending \subseteq slot
  /\ delivered \in [Reply -> Nat]

DeskInit ==
  /\ slot = {}
  /\ sending = {}
  /\ delivered = [r \in Reply |-> 0]

Claimed(r) == r \in slot

\* Slip: claimed only when it has been delivered.
ReceiveUnclaimed(r) ==
  /\ ~Claimed(r)
  /\ sending' = sending \cup {r}
  /\ UNCHANGED <<slot, delivered>>

\* A post whose reply nobody has claimed: the claim comes before the delivery.
Receive(r) ==
  /\ ~Claimed(r)
  /\ slot' = slot \cup {r}
  /\ sending' = sending \cup {r}
  /\ UNCHANGED delivered

\* A post of a claimed reply is answered "sent" at once.
Deduplicate(r) == Claimed(r) /\ UNCHANGED deskVars

\* The channel took the reply.
Sent(r) ==
  /\ r \in sending
  /\ sending' = sending \ {r}
  /\ delivered' = [delivered EXCEPT ![r] = @ + 1]
  /\ UNCHANGED slot

\* Slip: the claim survives the failure.
NotSentKept(r) ==
  /\ r \in sending
  /\ sending' = sending \ {r}
  /\ UNCHANGED <<slot, delivered>>

\* The channel refused it: the claim is given up so that a retry may deliver.
NotSent(r) ==
  /\ r \in sending
  /\ sending' = sending \ {r}
  /\ slot' = slot \ {r}
  /\ UNCHANGED delivered

\* The channel took it, but the answer to the endpoint was lost.
SentUnawares(r) ==
  /\ r \in sending
  /\ sending' = sending \ {r}
  /\ slot' = slot \ {r}
  /\ delivered' = [delivered EXCEPT ![r] = @ + 1]

\* Web channel: the delivery is flushed and answered as sent inside, then the
\* commit of the request fails. The claim stays.
CommitLost(r) ==
  /\ r \in sending
  /\ sending' = sending \ {r}
  /\ UNCHANGED <<slot, delivered>>

\* Slip: the claim of a delivery that is still running expires as well.
ForgetAnyway(r) == Claimed(r) /\ slot' = slot \ {r} /\ UNCHANGED <<sending, delivered>>

\* A claim is older than _DEDUPE_TTL_SECONDS; no delivery takes that long.
Forget(r) ==
  /\ Claimed(r) /\ r \notin sending
  /\ slot' = slot \ {r}
  /\ UNCHANGED <<sending, delivered>>

\* Web restarts; its memory and its request threads are gone.
DeskRestart ==
  /\ slot' = {}
  /\ sending' = {}
  /\ UNCHANGED delivered
=============================================================================
