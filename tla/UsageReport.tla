---------------------------- MODULE UsageReport ----------------------------
(***************************************************************************)
(* The Go data plane reporting usage to the ledger (proxy/pulse_client.go):  *)
(* every finished turn is put in a buffer, the ticker and the turns that     *)
(* fill it flush it, several flushes run at once, a post that gets no good   *)
(* answer is sent again, and a batch that fails goes back into the buffer.   *)
(* Pulse runs each post as a transaction of CreditLedger.                    *)
(***************************************************************************)
EXTENDS CreditLedger

CONSTANTS
  Goroutine,    \* the goroutines that finish turns
  Ticker,       \* the one Start runs
  usageBatchMax, usageMaxRetries, usageBufMax,
  MaxItems,     \* the longest batch Pulse's route takes
  BilledTo,     \* of each turn, in the order they end: its key or loan, whom it bills, its cost
  Losses,       \* bound of the model: posts that end without a good answer
  Deaths        \* bound of the model: times the proxy dies

Turns == DOMAIN BilledTo

ASSUME ReportAssumption ==
  /\ Ticker \notin Goroutine
  /\ usageBatchMax \in Nat \ {0} /\ usageMaxRetries \in Nat \ {0} /\ usageBufMax \in Nat
  /\ MaxItems \in Nat
  /\ BilledTo \in Seq([payer : Payer, member : Member, cost : Nat])
  /\ Losses \in Nat /\ Deaths \in Nat

VARIABLES
  usageBuf,   \* the turns waiting, oldest first unless a failed flush put some back
  flush,      \* what each goroutine is doing about flushing
  resting,    \* usageRetryAfter is in the future
  ended,      \* how many turns have ended
  dropped,    \* the turns that overflowed the buffer or died with the proxy
  mishaps     \* posts lost and deaths so far

proxyVars == <<usageBuf, flush, resting, ended, dropped, mishaps>>
reportVars == <<vars, proxyVars>>

Flusher == Goroutine \cup {Ticker}

\* by: the request thread of Pulse that serves the post it waits for.
NoFlush == [at |-> "idle", batch |-> <<>>, tries |-> 0, by |-> Nobody]

\* A proxy that has just started.
ProxyInit ==
  /\ usageBuf = <<>>
  /\ flush = [f \in Flusher |-> NoFlush]
  /\ resting = FALSE
  /\ ended = 0
  /\ dropped = {}
  /\ mishaps = [losses |-> 0, deaths |-> 0]

ReportInit == Fresh([m \in Member |-> 1]) /\ ProxyInit

-----------------------------------------------------------------------------

\* What the handler reports of a turn: it never sets RequestID.
UsageItem(n) == [turn |-> n, payer |-> BilledTo[n].payer, member |-> BilledTo[n].member,
                 cost |-> BilledTo[n].cost, request |-> NoRequest]

\* EnqueueUsage, up to the unlock: flushNow is what it does next.
EnqueueUsage(g) ==
  /\ flush[g].at = "idle"
  /\ ended < Cardinality(Turns)
  /\ ended' = ended + 1
  /\ usageBuf' = Append(usageBuf, ended + 1)
  /\ flush' = [flush EXCEPT ![g].at = IF Len(usageBuf') >= usageBatchMax THEN "due" ELSE "idle"]
  /\ UNCHANGED <<vars, resting, dropped, mishaps>>

\* The ticker's turn comes at any time.
Due(f) == flush[f].at = "due" \/ (f = Ticker /\ flush[f].at = "idle")

\* flushUsage(false): the buffer becomes the batch, unless there is none or the
\* backoff is not over.
TakeBatch(f) ==
  /\ Due(f)
  /\ IF usageBuf = <<>> \/ resting
     THEN /\ flush' = [flush EXCEPT ![f] = NoFlush]
          /\ UNCHANGED usageBuf
     ELSE /\ flush' = [flush EXCEPT ![f] = [NoFlush EXCEPT !.at = "posting", !.batch = usageBuf]]
          /\ usageBuf' = <<>>
  /\ UNCHANGED <<vars, resting, ended, dropped, mishaps>>

Posting(f) == flush[f].at = "posting" /\ flush[f].tries < usageMaxRetries

Post(f, t) ==
  /\ Posting(f)
  /\ Len(flush[f].batch) <= MaxItems
  /\ Record(t, [i \in DOMAIN flush[f].batch |-> UsageItem(flush[f].batch[i])])
  /\ flush' = [flush EXCEPT ![f].at = "waiting", ![f].by = t]
  /\ UNCHANGED <<usageBuf, resting, ended, dropped, mishaps>>

TryAgain(f) == [flush EXCEPT ![f].at = "posting", ![f].tries = @ + 1, ![f].by = Nobody]

Waiting(f, t) == flush[f].at = "waiting" /\ flush[f].by = t

Lose == mishaps.losses < Losses /\ mishaps' = [mishaps EXCEPT !.losses = @ + 1]

\* The post never reaches Pulse.
Unreachable(f) ==
  /\ Posting(f)
  /\ Lose
  /\ flush' = TryAgain(f)
  /\ UNCHANGED <<vars, usageBuf, resting, ended, dropped>>

\* The route takes no longer batch: it answers 422, and the proxy tries as after any
\* failure.
TooLong(f) ==
  /\ Posting(f)
  /\ Len(flush[f].batch) > MaxItems
  /\ flush' = TryAgain(f)
  /\ UNCHANGED <<vars, usageBuf, resting, ended, dropped, mishaps>>

\* The client's timeout, or its connection, ends; Pulse goes on.
StopWaiting(f) ==
  /\ flush[f].at = "waiting"
  /\ Lose
  /\ flush' = TryAgain(f)
  /\ UNCHANGED <<vars, usageBuf, resting, ended, dropped>>

\* Pulse commits, and the answer gets to a flush that still waits for it.
Answered(t) ==
  /\ Commit(t)
  /\ flush' = [f \in Flusher |-> IF Waiting(f, t) THEN NoFlush ELSE flush[f]]
  /\ resting' = (resting /\ ~\E f \in Flusher : Waiting(f, t))
  /\ UNCHANGED <<usageBuf, ended, dropped, mishaps>>

\* Pulse commits, and the answer is lost.
AnswerLost(f, t) ==
  /\ Waiting(f, t)
  /\ Commit(t)
  /\ Lose
  /\ flush' = TryAgain(f)
  /\ UNCHANGED <<usageBuf, resting, ended, dropped>>

\* Waiting for a row that one who waits too has locked: the database fails one.
Stuck(t) == tx[t].at = "paying" /\ tx[t].owed # <<>> /\ ~FreeFor(t, Head(tx[t].owed).member)

Deadlocked(t) == Stuck(t) /\ Stuck(lock[Head(tx[t].owed).member])

\* Pulse fails the request: a status that is not 2xx, or a closed connection.
Refused(t) ==
  /\ Fail(t)
  /\ Lose \/ (Deadlocked(t) /\ UNCHANGED mishaps)
  /\ flush' = [f \in Flusher |-> IF Waiting(f, t) THEN TryAgain(f)[f] ELSE flush[f]]
  /\ UNCHANGED <<usageBuf, resting, ended, dropped>>

\* Slip: what was enqueued meanwhile is overwritten.
RequeuedOver(f) == flush[f].batch

\* Slip: the whole batch is thrown away, as the releases before the buffer did.
RequeuedNot(f) == usageBuf

Requeued(f) == flush[f].batch \o usageBuf

Kept(s) == SubSeq(s, 1, IF Len(s) > usageBufMax THEN usageBufMax ELSE Len(s))

\* requeueUsage: in front of what has been enqueued since, and the tail of the
\* buffer goes when it is too long.
GiveUp(f) ==
  /\ flush[f].at = "posting"
  /\ flush[f].tries = usageMaxRetries
  /\ usageBuf' = Kept(Requeued(f))
  /\ dropped' = dropped \cup (Range(Requeued(f)) \ Range(Kept(Requeued(f))))
  /\ resting' = TRUE
  /\ flush' = [flush EXCEPT ![f] = NoFlush]
  /\ UNCHANGED <<vars, ended, mishaps>>

\* The backoff is over.
Rested ==
  /\ resting
  /\ resting' = FALSE
  /\ UNCHANGED <<vars, usageBuf, flush, ended, dropped, mishaps>>

\* main ends with log.Fatal or a signal, so the deferred Stop never runs, and
\* the buffer and the batches in memory go with the process.
Die ==
  /\ mishaps.deaths < Deaths
  /\ mishaps' = [mishaps EXCEPT !.deaths = @ + 1]
  /\ dropped' = dropped \cup Range(usageBuf) \cup UNION {Range(flush[f].batch) : f \in Flusher}
  /\ usageBuf' = <<>>
  /\ flush' = [f \in Flusher |-> NoFlush]
  /\ resting' = FALSE
  /\ UNCHANGED <<vars, ended>>

Serve(t) ==
  /\ RecordItem(t) \/ Recorded(t) \/ NotCharged(t) \/ Move(t)
  /\ UNCHANGED proxyVars

ReportNext ==
  \/ \E g \in Goroutine : EnqueueUsage(g)
  \/ \E f \in Flusher :
       \/ TakeBatch(f) \/ Unreachable(f) \/ TooLong(f) \/ StopWaiting(f) \/ GiveUp(f)
       \/ \E t \in Tx : Post(f, t) \/ AnswerLost(f, t)
  \/ \E t \in Tx : Serve(t) \/ Answered(t) \/ Refused(t)
  \/ Rested
  \/ Die

ReportSpec == ReportInit /\ [][ReportNext]_reportVars

\* A goroutine goes on, the ticker fires, the backoff ends, and Pulse goes on
\* with a request it has begun.
ReportFairness ==
  /\ WF_reportVars(Rested)
  /\ \A f \in Flusher :
       WF_reportVars(TakeBatch(f)) /\ WF_reportVars(GiveUp(f))
         /\ WF_reportVars(TooLong(f)) /\ WF_reportVars(\E t \in Tx : Post(f, t))
  /\ \A t \in Tx :
       WF_reportVars(Serve(t)) /\ WF_reportVars(Answered(t))
         /\ WF_reportVars(Deadlocked(t) /\ Refused(t))

ReportFairSpec == ReportSpec /\ ReportFairness

-----------------------------------------------------------------------------

Committed(n) == \E r \in usages : r.item.turn = n

\* A post of the turn needs no repeating: it has its row, or can have none, its key or
\* loan being unknown, and is answered with success all the same.
Settled(n) == Committed(n) \/ BilledTo[n].payer \in Gone

InFlight(n) == \E f \in Flusher : n \in Range(flush[f].batch)

ReportTypeOK ==
  /\ LedgerTypeOK
  /\ Range(usageBuf) \subseteq Turns
  /\ \A f \in Flusher :
       /\ flush[f].at \in {"idle", "due", "posting", "waiting"}
       /\ flush[f].tries \in 0 .. usageMaxRetries
       /\ flush[f].at \in {"posting", "waiting"} <=> flush[f].batch # <<>>
       /\ flush[f].at = "waiting" <=> flush[f].by # Nobody
  /\ resting \in BOOLEAN

\* A turn that ended is in one place of the proxy at most, and unless it is in
\* none because Pulse has it, has no row of its key or loan, or the proxy dropped
\* it, in one at least: what concurrent flushes take and put back is never
\* overwritten or doubled (pulse_client.go:553, 601).
NoTurnMislaid ==
  /\ IsInjective(usageBuf)
  /\ \A n \in 1 .. ended :
       /\ n \in Range(usageBuf) \/ InFlight(n) \/ n \in dropped \/ Settled(n)
       /\ n \in Range(usageBuf) => ~InFlight(n)
  /\ \A f, g \in Flusher : f # g => Range(flush[f].batch) \cap Range(flush[g].batch) = {}

\* More has piled up than the route takes at once: what is in the buffer is posted whole.
Jammed ==
  \/ Len(usageBuf) > MaxItems
  \/ \E f \in Flusher : Len(flush[f].batch) > MaxItems

\* As long as losses are not endless, every turn that ended is on Pulse's books
\* in the end (CHANGELOG.md:81), with four exceptions: it went with a full buffer,
\* or with a dead proxy, Pulse has no row of its key or loan (usage.py:420, 463),
\* or so much piled up in an outage that the route refuses the whole buffer from
\* then on (pulse_client.go:564, internal_proxy_api.py:41).
EveryTurnIsReported ==
  \A n \in Turns :
    ended >= n ~> Settled(n) \/ n \in dropped \/ Jammed

\* Stated by docs/adr/0006 (line 69): a usage reported again is not charged
\* again.
ChargedOnce ==
  \A k, l \in lines : \A q, r \in usages :
    /\ k.kind = "charge" /\ k.ref = q.id
    /\ l.kind = "charge" /\ l.ref = r.id
    /\ q.item.turn = r.item.turn
    => k = l
============================================================================
