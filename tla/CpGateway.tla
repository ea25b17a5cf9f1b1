----------------------------- MODULE CpGateway -----------------------------
(***************************************************************************)
(* The Coding Plan gateway: Go handlers (proxy/openai_gateway.go) resolve  *)
(* a pkcp_ key to an account, forward the chat, fail over, and report the  *)
(* end; Pulse Web answers from its sticky bindings (database) and its seat *)
(* book (memory).  HTTP answers can be lost, Web can restart, the data     *)
(* plane can crash.  A resolve is two steps, because another request's     *)
(* commit can come between its read of the binding and its own write.      *)
(* The order of the accounts by quota pressure is left open.               *)
(***************************************************************************)
EXTENDS SeatBook

CONSTANTS
  Call,         \* handler slots of the data plane: requests in progress at once
  Flaky,        \* credentials whose upstream may refuse (429, 502, 503, 529)
  Hangs,        \* whether an upstream may hang for MAX_INFLIGHT_SECONDS
  Ttl, Dwell,   \* concurrent_ttl_seconds, min_switch_minutes
  Cap,          \* max_concurrent_users
  EndAttempts,  \* posts of one end before EndOpenAI gives up
  Limit         \* bounds of the model: requests started, exchanges lost, replies
                \* to an end lost, restarts of Web, crashes of the data plane

Rare == {"starts", "losses", "acks", "restarts", "crashes"}

ASSUME GatewayAssumption ==
  /\ IsFiniteSet(Call) /\ IsFiniteSet(Cred)
  /\ Flaky \subseteq Cred
  /\ Hangs \in BOOLEAN
  /\ Ttl \in 1..MaxTtl
  /\ Dwell \in Nat
  /\ Larger(Dwell, Ttl) <= MaxHold
  /\ Cap \in Nat
  /\ EndAttempts \in Nat \ {0}
  /\ Limit \in [Rare -> Nat]

\* _hold_seconds
Keep == Larger(Dwell, Ttl)

VARIABLES
  seats, boots,   \* OccupancyBook
  restored,       \* cp_restored
  binding,        \* cp_openai_sticky_bindings: per key, the credential and the
                  \* age of updated_at
  calls,          \* the handlers
  remembered,     \* cpSticky: the data plane's memory of each key
  proc,           \* boot id of the running data plane
  last,           \* history: each key's last answer and its age, unless another
                  \* resolve of the key overlapped the one that gave it
  used            \* how much of each limit is spent

web == <<seats, boots, restored, binding>>
go == <<calls, remembered, proc>>
vars == <<web, go, last, used>>

NoRow == [cred |-> NoCred, age |-> 0]
Row == [cred : Cred \cup {NoCred}, age : 0..Keep]

\* view: what a resolve read of the binding; dropped, that it deletes it;
\* stick, that it found the dwell still running.  History: due, the
\* credential the documents promise this request, NoCred when they do not;
\* alone, that no other resolve of the key has overlapped this one.
IdleCall == [phase |-> "idle", key |-> NoCred, cred |-> NoCred, current |-> NoCred,
             release |-> FALSE, excluded |-> {}, view |-> NoCred,
             dropped |-> FALSE, stick |-> FALSE, tries |-> 0, due |-> NoCred,
             alone |-> TRUE]

CallState == [phase    : {"idle", "asking", "picking", "serving", "streaming", "ending"},
              key      : Holder \cup {NoCred},
              cred     : Cred \cup {NoCred},
              current  : Cred \cup {NoCred},
              release  : BOOLEAN,
              excluded : SUBSET Cred,
              view     : Cred \cup {NoCred},
              dropped  : BOOLEAN,
              stick    : BOOLEAN,
              tries    : 0..EndAttempts,
              due      : Cred \cup {NoCred},
              alone    : BOOLEAN]

CpTypeOK ==
  /\ seats \in [Pair -> Seat]
  /\ boots \in [Boot -> 0..SilenceBound \cup {Unknown}]
  /\ restored \in BOOLEAN
  /\ binding \in [Holder -> Row]
  /\ calls \in [Call -> CallState]
  /\ remembered \in [Holder -> Cred \cup {NoCred}]
  /\ proc \in Boot
  /\ last \in [Holder -> Row]
  /\ \A f \in DOMAIN Limit : used[f] \in 0..Limit[f]

\* Nothing has happened yet, and `spent` of each limit is not to be had any more.
Beginning(spent) ==
  /\ seats = EmptySeats
  /\ boots = NoBoots
  /\ restored = FALSE
  /\ binding = [h \in Holder |-> NoRow]
  /\ calls = [k \in Call |-> IdleCall]
  /\ remembered = [h \in Holder |-> NoCred]
  /\ proc \in Boot
  /\ last = [h \in Holder |-> NoRow]
  /\ used = spent

CpInit == Beginning([f \in DOMAIN Limit |-> 0])

Spend(f) == used[f] < Limit[f] /\ used' = [used EXCEPT ![f] = @ + 1]

\* A call the data plane is running, and the seat it runs on.
Running(k) == calls[k].phase \in {"serving", "streaming"}
SeatOf(k) == <<calls[k].key, AccountOf[calls[k].cred]>>

-----------------------------------------------------------------------------
(* Pulse Web *)

\* restore_cp_seats: once per Web process, every binding whose hold still runs.
RestoredSeats ==
  IF restored THEN seats
  ELSE [p \in Pair |->
          LET r == binding[p[1]]
          IN IF r.cred # NoCred /\ AccountOf[r.cred] = p[2]
             THEN HeldUntil(seats, p[1], r.cred, Keep - r.age)[p] ELSE seats[p]]

Ask(h, ranked, table, current, release) ==
  [holder |-> h, ranked |-> ranked, table |-> table, current |-> current,
   release |-> release, pinned |-> FALSE, pin |-> NoCred, held |-> NoCred, cap |-> Cap]

Nowhere == [c \in Cred |-> NoAccount]

Pool(call) == Cred \ call.excluded

\* Leaving a refused credential: no account is looked up for it, since it is
\* excluded, so the book drops whatever this key reached through it.
LeaveSeats(s, call) ==
  IF call.release
  THEN SeatsAfter(s, Ask(call.key, <<call.current>>, Nowhere, call.current, TRUE))
  ELSE s

\* Between two requests of a key less than the dwell apart, the account stays.
Promised(c) ==
  IF c.excluded = {} /\ last[c.key].age < Dwell THEN last[c.key].cred ELSE NoCred

\* The other requests of k's key that are being answered.
Rivals(k) == {j \in Call \ {k} : calls[j].phase = "picking" /\ calls[j].key = calls[k].key}

\* What a resolve has read of the binding.
Looked(c, row, alone) ==
  LET forget == c.release /\ row.cred = c.current
  IN [c EXCEPT !.phase = "picking", !.view = row.cred, !.dropped = forget,
        !.stick = ~forget /\ row.cred \in Pool(c) /\ row.age < Dwell,
        !.due = Promised(c), !.alone = alone]

\* The first half of resolve_cp_credential: read the binding, forget it when
\* it is the one being left, give up the seat.  With no account left to try
\* it answers at once and leaves the seat to the end of the call.
ResolveRead(k) ==
  LET c == calls[k]
  IN /\ c.phase = "asking"
     /\ Pool(c) # {}
     /\ seats' = LeaveSeats(IF c.release THEN Expired(RestoredSeats, Noted(boots, proc), Ttl)
                                         ELSE RestoredSeats, c)
     /\ boots' = IF c.release THEN BootsAfterReap(Noted(boots, proc)) ELSE Noted(boots, proc)
     /\ restored' = TRUE
     /\ calls' = [j \in Call |->
                    IF j = k THEN Looked(c, binding[c.key], Rivals(k) = {})
                    ELSE IF j \in Rivals(k) THEN [calls[j] EXCEPT !.alone = FALSE]
                    ELSE calls[j]]
     /\ UNCHANGED <<binding, remembered, proc, last, used>>

\* An error or an empty pool ends the handler: what it had been seated on in
\* an earlier attempt is reported as ended.
GiveUp(c) ==
  IF c.cred = NoCred THEN IdleCall ELSE [IdleCall EXCEPT !.phase = "ending",
    !.key = c.key, !.cred = c.cred, !.tries = EndAttempts]

ResolveNoPool(k) ==
  /\ calls[k].phase = "asking"
  /\ Pool(calls[k]) = {}
  /\ seats' = RestoredSeats
  /\ boots' = Noted(boots, proc)
  /\ restored' = TRUE
  /\ calls' = [calls EXCEPT ![k] = GiveUp(@)]
  /\ UNCHANGED <<binding, remembered, proc, last, used>>

\* The row as the session writes it at flush.  A row marked deleted in the
\* session stays deleted, whatever is assigned to it afterwards; a row that
\* has gone in between cannot be updated, one that has come cannot be added.
RowConflict(c) ==
  IF c.view = NoCred THEN binding[c.key] # NoRow
  ELSE ~c.dropped /\ binding[c.key] = NoRow

\* Slip: a key that has a binding keeps its credential.
WrittenRowUnmoved(c, chosen) ==
  IF c.dropped THEN NoRow
  ELSE [cred |-> IF c.view = NoCred THEN chosen ELSE c.view, age |-> 0]

WrittenRow(c, chosen) ==
  IF c.dropped THEN NoRow
  ELSE [cred |-> IF c.view = chosen THEN binding[c.key].cred ELSE chosen, age |-> 0]

Served(c, chosen) ==
  [c EXCEPT !.phase = "serving", !.cred = chosen, !.release = FALSE, !.view = NoCred,
            !.dropped = FALSE, !.stick = FALSE, !.alone = TRUE]

\* The answer reaches the handler, or the connection or its deadline fails.
Answered(k, chosen) ==
  \/ /\ calls' = [calls EXCEPT ![k] = Served(@, chosen)]
     /\ last' = [last EXCEPT ![calls[k].key] =
                   IF calls[k].alone THEN [cred |-> chosen, age |-> 0] ELSE NoRow]
     /\ UNCHANGED used
  \/ /\ Spend("losses")
     /\ calls' = [calls EXCEPT ![k] = GiveUp(@)]
     /\ UNCHANGED last

Refused(k) ==
  /\ calls' = [calls EXCEPT ![k] = GiveUp(@)]
  /\ UNCHANGED <<last, used>>

\* Bound on the calls of one boot on a seat.
CallFits(s, h, c) ==
  <<h, AccountOf[c]>> \in Pair => s[<<h, AccountOf[c]>>].inflight[proc] < CallBound

Begin(s, k, chosen) == Began(s, calls[k].key, chosen, proc, Keep)

\* Within the dwell: the same account again, even past the cap.  The row is
\* written after the call was counted: a conflict leaves the call counted.
ResolveStick(k) ==
  LET c == calls[k]
      s == Expired(seats, boots, Ttl)
      table == [x \in Cred |-> IF x = c.view THEN AccountOf[x] ELSE NoAccount]
      t == SeatsAfter(s, Ask(c.key, <<c.view>>, table, c.view, FALSE))
  IN /\ c.phase = "picking" /\ c.stick
     /\ CallFits(t, c.key, c.view)
     /\ seats' = Begin(t, k, c.view)
     /\ boots' = Noted(BootsAfterReap(boots), proc)
     /\ IF RowConflict(c)
        THEN Refused(k) /\ UNCHANGED binding
        ELSE /\ binding' = [binding EXCEPT ![c.key] = WrittenRow(c, c.view)]
             /\ Answered(k, c.view)
     /\ UNCHANGED <<restored, remembered, proc>>

\* The orders the accounts can be ranked in: quota pressure is not modelled.
Orders(S) ==
  {f \in [1..Cardinality(S) -> S] : \A i, j \in 1..Cardinality(S) : i # j => f[i] # f[j]}

\* The seat left behind is freed unless a call is still running on it.
LeftBehind(s, c, chosen) ==
  LET old == {x \in {IF c.dropped THEN NoCred ELSE c.view, c.current} \cap Pool(c) :
                AccountOf[x] # AccountOf[chosen]}
  IN [p \in Pair |->
        IF p[1] = c.key /\ p[2] \in {AccountOf[x] : x \in old}
        THEN IdleReleased(s, p[1], p[2])[p] ELSE s[p]]

\* No dwell: rank afresh.  Here the row is written before the call is counted.
ResolveRank(k) ==
  LET c == calls[k]
      s == Expired(seats, boots, Ttl)
  IN /\ c.phase = "picking" /\ ~c.stick
     /\ boots' = Noted(BootsAfterReap(boots), proc)
     /\ \E ranked \in Orders(Pool(c)) :
          LET q == Ask(c.key, ranked, AccountOf, NoCred, FALSE)
              chosen == Assigned(s, q)
              t == SeatsAfter(s, q)
          IN IF chosen = NoCred
             THEN seats' = t /\ UNCHANGED binding /\ Refused(k)
             ELSE IF RowConflict(c)
             THEN seats' = LeftBehind(t, c, chosen) /\ UNCHANGED binding /\ Refused(k)
             ELSE /\ CallFits(t, c.key, chosen)
                  /\ seats' = Begin(LeftBehind(t, c, chosen), k, chosen)
                  /\ binding' = [binding EXCEPT ![c.key] = WrittenRow(c, chosen)]
                  /\ Answered(k, chosen)
     /\ UNCHANGED <<restored, remembered, proc>>

\* EndOpenAI after an attempt that failed, if any is left.
NextTry(c) == IF c.tries > 1 THEN [c EXCEPT !.tries = @ - 1] ELSE IdleCall

\* end_cp_call: the answer may be lost after the end was counted.
EndReceived(k) ==
  LET c == calls[k]
      bound == binding[c.key].cred = c.cred
  IN /\ c.phase = "ending"
     /\ seats' = Ended(seats, c.key, c.cred, proc, Keep, bound)
     /\ boots' = Noted(boots, proc)
     /\ binding' = IF bound THEN [binding EXCEPT ![c.key].age = 0] ELSE binding
     /\ \/ calls' = [calls EXCEPT ![k] = IdleCall] /\ UNCHANGED used
        \/ calls' = [calls EXCEPT ![k] = NextTry(c)] /\ Spend("acks")
     /\ UNCHANGED <<restored, remembered, proc, last>>

\* The pool refresh of the data plane, every minute: its heartbeat.
Heartbeat ==
  /\ boots' = Noted(boots, proc)
  /\ UNCHANGED <<seats, restored, binding, go, last, used>>

\* The admin's list of the accounts counts the seats, the stale ones gone.
Board ==
  /\ seats' = Expired(RestoredSeats, boots, Ttl)
  /\ boots' = BootsAfterReap(boots)
  /\ restored' = TRUE
  /\ UNCHANGED <<binding, go, last, used>>

\* A resolve running at that moment fails; the bindings are in the database.
WebRestart ==
  /\ Spend("restarts")
  /\ seats' = EmptySeats
  /\ boots' = NoBoots
  /\ restored' = FALSE
  /\ calls' = [k \in Call |-> IF calls[k].phase = "picking" THEN GiveUp(calls[k]) ELSE calls[k]]
  /\ UNCHANGED <<binding, remembered, proc, last>>

-----------------------------------------------------------------------------
(* The data plane *)

Begins(h) == [IdleCall EXCEPT !.phase = "asking", !.key = h, !.current = remembered[h]]

Start(k, h) ==
  /\ calls[k].phase = "idle"
  /\ Spend("starts")
  /\ calls' = [calls EXCEPT ![k] = Begins(h)]
  /\ UNCHANGED <<web, remembered, proc, last>>

\* The request, or an attempt to report the end, never reaches Web.
Unreached(k) ==
  LET c == calls[k]
  IN /\ Spend("losses")
     /\ \/ c.phase = "asking" /\ calls' = [calls EXCEPT ![k] = GiveUp(@)]
        \/ c.phase = "ending" /\ calls' = [calls EXCEPT ![k] = NextTry(@)]
     /\ UNCHANGED <<web, remembered, proc, last>>

FailsOver(c) ==
  [c EXCEPT !.phase = "asking", !.excluded = @ \cup {c.cred}, !.current = c.cred,
            !.release = TRUE]

UpstreamRefuses(k) ==
  /\ calls[k].phase = "serving" /\ calls[k].cred \in Flaky
  /\ calls' = [calls EXCEPT ![k] = FailsOver(@)]
  /\ UNCHANGED <<web, remembered, proc, last, used>>

UpstreamAccepts(k) ==
  /\ calls[k].phase = "serving"
  /\ calls' = [calls EXCEPT ![k].phase = "streaming"]
  /\ remembered' = [remembered EXCEPT ![calls[k].key] = calls[k].cred]
  /\ UNCHANGED <<web, proc, last, used>>

UpstreamDone(k) ==
  /\ calls[k].phase = "streaming"
  /\ calls' = [calls EXCEPT ![k] = GiveUp(@)]
  /\ UNCHANGED <<web, remembered, proc, last, used>>

\* The handlers die with the process; the next one has another boot id.
Crash ==
  /\ Spend("crashes")
  /\ calls' = [k \in Call |-> IdleCall]
  /\ remembered' = [h \in Holder |-> NoCred]
  /\ proc' \in Boot \ {proc}
  /\ boots[proc'] = Unknown
  /\ UNCHANGED <<web, last>>

\* The seat that k's call is on has not been idle for as long as a call may take.
InTime(k) == SeatOf(k) \in Pair => seats'[SeatOf(k)].idle < MaxInflight

\* A unit of time stands for minutes.  A running data plane is heard of more
\* often than BOOT_STALE_SECONDS; a resolve is given up by its client after
\* seconds, and an end, all its retries included, within one minute.  A call
\* outlasts MAX_INFLIGHT_SECONDS only when its upstream hangs.
Tick ==
  /\ boots[proc] # Unknown => boots[proc] + 1 < BootStale
  /\ \A k \in Call : calls[k].phase \notin {"picking", "ending"}
  /\ seats' = Aged(seats)
  /\ boots' = AgedBoots(boots)
  /\ binding' = [h \in Holder |-> [binding[h] EXCEPT
                   !.age = IF binding[h] = NoRow THEN 0 ELSE OneOlder(@, Keep)]]
  /\ last' = [h \in Holder |-> [last[h] EXCEPT
                !.age = IF last[h] = NoRow THEN 0 ELSE OneOlder(@, Keep)]]
  /\ Hangs \/ \A k \in Call : Running(k) => InTime(k)
  /\ UNCHANGED <<restored, go, used>>

CpNext ==
  \/ \E k \in Call, h \in Holder : Start(k, h)
  \/ \E k \in Call :
       \/ ResolveRead(k) \/ ResolveNoPool(k) \/ ResolveStick(k) \/ ResolveRank(k)
       \/ EndReceived(k) \/ Unreached(k)
       \/ UpstreamRefuses(k) \/ UpstreamAccepts(k) \/ UpstreamDone(k)
  \/ Heartbeat \/ Board \/ WebRestart \/ Crash \/ Tick

CpSpec == CpInit /\ [][CpNext]_vars

\* Time passes and the data plane polls; a resolve is answered, and an end is
\* reported or given up.  Nothing obliges a request to come, an upstream to
\* finish or anyone to look at the book.
CpFairSpec ==
  /\ CpSpec
  /\ WF_vars(Tick) /\ WF_vars(Heartbeat)
  /\ WF_vars(\E k \in Call : ResolveStick(k) \/ ResolveRank(k))
  /\ WF_vars(\E k \in Call : EndReceived(k) \/ (calls[k].phase = "ending" /\ Unreached(k)))

-----------------------------------------------------------------------------
(* Properties *)

\* No call ends another's count or is left uncounted: on each seat at least
\* as many calls of this data plane are in progress as handlers run there.
CallsCounted ==
  \A p \in Pair :
    Cardinality({k \in Call : Running(k) /\ SeatOf(k) = p}) <= seats[p].inflight[proc]

\* A seat does not expire while a call on it is running.
CallKeepsSeat ==
  \A k \in Call : Running(k) => Taken(seats, SeatOf(k))

\* Two requests of one key less than the dwell apart go to the same account,
\* unless the account itself is no longer to be had.
StickyWithinDwell ==
  \A k \in Call : Running(k) /\ calls[k].due # NoCred => calls[k].cred = calls[k].due

\* However calls end, get lost or die with their process, the seats they took
\* come free: once no request is left, each has lapsed for the next look.
SeatsLapse ==
  <>[](\A p \in Pair : Taken(seats, p) => ~Alive(ReapSeat(seats[p], boots), Ttl))
=============================================================================
