--------------------------- MODULE KeyLoanProofs ----------------------------
(***************************************************************************)
(* What holds of the key loans for every number of members, accounts,      *)
(* loans, keys, threads, requests and faults: one self-service loan at a   *)
(* time, the cap on an account, the key behind an active loan works, and   *)
(* no key is forgotten. First the steps: one lemma per action gives its    *)
(* outcomes; ThreadsStep and RowsStep then say once, for any step, what can *)
(* become of a thread and of the row of a loan. On these rest the types    *)
(* (Base), and on Base an invariant for each property: Single, Room, Owned *)
(* (whose credential is whose), and on Owned Remotes, Works, Fresh, Gone.  *)
(***************************************************************************)
EXTENDS KeyLoan, FiniteSetTheorems, TLAPS

\* Every set of naturals with an element has a smallest one.
LEMMA LeastElement ==
  ASSUME NEW T \in SUBSET Nat, NEW n \in T
  PROVE  \E x \in T : \A y \in T : x <= y
<1> DEFINE Less == {s \in Nat \X Nat : s[1] < s[2]}
<1>1. IsWellFoundedOn(Less, Nat)
  BY NatLessThanWellFounded DEF OpToRel
<1>2. \A x, y \in Nat : y < x => <<y, x>> \in Less
  OBVIOUS
<1> HIDE DEF Less
<1>3. PICK x \in T : \A y \in T : ~(<<y, x>> \in Less)
  BY <1>1, WFMin
<1>4. \A y \in T : ~(y < x)
  BY <1>2, <1>3, Zenon
<1> QED BY <1>4

\* What is going on in a thread of the web server or of the scheduler.
ThreadRec ==
  [at : {"idle", "asking", "queued", "admitted", "naming", "storing", "finalizing",
         "recalling", "flushing", "closing"},
   op : {"none", "self", "manual", "move", "revoke", "tick", "sync"},
   borrower : Borrower \cup {NoBorrower}, account : Account \cup {NoAccount},
   loan : Loan \cup {None}, view : LoanRow,
   key : Key \cup {None}, remote : RemoteId, old : RemoteId,
   todo : SUBSET (Loan \X (Key \cup {None})), ended : SUBSET (Loan \X (Key \cup {None})),
   recalled : BOOLEAN]

\* The stages of issuing or moving a loan, and of taking loans back.
Working == {"admitted", "naming", "storing"}
TakingBack == {"recalling", "flushing", "closing"}

\* What a thread knows at each stage.
Staged(w) ==
  /\ w.at = "idle" => w = Resting
  /\ w.at \in {"asking", "queued", "admitted"} => w.key = None /\ w.remote = None
  /\ w.at = "asking" => w.op = "self"
  /\ w.at = "queued" => w.op = "move"
  /\ w.at \in Working => w.op \in {"self", "manual", "move"}
  /\ w.op \in {"self", "manual"} =>
       /\ w.at \in {"asking"} \cup Working /\ w.borrower \in Borrower /\ w.account \in Account
       /\ w.at = "storing" => w.key # None
  /\ w.op = "move" => w.at \in {"queued"} \cup Working /\ w.loan \in Loan
  /\ w.at \in {"admitted", "naming"} => w.account \in Account
  /\ w.at = "naming" => w.key # None
  /\ w.key # None => w.at \in {"naming", "storing"} /\ w.account \in Account
  /\ w.at = "storing" /\ w.key = None
       => w.remote = None /\ w.account \in {NoAccount, w.view.account}
  /\ w.old # None <=> w.at = "finalizing"
  /\ w.at = "finalizing" => w = [Resting EXCEPT !.at = "finalizing", !.old = w.old]
  /\ w.todo # {} => w.at \in {"recalling", "flushing"}
  /\ w.at \in {"recalling", "flushing"} => w.todo # {}
  /\ w.ended # {} \/ w.recalled => w.at \in TakingBack
  /\ w.at \in TakingBack => w.op \in {"revoke", "tick", "sync"}
  /\ w.op = "revoke" /\ w.at \in {"recalling", "flushing"} => \E p \in w.todo : w.todo = {p}
  /\ w.op = "revoke" /\ w.at = "recalling" => ~w.recalled

\* Types, and which records a thread can have at its stage.
Types ==
  /\ keys \in [Key -> [at : Account \cup {NoAccount}, name : Borrower \cup {NoBorrower},
       live : BOOLEAN]]
  /\ \A k \in Key : keys[k] = NoKey \/ keys[k].at \in Account
  /\ creds \in [Key -> [remote : RemoteId, status : {"none", "active", "revoked"}]]
  /\ loans \in [Loan -> LoanRow]
  /\ lock \in [Borrower \cup Account \cup Loan -> Thread \cup {Nobody}]
  /\ thread \in [Thread -> ThreadRec] /\ \A t \in Thread : Staged(thread[t])
  /\ requests \in 0..MaxRequests /\ resets \in 0..MaxResets /\ faults \in 0..MaxFaults
  /\ marks \subseteq MarkKinds
  /\ \A l \in Loan : loans[l].status = "none" => loans[l] = NoLoanRow

\* What can be locked (SELECT ... FOR UPDATE).
Row == Borrower \cup Account \cup Loan

\* The rows a thread has locked at its stage: the member it issues to, the loan it moves,
\* the account it has made a key on, the loans it ends.
Holding(held, t, w) ==
  /\ w.op = "self" /\ w.at \in Working => held[w.borrower] = t
  /\ w.op = "move" /\ w.at \in Working => held[w.loan] = t
  /\ w.key # None => held[w.account] = t
  /\ \A p \in w.ended : held[p[1]] = t
\* Locks are held by threads in a transaction, and each thread has its own.
Locks ==
  /\ \A row \in Row : lock[row] # Nobody => thread[lock[row]].at \notin {"idle", "finalizing"}
  /\ \A t \in Thread : Holding(lock, t, thread[t])

\* Threads work on loans that exist; one that issues has no earlier credential in its view.
Booked ==
  \A t \in Thread : LET w == thread[t] IN
       /\ w.op = "move" => loans[w.loan].status # "none"
       /\ w.op \in {"self", "manual"} => w.view.cred = None
       /\ \A p \in w.todo \cup w.ended : loans[p[1]].status # "none"

\* Thread t goes on with record v; the rest of the task it is on stays as it was.
Goes(t, v) == v \in ThreadRec /\ Staged(v) /\ thread' = [thread EXCEPT ![t] = v]
SameTask(v, w) ==
  /\ v.op = w.op /\ v.borrower = w.borrower /\ v.account = w.account /\ v.loan = w.loan
       /\ v.view = w.view
  /\ v.old = None /\ v.todo = {} /\ v.ended = {} /\ v.recalled = FALSE
\* The transaction of t is over; t comes to have a row locked; t has nothing left to do.
Frees(t) == /\ lock' \in [Row -> Thread \cup {Nobody}]
            /\ \A row \in Row : lock'[row] = IF lock[row] = t THEN Nobody ELSE lock[row]
Has(t, row) == /\ lock' \in [Row -> Thread \cup {Nobody}] /\ lock'[row] = t
                    /\ lock[row] \in {Nobody, t}
               /\ \A r \in Row : r # row => lock'[r] = lock[r]
Over(t) == Goes(t, Resting) /\ Frees(t)

\* A thread with nothing to do is well typed.
LEMMA RestingFits == Resting \in ThreadRec /\ Staged(Resting) /\ NoLoanRow \in LoanRow
BY DEF Resting, ThreadRec, LoanRow, NoLoanRow, None, RemoteId, Staged, Working, TakingBack

\* When one thread goes on, the others keep their records.
LEMMA Moved ==
  ASSUME Types, NEW t \in Thread, NEW v, Goes(t, v)
  PROVE  /\ thread' \in [Thread -> ThreadRec] /\ thread'[t] = v
         /\ \A u \in Thread : Staged(thread'[u]) /\ (u # t => thread'[u] = thread[u])
<1>1. thread' \in [Thread -> ThreadRec] /\ thread'[t] = v /\ \A u \in Thread : u # t
     => thread'[u] = thread[u]
  BY DEF Types, Goes
<1>2. \A u \in Thread : Staged(thread'[u])
  BY <1>1 DEF Types, Goes
<1> QED BY <1>1, <1>2

\* Ends: the thread rests and its rows are free.
LEMMA Ended ==
  ASSUME Types, NEW t \in Thread, Ends(t)
  PROVE  Over(t)
<1>1. Goes(t, Resting)
  BY RestingFits DEF Ends, Goes
<1>2. Frees(t)
  BY DEF Ends, Releases, Frees, Types, Row, Nobody
<1> QED BY <1>1, <1>2 DEF Over

\* Takes: the row was free or the thread's own, and is its own now.
LEMMA Taken ==
  ASSUME Types, NEW t \in Thread, NEW row \in Row, Takes(t, row)
  PROVE  Has(t, row)
BY DEF Takes, Has, Types, Row

\* Dead: revoking a key ends that key and no other.
LEMMA DeadTyped ==
  ASSUME Types, NEW k \in RemoteId
  PROVE  /\ Dead(k) \in [Key -> [at : Account \cup {NoAccount}, name : Borrower \cup {NoBorrower},
              live : BOOLEAN]]
         /\ \A c \in Key : /\ Dead(k)[c].live = (keys[c].live /\ c # k)
                           /\ c # k => Dead(k)[c] = keys[c]
                           /\ Dead(k)[c].at = keys[c].at
                           /\ Dead(k)[c] = NoKey <=> keys[c] = NoKey
<1>0. None \notin Key /\ PrimaryKey \notin Key /\ NoAccount \notin Account
  BY LoanAssumption DEF None, PrimaryKey, Key
<1>1. CASE k \in {None, PrimaryKey}
  BY <1>0, <1>1 DEF Types, Dead
<1>2. CASE k \in Key
  <2> DEFINE r == [keys[k] EXCEPT !.live = FALSE]
  <2>1. keys[k] \in [at : Account \cup {NoAccount}, name : Borrower \cup {NoBorrower},
       live : BOOLEAN]
    BY <1>2 DEF Types
  <2>2. /\ r \in [at : Account \cup {NoAccount}, name : Borrower \cup {NoBorrower}, live : BOOLEAN]
        /\ r.live = FALSE /\ r.at = keys[k].at
    BY <2>1
  <2>3. r = NoKey <=> keys[k] = NoKey
    <3>1. CASE keys[k] = NoKey
      <4>1. NoKey \in [at : Account \cup {NoAccount}, name : Borrower \cup {NoBorrower},
           live : BOOLEAN]
        BY DEF NoKey
      <4>2. r.at = NoKey.at /\ r.name = NoKey.name /\ r.live = NoKey.live
        BY <2>1, <3>1 DEF NoKey
      <4> HIDE DEF r
      <4> QED BY <2>2, <3>1, <4>1, <4>2
    <3>2. CASE keys[k] # NoKey
      <4>1. r.at \in Account
        BY <1>2, <2>2, <3>2 DEF Types
      <4> QED BY <1>0, <3>2, <4>1 DEF NoKey
    <3> QED BY <3>1, <3>2
  <2>4. Dead(k) = [keys EXCEPT ![k] = r]
    BY <1>0, <1>2 DEF Dead
  <2> HIDE DEF r
  <2>5. keys \in [Key -> [at : Account \cup {NoAccount}, name : Borrower \cup {NoBorrower},
       live : BOOLEAN]]
    BY DEF Types
  <2>6. Dead(k) \in [Key -> [at : Account \cup {NoAccount}, name : Borrower \cup {NoBorrower},
       live : BOOLEAN]]
    BY <1>2, <2>2, <2>4, <2>5
  <2>7. Dead(k)[k] = r /\ \A c \in Key : c # k => Dead(k)[c] = keys[c]
    BY <1>2, <2>4, <2>5
  <2>8. \A c \in Key : keys[c].live \in BOOLEAN
    BY <2>5
  <2>9. \A c \in Key : c # k => Dead(k)[c].live = (keys[c].live /\ c # k)
    BY <2>7, <2>8
  <2>10. Dead(k)[k].live = (keys[k].live /\ k # k)
    BY <2>2, <2>7
  <2> QED BY <2>2, <2>3, <2>6, <2>7, <2>9, <2>10
<1> QED BY <1>1, <1>2 DEF RemoteId

\* Revoked: the key is dead, and only that of an account is marked.
LEMMA RevokedStep ==
  ASSUME Types, NEW k \in RemoteId, Revoked(k)
  PROVE  /\ keys' = Dead(k) /\ marks \subseteq marks' /\ marks' \subseteq marks \cup {"cut"}
         /\ k \in Key => UNCHANGED marks
         /\ k \notin Key => UNCHANGED keys
<1>1. PrimaryKey \notin Key
  BY LoanAssumption DEF PrimaryKey, Key
<1>2. marks' = marks \cup (IF k = PrimaryKey THEN {"cut"} ELSE {})
  BY DEF Revoked, Marks
<1>3. keys' = Dead(k) /\ (k \notin Key => UNCHANGED keys)
  BY DEF Revoked, Dead
<1> QED BY <1>1, <1>2, <1>3

\* The record of a thread that has just begun, with a loan newly loaded.
Begun(v) ==
  /\ v.at \in {"asking", "queued", "admitted", "recalling"} /\ v.key = None /\ v.old = None
  /\ v.ended = {} /\ v.recalled = FALSE /\ (v.at = "admitted" => v.op = "manual")
  /\ v.op = "move" => v.view = loans[v.loan] /\ loans[v.loan].status # "none"
  /\ v.op \in {"self", "manual"} => v.view.cred = None
  /\ \A p \in v.todo : p[1] \in Loan /\ p[2] = loans[p[1]].cred /\ loans[p[1]].status # "none"

\* The ways in which a thread begins (the handlers of quota_api.py and the daily jobs).
Starting(t) ==
  \/ \E b \in Borrower, a \in Account : RequestSelf(t, b, a) \/ IssueManual(t, b, a)
  \/ \E l \in Loan, a \in Account \cup {NoAccount} : RequestMove(t, l, a)
  \/ \E l \in Loan : RequestRevoke(t, l)
  \/ Tick(t) \/ \E a \in Account : AfterSync(t, a)

\* WithCred: the loans to take back are listed with the credential each row has.
LEMMA Listed ==
  ASSUME Types, NEW L \in SUBSET Loan, \A l \in L : loans[l].status # "none"
  PROVE  /\ WithCred(L) \in SUBSET (Loan \X (Key \cup {None}))
         /\ \A p \in WithCred(L) : p[1] \in L /\ p[2] = loans[p[1]].cred
              /\ loans[p[1]].status # "none"
         /\ L # {} => WithCred(L) # {}
         /\ \A l \in L : L = {l} => WithCred(L) = {<<l, loans[l].cred>>}
<1>1. \A l \in L : loans[l].cred \in Key \cup {None}
  BY DEF Types, LoanRow
<1>2. WithCred(L) \in SUBSET (Loan \X (Key \cup {None}))
  BY <1>1 DEF WithCred
<1>3. \A p \in WithCred(L) : \E l \in L : p = <<l, loans[l].cred>>
  BY DEF WithCred
<1>4. \A p \in WithCred(L) : p[1] \in L /\ p[2] = loans[p[1]].cred /\ loans[p[1]].status # "none"
  BY <1>3
<1>5. \A l \in L : <<l, loans[l].cred>> \in WithCred(L)
  BY DEF WithCred
<1>6. \A l \in L : L = {l} => WithCred(L) = {<<l, loans[l].cred>>}
  BY <1>3, <1>5
<1> QED BY <1>2, <1>4, <1>5, <1>6

\* The record of a job that starts to take loans back.
LEMMA Recalling ==
  ASSUME NEW W \in SUBSET (Loan \X (Key \cup {None})), NEW op \in {"tick", "sync"}
  PROVE  [Resting EXCEPT !.at = "recalling", !.op = op, !.todo = W] \in ThreadRec
<1>1. [Resting EXCEPT !.at = "recalling", !.op = "tick", !.todo = W] \in ThreadRec
  BY ZenonT(80), RestingFits DEF ThreadRec
<1>2. [Resting EXCEPT !.at = "recalling", !.op = "sync", !.todo = W] \in ThreadRec
  BY ZenonT(80), RestingFits DEF ThreadRec
<1> QED BY <1>1, <1>2

\* A thread that begins has only read: nothing but its record changes.
LEMMA Started ==
  ASSUME Types, NEW t \in Thread, Starting(t)
  PROVE  \E v : /\ Goes(t, v) /\ At(t, "idle") /\ Begun(v) /\ requests' \in 0..MaxRequests
                /\ UNCHANGED <<keys, creds, loans, lock, resets, faults, marks>>
<1> DEFINE Goal == \E v : /\ Goes(t, v) /\ At(t, "idle") /\ Begun(v) /\ requests' \in 0..MaxRequests
                          /\ UNCHANGED <<keys, creds, loans, lock, resets, faults, marks>>
<1>1. requests \in 0..MaxRequests /\ MaxRequests \in Nat
  BY LoanAssumption DEF Types
<1>2. ASSUME NEW v, Begin(t, v), v \in ThreadRec, Staged(v), Begun(v) PROVE Goal
  <2>1. requests' \in 0..MaxRequests
    BY <1>1, <1>2 DEF Begin
  <2> QED BY <1>2, <2>1 DEF Begin, Goes
<1>3. ASSUME NEW b \in Borrower, NEW a \in Account, RequestSelf(t, b, a) PROVE Goal
  <2> DEFINE v == [Resting EXCEPT !.at = "asking", !.op = "self", !.borrower = b, !.account = a]
  <2>1. v \in ThreadRec
    BY ZenonT(60), RestingFits DEF ThreadRec
  <2>2. Staged(v) /\ Begun(v)
    BY DEF Staged, Working, TakingBack, Resting, Begun, None, NoLoanRow
  <2>3. Begin(t, v)
    BY <1>3 DEF RequestSelf
  <2> HIDE DEF v
  <2> QED BY <1>2, <2>1, <2>2, <2>3
<1>4. ASSUME NEW b \in Borrower, NEW a \in Account, IssueManual(t, b, a) PROVE Goal
  <2> DEFINE v == [Resting EXCEPT !.at = "admitted", !.op = "manual", !.borrower = b, !.account = a]
  <2>1. v \in ThreadRec
    BY RestingFits DEF ThreadRec
  <2>2. Staged(v) /\ Begun(v)
    BY DEF Staged, Working, TakingBack, Resting, Begun, None, NoLoanRow
  <2>3. Begin(t, v)
    BY <1>4 DEF IssueManual
  <2> HIDE DEF v
  <2> QED BY <1>2, <2>1, <2>2, <2>3
<1>5. ASSUME NEW l \in Loan, NEW a \in Account \cup {NoAccount}, RequestMove(t, l, a) PROVE Goal
  <2> DEFINE v == [Resting EXCEPT !.at = "queued", !.op = "move", !.loan = l, !.view = loans[l],
                                  !.borrower = loans[l].borrower, !.account = a]
  <2>1. loans[l] \in LoanRow /\ loans[l].borrower \in Borrower \cup {NoBorrower}
    BY DEF Types, LoanRow
  <2>2. v \in ThreadRec
    BY ZenonT(60), <2>1, RestingFits DEF ThreadRec
  <2>3. Staged(v)
    BY DEF Staged, Working, TakingBack, Resting, None
  <2>4. Begun(v)
    BY <1>5 DEF Resting, Begun, None, RequestMove
  <2>5. Begin(t, v)
    BY <1>5 DEF RequestMove
  <2> HIDE DEF v
  <2> QED BY <1>2, <2>2, <2>3, <2>4, <2>5
<1>6. ASSUME NEW l \in Loan, RequestRevoke(t, l) PROVE Goal
  <2> DEFINE v == [Resting EXCEPT !.at = "recalling", !.op = "revoke", !.todo = WithCred({l})]
  <2>1. /\ WithCred({l}) \in SUBSET (Loan \X (Key \cup {None}))
        /\ \A p \in WithCred({l}) : p[1] \in Loan /\ p[2] = loans[p[1]].cred
             /\ loans[p[1]].status # "none"
        /\ WithCred({l}) = {<<l, loans[l].cred>>}
    BY <1>6, Listed DEF RequestRevoke
  <2>2. v \in ThreadRec
    BY ZenonT(60), <2>1, RestingFits DEF ThreadRec
  <2>3. Staged(v)
    BY <2>1 DEF Staged, Working, TakingBack, Resting, None
  <2>4. Begun(v)
    BY <2>1 DEF Resting, Begun, None
  <2>5. Begin(t, v)
    BY <1>6 DEF RequestRevoke
  <2> HIDE DEF v
  <2> QED BY <1>2, <2>2, <2>3, <2>4, <2>5
<1>7. ASSUME NEW op \in {"tick", "sync"}, NEW as, Expire(t, op, as) PROVE Goal
  <2> DEFINE D == {l \in Loan : Due(l) /\ loans[l].account \in as}
             v == [Resting EXCEPT !.at = "recalling", !.op = op, !.todo = WithCred(D)]
  <2>0. D # {} /\ \A l \in D : loans[l].status # "none"
    BY <1>7 DEF Expire, Due
  <2>1. /\ WithCred(D) \in SUBSET (Loan \X (Key \cup {None})) /\ WithCred(D) # {}
        /\ \A p \in WithCred(D) : p[1] \in Loan /\ p[2] = loans[p[1]].cred
             /\ loans[p[1]].status # "none"
    BY <2>0, Listed
  <2>5. /\ At(t, "idle") /\ thread' = [thread EXCEPT ![t] = v]
        /\ UNCHANGED <<keys, creds, loans, lock, requests, resets, faults, marks>>
    BY <1>7 DEF Expire
  <2> HIDE DEF D
  <2>2. v \in ThreadRec
    BY <2>1, Recalling
  <2>3. Staged(v)
    BY <2>1 DEF Staged, Working, TakingBack, Resting, None
  <2>4. Begun(v)
    BY <2>1 DEF Resting, Begun, None
  <2> HIDE DEF v
  <2> QED BY <1>1, <2>2, <2>3, <2>4, <2>5 DEF Goes
<1> QED BY <1>3, <1>4, <1>5, <1>6, <1>7 DEF Starting, Tick, AfterSync

\* A record that goes to the next stage.
LEMMA Onward ==
  ASSUME NEW w \in ThreadRec, NEW p \in {"admitted", "storing"}
  PROVE  /\ [w EXCEPT !.at = p] \in ThreadRec
         /\ [w EXCEPT !.at = p].at = p /\ [w EXCEPT !.at = p].key = w.key
              /\ [w EXCEPT !.at = p].remote = w.remote
         /\ w.old = None /\ w.todo = {} /\ w.ended = {} /\ w.recalled = FALSE
              => SameTask([w EXCEPT !.at = p], w)
<1>1. /\ [w EXCEPT !.at = p] \in ThreadRec
      /\ [w EXCEPT !.at = p].at = p /\ [w EXCEPT !.at = p].key = w.key
           /\ [w EXCEPT !.at = p].remote = w.remote
  BY DEF ThreadRec
<1>2. w.old = None /\ w.todo = {} /\ w.ended = {} /\ w.recalled = FALSE
     => SameTask([w EXCEPT !.at = p], w)
  BY DEF ThreadRec, SameTask
<1> QED BY <1>1, <1>2

\* A record that gets its new key.
LEMMA WithKey ==
  ASSUME NEW w \in ThreadRec, NEW k \in Key
  PROVE  [w EXCEPT !.at = "naming", !.key = k] \in ThreadRec
BY DEF ThreadRec

\* A record that learns which key its name resolves to.
LEMMA WithRemote ==
  ASSUME NEW w \in ThreadRec, NEW k \in RemoteId
  PROVE  [w EXCEPT !.at = "storing", !.remote = k] \in ThreadRec
BY DEF ThreadRec

\* Both leave the rest of the task as it was.
LEMMA OnwardWith ==
  ASSUME NEW w \in ThreadRec, NEW k \in Key, w.old = None, w.todo = {}, w.ended = {},
         w.recalled = FALSE
  PROVE  /\ [w EXCEPT !.at = "naming", !.key = k] \in ThreadRec
         /\ [w EXCEPT !.at = "naming", !.key = k].at = "naming"
         /\ [w EXCEPT !.at = "naming", !.key = k].key = k
         /\ SameTask([w EXCEPT !.at = "naming", !.key = k], w)
<1>1. [w EXCEPT !.at = "naming", !.key = k] \in ThreadRec
  BY WithKey
<1>2. [w EXCEPT !.at = "naming", !.key = k].at = "naming"
     /\ [w EXCEPT !.at = "naming", !.key = k].key = k
  BY ZenonT(30) DEF ThreadRec
<1>5. SameTask([w EXCEPT !.at = "naming", !.key = k], w)
  BY DEF ThreadRec, SameTask
<1> QED BY <1>1, <1>2, <1>5
LEMMA OnwardTo ==
  ASSUME NEW w \in ThreadRec, NEW k \in RemoteId, w.old = None, w.todo = {}, w.ended = {},
         w.recalled = FALSE
  PROVE  /\ [w EXCEPT !.at = "storing", !.remote = k] \in ThreadRec
         /\ [w EXCEPT !.at = "storing", !.remote = k].at = "storing"
         /\ [w EXCEPT !.at = "storing", !.remote = k].key = w.key
         /\ [w EXCEPT !.at = "storing", !.remote = k].remote = k
         /\ SameTask([w EXCEPT !.at = "storing", !.remote = k], w)
<1>3. [w EXCEPT !.at = "storing", !.remote = k] \in ThreadRec
  BY WithRemote
<1>4. /\ [w EXCEPT !.at = "storing", !.remote = k].at = "storing"
      /\ [w EXCEPT !.at = "storing", !.remote = k].key = w.key
      /\ [w EXCEPT !.at = "storing", !.remote = k].remote = k
  BY ZenonT(30) DEF ThreadRec
<1>6. SameTask([w EXCEPT !.at = "storing", !.remote = k], w)
  BY DEF ThreadRec, SameTask
<1> QED BY <1>3, <1>4, <1>6

\* What is plain of a thread that issues or moves a loan.
LEMMA Plain ==
  ASSUME NEW w \in ThreadRec, Staged(w),
         w.at \in {"asking", "queued", "admitted", "naming", "storing"}
  PROVE  /\ w.old = None /\ w.todo = {} /\ w.ended = {} /\ w.recalled = FALSE
         /\ w.op \in {"self", "manual", "move"}
         /\ w.op = "self" => w.borrower \in Borrower /\ w.account \in Account
         /\ w.op = "manual" => w.borrower \in Borrower /\ w.account \in Account
         /\ w.op = "move" => w.loan \in Loan
<1>1. w.recalled \in BOOLEAN
  BY DEF ThreadRec
<1>2. w.at \notin TakingBack
  BY DEF TakingBack
<1>3. w.old = None /\ w.todo = {} /\ w.ended = {} /\ ~w.recalled
  BY <1>2 DEF Staged
<1>4. w.recalled = FALSE
  BY <1>1, <1>3
<1> QED BY <1>3, <1>4 DEF Staged, Working

\* Admitted: refused, or the member's row is locked and he has no self-service loan.
LEMMA AdmittedStep ==
  ASSUME Types, NEW t \in Thread, Admitted(t)
  PROVE  /\ UNCHANGED <<keys, creds, loans, requests, resets, faults, marks>>
         /\ \/ Over(t)
            \/ \E v : /\ Goes(t, v) /\ SameTask(v, thread[t]) /\ v.at = "admitted" /\ v.op = "self"
                           /\ v.key = None
                      /\ v.borrower \in Borrower /\ Has(t, v.borrower) /\ ActiveOf(v.borrower) = {}
<1> DEFINE w == thread[t]
           v == [w EXCEPT !.at = "admitted"]
<1>0. w \in ThreadRec /\ Staged(w)
  BY DEF Types
<1>1. w.at = "asking" /\ w.op = "self" /\ w.key = None
  BY <1>0 DEF Admitted, At, Staged
<1>2. w.borrower \in Borrower /\ w.account \in Account
  BY <1>0, <1>1, Plain
<1>3. v \in ThreadRec /\ SameTask(v, w) /\ v.at = "admitted" /\ v.key = None /\ v.remote = None
  <2>1. w.old = None /\ w.todo = {} /\ w.ended = {} /\ w.recalled = FALSE
    BY <1>0, <1>1, Plain
  <2>2. w.remote = None
    BY <1>0, <1>1 DEF Staged
  <2>3. SameTask(v, w)
    BY <1>0, <2>1, Onward
  <2> QED BY <1>0, <1>1, <2>2, <2>3, Onward
<1>4. v.op = "self" /\ v.borrower = w.borrower /\ v.account = w.account
  BY <1>1, <1>3 DEF SameTask
<1>5. Staged(v)
  <2> HIDE DEF v
  <2> QED BY <1>0, <1>1, <1>2, <1>3, <1>4 DEF SameTask, Staged, Working, TakingBack
<1>6. CASE Ends(t)
  BY <1>6, Ended DEF Admitted
<1>7. CASE Becomes(t, "admitted") /\ Takes(t, w.borrower) /\ ActiveOf(w.borrower) = {}
  <2>1. thread' = [thread EXCEPT ![t] = v]
    BY <1>7 DEF Becomes
  <2>2. Has(t, w.borrower)
    BY <1>2, <1>7, Taken DEF Row
  <2> HIDE DEF v
  <2>3. Goes(t, v)
    BY <1>3, <1>5, <2>1 DEF Goes
  <2> QED BY <1>2, <1>3, <1>4, <1>7, <2>2, <2>3 DEF Admitted
<1> QED BY <1>6, <1>7 DEF Admitted

\* Validated: refused, or the loan's row is locked; what was read earlier is still so
\* unless the step is marked stale.
LEMMA ValidatedStep ==
  ASSUME Types, NEW t \in Thread, Validated(t)
  PROVE  /\ UNCHANGED <<keys, creds, loans, requests, resets, faults>>
         /\ \/ Over(t) /\ UNCHANGED marks
            \/ \E v : /\ Goes(t, v) /\ SameTask(v, thread[t]) /\ v.at \in {"admitted", "storing"}
                      /\ thread[t].op = "move" /\ v.op = "move" /\ v.key = None
                      /\ v.loan \in Loan /\ Has(t, v.loan) /\ v.view.status = "active"
                      /\ \/ marks' = marks /\ v.view.status = loans[v.loan].status
                              /\ v.view.cred = loans[v.loan].cred
                         \/ marks' = marks \cup {"stale"}
<1> DEFINE w == thread[t]
           same == ~w.view.pool /\ w.account = w.view.account
           p == IF same \/ w.account = NoAccount THEN "storing" ELSE "admitted"
           v == [w EXCEPT !.at = p]
           Refused == w.view.status # "active" \/ (w.view.pool /\ w.account = NoAccount)
                \/ (same /\ ~w.view.auto)
           m == IF w.view.status = loans[w.loan].status /\ w.view.cred = loans[w.loan].cred THEN {}
                ELSE {"stale"}
<1>0. w \in ThreadRec /\ Staged(w)
  BY DEF Types
<1>1. w.at = "queued" /\ w.op = "move" /\ w.key = None /\ w.remote \in RemoteId
  BY <1>0 DEF Validated, At, Staged, ThreadRec
<1>2. w.loan \in Loan /\ w.old = None /\ w.todo = {} /\ w.ended = {} /\ w.recalled = FALSE
      /\ w.account \in Account \cup {NoAccount} /\ w.view \in LoanRow
  BY <1>0, <1>1, Plain DEF ThreadRec
<1>3. p \in {"admitted", "storing"}
  OBVIOUS
<1>4. UNCHANGED <<keys, creds, loans, requests, resets, faults>>
  BY DEF Validated
<1>5. CASE Refused
  <2>1. Ends(t) /\ UNCHANGED marks
    BY <1>5 DEF Validated
  <2> QED BY <1>4, <2>1, Ended
<1>6. CASE ~Refused
  <2>1. Takes(t, w.loan) /\ Becomes(t, p) /\ Marks(m)
    BY <1>6 DEF Validated
  <2>2. w.view.status = "active"
    BY <1>6
  <2>3. w.remote = None
    BY <1>0, <1>1 DEF Staged
  <2>4. p = "admitted" => w.account \in Account
    BY <1>2
  <2>5. p = "storing" => w.account \in {NoAccount, w.view.account}
    BY <1>2
  <2>6. thread' = [thread EXCEPT ![t] = v]
    BY <2>1 DEF Becomes
  <2>7. Has(t, w.loan)
    BY <1>2, <2>1, Taken DEF Row
  <2>8. \/ marks' = marks /\ w.view.status = loans[w.loan].status
             /\ w.view.cred = loans[w.loan].cred
        \/ marks' = marks \cup {"stale"}
    BY <2>1 DEF Marks
  <2> HIDE DEF p
  <2>9. v \in ThreadRec /\ SameTask(v, w) /\ v.at = p /\ v.key = None /\ v.remote = None
    <3>1. v \in ThreadRec /\ v.at = p /\ v.key = w.key /\ v.remote = w.remote
      BY <1>0, <1>3, Onward
    <3>2. SameTask(v, w)
      BY <1>0, <1>2, <1>3, Onward
    <3> QED BY <1>1, <2>3, <3>1, <3>2
  <2> HIDE DEF v
  <2>10. v.op = "move" /\ v.loan = w.loan /\ v.view = w.view /\ v.account = w.account
    BY <1>1, <2>9 DEF SameTask
  <2>11. Staged(v)
    BY <1>2, <1>3, <2>4, <2>5, <2>9, <2>10 DEF SameTask, Staged, Working, TakingBack
  <2>12. Goes(t, v)
    BY <2>6, <2>9, <2>11 DEF Goes
  <2> QED BY <1>1, <1>2, <1>3, <1>4, <2>2, <2>7, <2>8, <2>9, <2>10, <2>12
<1> QED BY <1>5, <1>6

\* Creates: refused; or a key is made and its answer lost; or the thread has it, with the
\* account locked and room on it.
LEMMA CreatesStep ==
  ASSUME Types, NEW t \in Thread, Creates(t)
  PROVE  /\ UNCHANGED <<creds, loans, requests, resets>> /\ NextKey \in Key
              /\ faults' \in 0..MaxFaults
         /\ thread[t].account \in Account /\ thread[t].at = "admitted" /\ thread[t].key = None
         /\ \/ Over(t) /\ UNCHANGED <<keys, marks>>
            \/ /\ keys' = [keys EXCEPT ![NextKey] = [at |-> thread[t].account,
                    name |-> thread[t].borrower, live |-> TRUE]]
               /\ \/ Over(t) /\ marks' = marks \cup {"kept"}
                  \/ \E v : /\ Goes(t, v) /\ SameTask(v, thread[t]) /\ v.at = "naming"
                                 /\ v.key = NextKey
                            /\ Has(t, v.account) /\ UNCHANGED marks
                            /\ v.op = "self" => ~Full(v.account)
<1> DEFINE w == thread[t]
           k == NextKey
           v == [w EXCEPT !.at = "naming", !.key = k]
           Refused == w.op = "self" /\ Full(w.account)
           Made1 == keys' = [keys EXCEPT ![k] = [at |-> w.account, name |-> w.borrower,
                live |-> TRUE]]
<1>0. w \in ThreadRec /\ Staged(w)
  BY DEF Types
<1>1. w.at = "admitted" /\ w.key = None /\ w.account \in Account /\ k \in Key
      /\ UNCHANGED <<creds, loans, requests, resets>>
  BY <1>0 DEF Creates, At, Staged
<1>2. w.old = None /\ w.todo = {} /\ w.ended = {} /\ w.recalled = FALSE
  BY <1>0, <1>1, Plain
<1>3. faults' \in 0..MaxFaults
  <2>1. faults \in 0..MaxFaults /\ MaxFaults \in Nat
    BY LoanAssumption DEF Types
  <2>2. NoFault \/ Fault("lost") \/ Fault("unbound")
    BY DEF Creates
  <2> QED BY <2>1, <2>2 DEF NoFault, Fault
<1>4. CASE Ends(t) /\ UNCHANGED <<keys, marks>>
  BY <1>1, <1>3, <1>4, Ended
<1>5. CASE Ends(t) /\ Made1 /\ Marks({"kept"})
  <2>1. Over(t) /\ marks' = marks \cup {"kept"}
    BY <1>5, Ended DEF Marks
  <2> QED BY <1>1, <1>3, <1>5, <2>1
<1>6. CASE ~Refused /\ Made1 /\ Takes(t, w.account) /\ UNCHANGED marks
     /\ thread' = [thread EXCEPT ![t] = v]
  <2>1. v \in ThreadRec /\ SameTask(v, w) /\ v.at = "naming" /\ v.key = k
    BY <1>0, <1>1, <1>2, OnwardWith
  <2>2. thread' = [thread EXCEPT ![t] = v] /\ Made1
    BY <1>6
  <2>3. Has(t, w.account)
    BY <1>1, <1>6, Taken DEF Row
  <2> HIDE DEF v, k, Made1
  <2>4. v.op = w.op /\ v.account = w.account
    BY <2>1 DEF SameTask
  <2>5. k # None
    BY <1>1 DEF Key, None
  <2>6. Staged(v)
    BY <1>0, <1>1, <2>1, <2>4, <2>5 DEF SameTask, Staged, Working, TakingBack
  <2>7. Goes(t, v)
    BY <2>1, <2>2, <2>6 DEF Goes
  <2> QED BY <1>1, <1>3, <1>6, <2>1, <2>2, <2>3, <2>4, <2>7 DEF k, Made1
<1> QED
  <2>1. \/ Ends(t) /\ UNCHANGED <<keys, marks>>
        \/ Ends(t) /\ Made1 /\ Marks({"kept"})
        \/ ~Refused /\ Made1 /\ Takes(t, w.account) /\ UNCHANGED marks
           /\ thread' = [thread EXCEPT ![t].at = "naming", ![t].key = k]
    BY DEF Creates
  <2>2. [thread EXCEPT ![t].at = "naming", ![t].key = k] = [thread EXCEPT ![t] = v]
    BY <1>0 DEF Types
  <2> QED BY <1>4, <1>5, <1>6, <2>1, <2>2

\* The id recorded for a key is the key's own, or none, or another's, and the marks tell which.
Learnt(v) ==
  \/ v.remote = v.key /\ UNCHANGED marks
  \/ v.remote = None /\ marks' = marks \cup {"unknown"}
  \/ \E m \in {"namesake", "mistaken"} : marks' = marks \cup {m}

\* Resolves: the name resolves to the thread's own key, or to another, or to none, or the
\* thread gives up and the key is kept.
LEMMA ResolvesStep ==
  ASSUME Types, NEW t \in Thread, Resolves(t)
  PROVE  /\ UNCHANGED <<keys, creds, loans, requests, resets>> /\ faults' \in 0..MaxFaults
         /\ thread[t].at = "naming"
         /\ \/ Over(t) /\ marks' = marks \cup {"kept"}
            \/ \E v : /\ Goes(t, v) /\ SameTask(v, thread[t]) /\ v.at = "storing"
                           /\ v.key = thread[t].key
                      /\ v.key # None /\ UNCHANGED lock /\ Learnt(v)
<1> DEFINE w == thread[t]
<1>0. w \in ThreadRec /\ Staged(w)
  BY DEF Types
<1>1. w.at = "naming" /\ w.key # None /\ w.account \in Account
     /\ UNCHANGED <<keys, creds, loans, requests, resets>>
  BY <1>0 DEF Resolves, At, Staged
<1>2. w.old = None /\ w.todo = {} /\ w.ended = {} /\ w.recalled = FALSE
  BY <1>0, <1>1, Plain
<1>3. faults' \in 0..MaxFaults
  <2>1. faults \in 0..MaxFaults /\ MaxFaults \in Nat
    BY LoanAssumption DEF Types
  <2>2. NoFault \/ Fault("list") \/ Fault("unlisted")
    BY DEF Resolves
  <2> QED BY <2>1, <2>2 DEF NoFault, Fault
<1>4. CASE Ends(t) /\ Marks({"kept"})
  <2>1. Over(t) /\ marks' = marks \cup {"kept"}
    BY <1>4, Ended DEF Marks
  <2> QED BY <1>1, <1>3, <2>1
<1>5. ASSUME NEW k \in RemoteId, Learns(t, k),
             \/ k = w.key /\ UNCHANGED marks
             \/ k = None /\ marks' = marks \cup {"unknown"}
             \/ \E m \in {"namesake", "mistaken"} : marks' = marks \cup {m}
      PROVE  \E v : /\ Goes(t, v) /\ SameTask(v, w) /\ v.at = "storing" /\ v.key = w.key
                    /\ v.key # None /\ UNCHANGED lock /\ Learnt(v)
  <2> DEFINE v == [w EXCEPT !.at = "storing", !.remote = k]
  <2>1. v \in ThreadRec /\ SameTask(v, w) /\ v.at = "storing" /\ v.key = w.key /\ v.remote = k
    BY ZenonT(60), <1>0, <1>1, <1>2, OnwardTo
  <2>2. thread' = [thread EXCEPT ![t] = v] /\ UNCHANGED lock
    BY <1>0, <1>5 DEF Types, Learns
  <2> HIDE DEF v
  <2>3. Learnt(v)
    BY <1>5, <2>1 DEF Learnt
  <2>4. v.op = w.op /\ v.account = w.account
    BY <2>1 DEF SameTask
  <2>6. Staged(v)
    BY <1>0, <1>1, <2>1, <2>4 DEF SameTask, Staged, Working, TakingBack
  <2>7. Goes(t, v)
    BY <2>1, <2>2, <2>6 DEF Goes
  <2> QED BY <1>1, <2>1, <2>2, <2>3, <2>7
<1> QED
  <2>1. \/ \E k \in Namesakes(w.account, w.borrower) :
             Learns(t, k) /\ Marks(IF k = w.key THEN {} ELSE {"namesake"})
        \/ \E k \in Strangers(w.account, w.borrower) \cup {PrimaryKey} :
             Learns(t, k) /\ Marks({"mistaken"})
        \/ Learns(t, None) /\ Marks({"unknown"})
        \/ Ends(t) /\ Marks({"kept"})
    BY DEF Resolves
  <2>2. ASSUME NEW k \in Namesakes(w.account, w.borrower), Learns(t, k),
               Marks(IF k = w.key THEN {} ELSE {"namesake"})
        PROVE  k \in RemoteId /\ \/ k = w.key /\ UNCHANGED marks
                                 \/ marks' = marks \cup {"namesake"}
    BY <2>2 DEF Namesakes, RemoteId, Marks
  <2>3. ASSUME NEW k \in Strangers(w.account, w.borrower) \cup {PrimaryKey}, Marks({"mistaken"})
        PROVE  k \in RemoteId /\ marks' = marks \cup {"mistaken"}
    BY <2>3 DEF Strangers, RemoteId, Marks
  <2>4. None \in RemoteId /\ (Marks({"unknown"}) => marks' = marks \cup {"unknown"})
    BY DEF RemoteId, Marks
  <2>5. CASE \E k \in Namesakes(w.account, w.borrower) :
               Learns(t, k) /\ Marks(IF k = w.key THEN {} ELSE {"namesake"})
    BY <1>1, <1>3, <1>5, <2>2, <2>5
  <2>6. CASE \E k \in Strangers(w.account, w.borrower) \cup {PrimaryKey} :
               Learns(t, k) /\ Marks({"mistaken"})
    BY <1>1, <1>3, <1>5, <2>3, <2>6
  <2>7. CASE Learns(t, None) /\ Marks({"unknown"})
    BY <1>1, <1>3, <1>5, <2>4, <2>7
  <2> QED BY <1>4, <2>1, <2>5, <2>6, <2>7

\* The row of a new loan, and what a thread does after it has stored a move.
NewRow(w) == [NoLoanRow EXCEPT !.status = "active", !.borrower = w.borrower,
                !.account = w.account, !.cred = w.key, !.auto = (w.op = "self"), !.reset = TRUE]
Leaves(w) == w.op = "move" /\ (w.key # None \/ w.account = NoAccount)
Left(w) == IF Leaves(w) THEN LeftBehind(w.view) ELSE None
After(w) == IF Left(w) = None THEN Resting
     ELSE [Resting EXCEPT !.at = "finalizing", !.old = Left(w)]

\* The row of a new loan is well typed.
LEMMA NewRowFits ==
  ASSUME NEW w \in ThreadRec
  PROVE  /\ NewRow(w) \in LoanRow
         /\ NewRow(w).status = "active" /\ NewRow(w).borrower = w.borrower
              /\ NewRow(w).account = w.account
         /\ NewRow(w).cred = w.key /\ NewRow(w).auto = (w.op = "self") /\ NewRow(w).pool = FALSE
<1>1. w.borrower \in Borrower \cup {NoBorrower} /\ w.account \in Account \cup {NoAccount}
     /\ w.key \in Key \cup {None}
  BY DEF ThreadRec
<1>2. (w.op = "self") \in BOOLEAN
  OBVIOUS
<1>3. NewRow(w) \in LoanRow
  BY <1>1, <1>2, RestingFits DEF LoanRow, NewRow
<1>4. /\ NewRow(w).status = "active" /\ NewRow(w).borrower = w.borrower
           /\ NewRow(w).account = w.account
      /\ NewRow(w).cred = w.key /\ NewRow(w).auto = (w.op = "self")
  BY RestingFits DEF NewRow, LoanRow
<1>5. NewRow(w).pool = FALSE
  BY DEF NewRow, NoLoanRow
<1> QED BY <1>3, <1>4, <1>5

\* MovedLoan, column by column: what is not written stays as the row has it.
LEMMA MovedRow ==
  ASSUME NEW w \in ThreadRec, w.loan \in Loan, loans \in [Loan -> LoanRow]
  PROVE  /\ MovedLoan(w) \in LoanRow
         /\ MovedLoan(w).status = loans[w.loan].status
              /\ MovedLoan(w).borrower = loans[w.loan].borrower
         /\ MovedLoan(w).account = Written(w.view.account, w.account, loans[w.loan].account)
         /\ MovedLoan(w).auto = Written(w.view.auto, w.account = NoAccount, loans[w.loan].auto)
         /\ MovedLoan(w).pool = Written(w.view.pool, w.account = NoAccount, loans[w.loan].pool)
         /\ MovedLoan(w).cred = Written(w.view.cred, IF w.key # None THEN w.key
              ELSE IF w.account = NoAccount THEN None ELSE w.view.cred, loans[w.loan].cred)
<1> DEFINE v == w.view
           toPool == w.account = NoAccount
           cred == IF w.key # None THEN w.key ELSE IF toPool THEN None ELSE v.cred
           reset == v.reset /\ ~toPool
           row == loans[w.loan]
           A == Written(v.account, w.account, row.account)
           B == Written(v.auto, toPool, row.auto)
           C == Written(v.pool, toPool, row.pool)
           D == Written(v.cred, cred, row.cred)
           E == Written(v.reset, reset, row.reset)
<1>1. row \in LoanRow /\ v \in LoanRow
  BY DEF ThreadRec
<1>2. A \in Account \cup {NoAccount}
  BY <1>1 DEF Written, ThreadRec, LoanRow
<1>3. B \in BOOLEAN
  BY <1>1 DEF Written, LoanRow
<1>4. C \in BOOLEAN
  BY <1>1 DEF Written, LoanRow
<1>5. D \in Key \cup {None}
  BY <1>1 DEF Written, LoanRow, ThreadRec
<1>6. E \in BOOLEAN
  BY <1>1 DEF Written, LoanRow
<1>7. MovedLoan(w) = [row EXCEPT !.account = A, !.auto = B, !.pool = C, !.cred = D, !.reset = E,
     !.due = FALSE]
  BY DEF MovedLoan
<1> HIDE DEF row, A, B, C, D, E
<1>8. MovedLoan(w) \in LoanRow
  BY <1>1, <1>2, <1>3, <1>4, <1>5, <1>6, <1>7 DEF LoanRow
<1>9. /\ MovedLoan(w).status = row.status /\ MovedLoan(w).borrower = row.borrower
           /\ MovedLoan(w).account = A
      /\ MovedLoan(w).auto = B /\ MovedLoan(w).pool = C /\ MovedLoan(w).cred = D
  BY <1>1, <1>7 DEF LoanRow
<1> QED BY <1>8, <1>9 DEF row, A, B, C, D

\* A new loan takes a free row.
LEMMA LeastFree ==
  ASSUME Types, RowLeft, NEW row, NewLoan(row)
  PROVE  \E l \in Loan : loans[l].status = "none" /\ loans' = [loans EXCEPT ![l] = row]
<1> DEFINE T == {x \in Loan : loans[x].status = "none"}
           P(x) == loans[x].status = "none" /\ \A y \in 1..x - 1 : loans[y].status # "none"
<1>1. PICK n \in T : TRUE
  BY DEF RowLeft
<1>2. T \in SUBSET Nat /\ MaxLoans \in Nat
  BY LoanAssumption DEF Loan
<1>3. PICK x \in T : \A y \in T : x <= y
  BY <1>1, <1>2, LeastElement
<1>4. ASSUME NEW y \in 1..x - 1 PROVE loans[y].status # "none"
  <2>1. y \in Loan /\ ~(x <= y)
    BY <1>2, <1>3, <1>4 DEF Loan
  <2> QED BY <1>3, <2>1
<1>5. \E l \in Loan : P(l)
  BY <1>3, <1>4
<1>6. P(CHOOSE l \in Loan : P(l)) /\ (CHOOSE l \in Loan : P(l)) \in Loan
  BY <1>5
<1>7. loans' = [loans EXCEPT ![CHOOSE l \in Loan : P(l)] = row]
  BY DEF NewLoan
<1> QED BY <1>6, <1>7

\* After a move is stored, the thread has the old key to revoke, or nothing to do.
LEMMA AfterFits ==
  ASSUME Types, NEW w \in ThreadRec
  PROVE  Left(w) \in RemoteId /\ After(w) \in ThreadRec /\ Staged(After(w))
<1>1. Left(w) \in RemoteId
  BY DEF Left, LeftBehind, Types, ThreadRec, LoanRow, RemoteId
<1>2. CASE Left(w) = None
  BY <1>1, <1>2, RestingFits DEF After
<1>3. ASSUME NEW k \in RemoteId, k # None
      PROVE  [Resting EXCEPT !.at = "finalizing", !.old = k] \in ThreadRec
             /\ Staged([Resting EXCEPT !.at = "finalizing", !.old = k])
  <2>1. [Resting EXCEPT !.at = "finalizing", !.old = k] \in ThreadRec
    BY ZenonT(60), RestingFits DEF ThreadRec
  <2>2. Staged([Resting EXCEPT !.at = "finalizing", !.old = k])
    BY <1>3 DEF Staged, Resting, Working, TakingBack
  <2> QED BY <2>1, <2>2
<1> QED BY <1>1, <1>2, <1>3 DEF After

\* The credentials after a commit are well typed.
LEMMA CredsTyped ==
  ASSUME Types, NEW w \in ThreadRec
  PROVE  CredsAfter(w) \in [Key -> [remote : RemoteId,
       status : {"none", "active", "revoked"}]]
<1>1. w.remote \in RemoteId
  BY DEF ThreadRec
<1>2. \A k \in Key : creds[k] \in [remote : RemoteId, status : {"none", "active", "revoked"}]
  BY DEF Types
<1>3. \A k \in Key : [creds[k] EXCEPT !.status = "revoked"] \in [remote : RemoteId,
     status : {"none", "active", "revoked"}]
  BY <1>2
<1>4. [remote |-> w.remote, status |-> "active"] \in [remote : RemoteId,
     status : {"none", "active", "revoked"}]
  BY <1>1
<1> QED BY <1>2, <1>3, <1>4 DEF CredsAfter

\* Faults stay within their bound.
LEMMA FaultCounted ==
  ASSUME Types, NEW kind, NoFault \/ Fault(kind)
  PROVE  faults' \in 0..MaxFaults
<1>1. faults \in 0..MaxFaults /\ MaxFaults \in Nat
  BY LoanAssumption DEF Types
<1> QED BY <1>1 DEF NoFault, Fault

\* Stores: committed; or rolled back and what was taken for the key revoked; or rolled back
\* and the key, if any, kept.
LEMMA StoresStep ==
  ASSUME Types, NEW t \in Thread, Stores(t)
  PROVE  /\ UNCHANGED <<requests, resets>> /\ faults' \in 0..MaxFaults
         /\ thread[t].at = "storing"
         /\ \/ /\ Goes(t, After(thread[t])) /\ Frees(t) /\ UNCHANGED <<keys, marks>>
               /\ creds' = CredsAfter(thread[t])
               /\ \/ thread[t].op = "move"
                       /\ loans' = [loans EXCEPT ![thread[t].loan] = MovedLoan(thread[t])]
                  \/ /\ thread[t].op # "move"
                     /\ \E l \in Loan : loans[l].status = "none"
                          /\ loans' = [loans EXCEPT ![l] = NewRow(thread[t])]
            \/ Over(t) /\ Revoked(thread[t].remote) /\ UNCHANGED <<creds, loans>>
            \/ /\ Over(t) /\ UNCHANGED <<keys, creds, loans>>
               /\ marks' = IF thread[t].key = None THEN marks ELSE marks \cup {"kept"}
<1> DEFINE w == thread[t]
<1>0. w \in ThreadRec /\ Staged(w)
  BY DEF Types
<1>1. w.at = "storing" /\ UNCHANGED <<requests, resets>> /\ (w.op # "move" => RowLeft)
  BY DEF Stores, At
<1>2. CASE /\ NoFault /\ UNCHANGED <<keys, marks>>
           /\ creds' = CredsAfter(w)
           /\ IF w.op = "move" THEN loans' = [loans EXCEPT ![w.loan] = MovedLoan(w)]
              ELSE NewLoan(NewRow(w))
           /\ Releases(t)
           /\ thread' = [thread EXCEPT ![t] = After(w)]
  <2>1. Goes(t, After(w))
    BY <1>0, <1>2, AfterFits DEF Goes
  <2>2. Frees(t)
    BY <1>2 DEF Releases, Frees, Types, Row, Nobody
  <2>3. faults' \in 0..MaxFaults
    BY <1>2, FaultCounted
  <2>4. CASE w.op = "move"
    BY <1>1, <1>2, <2>1, <2>2, <2>3, <2>4
  <2>5. CASE w.op # "move"
    <3>1. \E l \in Loan : loans[l].status = "none" /\ loans' = [loans EXCEPT ![l] = NewRow(w)]
      BY <1>1, <1>2, <2>5, LeastFree
    <3> QED BY <1>1, <1>2, <2>1, <2>2, <2>3, <2>5, <3>1
  <2> QED BY <2>4, <2>5
<1>3. CASE Fault("flush") /\ Ends(t) /\ Revoked(w.remote) /\ UNCHANGED <<creds, loans>>
  BY <1>1, <1>3, FaultCounted, Ended
<1>4. CASE /\ Fault("unclean") \/ Fault("commit")
           /\ Ends(t) /\ UNCHANGED <<keys, creds, loans>>
           /\ Marks(IF w.key = None THEN {} ELSE {"kept"})
  <2>1. marks' = IF w.key = None THEN marks ELSE marks \cup {"kept"}
    BY <1>4 DEF Marks
  <2>2. Over(t) /\ faults' \in 0..MaxFaults
    BY <1>4, FaultCounted, Ended
  <2> QED BY <1>1, <1>4, <2>1, <2>2
<1> QED BY <1>2, <1>3, <1>4 DEF Stores, NewRow, After, Left, Leaves

\* Finalizes: the old key is revoked, or kept and marked so.
LEMMA FinalizesStep ==
  ASSUME Types, NEW t \in Thread, Finalizes(t)
  PROVE  /\ UNCHANGED <<creds, loans, requests, resets>> /\ faults' \in 0..MaxFaults /\ Over(t)
         /\ thread[t].old \in RemoteId /\ thread[t].old # None /\ thread[t].at = "finalizing"
         /\ \/ Revoked(thread[t].old)
            \/ marks' = marks \cup {"kept"} /\ UNCHANGED keys
<1>0. thread[t] \in ThreadRec /\ Staged(thread[t])
  BY DEF Types
<1>1. thread[t].at = "finalizing" /\ thread[t].old # None /\ thread[t].old \in RemoteId
  BY <1>0 DEF Finalizes, At, Staged, ThreadRec
<1>2. Over(t)
  BY Ended DEF Finalizes
<1>3. faults' \in 0..MaxFaults
  BY FaultCounted DEF Finalizes
<1> QED BY <1>1, <1>2, <1>3 DEF Finalizes, Marks

\* The loan a job turns to is one of those it has to take back.
LEMMA CurrentListed ==
  ASSUME Types, NEW t \in Thread, thread[t].todo # {}
  PROVE  Current(t) \in thread[t].todo
<1> DEFINE Gap == {MaxLoans - p[1] : p \in thread[t].todo}
<1>1. thread[t].todo \in SUBSET (Loan \X (Key \cup {None}))
  BY DEF Types, ThreadRec
<1>2. MaxLoans \in Nat /\ Loan = 1..MaxLoans
  BY LoanAssumption DEF Loan
<1>3. \A p \in thread[t].todo : p[1] \in Loan
  BY <1>1
<1>4. Gap \in SUBSET Nat
  BY <1>2, <1>3
<1>5. PICK g \in Gap : \A h \in Gap : g <= h
  <2>1. PICK n \in Gap : TRUE
    OBVIOUS
  <2> HIDE DEF Gap
  <2> QED BY <1>4, <2>1, LeastElement
<1>6. PICK p \in thread[t].todo : g = MaxLoans - p[1]
  OBVIOUS
<1>7. \A q \in thread[t].todo : q[1] <= p[1]
  <2> SUFFICES ASSUME NEW q \in thread[t].todo PROVE q[1] <= p[1]
    OBVIOUS
  <2>1. g <= MaxLoans - q[1]
    BY <1>5
  <2> QED BY <1>2, <1>3, <1>6, <2>1
<1> QED BY <1>7 DEF Current

\* The key a credential stands for.
LEMMA RemoteTyped ==
  ASSUME Types, NEW c \in Key \cup {None}
  PROVE  RemoteOf(c) \in RemoteId
BY DEF RemoteOf, Types, RemoteId

\* What taking back keeps: the same loans, before and after.
SameReturn(v, w) ==
  /\ v.op = w.op /\ v.key = None /\ v.old = None /\ v.at \in TakingBack
  /\ v.todo \cup v.ended = w.todo \cup w.ended

\* The record of a job that has asked Cursor to revoke a key.
LEMMA Flushing ==
  ASSUME NEW w \in ThreadRec, NEW r \in BOOLEAN
  PROVE  /\ [w EXCEPT !.at = "flushing", !.recalled = r] \in ThreadRec
         /\ [w EXCEPT !.at = "flushing"] \in ThreadRec
<1>1. [w EXCEPT !.at = "flushing", !.recalled = r] \in ThreadRec
  BY ZenonT(60) DEF ThreadRec
<1>2. [w EXCEPT !.at = "flushing"] \in ThreadRec
  BY DEF ThreadRec
<1> QED BY <1>1, <1>2

\* The records it can have then.
Flushed(w, r) ==
  {v \in ThreadRec : v = [w EXCEPT !.at = "flushing", !.recalled = r]
       \/ (v = [w EXCEPT !.at = "flushing"] /\ r = w.recalled)}

\* Their fields.
LEMMA FlushingFields ==
  ASSUME NEW w \in ThreadRec, NEW r \in BOOLEAN, NEW v \in Flushed(w, r)
  PROVE  /\ v.at = "flushing" /\ v.recalled = r
         /\ v.op = w.op /\ v.todo = w.todo /\ v.ended = w.ended /\ v.key = w.key /\ v.old = w.old
              /\ v.remote = w.remote
<1>1. CASE v = [w EXCEPT !.at = "flushing", !.recalled = r]
  BY <1>1 DEF ThreadRec
<1>2. CASE v = [w EXCEPT !.at = "flushing"] /\ r = w.recalled
  BY <1>2 DEF ThreadRec
<1> QED BY <1>1, <1>2 DEF Flushed

\* Recalls: the key is revoked; or it is not, which is right for a dead key and marked for a
\* living one; or a manual return gives up before anything is done.
LEMMA RecallsStep ==
  ASSUME Types, NEW t \in Thread, Recalls(t)
  PROVE  /\ UNCHANGED <<creds, loans, requests, resets>> /\ faults' \in 0..MaxFaults
         /\ thread[t].at = "recalling" /\ Current(t) \in thread[t].todo
         /\ \/ /\ Revoked(RemoteOf(Current(t)[2])) /\ UNCHANGED lock
               /\ \E v : /\ Goes(t, v) /\ SameReturn(v, thread[t]) /\ v.at = "flushing"
                         /\ v.todo = thread[t].todo /\ v.ended = thread[t].ended
                         /\ v.recalled = (thread[t].recalled \/ Alive(RemoteOf(Current(t)[2])))
            \/ /\ RemoteOf(Current(t)[2]) # None /\ UNCHANGED <<keys, lock>>
               /\ \/ ~Alive(RemoteOf(Current(t)[2])) /\ UNCHANGED marks
                  \/ marks' = marks \cup {"kept"}
               /\ \E v : /\ Goes(t, v) /\ SameReturn(v, thread[t]) /\ v.at = "flushing"
                         /\ v.todo = thread[t].todo /\ v.ended = thread[t].ended
                         /\ v.recalled = thread[t].recalled
            \/ Over(t) /\ thread[t].op = "revoke" /\ thread[t].recalled = FALSE
                 /\ UNCHANGED <<keys, marks>>
<1> DEFINE w == thread[t]
           p == Current(t)
           k == RemoteOf(p[2])
           Flush(r) == \E v : /\ Goes(t, v) /\ SameReturn(v, w) /\ v.at = "flushing"
                              /\ v.todo = w.todo /\ v.ended = w.ended /\ v.recalled = r
           now == w.recalled \/ Alive(k)
<1>0. w \in ThreadRec /\ Staged(w) /\ thread \in [Thread -> ThreadRec] /\ w.recalled \in BOOLEAN
  BY DEF Types, ThreadRec
<1>1. w.at = "recalling" /\ w.todo # {} /\ w.key = None /\ w.old = None
     /\ w.op \in {"revoke", "tick", "sync"}
      /\ (w.op = "revoke" => w.recalled = FALSE)
  <2>1. w.at = "recalling"
    BY DEF Recalls, At
  <2>2. w.todo # {} /\ w.key = None /\ w.old = None /\ w.op \in {"revoke", "tick", "sync"}
       /\ (w.op = "revoke" => ~w.recalled)
    BY <1>0, <2>1 DEF Staged, TakingBack
  <2> QED BY <1>0, <2>1, <2>2
<1>2. p \in w.todo
  BY <1>1, CurrentListed
<1>3. UNCHANGED <<creds, loans, requests, resets>>
  BY DEF Recalls
<1>4. ASSUME NEW r \in BOOLEAN, NEW v, thread' = [thread EXCEPT ![t] = v],
             v \in Flushed(w, r)
      PROVE  Flush(r)
  <2> HIDE DEF w
  <2>1. v \in ThreadRec
    BY <1>4 DEF Flushed
  <2>2. /\ v.at = "flushing" /\ v.recalled = r
        /\ v.op = w.op /\ v.todo = w.todo /\ v.ended = w.ended /\ v.key = w.key /\ v.old = w.old
             /\ v.remote = w.remote
    BY <1>0, <1>4, FlushingFields
  <2>3. Staged(v)
    BY <1>0, <1>1, <2>2 DEF Staged, Working, TakingBack
  <2>4. SameReturn(v, w)
    BY <1>1, <2>2 DEF SameReturn, TakingBack
  <2> QED BY <1>4, <2>1, <2>2, <2>3, <2>4 DEF Goes
<1>5. CASE /\ NoFault /\ Revoked(k) /\ UNCHANGED lock
           /\ thread' = [thread EXCEPT ![t].at = "flushing", ![t].recalled = @ \/ Alive(k)]
  <2>1. thread' = [thread EXCEPT ![t] = [w EXCEPT !.at = "flushing", !.recalled = now]]
    BY <1>0, <1>5
  <2>2. Flush(now)
    <3>1. now \in BOOLEAN
      BY <1>0
    <3> HIDE DEF now
    <3>2. [w EXCEPT !.at = "flushing", !.recalled = now] \in Flushed(w, now)
      BY <1>0, <3>1, Flushing DEF Flushed
    <3> QED BY <1>4, <2>1, <3>1, <3>2
  <2>3. faults' \in 0..MaxFaults
    BY <1>5, FaultCounted
  <2> QED BY <1>1, <1>2, <1>3, <1>5, <2>2, <2>3
<1>6. CASE /\ k # None /\ (NoFault \/ Fault("revoke")) /\ UNCHANGED keys
           /\ IF w.op # "revoke" THEN Becomes(t, "flushing") /\ UNCHANGED lock ELSE Ends(t)
           /\ \/ ~Alive(k) /\ UNCHANGED marks
              \/ Marks(IF w.op # "revoke" THEN {"kept"} ELSE {})
  <2>1. faults' \in 0..MaxFaults
    BY <1>6, FaultCounted
  <2>2. CASE w.op # "revoke"
    <3>1. thread' = [thread EXCEPT ![t] = [w EXCEPT !.at = "flushing"]]
      BY <1>6, <2>2 DEF Becomes
    <3>2. Flush(w.recalled)
      <4>1. [w EXCEPT !.at = "flushing"] \in Flushed(w, w.recalled)
        BY <1>0, Flushing DEF Flushed
      <4> QED BY <1>0, <1>4, <3>1, <4>1
    <3>3. \/ ~Alive(k) /\ UNCHANGED marks
          \/ marks' = marks \cup {"kept"}
      BY <1>6, <2>2 DEF Marks
    <3> QED BY <1>1, <1>2, <1>3, <1>6, <2>1, <2>2, <3>2, <3>3
  <2>3. CASE w.op = "revoke"
    <3>1. UNCHANGED marks
      BY <1>6, <2>3 DEF Marks
    <3> QED BY <1>1, <1>2, <1>3, <1>6, <2>1, <2>3, <3>1, Ended
  <2> QED BY <2>2, <2>3
<1>7. CASE /\ k # None /\ Fault("unbound") /\ Becomes(t, "flushing")
           /\ Marks({"kept"}) /\ UNCHANGED <<keys, lock>>
  <2>1. faults' \in 0..MaxFaults
    BY <1>7, FaultCounted
  <2>2. thread' = [thread EXCEPT ![t] = [w EXCEPT !.at = "flushing"]]
    BY <1>7 DEF Becomes
  <2>3. Flush(w.recalled)
    <3>1. [w EXCEPT !.at = "flushing"] \in Flushed(w, w.recalled)
      BY <1>0, Flushing DEF Flushed
    <3> QED BY <1>0, <1>4, <2>2, <3>1
  <2>4. marks' = marks \cup {"kept"}
    BY <1>7 DEF Marks
  <2> QED BY <1>1, <1>2, <1>3, <1>7, <2>1, <2>3, <2>4
<1> QED
  <2>1. Recalls(t) /\ w.op = thread[t].op
    OBVIOUS
  <2> QED BY <1>5, <1>6, <1>7, <2>1 DEF Recalls
\* A job with one loan more among those ended.
Shifted(w, T, E, a) == [w EXCEPT !.todo = T, !.ended = E, !.at = a]

\* Its fields.
LEMMA FlushedRecord ==
  ASSUME NEW w \in ThreadRec, NEW T \in SUBSET (Loan \X (Key \cup {None})),
         NEW E \in SUBSET (Loan \X (Key \cup {None})), NEW a \in {"closing", "recalling"}
  PROVE  /\ Shifted(w, T, E, a) \in ThreadRec
         /\ Shifted(w, T, E, a).todo = T
         /\ Shifted(w, T, E, a).ended = E
         /\ Shifted(w, T, E, a).at = a
         /\ Shifted(w, T, E, a).op = w.op
         /\ Shifted(w, T, E, a).key = w.key
         /\ Shifted(w, T, E, a).old = w.old
         /\ Shifted(w, T, E, a).recalled = w.recalled
<1>1. [w EXCEPT !.todo = T, !.ended = E, !.at = a] \in ThreadRec
  <2>1. [w EXCEPT !.todo = T, !.ended = E, !.at = "closing"] \in ThreadRec
    BY ZenonT(60) DEF ThreadRec
  <2>2. [w EXCEPT !.todo = T, !.ended = E, !.at = "recalling"] \in ThreadRec
    BY ZenonT(60) DEF ThreadRec
  <2> QED BY <2>1, <2>2
<1>2. /\ [w EXCEPT !.todo = T, !.ended = E, !.at = a].todo = T
      /\ [w EXCEPT !.todo = T, !.ended = E, !.at = a].ended = E
      /\ [w EXCEPT !.todo = T, !.ended = E, !.at = a].at = a
  BY DEF ThreadRec
<1>3. /\ [w EXCEPT !.todo = T, !.ended = E, !.at = a].op = w.op
      /\ [w EXCEPT !.todo = T, !.ended = E, !.at = a].key = w.key
      /\ [w EXCEPT !.todo = T, !.ended = E, !.at = a].old = w.old
      /\ [w EXCEPT !.todo = T, !.ended = E, !.at = a].recalled = w.recalled
  BY DEF ThreadRec
<1> QED BY <1>1, <1>2, <1>3 DEF Shifted

\* Flushes: the loan's row is locked, and what was read of it earlier is still so unless
\* the step is marked stale.
LEMMA FlushesStep ==
  ASSUME Types, NEW t \in Thread, Flushes(t)
  PROVE  /\ UNCHANGED <<keys, creds, loans, requests, resets, faults>>
         /\ thread[t].at = "flushing" /\ Current(t) \in thread[t].todo /\ Current(t)[1] \in Loan
         /\ Has(t, Current(t)[1])
         /\ \/ UNCHANGED marks /\ loans[Current(t)[1]].cred = Current(t)[2]
            \/ marks' = marks \cup {"stale"}
         /\ \E v : /\ Goes(t, v) /\ SameReturn(v, thread[t]) /\ v.at \in {"closing", "recalling"}
                   /\ v.todo = thread[t].todo \ {Current(t)}
                   /\ v.ended = thread[t].ended \cup {Current(t)}
                   /\ v.recalled = thread[t].recalled
<1> DEFINE w == thread[t]
           p == Current(t)
           left == w.todo \ {p}
           a == IF left = {} THEN "closing" ELSE "recalling"
           v == Shifted(w, left, w.ended \cup {p}, a)
<1>0. w \in ThreadRec /\ Staged(w) /\ thread \in [Thread -> ThreadRec]
  BY DEF Types
<1>1. w.at = "flushing" /\ w.todo # {} /\ w.key = None /\ w.old = None
     /\ w.op \in {"revoke", "tick", "sync"}
      /\ (w.op = "revoke" => \E q \in w.todo : w.todo = {q})
  <2>1. w.at = "flushing"
    BY DEF Flushes, At
  <2> QED BY <1>0, <2>1 DEF Staged, TakingBack
<1>2. p \in w.todo
  BY <1>1, CurrentListed
<1>3. w.todo \in SUBSET (Loan \X (Key \cup {None}))
     /\ w.ended \in SUBSET (Loan \X (Key \cup {None}))
      /\ p \in Loan \X (Key \cup {None}) /\ p[1] \in Loan
  <2>1. w.todo \in SUBSET (Loan \X (Key \cup {None}))
       /\ w.ended \in SUBSET (Loan \X (Key \cup {None}))
    BY <1>0 DEF ThreadRec
  <2>2. p \in Loan \X (Key \cup {None})
    BY <1>2, <2>1
  <2> QED BY <2>1, <2>2
<1>4. UNCHANGED <<keys, creds, loans, requests, resets, faults>> /\ Takes(t, p[1])
      /\ Marks(IF loans[p[1]].cred = p[2] THEN {} ELSE {"stale"})
  BY DEF Flushes, NoFault
<1>5. Has(t, p[1])
  BY <1>3, <1>4, Taken DEF Row
<1>6. \/ UNCHANGED marks /\ loans[p[1]].cred = p[2]
      \/ marks' = marks \cup {"stale"}
  BY <1>4 DEF Marks
<1>7. thread' = [thread EXCEPT ![t] = v]
  BY <1>0 DEF Flushes, Shifted
<1>8. /\ left \in SUBSET (Loan \X (Key \cup {None}))
           /\ w.ended \cup {p} \in SUBSET (Loan \X (Key \cup {None}))
      /\ a \in {"closing", "recalling"}
  BY <1>3
<1>9. /\ v \in ThreadRec /\ v.todo = left /\ v.ended = w.ended \cup {p} /\ v.at = a /\ v.op = w.op
      /\ v.key = w.key /\ v.old = w.old /\ v.recalled = w.recalled
  <2> HIDE DEF left, a, w
  <2> QED BY <1>0, <1>8, FlushedRecord
<1> HIDE DEF v
<1>10. a = "closing" <=> left = {}
  OBVIOUS
<1>11. w.op = "revoke" => left = {}
  BY <1>1, <1>2
<1> HIDE DEF a
<1>12. Staged(v)
  <2> HIDE DEF left
  <2> QED BY <1>1, <1>8, <1>9, <1>10, <1>11 DEF Staged, Working, TakingBack
<1>13. SameReturn(v, w)
  <2>1. v.todo \cup v.ended = w.todo \cup w.ended
    BY <1>2, <1>9
  <2> QED BY <1>1, <1>8, <1>9, <2>1 DEF SameReturn, TakingBack
<1> QED BY <1>1, <1>2, <1>3, <1>4, <1>5, <1>6, <1>7, <1>8, <1>9, <1>12, <1>13 DEF Goes

\* Closes: the loans taken back are over and their credentials revoked, or all is rolled
\* back, which is marked when a key is gone already.
LEMMA ClosesStep ==
  ASSUME Types, NEW t \in Thread, Closes(t)
  PROVE  /\ UNCHANGED <<keys, requests, resets>> /\ faults' \in 0..MaxFaults
         /\ thread[t].at = "closing" /\ Over(t) /\ thread[t].todo = {}
         /\ \/ /\ UNCHANGED marks
               /\ creds' \in [Key -> [remote : RemoteId,
                    status : {"none", "active", "revoked"}]]
               /\ loans' \in [Loan -> LoanRow]
               /\ \A k \in Key : /\ creds'[k].remote = creds[k].remote
                                 /\ creds'[k].status = IF \E p \in thread[t].ended : p[2] = k
                                                       THEN "revoked" ELSE creds[k].status
               /\ \A l \in Loan :
                    /\ loans'[l].borrower = loans[l].borrower
                         /\ loans'[l].account = loans[l].account
                    /\ loans'[l].cred = loans[l].cred /\ loans'[l].auto = loans[l].auto
                         /\ loans'[l].pool = loans[l].pool
                    /\ IF \E p \in thread[t].ended : p[1] = l
                       THEN loans'[l].status \in {"revoked", "expired"}
                       ELSE loans'[l] = loans[l]
            \/ UNCHANGED <<creds, loans>> /\ marks' = IF thread[t].recalled THEN marks \cup {"half"}
                 ELSE marks
<1> DEFINE w == thread[t]
           C == [remote : RemoteId, status : {"none", "active", "revoked"}]
           ended == {p[1] : p \in w.ended}
           old == {p[2] : p \in w.ended}
           s == IF w.op = "revoke" THEN "revoked" ELSE "expired"
<1>0. w \in ThreadRec /\ Staged(w)
  BY DEF Types
<1>1. w.at = "closing" /\ UNCHANGED <<keys, requests, resets>> /\ Ends(t)
  BY DEF Closes, At
<1>2. Over(t) /\ w.todo = {}
  BY <1>0, <1>1, Ended DEF Staged
<1>3. faults' \in 0..MaxFaults
  BY FaultCounted DEF Closes
<1>4. CASE UNCHANGED <<creds, loans>> /\ Marks(IF w.recalled THEN {"half"} ELSE {})
  <2>1. marks' = IF w.recalled THEN marks \cup {"half"} ELSE marks
    BY <1>4 DEF Marks
  <2> QED BY <1>1, <1>2, <1>3, <1>4, <2>1
<1>5. CASE /\ UNCHANGED marks
           /\ loans' = [l \in Loan |-> IF l \in ended THEN [loans[l] EXCEPT !.status = s]
                ELSE loans[l]]
           /\ creds' = [k \in Key |-> IF k \in old THEN [creds[k] EXCEPT !.status = "revoked"]
                ELSE creds[k]]
  <2>1. \A r \in LoanRow : /\ [r EXCEPT !.status = s] \in LoanRow
                           /\ [r EXCEPT !.status = s].status \in {"revoked", "expired"}
                           /\ [r EXCEPT !.status = s].borrower = r.borrower
                                /\ [r EXCEPT !.status = s].account = r.account
                           /\ [r EXCEPT !.status = s].cred = r.cred
                                /\ [r EXCEPT !.status = s].auto = r.auto
                           /\ [r EXCEPT !.status = s].pool = r.pool
    <3>1. s \in {"revoked", "expired"}
      OBVIOUS
    <3> HIDE DEF s
    <3> QED BY <3>1 DEF LoanRow
  <2>2. \A r \in C : /\ [r EXCEPT !.status = "revoked"] \in C
                     /\ [r EXCEPT !.status = "revoked"].status = "revoked"
                     /\ [r EXCEPT !.status = "revoked"].remote = r.remote
    OBVIOUS
  <2>3. \A l \in Loan : loans[l] \in LoanRow
    BY DEF Types
  <2>4. \A k \in Key : creds[k] \in C
    BY DEF Types
  <2>5. \A l \in Loan : l \in ended <=> \E p \in w.ended : p[1] = l
    OBVIOUS
  <2>6. \A k \in Key : k \in old <=> \E p \in w.ended : p[2] = k
    OBVIOUS
  <2> HIDE DEF ended, old, s, C
  <2>7. \A l \in Loan : loans'[l] = IF l \in ended THEN [loans[l] EXCEPT !.status = s] ELSE loans[l]
    BY <1>5
  <2>8. \A k \in Key : creds'[k] = IF k \in old THEN [creds[k] EXCEPT !.status = "revoked"]
       ELSE creds[k]
    BY <1>5
  <2>9. loans' \in [Loan -> LoanRow]
    BY <1>5, <2>1, <2>3
  <2>10. creds' \in [Key -> C]
    BY <1>5, <2>2, <2>4
  <2>11. \A k \in Key : /\ creds'[k].remote = creds[k].remote
                        /\ creds'[k].status = IF \E p \in w.ended : p[2] = k THEN "revoked"
                             ELSE creds[k].status
    <3> SUFFICES ASSUME NEW k \in Key
        PROVE  /\ creds'[k].remote = creds[k].remote
               /\ creds'[k].status = IF \E p \in w.ended : p[2] = k THEN "revoked"
                    ELSE creds[k].status
      OBVIOUS
    <3>1. CASE k \in old
      <4>1. creds'[k] = [creds[k] EXCEPT !.status = "revoked"] /\ creds[k] \in C
        BY <2>4, <2>8, <3>1
      <4>2. creds'[k].status = "revoked" /\ creds'[k].remote = creds[k].remote
        BY <2>2, <4>1
      <4> QED BY <2>6, <3>1, <4>2
    <3>2. CASE k \notin old
      BY <2>6, <2>8, <3>2
    <3> QED BY <3>1, <3>2
  <2>12. \A l \in Loan :
           /\ loans'[l].borrower = loans[l].borrower /\ loans'[l].account = loans[l].account
           /\ loans'[l].cred = loans[l].cred /\ loans'[l].auto = loans[l].auto
                /\ loans'[l].pool = loans[l].pool
           /\ IF \E p \in w.ended : p[1] = l THEN loans'[l].status \in {"revoked", "expired"}
              ELSE loans'[l] = loans[l]
    <3> SUFFICES ASSUME NEW l \in Loan
        PROVE  /\ loans'[l].borrower = loans[l].borrower /\ loans'[l].account = loans[l].account
               /\ loans'[l].cred = loans[l].cred /\ loans'[l].auto = loans[l].auto
                    /\ loans'[l].pool = loans[l].pool
               /\ IF \E p \in w.ended : p[1] = l THEN loans'[l].status \in {"revoked", "expired"}
                  ELSE loans'[l] = loans[l]
      OBVIOUS
    <3>1. CASE l \in ended
      BY ZenonT(60), <2>1, <2>3, <2>5, <2>7, <3>1
    <3>2. CASE l \notin ended
      BY <2>5, <2>7, <3>2
    <3> QED BY <3>1, <3>2
  <2> QED BY <1>1, <1>2, <1>3, <1>5, <2>9, <2>10, <2>11, <2>12 DEF C
<1> QED BY <1>4, <1>5 DEF Closes
\* The row of a loan from the shared pool.
PoolRow(b) == [NoLoanRow EXCEPT !.status = "active", !.borrower = b, !.auto = TRUE, !.pool = TRUE]

\* It is well typed.
LEMMA PoolRowFits ==
  ASSUME NEW b \in Borrower
  PROVE  /\ PoolRow(b) \in LoanRow
         /\ PoolRow(b).status = "active" /\ PoolRow(b).borrower = b
              /\ PoolRow(b).account = NoAccount
         /\ PoolRow(b).cred = None /\ PoolRow(b).auto = TRUE /\ PoolRow(b).pool = TRUE
<1>1. PoolRow(b) \in LoanRow
  BY RestingFits DEF PoolRow, LoanRow
<1>2. /\ PoolRow(b).status = "active" /\ PoolRow(b).borrower = b /\ PoolRow(b).account = NoAccount
      /\ PoolRow(b).cred = None /\ PoolRow(b).auto = TRUE /\ PoolRow(b).pool = TRUE
  BY DEF PoolRow, NoLoanRow
<1> QED BY <1>1, <1>2

\* IssuePool writes one free row.
LEMMA PoolStep ==
  ASSUME Types, NEW b \in Borrower, IssuePool(b)
  PROVE  /\ UNCHANGED <<keys, creds, lock, thread, resets, faults, marks>>
              /\ requests' \in 0..MaxRequests
         /\ \E l \in Loan : loans[l].status = "none" /\ loans' = [loans EXCEPT ![l] = PoolRow(b)]
<1>1. requests \in 0..MaxRequests /\ MaxRequests \in Nat
  BY LoanAssumption DEF Types
<1>2. requests' \in 0..MaxRequests /\ RowLeft /\ NewLoan(PoolRow(b))
  BY <1>1 DEF IssuePool, PoolRow
<1> QED BY <1>2, LeastFree DEF IssuePool

\* Only columns nobody's loan depends on change: reset and due.
Aside ==
  /\ UNCHANGED <<keys, creds, lock, thread, faults, marks>> /\ loans' \in [Loan -> LoanRow]
  /\ \A l \in Loan :
       /\ loans'[l].status = loans[l].status /\ loans'[l].borrower = loans[l].borrower
       /\ loans'[l].account = loans[l].account /\ loans'[l].cred = loans[l].cred
       /\ loans'[l].auto = loans[l].auto /\ loans'[l].pool = loans[l].pool
       /\ loans[l].status = "none" => loans'[l] = loans[l]

\* Patch writes only those.
LEMMA PatchStep ==
  ASSUME Types, NEW l \in Loan, Patch(l)
  PROVE  Aside /\ requests' \in 0..MaxRequests /\ UNCHANGED resets
<1> DEFINE r == [loans[l] EXCEPT !.reset = ~@]
<1>1. requests' \in 0..MaxRequests
  <2>1. requests \in 0..MaxRequests /\ MaxRequests \in Nat
    BY LoanAssumption DEF Types
  <2> QED BY <2>1 DEF Patch
<1>2. loans[l] \in LoanRow /\ loans \in [Loan -> LoanRow]
  BY DEF Types
<1>3. /\ r \in LoanRow /\ r.status = loans[l].status /\ r.borrower = loans[l].borrower
      /\ r.account = loans[l].account /\ r.cred = loans[l].cred
      /\ r.auto = loans[l].auto /\ r.pool = loans[l].pool
  <2>1. r \in LoanRow
    BY <1>2 DEF LoanRow
  <2>2. /\ r.status = loans[l].status /\ r.borrower = loans[l].borrower
        /\ r.account = loans[l].account /\ r.cred = loans[l].cred
        /\ r.auto = loans[l].auto /\ r.pool = loans[l].pool
    BY <1>2 DEF LoanRow
  <2> QED BY <2>1, <2>2
<1>4. loans' = [loans EXCEPT ![l] = r] /\ loans[l].status # "none"
  BY DEF Patch
<1> HIDE DEF r
<1>5. loans' \in [Loan -> LoanRow] /\ loans'[l] = r /\ \A m \in Loan : m # l => loans'[m] = loans[m]
  BY <1>2, <1>3, <1>4
<1> QED BY <1>1, <1>3, <1>4, <1>5 DEF Aside, Patch

\* ResetDay writes only those.
LEMMA ResetDayStep ==
  ASSUME Types, NEW a \in Account, ResetDay(a)
  PROVE  Aside /\ resets' \in 0..MaxResets /\ UNCHANGED requests
<1>1. resets' \in 0..MaxResets
  <2>1. resets \in 0..MaxResets /\ MaxResets \in Nat
    BY LoanAssumption DEF Types
  <2> QED BY <2>1 DEF ResetDay
<1> DEFINE D(r) == [r EXCEPT !.due = TRUE]
<1>2. ASSUME NEW r \in LoanRow
      PROVE  /\ D(r) \in LoanRow /\ D(r).status = r.status /\ D(r).borrower = r.borrower
             /\ D(r).account = r.account /\ D(r).cred = r.cred /\ D(r).auto = r.auto
                  /\ D(r).pool = r.pool
  BY DEF LoanRow
<1>3. loans' = [l \in Loan |-> IF l \in ActiveOn(loans, a) THEN D(loans[l]) ELSE loans[l]]
  BY DEF ResetDay
<1>4. \A l \in Loan : loans[l] \in LoanRow
  BY DEF Types
<1> HIDE DEF D
<1>5. \A l \in Loan : loans'[l] = IF l \in ActiveOn(loans, a) THEN D(loans[l]) ELSE loans[l]
  BY <1>3
<1>6. loans' \in [Loan -> LoanRow]
  BY <1>2, <1>3, <1>4
<1>7. ASSUME NEW l \in Loan
      PROVE  /\ loans'[l].status = loans[l].status /\ loans'[l].borrower = loans[l].borrower
             /\ loans'[l].account = loans[l].account /\ loans'[l].cred = loans[l].cred
             /\ loans'[l].auto = loans[l].auto /\ loans'[l].pool = loans[l].pool
             /\ loans[l].status = "none" => loans'[l] = loans[l]
  <2>1. CASE l \in ActiveOn(loans, a)
    <3>1. loans'[l] = D(loans[l]) /\ loans[l] \in LoanRow /\ loans[l].status = "active"
      BY <1>4, <1>5, <2>1 DEF ActiveOn
    <3> QED BY <1>2, <3>1
  <2>2. CASE l \notin ActiveOn(loans, a)
    BY <1>5, <2>2
  <2> QED BY <2>1, <2>2
<1> QED BY <1>1, <1>6, <1>7 DEF Aside, ResetDay

\* Crash: nobody works, no row is locked, and what is left behind is marked.
LEMMA CrashStep ==
  ASSUME Types, Crash
  PROVE  /\ UNCHANGED <<keys, creds, loans, requests, resets>> /\ faults' \in 0..MaxFaults
         /\ thread' \in [Thread -> ThreadRec] /\ \A t \in Thread : thread'[t] = Resting
         /\ lock' \in [Row -> Thread \cup {Nobody}] /\ \A row \in Row : lock'[row] = Nobody
         /\ marks \subseteq marks' /\ marks' \subseteq marks \cup {"kept", "half"}
         /\ \A t \in Thread : /\ thread[t].key # None \/ thread[t].old # None => "kept" \in marks'
                              /\ thread[t].recalled => "half" \in marks'
<1>1. thread' \in [Thread -> ThreadRec] /\ \A t \in Thread : thread'[t] = Resting
  BY RestingFits DEF Crash
<1>2. lock' \in [Row -> Thread \cup {Nobody}] /\ \A row \in Row : lock'[row] = Nobody
  BY DEF Crash, Types, Row
<1>3. faults' \in 0..MaxFaults
  BY FaultCounted DEF Crash
<1>4. marks' = marks \cup ((IF \E t \in Thread : thread[t].key # None
     \/ thread[t].old # None THEN {"kept"} ELSE {})
                           \cup (IF \E t \in Thread : thread[t].recalled THEN {"half"} ELSE {}))
  BY DEF Crash, Marks
<1>5. marks \subseteq marks' /\ marks' \subseteq marks \cup {"kept", "half"}
  BY <1>4
<1>6. ASSUME NEW t \in Thread, thread[t].key # None \/ thread[t].old # None PROVE "kept" \in marks'
  BY <1>4, <1>6
<1>7. ASSUME NEW t \in Thread, thread[t].recalled PROVE "half" \in marks'
  BY <1>4, <1>7
<1> QED BY <1>1, <1>2, <1>3, <1>5, <1>6, <1>7 DEF Crash
\* The parts of Types, one for each group of variables.
KeysOk == /\ keys \in [Key -> [at : Account \cup {NoAccount}, name : Borrower \cup {NoBorrower},
               live : BOOLEAN]]
          /\ \A k \in Key : keys[k] = NoKey \/ keys[k].at \in Account
CredsOk == creds \in [Key -> [remote : RemoteId, status : {"none", "active", "revoked"}]]
LoansOk == loans \in [Loan -> LoanRow] /\ \A l \in Loan : loans[l].status = "none"
     => loans[l] = NoLoanRow
LocksOk == lock \in [Row -> Thread \cup {Nobody}]
ThreadsOk == thread \in [Thread -> ThreadRec] /\ \A t \in Thread : Staged(thread[t])
RestOk == requests \in 0..MaxRequests /\ resets \in 0..MaxResets /\ faults \in 0..MaxFaults
MarksOk == marks \subseteq MarkKinds

\* They make up Types.
LEMMA TypesSplit == Types <=> KeysOk /\ CredsOk /\ LoansOk /\ LocksOk /\ ThreadsOk /\ RestOk
     /\ MarksOk
BY DEF Types, KeysOk, CredsOk, LoansOk, LocksOk, ThreadsOk, RestOk, MarksOk, Row

\* The empty tables are well typed.
LEMMA TypesAtFirst == LoanInit => Types
<1> SUFFICES ASSUME LoanInit PROVE Types
  OBVIOUS
<1>1. KeysOk
  BY DEF LoanInit, KeysOk, NoKey
<1>2. CredsOk
  BY DEF LoanInit, CredsOk, NoCredRow, RemoteId
<1>3. LoansOk
  BY RestingFits DEF LoanInit, LoansOk
<1>4. LocksOk
  BY DEF LoanInit, LocksOk, Row
<1>5. ThreadsOk
  BY RestingFits DEF LoanInit, ThreadsOk
<1>6. RestOk
  BY LoanAssumption DEF LoanInit, RestOk
<1>7. MarksOk
  BY DEF LoanInit, MarksOk
<1> QED BY <1>1, <1>2, <1>3, <1>4, <1>5, <1>6, <1>7, TypesSplit

\* One row of the loans is written.
LEMMA OneRow ==
  ASSUME Types, NEW l \in Loan, NEW r \in LoanRow, r.status # "none",
         loans' = [loans EXCEPT ![l] = r]
  PROVE  LoansOk' /\ loans'[l] = r /\ \A m \in Loan : m # l => loans'[m] = loans[m]
<1>1. loans' \in [Loan -> LoanRow] /\ loans'[l] = r /\ \A m \in Loan : m # l => loans'[m] = loans[m]
  BY DEF Types
<1>2. \A m \in Loan : loans'[m].status = "none" => loans'[m] = NoLoanRow
  BY <1>1 DEF Types
<1> QED BY <1>1, <1>2 DEF LoansOk

\* A thread that goes on keeps the records typed.
LEMMA ThreadsKept ==
  ASSUME Types, NEW t \in Thread, NEW v, Goes(t, v)
  PROVE  ThreadsOk'
BY Moved DEF ThreadsOk

\* Locking and freeing rows keeps the locks typed.
LEMMA LocksKept ==
  ASSUME NEW t, NEW row, Frees(t) \/ Has(t, row)
  PROVE  LocksOk'
BY DEF Frees, Has, LocksOk

\* Revoking a key keeps the keys typed.
LEMMA KeysKept ==
  ASSUME Types, NEW k \in RemoteId, keys' = Dead(k)
  PROVE  KeysOk'
BY DeadTyped DEF KeysOk, Types

\* Making a key keeps them typed.
LEMMA KeyMade ==
  ASSUME Types, NEW k \in Key, NEW a \in Account, NEW b \in Borrower \cup {NoBorrower},
         keys' = [keys EXCEPT ![k] = [at |-> a, name |-> b, live |-> TRUE]]
  PROVE  KeysOk' /\ keys'[k] = [at |-> a, name |-> b, live |-> TRUE] /\ \A c \in Key : c # k
       => keys'[c] = keys[c]
BY DEF KeysOk, Types

\* Every step keeps the types.
LEMMA TypesKept == Types /\ Booked /\ [LoanNext]_loanVars => Types'
<1> SUFFICES ASSUME Types, Booked, [LoanNext]_loanVars PROVE Types'
  OBVIOUS
<1>0. KeysOk /\ CredsOk /\ LoansOk /\ LocksOk /\ ThreadsOk /\ RestOk /\ MarksOk
  BY TypesSplit
<1>a. ASSUME KeysOk', CredsOk', LoansOk', LocksOk', ThreadsOk', RestOk', MarksOk' PROVE Types'
  BY <1>a DEF Types, KeysOk, CredsOk, LoansOk, LocksOk, ThreadsOk, RestOk, MarksOk, Row
<1>1. CASE UNCHANGED loanVars
  BY <1>1 DEF Types, loanVars
<1>2. ASSUME NEW t \in Thread, Starting(t) PROVE Types'
  <2>1. PICK v : /\ Goes(t, v) /\ requests' \in 0..MaxRequests
                 /\ UNCHANGED <<keys, creds, loans, lock, resets, faults, marks>>
    BY <1>2, Started
  <2>2. ThreadsOk'
    BY <2>1, ThreadsKept
  <2> QED BY <1>0, <1>a, <2>1, <2>2 DEF KeysOk, CredsOk, LoansOk, LocksOk, RestOk, MarksOk
<1>3. ASSUME NEW t \in Thread, Admitted(t) PROVE Types'
  <2>1. UNCHANGED <<keys, creds, loans, requests, resets, faults, marks>>
    BY <1>3, AdmittedStep
  <2>2. ThreadsOk' /\ LocksOk'
    BY <1>3, AdmittedStep, ThreadsKept, LocksKept DEF Over
  <2> QED BY <1>0, <1>a, <2>1, <2>2 DEF KeysOk, CredsOk, LoansOk, RestOk, MarksOk
<1>4. ASSUME NEW t \in Thread, Validated(t) PROVE Types'
  <2>1. UNCHANGED <<keys, creds, loans, requests, resets, faults>> /\ marks' \subseteq marks
       \cup {"stale"}
    BY <1>4, ValidatedStep
  <2>2. ThreadsOk' /\ LocksOk'
    BY <1>4, ValidatedStep, ThreadsKept, LocksKept DEF Over
  <2>3. MarksOk'
    BY <1>0, <2>1 DEF MarksOk, MarkKinds
  <2> QED BY <1>0, <1>a, <2>1, <2>2, <2>3 DEF KeysOk, CredsOk, LoansOk, RestOk
<1>5. ASSUME NEW t \in Thread, Creates(t) PROVE Types'
  <2>1. UNCHANGED <<creds, loans, requests, resets>> /\ marks' \subseteq marks \cup {"kept"}
       /\ faults' \in 0..MaxFaults
        /\ NextKey \in Key /\ thread[t].account \in Account
        /\ \/ UNCHANGED keys
           \/ keys' = [keys EXCEPT ![NextKey] = [at |-> thread[t].account,
                name |-> thread[t].borrower, live |-> TRUE]]
    BY <1>5, CreatesStep
  <2>2. ThreadsOk' /\ LocksOk'
    BY <1>5, CreatesStep, ThreadsKept, LocksKept DEF Over
  <2>3. thread[t].borrower \in Borrower \cup {NoBorrower}
    BY DEF Types, ThreadRec
  <2>4. KeysOk'
    <3> HIDE DEF NextKey
    <3> QED BY <1>0, <2>1, <2>3, KeyMade DEF KeysOk
  <2>5. MarksOk'
    BY <1>0, <2>1 DEF MarksOk, MarkKinds
  <2> QED BY <1>0, <1>a, <2>1, <2>2, <2>4, <2>5 DEF CredsOk, LoansOk, RestOk
<1>6. ASSUME NEW t \in Thread, Resolves(t) PROVE Types'
  <2>1. UNCHANGED <<keys, creds, loans, requests, resets>> /\ marks' \subseteq marks
       \cup {"kept", "namesake", "mistaken", "unknown"} /\ faults' \in 0..MaxFaults
    BY <1>6, ResolvesStep DEF Learnt
  <2>2. ThreadsOk' /\ LocksOk'
    BY <1>0, <1>6, ResolvesStep, ThreadsKept, LocksKept DEF Over, LocksOk
  <2>5. MarksOk'
    BY <1>0, <2>1 DEF MarksOk, MarkKinds
  <2> QED BY <1>0, <1>a, <2>1, <2>2, <2>5 DEF KeysOk, CredsOk, LoansOk, RestOk
<1>7. ASSUME NEW t \in Thread, Stores(t) PROVE Types'
  <2> DEFINE w == thread[t]
  <2>0. w \in ThreadRec /\ Staged(w) /\ w.remote \in RemoteId /\ loans \in [Loan -> LoanRow]
    BY DEF Types, ThreadRec
  <2>1. UNCHANGED <<requests, resets>> /\ marks' \subseteq marks \cup {"kept", "cut"}
       /\ faults' \in 0..MaxFaults
    BY <1>7, <2>0, StoresStep, RevokedStep
  <2>2. ThreadsOk' /\ LocksOk'
    BY <1>7, StoresStep, ThreadsKept, LocksKept DEF Over
  <2>3. KeysOk'
    BY <1>0, <1>7, <2>0, StoresStep, RevokedStep, KeysKept DEF KeysOk
  <2>4. CredsOk'
    BY <1>0, <1>7, <2>0, StoresStep, CredsTyped DEF CredsOk
  <2>5. LoansOk'
    <3>1. CASE UNCHANGED loans
      BY <1>0, <3>1 DEF LoansOk
    <3>2. CASE w.op = "move" /\ loans' = [loans EXCEPT ![w.loan] = MovedLoan(w)]
      <4>1. w.loan \in Loan /\ loans[w.loan].status # "none"
        BY <2>0, <3>2 DEF Staged, Booked
      <4> QED BY <2>0, <3>2, <4>1, MovedRow, OneRow
    <3>3. CASE \E l \in Loan : loans[l].status = "none" /\ loans' = [loans EXCEPT ![l] = NewRow(w)]
      BY <2>0, <3>3, NewRowFits, OneRow
    <3> QED BY <1>7, <3>1, <3>2, <3>3, StoresStep
  <2>6. MarksOk'
    BY <1>0, <2>1 DEF MarksOk, MarkKinds
  <2> QED BY <1>0, <1>a, <2>1, <2>2, <2>3, <2>4, <2>5, <2>6 DEF RestOk
<1>8. ASSUME NEW t \in Thread, Finalizes(t) PROVE Types'
  <2>1. UNCHANGED <<creds, loans, requests, resets>> /\ marks' \subseteq marks \cup {"kept", "cut"}
       /\ faults' \in 0..MaxFaults
    BY <1>8, FinalizesStep, RevokedStep
  <2>2. ThreadsOk' /\ LocksOk'
    BY <1>8, FinalizesStep, ThreadsKept, LocksKept DEF Over
  <2>3. KeysOk'
    BY <1>0, <1>8, FinalizesStep, RevokedStep, KeysKept DEF KeysOk
  <2>4. MarksOk'
    BY <1>0, <2>1 DEF MarksOk, MarkKinds
  <2> QED BY <1>0, <1>a, <2>1, <2>2, <2>3, <2>4 DEF CredsOk, LoansOk, RestOk
<1>9. ASSUME NEW t \in Thread, Recalls(t) PROVE Types'
  <2>0. Current(t) \in thread[t].todo
    BY <1>9, RecallsStep
  <2>5. RemoteOf(Current(t)[2]) \in RemoteId
    <3>1. Current(t)[2] \in Key \cup {None}
      BY <2>0 DEF Types, ThreadRec
    <3> QED BY <3>1, RemoteTyped
  <2>1. UNCHANGED <<creds, loans, requests, resets>> /\ marks' \subseteq marks \cup {"kept", "cut"}
       /\ faults' \in 0..MaxFaults
             /\ (UNCHANGED keys \/ keys' = Dead(RemoteOf(Current(t)[2])))
    BY <1>9, <2>5, RecallsStep, RevokedStep
  <2>2. ThreadsOk' /\ LocksOk'
    BY <1>0, <1>9, RecallsStep, ThreadsKept, LocksKept DEF Over, LocksOk
  <2>3. KeysOk'
    BY <1>0, <2>1, <2>5, KeysKept DEF KeysOk
  <2>4. MarksOk'
    BY <1>0, <2>1 DEF MarksOk, MarkKinds
  <2> QED BY <1>0, <1>a, <2>1, <2>2, <2>3, <2>4 DEF CredsOk, LoansOk, RestOk
<1>10. ASSUME NEW t \in Thread, Flushes(t) PROVE Types'
  <2>1. UNCHANGED <<keys, creds, loans, requests, resets, faults>> /\ marks' \subseteq marks
       \cup {"stale"}
    BY <1>10, FlushesStep
  <2>2. ThreadsOk' /\ LocksOk'
    BY <1>10, FlushesStep, ThreadsKept, LocksKept
  <2>4. MarksOk'
    BY <1>0, <2>1 DEF MarksOk, MarkKinds
  <2> QED BY <1>0, <1>a, <2>1, <2>2, <2>4 DEF KeysOk, CredsOk, LoansOk, RestOk
<1>11. ASSUME NEW t \in Thread, Closes(t) PROVE Types'
  <2>1. UNCHANGED <<keys, requests, resets>> /\ marks' \subseteq marks \cup {"half"}
       /\ faults' \in 0..MaxFaults
    BY <1>11, ClosesStep
  <2>2. ThreadsOk' /\ LocksOk'
    BY <1>11, ClosesStep, ThreadsKept, LocksKept DEF Over
  <2>3. CredsOk'
    BY <1>0, <1>11, ClosesStep DEF CredsOk
  <2>4. LoansOk'
    <3>1. CASE UNCHANGED loans
      BY <1>0, <3>1 DEF LoansOk
    <3>2. CASE /\ loans' \in [Loan -> LoanRow]
               /\ \A l \in Loan : IF \E p \in thread[t].ended : p[1] = l
                                  THEN loans'[l].status \in {"revoked", "expired"}
                                  ELSE loans'[l] = loans[l]
      BY <1>0, <3>2 DEF LoansOk
    <3> QED BY <1>11, <3>1, <3>2, ClosesStep
  <2>5. MarksOk'
    BY <1>0, <2>1 DEF MarksOk, MarkKinds
  <2> QED BY <1>0, <1>a, <2>1, <2>2, <2>3, <2>4, <2>5 DEF KeysOk, RestOk
<1>12. ASSUME NEW b \in Borrower, IssuePool(b) PROVE Types'
  <2>1. /\ UNCHANGED <<keys, creds, lock, thread, resets, faults, marks>>
             /\ requests' \in 0..MaxRequests
        /\ \E l \in Loan : loans[l].status = "none" /\ loans' = [loans EXCEPT ![l] = PoolRow(b)]
    BY <1>12, PoolStep
  <2>2. LoansOk'
    BY <2>1, PoolRowFits, OneRow
  <2> QED BY <1>0, <1>a, <2>1, <2>2 DEF KeysOk, CredsOk, LocksOk, ThreadsOk, RestOk, MarksOk
<1>13. ASSUME Aside, requests' \in 0..MaxRequests, resets' \in 0..MaxResets PROVE Types'
  <2>1. LoansOk'
    BY <1>0, <1>13 DEF LoansOk, Aside
  <2> QED BY <1>0, <1>a, <1>13, <2>1 DEF KeysOk, CredsOk, LocksOk, ThreadsOk, RestOk, MarksOk, Aside
<1>14. ASSUME NEW l \in Loan, Patch(l) PROVE Types'
  BY <1>0, <1>13, <1>14, PatchStep DEF RestOk
<1>15. ASSUME NEW a \in Account, ResetDay(a) PROVE Types'
  BY <1>0, <1>13, <1>15, ResetDayStep DEF RestOk
<1>16. ASSUME Crash PROVE Types'
  <2>1. /\ UNCHANGED <<keys, creds, loans, requests, resets>> /\ faults' \in 0..MaxFaults
        /\ thread' \in [Thread -> ThreadRec] /\ \A t \in Thread : thread'[t] = Resting
        /\ lock' \in [Row -> Thread \cup {Nobody}] /\ marks' \subseteq marks \cup {"kept", "half"}
    BY <1>16, CrashStep
  <2>2. MarksOk'
    BY <1>0, <2>1 DEF MarksOk, MarkKinds
  <2>3. ThreadsOk' /\ LocksOk'
    BY <2>1, RestingFits DEF ThreadsOk, LocksOk
  <2> QED BY <1>0, <1>a, <2>1, <2>2, <2>3 DEF KeysOk, CredsOk, LoansOk, RestOk
<1>17. \/ UNCHANGED loanVars \/ Crash
       \/ \E t \in Thread : Starting(t) \/ ThreadStep(t)
       \/ \E b \in Borrower : IssuePool(b)
       \/ \E l \in Loan : Patch(l)
       \/ \E a \in Account : ResetDay(a)
  BY DEF LoanNext, Starting
<1> QED BY <1>1, <1>2, <1>3, <1>4, <1>5, <1>6, <1>7, <1>8, <1>9, <1>10, <1>11, <1>12, <1>14, <1>15,
     <1>16, <1>17 DEF ThreadStep

\* The rows a thread has locked are rows.
LEMMA HoldTypes ==
  ASSUME NEW w \in ThreadRec, Staged(w)
  PROVE  /\ w.op = "self" => w.borrower \in Row
         /\ w.op = "move" => w.loan \in Row /\ w.loan \in Loan
         /\ w.key # None => w.account \in Row /\ w.account \in Account
         /\ \A p \in w.ended : p[1] \in Row /\ p[1] \in Loan
         /\ \A p \in w.todo : p[1] \in Loan
<1>1. w.ended \in SUBSET (Loan \X (Key \cup {None}))
     /\ w.todo \in SUBSET (Loan \X (Key \cup {None}))
  BY DEF ThreadRec
<1>2. /\ \A p \in w.ended : p[1] \in Row /\ p[1] \in Loan
      /\ \A p \in w.todo : p[1] \in Loan
  BY <1>1 DEF Row
<1>3. /\ w.op = "self" => w.borrower \in Row
      /\ w.op = "move" => w.loan \in Row /\ w.loan \in Loan
      /\ w.key # None => w.account \in Row /\ w.account \in Account
  BY DEF Staged, Row
<1> QED BY <1>2, <1>3

\* Locks are in order if one thread changes only its own.
LEMMA LocksFrom ==
  ASSUME Types, Locks, NEW t \in Thread, NEW v, Goes(t, v), Holding(lock', t, v),
         \A row \in Row : \/ lock'[row] = lock[row] /\ lock[row] # t
                          \/ lock'[row] = Nobody /\ lock[row] = t
                          \/ lock'[row] = t /\ lock[row] \in {Nobody, t}
                               /\ v.at \notin {"idle", "finalizing"}
  PROVE  Locks'
<1>1. thread'[t] = v /\ \A u \in Thread : u # t => thread'[u] = thread[u]
  BY Moved
<1>2. ASSUME NEW row \in Row, lock'[row] # Nobody
      PROVE thread'[lock'[row]].at \notin {"idle", "finalizing"}
  <2>1. lock \in [Row -> Thread \cup {Nobody}]
    BY DEF Types, Row
  <2>2. CASE lock'[row] = t
    BY <1>1, <1>2, <2>2
  <2>3. CASE lock'[row] # t
    <3>1. lock'[row] = lock[row] /\ lock[row] \in Thread
      BY <1>2, <2>1, <2>3
    <3> QED BY <1>1, <1>2, <2>3, <3>1 DEF Locks
  <2> QED BY <2>2, <2>3
<1>3. ASSUME NEW u \in Thread, u # t PROVE Holding(lock', u, thread'[u])
  <2> DEFINE w == thread[u]
  <2>1. w \in ThreadRec /\ Staged(w) /\ Holding(lock, u, w)
    BY DEF Types, Locks
  <2>2. u # Nobody
    BY DEF Thread, Nobody
  <2>3. \A row \in Row : lock[row] = u => lock'[row] = u
    BY <1>3, <2>2
  <2>4. thread'[u] = w
    BY <1>1, <1>3
  <2> HIDE DEF w
  <2>5. Holding(lock', u, w)
    BY <2>1, <2>3, HoldTypes DEF Holding
  <2> QED BY <2>4, <2>5
<1>4. Holding(lock', t, thread'[t])
  BY <1>1
<1> QED BY <1>2, <1>3, <1>4 DEF Locks

\* They are when its transaction ends.
LEMMA LocksWhenOver ==
  ASSUME Types, Locks, NEW t \in Thread, Over(t)
  PROVE  Locks'
<1>1. Holding(lock', t, Resting)
  BY DEF Holding, Resting, Working, None
<1>2. \A row \in Row : \/ lock'[row] = lock[row] /\ lock[row] # t
                       \/ lock'[row] = Nobody /\ lock[row] = t
  BY DEF Over, Frees
<1> QED BY <1>1, <1>2, LocksFrom DEF Over

\* They are when it goes on, having locked one row more or none.
LEMMA LocksWhenHeld ==
  ASSUME Types, Locks, NEW t \in Thread, NEW v, Goes(t, v), v.at \notin {"idle", "finalizing"},
         UNCHANGED lock \/ (\E row \in Row : Has(t, row)),
         Holding(lock', t, v)
  PROVE  Locks'
<1>1. \A row \in Row : \/ lock'[row] = lock[row] /\ lock[row] # t
                       \/ lock'[row] = t /\ lock[row] \in {Nobody, t}
  BY DEF Has
<1> QED BY <1>1, LocksFrom

\* Every step keeps the locks in order.
LEMMA LocksHold == Types /\ Locks /\ [LoanNext]_loanVars => Locks'
<1> SUFFICES ASSUME Types, Locks, [LoanNext]_loanVars PROVE Locks'
  OBVIOUS
<1>1. CASE UNCHANGED <<thread, lock>>
  BY <1>1 DEF Locks, Row, Holding
<1>0. \A t \in Thread : thread[t] \in ThreadRec /\ Staged(thread[t]) /\ Holding(lock, t, thread[t])
  BY DEF Types, Locks
<1>2. ASSUME NEW t \in Thread, Starting(t) PROVE Locks'
  <2>1. PICK v : Goes(t, v) /\ Begun(v) /\ UNCHANGED lock
    BY <1>2, Started
  <2>2. v.at \notin {"idle", "finalizing"} /\ v.key = None /\ v.ended = {}
       /\ (v.at \in Working => v.op = "manual")
    BY <2>1 DEF Begun, Working
  <2>3. Holding(lock', t, v)
    BY <2>2 DEF Holding
  <2> QED BY <2>1, <2>2, <2>3, LocksWhenHeld
<1>3. ASSUME NEW t \in Thread, NEW v, Goes(t, v), SameTask(v, thread[t]), v.at \in Working,
             NEW row \in Row, Has(t, row),
             thread[t].at \in Working \/ (v.op = "self" /\ row = v.borrower)
                  \/ (v.op = "move" /\ row = v.loan),
             v.key # None => row = v.account
      PROVE  Locks'
  <2>1. \A r \in Row : lock[r] = t => lock'[r] = t
    BY <1>3 DEF Has
  <2>2. v \in ThreadRec /\ Staged(v)
    BY <1>3 DEF Goes
  <2>3. lock'[row] = t
    BY <1>3 DEF Has
  <2>4. /\ v.op = "self" /\ thread[t].at \in Working => lock[v.borrower] = t
        /\ v.op = "move" /\ thread[t].at \in Working => lock[v.loan] = t
    BY <1>0, <1>3 DEF Holding, SameTask
  <2>5. v.ended = {}
    BY <1>3 DEF SameTask
  <2>6. Holding(lock', t, v)
    BY <1>3, <2>1, <2>2, <2>3, <2>4, <2>5, HoldTypes DEF Holding
  <2> QED BY <1>3, <2>6, LocksWhenHeld DEF Working
<1>4. ASSUME NEW t \in Thread, NEW v, Goes(t, v), SameReturn(v, thread[t]), UNCHANGED lock,
     v.ended = thread[t].ended
      PROVE  Locks'
  <2>1. Holding(lock', t, v)
    BY <1>0, <1>4 DEF Holding, SameReturn, TakingBack, Working
  <2> QED BY <1>4, <2>1, LocksWhenHeld DEF SameReturn, TakingBack
<1>5. ASSUME NEW t \in Thread, Admitted(t) PROVE Locks'
  <2>1. CASE Over(t)
    BY <2>1, LocksWhenOver
  <2>2. ASSUME NEW v, Goes(t, v), SameTask(v, thread[t]), v.at = "admitted", v.op = "self",
       v.key = None,
               v.borrower \in Borrower, Has(t, v.borrower)
        PROVE  Locks'
    BY <1>3, <2>2 DEF Working, Row
  <2> QED BY <1>5, <2>1, <2>2, AdmittedStep
<1>6. ASSUME NEW t \in Thread, Validated(t) PROVE Locks'
  <2>1. CASE Over(t)
    BY <2>1, LocksWhenOver
  <2>2. ASSUME NEW v, Goes(t, v), SameTask(v, thread[t]), v.at \in {"admitted", "storing"},
       v.op = "move", v.key = None,
               v.loan \in Loan, Has(t, v.loan)
        PROVE  Locks'
    BY <1>3, <2>2 DEF Working, Row
  <2> QED BY <1>6, <2>1, <2>2, ValidatedStep
<1>7. ASSUME NEW t \in Thread, Creates(t) PROVE Locks'
  <2>1. CASE Over(t)
    BY <2>1, LocksWhenOver
  <2>2. ASSUME NEW v, Goes(t, v), SameTask(v, thread[t]), v.at = "naming", Has(t, v.account),
               thread[t].at = "admitted", thread[t].account \in Account
        PROVE  Locks'
    BY <1>3, <2>2 DEF Working, Row, SameTask
  <2> QED BY <1>7, <2>1, <2>2, CreatesStep
<1>8. ASSUME NEW t \in Thread, Resolves(t) PROVE Locks'
  <2>1. CASE Over(t)
    BY <2>1, LocksWhenOver
  <2>2. ASSUME NEW v, Goes(t, v), SameTask(v, thread[t]), v.at = "storing", v.key = thread[t].key,
               UNCHANGED lock, thread[t].at = "naming"
        PROVE  Locks'
    <3>1. Holding(lock', t, v)
      BY <1>0, <2>2 DEF Holding, SameTask, Working
    <3> QED BY <2>2, <3>1, LocksWhenHeld
  <2> QED BY <1>8, <2>1, <2>2, ResolvesStep
<1>9. ASSUME NEW t \in Thread, Stores(t) PROVE Locks'
  <2>1. CASE Over(t)
    BY <2>1, LocksWhenOver
  <2>2. CASE Goes(t, After(thread[t])) /\ Frees(t)
    <3>1. PICK v : v = After(thread[t])
      OBVIOUS
    <3>2. v.op = "none" /\ v.key = None /\ v.ended = {}
      BY <3>1 DEF After, Resting, None
    <3>3. Holding(lock', t, v)
      BY <3>2 DEF Holding
    <3>4. \A row \in Row : \/ lock'[row] = lock[row] /\ lock[row] # t
                           \/ lock'[row] = Nobody /\ lock[row] = t
      BY <2>2 DEF Frees
    <3> QED BY <2>2, <3>1, <3>3, <3>4, LocksFrom
  <2> QED BY <1>9, <2>1, <2>2, StoresStep
<1>10. ASSUME NEW t \in Thread, Finalizes(t) PROVE Locks'
  BY <1>10, FinalizesStep, LocksWhenOver
<1>11. ASSUME NEW t \in Thread, Recalls(t) PROVE Locks'
  BY <1>4, <1>11, RecallsStep, LocksWhenOver
<1>12. ASSUME NEW t \in Thread, Flushes(t) PROVE Locks'
  <2> DEFINE p == Current(t)
  <2>1. PICK v : Goes(t, v) /\ SameReturn(v, thread[t]) /\ v.ended = thread[t].ended \cup {p}
    BY <1>12, FlushesStep
  <2>2. Has(t, p[1]) /\ p[1] \in Loan
    BY <1>12, FlushesStep
  <2> HIDE DEF p
  <2>3. \A q \in thread[t].ended : lock'[q[1]] = t
    BY <1>0, <2>2, HoldTypes DEF Holding, Has
  <2>4. \A q \in v.ended : lock'[q[1]] = t
    BY <2>1, <2>2, <2>3 DEF Has
  <2>5. Holding(lock', t, v)
    BY <2>1, <2>4 DEF Holding, SameReturn, TakingBack, Working
  <2> QED BY <2>1, <2>2, <2>5, LocksWhenHeld DEF SameReturn, TakingBack, Row
<1>13. ASSUME NEW t \in Thread, Closes(t) PROVE Locks'
  BY <1>13, ClosesStep, LocksWhenOver
<1>14. ASSUME Crash PROVE Locks'
  <2>1. (\A t \in Thread : thread'[t] = Resting) /\ \A row \in Row : lock'[row] = Nobody
    BY <1>14, CrashStep
  <2>2. \A t \in Thread : Holding(lock', t, Resting)
    BY DEF Holding, Resting, Working, None
  <2> QED BY <2>1, <2>2 DEF Locks
<1>17. \/ UNCHANGED <<thread, lock>> \/ Crash
       \/ \E t \in Thread : Starting(t) \/ ThreadStep(t)
  BY DEF LoanNext, Starting, loanVars, IssuePool, Patch, ResetDay
<1> QED BY <1>1, <1>2, <1>5, <1>6, <1>7, <1>8, <1>9, <1>10, <1>11, <1>12, <1>13, <1>14,
     <1>17 DEF ThreadStep
\* Nothing that matters about the loan has changed, its status aside.
SameLoan(r, q) == r.borrower = q.borrower /\ r.account = q.account /\ r.cred = q.cred
     /\ r.auto = q.auto /\ r.pool = q.pool

\* A commit that wrote a loan, and one that ended loans.
Stored(t) ==
  /\ Stores(t) /\ Goes(t, After(thread[t])) /\ Frees(t) /\ UNCHANGED <<keys, marks>>
  /\ creds' = CredsAfter(thread[t])
  /\ IF thread[t].op = "move" THEN loans' = [loans EXCEPT ![thread[t].loan] = MovedLoan(thread[t])]
     ELSE \E l \in Loan : loans[l].status = "none"
          /\ loans' = [loans EXCEPT ![l] = NewRow(thread[t])]
Closed(t) ==
  /\ Closes(t) /\ Over(t) /\ UNCHANGED <<keys, marks>>
  /\ \A k \in Key :
       /\ creds'[k].remote = creds[k].remote
       /\ creds'[k].status = IF \E p \in thread[t].ended : p[2] = k THEN "revoked"
            ELSE creds[k].status
  /\ \A l \in Loan :
       /\ SameLoan(loans'[l], loans[l])
       /\ IF \E p \in thread[t].ended : p[1] = l THEN loans'[l].status \in {"revoked", "expired"}
          ELSE loans'[l] = loans[l]

\* Closes commits or rolls back.
LEMMA ClosedOr ==
  ASSUME Types, NEW t \in Thread, Closes(t)
  PROVE  \/ Closed(t)
         \/ UNCHANGED <<creds, loans>> /\ marks' = IF thread[t].recalled THEN marks \cup {"half"}
              ELSE marks
<1>1. CASE UNCHANGED <<creds, loans>> /\ marks' = IF thread[t].recalled THEN marks \cup {"half"}
     ELSE marks
  BY <1>1
<1>2. CASE /\ UNCHANGED marks
           /\ \A k \in Key :
                /\ creds'[k].remote = creds[k].remote
                /\ creds'[k].status = IF \E p \in thread[t].ended : p[2] = k THEN "revoked"
                     ELSE creds[k].status
           /\ \A l \in Loan :
                /\ loans'[l].borrower = loans[l].borrower /\ loans'[l].account = loans[l].account
                /\ loans'[l].cred = loans[l].cred /\ loans'[l].auto = loans[l].auto
                     /\ loans'[l].pool = loans[l].pool
                /\ IF \E p \in thread[t].ended : p[1] = l THEN loans'[l].status \in {"revoked",
                     "expired"}
                   ELSE loans'[l] = loans[l]
  <2>1. Over(t) /\ UNCHANGED keys
    BY ClosesStep
  <2> QED BY <1>2, <2>1 DEF Closed, SameLoan
<1> QED BY <1>1, <1>2, ClosesStep

\* What thread record w turns into when its work is done or given up, goes on, or takes
\* loans back; v is the new record.
Newest(T) == CHOOSE p \in T : \A q \in T : q[1] <= p[1]
Saves(w) ==
  IF w.op = "move" THEN loans' = [loans EXCEPT ![w.loan] = MovedLoan(w)]
  ELSE \E l \in Loan : loans[l].status = "none" /\ loans' = [loans EXCEPT ![l] = NewRow(w)]
Leaving(w, v) ==
  /\ v.old # None => v.old = Left(w) /\ creds' = CredsAfter(w)
  /\ w.recalled => \/ "half" \in marks'
                   \/ w.todo = {} /\ \A p \in w.ended : loans'[p[1]].status # "active"
  /\ w.old \in Key => "kept" \in marks' \/ ~keys'[w.old].live
  /\ w.key # None => \/ "kept" \in marks' \/ (w.at = "storing" /\ Saves(w))
                     \/ w.at = "storing" /\ keys' = Dead(w.remote)
Learning(w, v) ==
  /\ v.at = "storing" => \/ v.remote = v.key
                         \/ v.remote = None /\ "unknown" \in marks'
                         \/ {"namesake", "mistaken"} \cap marks' # {}
  /\ v.op = "move" /\ w.at = "queued" =>
       \/ "stale" \in marks'
       \/ UNCHANGED loans /\ loans[v.loan].status = "active" /\ loans[v.loan].cred = v.view.cred
Returning(w, v) ==
  /\ w.recalled => v.recalled
  /\ \A p \in v.ended : \/ p \in w.ended
                        \/ /\ w.at = "flushing" /\ p = Newest(w.todo)
                                /\ UNCHANGED <<keys, creds, loans>>
                           /\ "stale" \in marks' \/ loans[p[1]].cred = p[2]
  /\ v.at = "flushing" =>
       /\ v.todo = w.todo /\ UNCHANGED <<creds, loans>>
       /\ RemoteOf(Newest(w.todo)[2]) \in Key
            => "kept" \in marks' \/ ~keys'[RemoteOf(Newest(w.todo)[2])].live

\* What a step may do to a thread, whatever the step.
Changed(w, v) ==
  \/ v = w
  \/ /\ v.op = "none" /\ v.todo = {} /\ v.ended = {} /\ v.key = None
          /\ v.at \in {"idle", "finalizing"} /\ v.recalled = FALSE
     /\ Leaving(w, v)
  \/ w.at = "idle" /\ Begun(v)
  \/ /\ SameTask(v, w) /\ w.at \in {"asking", "queued", "admitted", "naming"} /\ v.at \in Working
     /\ w.at = "asking" => UNCHANGED loans /\ ActiveOf(v.borrower) = {}
     /\ v.op = "self" /\ v.at \in {"naming", "storing"} /\ w.at # "naming"
          => UNCHANGED loans /\ ~Full(v.account)
     /\ v.key = w.key \/ (w.key = None /\ v.key = NextKey /\ NextKey \in Key
          /\ UNCHANGED <<creds, loans>> /\ keys'[NextKey].live)
     /\ Learning(w, v)
  \/ SameReturn(v, w) /\ w.at \in TakingBack /\ Returning(w, v)

\* No step does more.
LEMMA ThreadsStep ==
  ASSUME Types, [LoanNext]_loanVars, NEW u \in Thread
  PROVE  thread'[u] \in ThreadRec /\ Staged(thread'[u]) /\ Changed(thread[u], thread'[u])
<1> DEFINE Goal == thread'[u] \in ThreadRec /\ Staged(thread'[u]) /\ Changed(thread[u], thread'[u])
<1>1. CASE UNCHANGED thread
  BY <1>1 DEF Types, Changed
<1>2. ASSUME NEW t \in Thread, NEW v, Goes(t, v), Changed(thread[t], v) PROVE Goal
  <2>1. CASE u = t
    BY <1>2, <2>1, Moved DEF Goes
  <2>2. CASE u # t
    <3>1. thread'[u] = thread[u] /\ thread[u] \in ThreadRec /\ Staged(thread[u])
      BY <1>2, <2>2, Moved DEF Types
    <3>2. \A w : Changed(w, w)
      BY DEF Changed
    <3> QED BY <3>1, <3>2
  <2> QED BY <2>1, <2>2
<1>3. \A w : Leaving(w, Resting) => Changed(w, Resting)
  BY DEF Changed, Resting, None
<1>4. ASSUME NEW t \in Thread, Over(t), Leaving(thread[t], Resting) PROVE Goal
  BY <1>2, <1>3, <1>4 DEF Over
<1>a. Resting.old = None /\ None \notin Key
  BY LoanAssumption DEF Resting, Key, None
<1>b. \A t \in Thread : thread[t].recalled \in BOOLEAN /\ Staged(thread[t])
  BY DEF Types, ThreadRec
<1>c. ASSUME NEW t \in Thread, thread[t].at \notin TakingBack, thread[t].old = None,
     thread[t].key = None
      PROVE  Leaving(thread[t], Resting)
  <2>1. ~thread[t].recalled
    BY <1>b, <1>c DEF Staged
  <2> QED BY <1>a, <1>c, <2>1 DEF Leaving
<1>5. ASSUME NEW t \in Thread, Starting(t) PROVE Goal
  <2>1. PICK v : Goes(t, v) /\ Begun(v) /\ At(t, "idle")
    BY <1>5, Started
  <2>2. Changed(thread[t], v)
    BY <2>1 DEF At, Changed
  <2> QED BY <1>2, <2>1, <2>2
<1>6. ASSUME NEW t \in Thread, Admitted(t) PROVE Goal
  <2>0. thread[t].at = "asking" /\ thread[t].key = None /\ thread[t].old = None
    BY <1>6, <1>b DEF Admitted, At, Staged
  <2>1. ASSUME NEW v, Goes(t, v), SameTask(v, thread[t]), v.at = "admitted",
       ActiveOf(v.borrower) = {}, UNCHANGED loans,
               v.key = None
        PROVE  Goal
    <3>1. Learning(thread[t], v)
      BY <2>0, <2>1 DEF Learning
    <3>2. Changed(thread[t], v)
      BY <2>0, <2>1, <3>1 DEF Changed, Working
    <3> QED BY <1>2, <2>1, <3>2
  <2>2. Leaving(thread[t], Resting)
    BY <1>c, <2>0 DEF TakingBack
  <2> QED BY <1>4, <1>6, <2>1, <2>2, AdmittedStep
<1>7. ASSUME NEW t \in Thread, Validated(t) PROVE Goal
  <2>0. thread[t].at = "queued" /\ thread[t].key = None /\ thread[t].old = None
    BY <1>7, <1>b DEF Validated, At, Staged
  <2>1. ASSUME NEW v, Goes(t, v), SameTask(v, thread[t]), v.at \in {"admitted", "storing"},
       v.op = "move", v.key = None,
               v.view.status = "active", UNCHANGED loans,
               \/ v.view.status = loans[v.loan].status /\ v.view.cred = loans[v.loan].cred
               \/ marks' = marks \cup {"stale"}
        PROVE  Goal
    <3>1. v.at = "storing" => v.remote = v.key
      BY <2>1 DEF Goes, Staged
    <3>2. Learning(thread[t], v)
      BY <2>0, <2>1, <3>1 DEF Learning
    <3>3. Changed(thread[t], v)
      BY <2>0, <2>1, <3>2 DEF Changed, Working
    <3> QED BY <1>2, <2>1, <3>3
  <2>2. Leaving(thread[t], Resting)
    BY <1>c, <2>0 DEF TakingBack
  <2> QED BY <1>4, <1>7, <2>1, <2>2, ValidatedStep
<1>8. ASSUME NEW t \in Thread, Creates(t) PROVE Goal
  <2>0. thread[t].at = "admitted" /\ thread[t].key = None /\ thread[t].old = None
    BY <1>8, <1>b DEF Creates, At, Staged
  <2>1. ASSUME NEW v, Goes(t, v), SameTask(v, thread[t]), v.at = "naming",
       UNCHANGED <<creds, loans>>,
               v.op = "self" => ~Full(v.account), v.key = NextKey, NextKey \in Key,
               keys' = [keys EXCEPT ![NextKey] = [at |-> thread[t].account,
                    name |-> thread[t].borrower, live |-> TRUE]]
        PROVE  Goal
    <3>1. keys'[NextKey].live
      BY <2>1 DEF Types
    <3>2. Learning(thread[t], v)
      BY <2>0, <2>1 DEF Learning
    <3>3. Changed(thread[t], v)
      BY <2>0, <2>1, <3>1, <3>2 DEF Changed, Working
    <3> QED BY <1>2, <2>1, <3>3
  <2>2. Leaving(thread[t], Resting)
    BY <1>c, <2>0 DEF TakingBack
  <2> QED BY <1>4, <1>8, <2>1, <2>2, CreatesStep
<1>9. ASSUME NEW t \in Thread, Resolves(t) PROVE Goal
  <2>0. thread[t].at = "naming" /\ thread[t].old = None /\ ~thread[t].recalled
    BY <1>9, <1>b DEF Resolves, At, Staged, TakingBack
  <2>1. ASSUME NEW v, Goes(t, v), SameTask(v, thread[t]), v.at = "storing", v.key = thread[t].key,
               Learnt(v)
        PROVE  Goal
    <3>2. Learning(thread[t], v)
      BY <2>0, <2>1 DEF Learning, Learnt
    <3>3. Changed(thread[t], v)
      BY <2>0, <2>1, <3>2 DEF Changed, Working
    <3> QED BY <1>2, <2>1, <3>3
  <2>2. "kept" \in marks' => Leaving(thread[t], Resting)
    BY <1>a, <2>0 DEF Leaving
  <2> QED BY <1>4, <1>9, <2>1, <2>2, ResolvesStep
<1>10. ASSUME NEW t \in Thread, Stores(t) PROVE Goal
  <2>0. thread[t].at = "storing" /\ thread[t].old = None /\ ~thread[t].recalled
    BY <1>10, <1>b DEF Stores, At, Staged, TakingBack
  <2>1. CASE Goes(t, After(thread[t])) /\ Saves(thread[t]) /\ creds' = CredsAfter(thread[t])
    <3>1. After(thread[t]).old # None => After(thread[t]).old = Left(thread[t])
      BY DEF After, Resting
    <3>2. Leaving(thread[t], After(thread[t]))
      BY <1>a, <2>0, <2>1, <3>1 DEF Leaving
    <3>3. Changed(thread[t], After(thread[t]))
      BY <3>2 DEF Changed, After, Resting, None
    <3> QED BY <1>2, <2>1, <3>3
  <2>2. CASE Over(t) /\ Revoked(thread[t].remote)
    <3>1. Leaving(thread[t], Resting)
      BY <1>a, <2>0, <2>2 DEF Leaving, Revoked
    <3> QED BY <1>4, <2>2, <3>1
  <2>3. CASE Over(t) /\ marks' = IF thread[t].key = None THEN marks ELSE marks \cup {"kept"}
    <3>1. Leaving(thread[t], Resting)
      BY <1>a, <2>0, <2>3 DEF Leaving
    <3> QED BY <1>4, <2>3, <3>1
  <2>4. \/ Goes(t, After(thread[t])) /\ Saves(thread[t]) /\ creds' = CredsAfter(thread[t])
        \/ Over(t) /\ Revoked(thread[t].remote)
        \/ Over(t) /\ marks' = IF thread[t].key = None THEN marks ELSE marks \cup {"kept"}
    BY <1>10, StoresStep DEF Saves
  <2> QED BY <2>1, <2>2, <2>3, <2>4
<1>11. ASSUME NEW t \in Thread, Finalizes(t) PROVE Goal
  <2>1. thread[t].key = None /\ ~thread[t].recalled
    BY <1>11, <1>b DEF Finalizes, At, Staged, TakingBack
  <2>2. thread[t].old \in RemoteId /\ Over(t)
       /\ (keys' = Dead(thread[t].old) \/ marks' = marks \cup {"kept"})
    BY <1>11, FinalizesStep DEF Revoked
  <2>3. keys' = Dead(thread[t].old) /\ thread[t].old \in Key => ~keys'[thread[t].old].live
    BY <2>2, DeadTyped DEF RemoteId
  <2>4. Leaving(thread[t], Resting)
    BY <1>a, <2>1, <2>2, <2>3 DEF Leaving
  <2> QED BY <1>4, <2>2, <2>4
<1>12. ASSUME NEW t \in Thread, NEW v, Goes(t, v), SameReturn(v, thread[t]),
     thread[t].at \in TakingBack,
              Returning(thread[t], v)
       PROVE  Goal
  <2>1. Changed(thread[t], v)
    BY <1>12 DEF Changed
  <2> QED BY <1>2, <1>12, <2>1
<1>13. ASSUME NEW t \in Thread, Recalls(t) PROVE Goal
  <2> DEFINE x == RemoteOf(Current(t)[2])
  <2>0. /\ thread[t].at = "recalling" /\ Current(t) \in thread[t].todo /\ UNCHANGED <<creds, loans>>
        /\ thread[t].key = None /\ thread[t].old = None /\ Current(t) = Newest(thread[t].todo)
    BY <1>13, <1>b, RecallsStep DEF Staged, Current, Newest
  <2>1. x \in RemoteId
    <3>1. Current(t)[2] \in Key \cup {None}
      BY <2>0 DEF Types, ThreadRec
    <3> QED BY <3>1, RemoteTyped
  <2>3. CASE thread[t].recalled = FALSE /\ Over(t)
    <3>1. Leaving(thread[t], Resting)
      BY <1>a, <2>0, <2>3 DEF Leaving
    <3> QED BY <1>4, <2>3, <3>1
  <2>4. ASSUME NEW v, Goes(t, v), SameReturn(v, thread[t]), v.at = "flushing",
               v.todo = thread[t].todo, v.ended = thread[t].ended,
               thread[t].recalled => v.recalled,
               x \in Key => "kept" \in marks' \/ ~keys'[x].live
        PROVE  Goal
    <3>1. Returning(thread[t], v)
      BY <2>0, <2>4 DEF Returning
    <3> QED BY <1>12, <2>0, <2>4, <3>1 DEF TakingBack
  <2>5. keys' = Dead(x) /\ x \in Key => ~keys'[x].live
    BY <2>1, DeadTyped DEF RemoteId
  <2> HIDE DEF x
  <2>6. \/ /\ keys' = Dead(x)
           /\ \E v : /\ Goes(t, v) /\ SameReturn(v, thread[t]) /\ v.at = "flushing"
                     /\ v.todo = thread[t].todo /\ v.ended = thread[t].ended
                     /\ thread[t].recalled => v.recalled
        \/ /\ (UNCHANGED keys /\ (x \in Key => ~keys[x].live)) \/ marks' = marks \cup {"kept"}
           /\ \E v : /\ Goes(t, v) /\ SameReturn(v, thread[t]) /\ v.at = "flushing"
                     /\ v.todo = thread[t].todo /\ v.ended = thread[t].ended
                     /\ thread[t].recalled => v.recalled
        \/ Over(t) /\ thread[t].recalled = FALSE
    <3>1. \A v : v.recalled = (thread[t].recalled \/ Alive(x)) => (thread[t].recalled => v.recalled)
      BY <1>b
    <3>2. (Revoked(x) => keys' = Dead(x)) /\ (~Alive(x) => (x \in Key => ~keys[x].live))
      BY DEF Revoked, Alive
    <3> QED BY <1>13, <3>1, <3>2, RecallsStep DEF x
  <2> QED BY <2>3, <2>4, <2>5, <2>6
<1>14. ASSUME NEW t \in Thread, Flushes(t) PROVE Goal
  <2>1. /\ thread[t].at = "flushing" /\ UNCHANGED <<keys, creds, loans>>
             /\ Current(t) = Newest(thread[t].todo)
        /\ loans[Current(t)[1]].cred = Current(t)[2] \/ "stale" \in marks'
    BY <1>14, FlushesStep DEF Current, Newest
  <2>2. PICK v : /\ Goes(t, v) /\ SameReturn(v, thread[t]) /\ v.at \in {"closing", "recalling"}
                 /\ v.ended = thread[t].ended \cup {Current(t)} /\ v.recalled = thread[t].recalled
    BY <1>14, FlushesStep
  <2>3. Returning(thread[t], v)
    BY <2>1, <2>2 DEF Returning
  <2> QED BY <1>12, <2>1, <2>2, <2>3 DEF TakingBack
<1>15. ASSUME NEW t \in Thread, Closes(t) PROVE Goal
  <2>0. thread[t].at = "closing" /\ Over(t) /\ thread[t].todo = {} /\ thread[t].key = None
       /\ thread[t].old = None
    BY <1>15, <1>b, ClosesStep DEF Staged
  <2>1. CASE Closed(t)
    <3>1. \A p \in thread[t].ended : p[1] \in Loan
      BY DEF Types, ThreadRec
    <3>2. \A p \in thread[t].ended : loans'[p[1]].status # "active"
      BY <2>1, <3>1 DEF Closed
    <3>3. Leaving(thread[t], Resting)
      BY <1>a, <2>0, <3>2 DEF Leaving
    <3> QED BY <1>4, <2>0, <3>3
  <2>2. CASE marks' = IF thread[t].recalled THEN marks \cup {"half"} ELSE marks
    <3>3. Leaving(thread[t], Resting)
      BY <1>a, <2>0, <2>2 DEF Leaving
    <3> QED BY <1>4, <2>0, <3>3
  <2> QED BY <1>15, <2>1, <2>2, ClosedOr
<1>16. ASSUME Crash PROVE Goal
  <2>1. /\ thread[u].key # None \/ thread[u].old # None => "kept" \in marks'
        /\ thread[u].recalled => "half" \in marks'
        /\ thread'[u] = Resting
    BY <1>16, CrashStep
  <2>2. Leaving(thread[u], Resting)
    BY <1>a, <2>1 DEF Leaving
  <2> QED BY <1>3, <2>1, <2>2, RestingFits
<1>17. \/ UNCHANGED thread \/ Crash
       \/ \E t \in Thread : Starting(t) \/ ThreadStep(t)
  BY DEF LoanNext, Starting, loanVars, IssuePool, Patch, ResetDay
<1> QED BY <1>1, <1>5, <1>6, <1>7, <1>8, <1>9, <1>10, <1>11, <1>13, <1>14, <1>15, <1>16,
     <1>17 DEF ThreadStep

\* The ways in which loan l comes to be issued, is moved, and is taken back.
Issued(l) == \/ \E b \in Borrower : IssuePool(b) /\ loans'[l] = PoolRow(b)
             \/ \E t \in Thread : /\ Stored(t) /\ Over(t) /\ thread[t].op \in {"self", "manual"}
                                       /\ thread[t].at = "storing"
                                  /\ loans'[l] = NewRow(thread[t])
Shifts(l, t) == Stored(t) /\ thread[t].op = "move" /\ thread[t].loan = l /\ thread[t].at = "storing"
     /\ loans'[l] = MovedLoan(thread[t])
Returned(l, t) == /\ Closed(t) /\ \E p \in thread[t].ended : p[1] = l
                  /\ loans'[l].status \in {"revoked", "expired"} /\ SameLoan(loans'[l], loans[l])

\* In no other way does a step change what matters about a loan.
LEMMA RowsStep ==
  ASSUME Types, [LoanNext]_loanVars, NEW l \in Loan
  PROVE  \/ loans'[l].status = loans[l].status /\ SameLoan(loans'[l], loans[l])
         \/ loans[l].status = "none" /\ Issued(l)
         \/ \E t \in Thread : Shifts(l, t) \/ Returned(l, t)
<1> DEFINE Same == loans'[l].status = loans[l].status /\ SameLoan(loans'[l], loans[l])
           Goal == \/ Same
                   \/ loans[l].status = "none" /\ Issued(l)
                   \/ \E t \in Thread : Shifts(l, t) \/ Returned(l, t)
<1>0. loans'[l] = loans[l] => Same
  BY DEF SameLoan
<1>1. CASE UNCHANGED loans
  BY <1>0, <1>1
<1>2. ASSUME NEW t \in Thread, Stores(t) PROVE Goal
  <2> DEFINE w == thread[t]
  <2>0. w \in ThreadRec /\ Staged(w) /\ w.at = "storing" /\ loans \in [Loan -> LoanRow]
    BY <1>2, StoresStep DEF Types
  <2> DEFINE Success == /\ Goes(t, After(w)) /\ Frees(t) /\ UNCHANGED <<keys, marks>>
                        /\ creds' = CredsAfter(w)
                        /\ IF w.op = "move" THEN loans' = [loans EXCEPT ![w.loan] = MovedLoan(w)]
                           ELSE \E m \in Loan : loans[m].status = "none"
                                /\ loans' = [loans EXCEPT ![m] = NewRow(w)]
  <2>3. Success => Stored(t)
    BY <1>2 DEF Stored
  <2> HIDE DEF Success
  <2>1. CASE w.op = "move" /\ Success /\ loans' = [loans EXCEPT ![w.loan] = MovedLoan(w)]
    <3>1. CASE l = w.loan
      <4>1. loans'[l] = MovedLoan(w)
        BY <2>0, <2>1, <3>1
      <4> QED BY <2>0, <2>1, <2>3, <3>1, <4>1 DEF Shifts
    <3>2. CASE l # w.loan
      <4>1. loans'[l] = loans[l]
        BY <2>0, <2>1, <3>2
      <4> QED BY <1>0, <4>1
    <3> QED BY <3>1, <3>2
  <2>2. CASE w.op # "move" /\ Success
             /\ \E m \in Loan : loans[m].status = "none" /\ loans' = [loans EXCEPT ![m] = NewRow(w)]
    <3>1. PICK m \in Loan : loans[m].status = "none" /\ loans' = [loans EXCEPT ![m] = NewRow(w)]
      BY <2>2
    <3>2. CASE l # m
      <4>1. loans'[l] = loans[l]
        BY <2>0, <3>1, <3>2
      <4> QED BY <1>0, <4>1
    <3>3. CASE l = m
      <4>1. loans'[l] = NewRow(w)
        BY <2>0, <3>1, <3>3
      <4>2. w.op \in {"self", "manual"}
        BY <2>0, <2>2 DEF Staged, Working
      <4>3. After(w) = Resting
        BY <2>2 DEF After, Left, Leaves
      <4>4. Over(t)
        BY <2>2, <4>3 DEF Over, Success
      <4> QED BY <2>0, <2>2, <2>3, <3>1, <3>3, <4>1, <4>2, <4>4 DEF Issued
    <3> QED BY <3>2, <3>3
  <2> QED BY <1>1, <1>2, <2>1, <2>2, StoresStep DEF Success
<1>3. ASSUME NEW t \in Thread, Closes(t) PROVE Goal
  <2>1. CASE Closed(t)
    <3>1. SameLoan(loans'[l], loans[l])
      BY <2>1 DEF Closed
    <3>2. CASE \E p \in thread[t].ended : p[1] = l
      BY <2>1, <3>1, <3>2 DEF Returned, Closed
    <3>3. CASE ~\E p \in thread[t].ended : p[1] = l
      BY <1>0, <2>1, <3>3 DEF Closed
    <3> QED BY <3>2, <3>3
  <2> QED BY <1>1, <1>3, <2>1, ClosedOr
<1>4. ASSUME NEW b \in Borrower, IssuePool(b) PROVE Goal
  <2>1. PICK m \in Loan : loans[m].status = "none" /\ loans' = [loans EXCEPT ![m] = PoolRow(b)]
    BY <1>4, PoolStep
  <2>2. CASE l = m
    <3>1. loans'[l] = PoolRow(b)
      BY <2>1, <2>2 DEF Types
    <3> QED BY <1>4, <2>1, <2>2, <3>1 DEF Issued
  <2>3. CASE l # m
    <3>1. loans'[l] = loans[l]
      BY <2>1, <2>3 DEF Types
    <3> QED BY <1>0, <3>1
  <2> QED BY <2>2, <2>3
<1>5. CASE Aside
  BY <1>5 DEF Aside, SameLoan
<1>6. ASSUME NEW m \in Loan, Patch(m) PROVE Goal
  BY <1>5, <1>6, PatchStep
<1>7. ASSUME NEW a \in Account, ResetDay(a) PROVE Goal
  BY <1>5, <1>7, ResetDayStep
<1>17. \/ UNCHANGED loans
       \/ \E t \in Thread : Stores(t) \/ Closes(t)
       \/ \E b \in Borrower : IssuePool(b)
       \/ \E m \in Loan : Patch(m)
       \/ \E a \in Account : ResetDay(a)
  <2>1. ASSUME NEW t \in Thread, Starting(t) PROVE UNCHANGED loans
    BY <2>1, Started
  <2>2. ASSUME NEW t \in Thread, ThreadStep(t) PROVE UNCHANGED loans \/ Stores(t) \/ Closes(t)
    BY <2>2 DEF ThreadStep, Admitted, Validated, Creates, Resolves, Finalizes, Recalls, Flushes
  <2>3. Crash => UNCHANGED loans
    BY DEF Crash
  <2>4. UNCHANGED loanVars => UNCHANGED loans
    BY DEF loanVars
  <2>5. \/ UNCHANGED loanVars \/ Crash
        \/ \E t \in Thread : Starting(t) \/ ThreadStep(t)
        \/ \E b \in Borrower : IssuePool(b)
        \/ \E m \in Loan : Patch(m)
        \/ \E a \in Account : ResetDay(a)
    BY DEF LoanNext, Starting
  <2> QED BY <2>1, <2>2, <2>3, <2>4, <2>5
<1> QED BY <1>1, <1>2, <1>3, <1>4, <1>6, <1>7, <1>17

\* A loan stays issued, for the same borrower, and once over does not come back.
LEMMA StatusKept ==
  ASSUME Types, [LoanNext]_loanVars, NEW l \in Loan
  PROVE  /\ loans[l].status # "none"
              => loans'[l].status # "none" /\ loans'[l].borrower = loans[l].borrower
         /\ loans'[l].status = "active" => loans[l].status \in {"none", "active"}
         /\ loans'[l].status = "active" /\ loans[l].status = "none" => Issued(l)
<1>1. CASE loans'[l].status = loans[l].status /\ SameLoan(loans'[l], loans[l])
  BY <1>1 DEF SameLoan
<1>2. CASE loans[l].status = "none" /\ Issued(l)
  BY <1>2
<1>3. ASSUME NEW t \in Thread, Shifts(l, t)
      PROVE  loans'[l].status = loans[l].status /\ loans'[l].borrower = loans[l].borrower
  BY <1>3, MovedRow DEF Shifts, Types
<1>4. ASSUME NEW t \in Thread, Returned(l, t)
      PROVE  loans'[l].status \in {"revoked", "expired"} /\ loans'[l].borrower = loans[l].borrower
  BY <1>4 DEF Returned, SameLoan, Closed
<1>5. Issued(l) => loans'[l].status = "active"
  <2>1. \A b \in Borrower : PoolRow(b).status = "active"
    BY PoolRowFits
  <2>2. \A t \in Thread : NewRow(thread[t]).status = "active"
    BY NewRowFits DEF Types
  <2> QED BY <2>1, <2>2 DEF Issued
<1> QED BY <1>1, <1>2, <1>3, <1>4, <1>5, RowsStep

\* Loans that threads work on stay in the table.
LEMMA BookedKept == Types /\ Booked /\ [LoanNext]_loanVars => Booked'
<1> SUFFICES ASSUME Types, Booked, [LoanNext]_loanVars, NEW t \in Thread
    PROVE  /\ thread'[t].op = "move" => loans'[thread'[t].loan].status # "none"
           /\ thread'[t].op \in {"self", "manual"} => thread'[t].view.cred = None
           /\ \A p \in thread'[t].todo \cup thread'[t].ended : loans'[p[1]].status # "none"
  BY DEF Booked
<1> DEFINE w == thread[t]
<1>1. PICK v : v = thread'[t]
  OBVIOUS
<1>2. w \in ThreadRec /\ Staged(w) /\ v \in ThreadRec /\ Staged(v) /\ Changed(w, v)
  BY <1>1, ThreadsStep DEF Types
<1>3. \A l \in Loan : loans[l].status # "none" => loans'[l].status # "none"
  BY StatusKept
<1>4. w.op = "move" => loans[w.loan].status # "none"
  BY DEF Booked
<1>5. \A p \in w.todo \cup w.ended : loans[p[1]].status # "none"
  BY DEF Booked
<1>8. w.op \in {"self", "manual"} => w.view.cred = None
  BY DEF Booked
<1> HIDE DEF w
<1>9. v.op \in {"self", "manual"} => v.view.cred = None
  <2>2. SameReturn(v, w) /\ w.at \in TakingBack => v.op \notin {"self", "manual"}
    BY <1>2 DEF SameReturn, Staged
  <2> QED BY <1>2, <1>8, <2>2 DEF Changed, Begun, SameTask
<1>6. v.op = "move" => v.loan \in Loan /\ loans[v.loan].status # "none"
  <2>1. v.op = "move" => v.loan \in Loan
    BY <1>2, HoldTypes
  <2>2. SameReturn(v, w) /\ w.at \in TakingBack => v.op # "move"
    BY <1>2 DEF SameReturn, Staged
  <2> QED BY <1>2, <1>4, <2>1, <2>2 DEF Changed, Begun, SameTask
<1>7. \A p \in v.todo \cup v.ended : p[1] \in Loan /\ loans[p[1]].status # "none"
  <2>1. \A p \in v.todo \cup v.ended : p[1] \in Loan
    BY <1>2, HoldTypes
  <2> QED BY <1>2, <1>5, <2>1 DEF Changed, Begun, SameTask, SameReturn
<1> QED BY <1>1, <1>3, <1>6, <1>7, <1>9

\* The inductive invariant the other proofs start from.
Base == Types /\ Locks /\ Booked

\* It holds in every state.
LEMMA BaseHolds == LoanSpec => []Base
<1>1. LoanInit => Base
  <2> SUFFICES ASSUME LoanInit PROVE Base
    OBVIOUS
  <2>1. Types
    BY TypesAtFirst
  <2>2. \A t \in Thread : thread[t] = Resting
    BY DEF LoanInit
  <2>3. \A row \in Row : lock[row] = Nobody
    BY DEF LoanInit, Row
  <2>4. Locks
    BY <2>2, <2>3 DEF Locks, Holding, Resting, None, Working
  <2>5. Booked
    BY <2>2 DEF Booked, Resting
  <2> QED BY <2>1, <2>4, <2>5 DEF Base
<1>2. Base /\ [LoanNext]_loanVars => Base'
  BY TypesKept, LocksHold, BookedKept DEF Base
<1> QED BY <1>1, <1>2, PTL DEF LoanSpec

\* Type correctness of the keys at Cursor, the credentials, the loans, the row locks and
\* the threads (key_loan_issue.py, key_loan_state.py and their callers): a row is locked
\* only by a thread in a transaction.
THEOREM LoanTyped == LoanSpec => []LoanTypeOK
<1>1. Base => LoanTypeOK
  <2> SUFFICES ASSUME Base PROVE LoanTypeOK
    OBVIOUS
  <2>1. DOMAIN lock = Row
    BY DEF Base, Types, Row
  <2> QED BY <2>1 DEF Base, Types, Locks, LoanTypeOK
<1> QED BY <1>1, BaseHolds, PTL

-----------------------------------------------------------------------------
(* The safety properties *)


\* A loan from self-service, or one that a pending move could make look like it: auto
\* without pool, in the row or in what a mover has read of it.
Odd(row) == row.auto # row.pool
Selfish(l) ==
  \/ Odd(loans[l])
  \/ \E t \in Thread : thread[t].op = "move" /\ thread[t].loan = l /\ Odd(thread[t].view)
\* The self-service loans of a member, in that wide sense.
SelfLoans(b) == {l \in Loan : loans[l].status = "active" /\ loans[l].borrower = b /\ Selfish(l)}
\* A member has one of them, and none while a thread that has found none issues one to him.
Single ==
  /\ \A l, m \in Loan :
       /\ loans[l].status = "active" /\ loans[m].status = "active"
       /\ loans[l].borrower = loans[m].borrower /\ Selfish(l) /\ Selfish(m)
       => l = m
  /\ \A t \in Thread :
       thread[t].op = "self" /\ thread[t].at \in Working => SelfLoans(thread[t].borrower) = {}

\* One row is issued at a time.
LEMMA OneIssued ==
  ASSUME Types, [LoanNext]_loanVars, NEW l \in Loan, NEW m \in Loan, loans[l].status = "none",
         loans[m].status = "none", loans'[l].status = "active", loans'[m].status = "active"
  PROVE  l = m
<1>1. ASSUME NEW r, NEW x \in Loan, loans' = [loans EXCEPT ![x] = r] PROVE l = m
  <2>1. \A y \in Loan : y # x => loans'[y] = loans[y]
    BY <1>1 DEF Types
  <2> QED BY <2>1
<1>2. Issued(l)
  BY StatusKept
<1>3. ASSUME NEW b \in Borrower, IssuePool(b) PROVE l = m
  BY <1>1, <1>3, PoolStep
<1>4. ASSUME NEW t \in Thread, Stores(t), thread[t].op \in {"self", "manual"} PROVE l = m
  <2>1. CASE UNCHANGED loans
    BY <2>1
  <2>2. CASE \E x \in Loan : loans[x].status = "none"
       /\ loans' = [loans EXCEPT ![x] = NewRow(thread[t])]
    BY <1>1, <2>2
  <2> QED BY <1>4, <2>1, <2>2, StoresStep
<1> QED BY <1>2, <1>3, <1>4 DEF Issued, Stored

\* No step turns a loan issued otherwise into a self-service one.
LEMMA OddStays ==
  ASSUME Base, [LoanNext]_loanVars, NEW l \in Loan, loans[l].status # "none", Selfish(l)'
  PROVE  Selfish(l)
<1>1. Types
  BY DEF Base
<1>2. ASSUME Odd(loans'[l]) PROVE Selfish(l)
  <2>1. CASE loans'[l].status = loans[l].status /\ SameLoan(loans'[l], loans[l])
    BY <1>2, <2>1 DEF SameLoan, Odd, Selfish
  <2>2. ASSUME NEW t \in Thread, Returned(l, t) PROVE Selfish(l)
    BY <1>2, <2>2 DEF Returned, SameLoan, Odd, Selfish
  <2>3. ASSUME NEW t \in Thread, Shifts(l, t), ~Selfish(l) PROVE FALSE
    <3>1. /\ thread[t].op = "move" /\ thread[t].loan = l /\ thread[t] \in ThreadRec
               /\ loans \in [Loan -> LoanRow]
          /\ loans'[l] = MovedLoan(thread[t])
      BY <1>1, <2>3 DEF Shifts, Types
    <3>2. /\ loans'[l].auto = Written(thread[t].view.auto, thread[t].account = NoAccount,
               loans[l].auto)
          /\ loans'[l].pool = Written(thread[t].view.pool, thread[t].account = NoAccount,
               loans[l].pool)
      BY <3>1, MovedRow
    <3>3. thread[t].view.auto = thread[t].view.pool /\ loans[l].auto = loans[l].pool
      BY <2>3, <3>1 DEF Selfish, Odd
    <3> QED BY <1>2, <3>2, <3>3 DEF Odd
  <2> QED BY <1>1, <2>1, <2>2, <2>3, RowsStep
<1>3. ASSUME NEW t \in Thread, thread'[t].op = "move", thread'[t].loan = l, Odd(thread'[t].view)
      PROVE Selfish(l)
  <2>1. PICK v : v = thread'[t]
    OBVIOUS
  <2>2. thread[t] \in ThreadRec /\ Staged(thread[t]) /\ Changed(thread[t], v)
    BY <1>1, <2>1, ThreadsStep DEF Types
  <2>3. SameReturn(v, thread[t]) /\ thread[t].at \in TakingBack => v.op # "move"
    BY <2>2 DEF SameReturn, Staged
  <2>4. v.op = "move" /\ v.loan = l /\ Odd(v.view)
    BY <1>3, <2>1
  <2>5. CASE v = thread[t] \/ SameTask(v, thread[t])
    BY <2>4, <2>5 DEF SameTask, Selfish
  <2>6. CASE Begun(v)
    BY <2>4, <2>6 DEF Begun, Selfish
  <2> QED BY <2>2, <2>3, <2>4, <2>5, <2>6 DEF Changed
<1> QED BY <1>2, <1>3 DEF Selfish

\* Of a row just issued, only its own columns count: nobody has read it.
LEMMA OddWhenNew ==
  ASSUME Base, [LoanNext]_loanVars, NEW l \in Loan, loans[l].status = "none",
         loans'[l].status = "active", Selfish(l)'
  PROVE  \E t \in Thread : Stores(t) /\ Over(t) /\ thread[t].op = "self" /\ thread[t].at = "storing"
                           /\ loans'[l].borrower = thread[t].borrower
<1>1. Types /\ Booked
  BY DEF Base
<1>2. ASSUME NEW t \in Thread, thread'[t].op = "move", thread'[t].loan = l PROVE FALSE
  <2>1. PICK v : v = thread'[t]
    OBVIOUS
  <2>2. thread[t] \in ThreadRec /\ Staged(thread[t]) /\ Changed(thread[t], v)
    BY <1>1, <2>1, ThreadsStep DEF Types
  <2>3. SameReturn(v, thread[t]) /\ thread[t].at \in TakingBack => v.op # "move"
    BY <2>2 DEF SameReturn, Staged
  <2>4. v.op = "move" /\ v.loan = l
    BY <1>2, <2>1
  <2>5. CASE v = thread[t] \/ SameTask(v, thread[t])
    BY <1>1, <2>4, <2>5 DEF SameTask, Booked
  <2>6. CASE Begun(v)
    BY <2>4, <2>6 DEF Begun
  <2> QED BY <2>2, <2>3, <2>4, <2>5, <2>6 DEF Changed
<1>3. loans'[l].auto # loans'[l].pool
  BY <1>2 DEF Selfish, Odd
<1>4. Issued(l)
  BY <1>1, StatusKept
<1>5. ASSUME NEW b \in Borrower, loans'[l] = PoolRow(b) PROVE FALSE
  BY <1>3, <1>5, PoolRowFits
<1>6. PICK t \in Thread : /\ Stores(t) /\ Over(t) /\ thread[t].op \in {"self", "manual"}
                               /\ thread[t].at = "storing"
                          /\ loans'[l] = NewRow(thread[t])
  BY <1>4, <1>5 DEF Issued, Stored
<1>7. thread[t].op = "self" /\ loans'[l].borrower = thread[t].borrower
  <2>1. thread[t] \in ThreadRec
    BY <1>1 DEF Types
  <2>2. /\ NewRow(thread[t]).auto = (thread[t].op = "self") /\ NewRow(thread[t]).pool = FALSE
        /\ NewRow(thread[t]).borrower = thread[t].borrower
    BY <2>1, NewRowFits
  <2>3. (thread[t].op = "self") # FALSE
    BY <1>3, <1>6, <2>2
  <2> QED BY <1>6, <2>2, <2>3
<1> QED BY <1>6, <1>7

\* Every step keeps self-service loans single.
LEMMA SingleKept == Base /\ Single /\ [LoanNext]_loanVars => Single'
<1> SUFFICES ASSUME Base, Single, [LoanNext]_loanVars PROVE Single'
  OBVIOUS
<1>1. Types /\ Locks
  BY DEF Base
<1>2. ASSUME NEW l \in Loan, loans'[l].status = "active", loans[l].status # "none", Selfish(l)'
      PROVE  l \in SelfLoans(loans'[l].borrower)
  <2>1. loans[l].status = "active" /\ loans[l].borrower = loans'[l].borrower
    BY <1>1, <1>2, StatusKept
  <2>2. Selfish(l)
    BY <1>2, OddStays
  <2> QED BY <2>1, <2>2 DEF SelfLoans
<1>3. ASSUME NEW l \in Loan, loans'[l].status = "active", loans[l].status = "none", Selfish(l)'
      PROVE  /\ SelfLoans(loans'[l].borrower) = {}
             /\ \E t \in Thread : Over(t) /\ loans'[l].borrower \in Borrower
                  /\ lock[loans'[l].borrower] = t
  <2>1. PICK t \in Thread : Over(t) /\ thread[t].op = "self" /\ thread[t].at = "storing"
       /\ loans'[l].borrower = thread[t].borrower
    BY <1>3, OddWhenNew
  <2>2. SelfLoans(thread[t].borrower) = {}
    BY <2>1 DEF Single, Working
  <2>3. thread[t].borrower \in Borrower
    BY <1>1, <2>1 DEF Types, Staged
  <2>4. lock[thread[t].borrower] = t
    BY <1>1, <2>1 DEF Locks, Holding, Working
  <2> QED BY <2>1, <2>2, <2>3, <2>4
<1>4. ASSUME NEW l \in Loan, NEW m \in Loan, loans'[l].status = "active",
     loans'[m].status = "active",
             loans'[l].borrower = loans'[m].borrower, Selfish(l)', Selfish(m)'
      PROVE  l = m
  <2>1. CASE loans[l].status # "none" /\ loans[m].status # "none"
    <3>1. l \in SelfLoans(loans'[l].borrower) /\ m \in SelfLoans(loans'[l].borrower)
      BY <1>2, <1>4, <2>1
    <3> QED BY <3>1 DEF Single, SelfLoans
  <2>2. CASE loans[l].status = "none" /\ loans[m].status # "none"
    <3>1. SelfLoans(loans'[l].borrower) = {}
      BY <1>3, <1>4, <2>2
    <3>2. m \in SelfLoans(loans'[m].borrower)
      BY <1>2, <1>4, <2>2
    <3> QED BY <1>4, <3>1, <3>2
  <2>3. CASE loans[l].status # "none" /\ loans[m].status = "none"
    <3>1. SelfLoans(loans'[m].borrower) = {}
      BY <1>3, <1>4, <2>3
    <3>2. l \in SelfLoans(loans'[l].borrower)
      BY <1>2, <1>4, <2>3
    <3> QED BY <1>4, <3>1, <3>2
  <2>4. CASE loans[l].status = "none" /\ loans[m].status = "none"
    BY <1>1, <1>4, <2>4, OneIssued
  <2> QED BY <2>1, <2>2, <2>3, <2>4
<1>5. ASSUME NEW t \in Thread, thread'[t].op = "self", thread'[t].at \in Working,
             NEW l \in Loan, loans'[l].status = "active", loans'[l].borrower = thread'[t].borrower,
                  Selfish(l)'
      PROVE  FALSE
  <2>1. PICK v : v = thread'[t]
    OBVIOUS
  <2>2. thread[t] \in ThreadRec /\ Staged(thread[t]) /\ Changed(thread[t], v) /\ v.op = "self"
       /\ v.at \in Working
    BY <1>1, <1>5, <2>1, ThreadsStep DEF Types
  <2>3. CASE (v = thread[t] \/ SameTask(v, thread[t])) /\ thread[t].at \in Working
    <3>1. thread[t].op = "self" /\ thread[t].borrower = v.borrower
      BY <2>2, <2>3 DEF SameTask
    <3>2. SelfLoans(v.borrower) = {} /\ lock[v.borrower] = t
      BY <1>1, <2>3, <3>1 DEF Single, Locks, Holding
    <3>3. CASE loans[l].status # "none"
      BY <1>2, <1>5, <2>1, <3>2, <3>3
    <3>4. CASE loans[l].status = "none"
      <4>1. Over(t)
        BY <1>3, <1>5, <2>1, <3>2, <3>4
      <4>2. v = Resting
        BY <1>1, <2>1, <4>1, Moved DEF Over
      <4> QED BY <2>2, <4>2 DEF Resting
    <3> QED BY <3>3, <3>4
  <2>4. CASE SameTask(v, thread[t]) /\ thread[t].at = "asking" /\ UNCHANGED loans
       /\ ActiveOf(v.borrower) = {}
    BY <1>5, <2>1, <2>4 DEF ActiveOf
  <2>5. CASE v = thread[t]
    BY <2>2, <2>3, <2>5
  <2>6. CASE Begun(v)
    BY <2>2, <2>6 DEF Begun, Working
  <2>7. CASE SameReturn(v, thread[t]) /\ thread[t].at \in TakingBack
    BY <2>2, <2>7 DEF SameReturn, Staged
  <2>8. thread[t].at = "queued" => thread[t].op = "move"
    BY <2>2 DEF Staged
  <2>9. CASE /\ SameTask(v, thread[t])
                  /\ thread[t].at \in {"asking", "queued", "admitted", "naming"} /\ v.at \in Working
             /\ thread[t].at = "asking" => UNCHANGED loans /\ ActiveOf(v.borrower) = {}
             /\ v.op = "self" /\ v.at \in {"naming", "storing"} /\ thread[t].at # "naming"
                  => UNCHANGED loans /\ ~Full(v.account)
    BY <2>2, <2>3, <2>4, <2>8, <2>9 DEF SameTask, Working
  <2> QED BY <2>2, <2>5, <2>6, <2>7, <2>9 DEF Changed
<1>6. ASSUME NEW t \in Thread, (thread[t].op = "self" /\ thread[t].at \in Working)'
      PROVE  (SelfLoans(thread[t].borrower) = {})'
  BY <1>5, <1>6 DEF SelfLoans
<1> QED BY <1>4, <1>6 DEF Single

\* They are in every state.
LEMMA SingleHolds == LoanSpec => []Single
<1>1. LoanInit => Single
  <2> SUFFICES ASSUME LoanInit PROVE Single
    OBVIOUS
  <2>1. (\A t \in Thread : thread[t] = Resting) /\ \A l \in Loan : loans[l].status = "none"
    BY DEF LoanInit, NoLoanRow
  <2> QED BY <2>1 DEF Single, Resting
<1>2. Base /\ Single /\ [LoanNext]_loanVars => Single'
  BY SingleKept
<1> QED BY <1>1, <1>2, BaseHolds, PTL DEF LoanSpec

\* However requests interleave and fail, who helps himself has one such loan at a time: the
\* member's row is locked from the count to the commit, and moves and stale writes make no
\* self-service loan of another (request_self_service_loan).
THEOREM OneHolds == LoanSpec => []OneSelfLoan
<1>1. Base /\ Single => OneSelfLoan
  <2> SUFFICES ASSUME Base, Single, NEW l \in Loan, NEW m \in Loan,
                      loans[l].status = "active" /\ loans[l].auto /\ ~loans[l].pool,
                      loans[m].status = "active" /\ loans[m].auto /\ ~loans[m].pool,
                      loans[l].borrower = loans[m].borrower
      PROVE  l = m
    BY DEF OneSelfLoan
  <2>1. Selfish(l) /\ Selfish(m)
    BY DEF Selfish, Odd
  <2> QED BY <2>1 DEF Single
<1> QED BY <1>1, BaseHolds, SingleHolds, PTL

\* Who helps himself, once past the count, has room on the account until the commit.
Room ==
  \A t \in Thread : thread[t].op = "self" /\ thread[t].at \in {"naming", "storing"} =>
    Cardinality(ActiveOn(loans, thread[t].account)) < LoanCap

\* A loan comes to be active on an account only by the thread that has the account locked,
\* which is then over.
LEMMA Grows ==
  ASSUME Base, [LoanNext]_loanVars, NEW a \in Account, NEW l \in ActiveOn(loans', a),
         l \notin ActiveOn(loans, a)
  PROVE  \E t \in Thread : lock[a] = t /\ thread'[t].at \in {"idle", "finalizing"}
       /\ thread'[t].key = None
<1>1. Types /\ Locks /\ l \in Loan /\ loans'[l].status = "active" /\ loans'[l].account = a
     /\ a # NoAccount
  BY LoanAssumption DEF Base, ActiveOn
<1>2. CASE loans'[l].status = loans[l].status /\ SameLoan(loans'[l], loans[l])
  BY <1>1, <1>2 DEF SameLoan, ActiveOn
<1>3. ASSUME NEW b \in Borrower, loans'[l] = PoolRow(b) PROVE FALSE
  BY <1>1, <1>3, PoolRowFits
<1>4. ASSUME NEW t \in Thread, Stores(t), thread[t].key # None, thread[t].account = a
      PROVE  lock[a] = t /\ thread'[t].at \in {"idle", "finalizing"} /\ thread'[t].key = None
  <2>1. lock[a] = t
    BY <1>1, <1>4 DEF Locks, Holding
  <2>2. \A v : Goes(t, v) => thread'[t] = v
    BY <1>1, Moved
  <2>3. /\ Resting.at \in {"idle", "finalizing"} /\ Resting.key = None
        /\ After(thread[t]).at \in {"idle", "finalizing"} /\ After(thread[t]).key = None
    BY DEF Resting, After
  <2> QED BY <1>1, <1>4, <2>1, <2>2, <2>3, StoresStep DEF Over
<1>5. ASSUME NEW t \in Thread, Stores(t), thread[t].op \in {"self", "manual"},
     thread[t].at = "storing",
             loans'[l] = NewRow(thread[t])
      PROVE  thread[t].key # None /\ thread[t].account = a
  <2>1. thread[t] \in ThreadRec /\ Staged(thread[t])
    BY <1>1 DEF Types
  <2>2. thread[t].key # None
    BY <1>5, <2>1 DEF Staged
  <2>3. NewRow(thread[t]).account = thread[t].account
    BY <2>1, NewRowFits
  <2> QED BY <1>1, <1>5, <2>2, <2>3
<1>6. ASSUME NEW t \in Thread, Shifts(l, t) PROVE thread[t].key # None /\ thread[t].account = a
  <2> DEFINE w == thread[t]
  <2>1. w \in ThreadRec /\ Staged(w) /\ loans \in [Loan -> LoanRow] /\ w.loan = l
       /\ w.at = "storing"
        /\ loans'[l] = MovedLoan(w)
    BY <1>1, <1>6 DEF Types, Shifts
  <2>2. /\ loans'[l].status = loans[l].status
        /\ loans'[l].account = Written(w.view.account, w.account, loans[l].account)
    BY <1>1, <2>1, MovedRow
  <2>3. w.account # w.view.account /\ w.account = a
    BY <1>1, <2>2 DEF Written, ActiveOn
  <2> QED BY <1>1, <2>1, <2>3 DEF Staged
<1>7. ASSUME NEW t \in Thread, Returned(l, t) PROVE FALSE
  BY <1>1, <1>7 DEF Returned
<1>8. ASSUME NEW t \in Thread, Stores(t), thread[t].key # None, thread[t].account = a
      PROVE  \E u \in Thread : lock[a] = u /\ thread'[u].at \in {"idle", "finalizing"}
           /\ thread'[u].key = None
  BY <1>4, <1>8
<1>9. Issued(l) => \E u \in Thread : lock[a] = u /\ thread'[u].at \in {"idle", "finalizing"}
     /\ thread'[u].key = None
  BY <1>3, <1>5, <1>8 DEF Issued, Stored
<1>10. \A t \in Thread : Shifts(l, t)
     => \E u \in Thread : lock[a] = u /\ thread'[u].at \in {"idle", "finalizing"}
          /\ thread'[u].key = None
  BY <1>6, <1>8 DEF Shifts, Stored
<1> QED BY <1>1, <1>2, <1>7, <1>9, <1>10, RowsStep

\* So nobody takes the room another has counted on.
LEMMA RoomKept == Base /\ Room /\ [LoanNext]_loanVars => Room'
<1> SUFFICES ASSUME Base, Room, [LoanNext]_loanVars, NEW t \in Thread,
                    thread'[t].op = "self", thread'[t].at \in {"naming", "storing"}
    PROVE  Cardinality(ActiveOn(loans', thread'[t].account)) < LoanCap
  BY DEF Room, ActiveOn
<1> DEFINE w == thread[t]
<1>1. PICK v : v = thread'[t]
  OBVIOUS
<1>2. Types /\ Locks
  BY DEF Base
<1>3. w \in ThreadRec /\ Staged(w) /\ v \in ThreadRec /\ Staged(v) /\ Changed(w, v)
      /\ v.op = "self" /\ v.at \in {"naming", "storing"}
  BY <1>1, <1>2, ThreadsStep DEF Types
<1>4. v.account \in Account /\ v.key # None
  BY <1>3 DEF Staged
<1>5. CASE UNCHANGED loans /\ ~Full(v.account)
  <2>1. Cardinality(ActiveOn(loans, v.account)) \in Nat /\ LoanCap \in Nat
    <3>1. IsFiniteSet(Loan)
      BY LoanAssumption, FS_Interval DEF Loan
    <3>2. IsFiniteSet(ActiveOn(loans, v.account))
      BY <3>1, FS_Subset DEF ActiveOn
    <3> QED BY <3>2, FS_CardinalityType, LoanAssumption
  <2> QED BY <1>1, <1>5, <2>1 DEF Full, ActiveOn
<1>6. CASE (v = w \/ SameTask(v, w)) /\ w.at \in {"naming", "storing"}
  <2>1. w.op = "self" /\ w.account = v.account
    BY <1>3, <1>6 DEF SameTask
  <2>2. Cardinality(ActiveOn(loans, v.account)) < LoanCap
    BY <1>6, <2>1 DEF Room
  <2>3. lock[v.account] = t
    BY <1>2, <1>3, <1>6, <2>1 DEF Locks, Holding, Staged
  <2>4. ActiveOn(loans', v.account) \subseteq ActiveOn(loans, v.account)
    <3> SUFFICES ASSUME NEW l \in ActiveOn(loans', v.account), l \notin ActiveOn(loans, v.account)
                 PROVE FALSE
      OBVIOUS
    <3>1. PICK u \in Thread : lock[v.account] = u /\ thread'[u].key = None
      BY <1>4, Grows
    <3> QED BY <1>1, <1>4, <2>3, <3>1
  <2>5. IsFiniteSet(ActiveOn(loans, v.account))
    <3>1. IsFiniteSet(Loan)
      BY LoanAssumption, FS_Interval DEF Loan
    <3> QED BY <3>1, FS_Subset DEF ActiveOn
  <2>6. /\ Cardinality(ActiveOn(loans', v.account)) <= Cardinality(ActiveOn(loans, v.account))
        /\ Cardinality(ActiveOn(loans', v.account)) \in Nat
             /\ Cardinality(ActiveOn(loans, v.account)) \in Nat
    BY <2>4, <2>5, FS_Subset, FS_CardinalityType
  <2> QED BY <1>1, <2>2, <2>6, LoanAssumption
<1>7. CASE SameReturn(v, w) /\ w.at \in TakingBack
  BY <1>4, <1>7 DEF SameReturn
<1>8. CASE Begun(v)
  BY <1>3, <1>8 DEF Begun
<1>9. w.at = "storing" => w.at \in {"naming", "storing"}
  OBVIOUS
<1>10. v = w => w.at \in {"naming", "storing"}
  BY <1>3
<1>11. w.at = "naming" \/ (UNCHANGED loans /\ ~Full(v.account))
     \/ ~(SameTask(v, w) /\ w.at \in {"asking", "queued", "admitted", "naming"} /\ v.at \in Working
           /\ (v.op = "self" /\ v.at \in {"naming", "storing"} /\ w.at # "naming"
                => UNCHANGED loans /\ ~Full(v.account)))
  BY <1>3
<1> HIDE DEF w
<1> QED BY <1>3, <1>5, <1>6, <1>7, <1>8, <1>10, <1>11 DEF Changed

\* It is there in every state.
LEMMA RoomHolds == LoanSpec => []Room
<1>1. LoanInit => Room
  <2> SUFFICES ASSUME LoanInit PROVE Room
    OBVIOUS
  <2>1. \A t \in Thread : thread[t] = Resting
    BY DEF LoanInit
  <2> QED BY <2>1 DEF Room, Resting
<1>2. Base /\ Room /\ [LoanNext]_loanVars => Room'
  BY RoomKept
<1> QED BY <1>1, <1>2, BaseHolds, PTL DEF LoanSpec

\* A member who helps himself never brings an account above its cap, whatever others issue
\* or move there meanwhile: from the count to the commit the account's row is locked
\* (issue_loan_key).
THEOREM CapKept == LoanSpec => SelfWithinCap
<1>1. Base /\ Base' /\ Room /\ [LoanNext]_loanVars => [\A l \in Loan :
       loans[l].status = "none" /\ loans'[l].auto /\ ~loans'[l].pool =>
         Cardinality(ActiveOn(loans', loans'[l].account)) <= LoanCap]_loanVars
  <2> SUFFICES ASSUME Base, Base', Room, [LoanNext]_loanVars, NEW l \in Loan,
                      loans[l].status = "none", loans'[l].auto, ~loans'[l].pool
      PROVE  Cardinality(ActiveOn(loans', loans'[l].account)) <= LoanCap
    OBVIOUS
  <2>1. Types /\ Booked /\ (loans'[l].status = "none" => loans'[l] = NoLoanRow)
    BY DEF Base, Types
  <2>2. loans'[l].status # "none"
    BY <2>1 DEF NoLoanRow
  <2>3. \A t \in Thread : ~Shifts(l, t)
    BY <2>1 DEF Shifts, Booked
  <2>4. \A t \in Thread : ~Returned(l, t)
    BY <2>1 DEF Returned, Booked
  <2>5. Issued(l)
    BY <2>1, <2>2, <2>3, <2>4, RowsStep
  <2>6. \A b \in Borrower : loans'[l] # PoolRow(b)
    BY PoolRowFits
  <2>7. PICK t \in Thread : /\ Stores(t) /\ thread[t].op \in {"self", "manual"}
                                 /\ thread[t].at = "storing"
                            /\ loans'[l] = NewRow(thread[t])
    BY <2>5, <2>6 DEF Issued, Stored
  <2>8. thread[t].op = "self" /\ loans'[l].account = thread[t].account
    <3>1. thread[t] \in ThreadRec
      BY <2>1 DEF Types
    <3>2. NewRow(thread[t]).auto = (thread[t].op = "self")
         /\ NewRow(thread[t]).account = thread[t].account
      BY <3>1, NewRowFits
    <3> QED BY <2>7, <3>2
  <2>9. Cardinality(ActiveOn(loans, loans'[l].account)) < LoanCap
    BY <2>7, <2>8 DEF Room
  <2>10. \A m \in Loan : m # l => loans'[m] = loans[m]
    <3>1. ASSUME UNCHANGED loans PROVE FALSE
      BY <2>2, <3>1
    <3>2. PICK x \in Loan : loans' = [loans EXCEPT ![x] = NewRow(thread[t])]
      BY <2>1, <2>7, <2>8, <3>1, StoresStep
    <3>3. x = l
      BY <2>1, <2>2, <3>2 DEF Types
    <3> QED BY <2>1, <3>2, <3>3 DEF Types
  <2> DEFINE a == loans'[l].account
  <2>11. ActiveOn(loans', a) \subseteq ActiveOn(loans, a) \cup {l}
    BY <2>10 DEF ActiveOn
  <2>12. IsFiniteSet(ActiveOn(loans, a))
    <3>1. IsFiniteSet(Loan)
      BY LoanAssumption, FS_Interval DEF Loan
    <3> QED BY <3>1, FS_Subset DEF ActiveOn
  <2> HIDE DEF a
  <2>13. /\ Cardinality(ActiveOn(loans, a) \cup {l}) <= Cardinality(ActiveOn(loans, a)) + 1
         /\ IsFiniteSet(ActiveOn(loans, a) \cup {l})
    <3>1. Cardinality(ActiveOn(loans, a)) \in Nat
      BY <2>12, FS_CardinalityType
    <3>2. /\ IsFiniteSet(ActiveOn(loans, a) \cup {l})
          /\ \/ Cardinality(ActiveOn(loans, a) \cup {l}) = Cardinality(ActiveOn(loans, a))
             \/ Cardinality(ActiveOn(loans, a) \cup {l}) = Cardinality(ActiveOn(loans, a)) + 1
      BY <2>12, FS_AddElement
    <3> QED BY <3>1, <3>2
  <2>14. /\ Cardinality(ActiveOn(loans', a)) <= Cardinality(ActiveOn(loans, a) \cup {l})
         /\ Cardinality(ActiveOn(loans', a)) \in Nat /\ Cardinality(ActiveOn(loans, a)) \in Nat
         /\ Cardinality(ActiveOn(loans, a) \cup {l}) \in Nat
    BY <2>11, <2>12, <2>13, FS_Subset, FS_CardinalityType
  <2>15. Cardinality(ActiveOn(loans, a)) < LoanCap
    BY <2>9 DEF a
  <2>16. Cardinality(ActiveOn(loans', a)) <= LoanCap
    BY <2>13, <2>14, <2>15, LoanAssumption
  <2> QED BY <2>16 DEF a
<1> QED BY <1>1, BaseHolds, RoomHolds, PTL DEF LoanSpec, SelfWithinCap

\* The keys made so far.
Made == {k \in Key : keys[k] # NoKey}
\* Loan l is or was, for all some thread knows, lent with the key of row c.
Names(l, c) ==
  \/ loans[l].cred = c
  \/ \E t \in Thread : \/ thread[t].op = "move" /\ thread[t].loan = l /\ thread[t].view.cred = c
                       \/ <<l, c>> \in thread[t].todo \cup thread[t].ended
\* A credential is of a key that was made.
Backed == \A k \in Key : creds[k].status # "none" => keys[k] # NoKey
\* A key in a thread's hands has no credential yet and is in no other thread's.
Held ==
  \A t \in Thread : thread[t].key # None =>
    /\ keys[thread[t].key] # NoKey /\ creds[thread[t].key].status = "none"
    /\ \A u \in Thread : thread[u].key = thread[t].key => u = t
\* A credential that a loan or a thread speaks of exists, and is of that one loan.
Named ==
  \A l \in Loan, k \in Key : Names(l, k) =>
    /\ creds[k].status # "none"
    /\ \A m \in Loan : Names(m, k) => m = l
\* The credential of an active loan is active.
Lent ==
  \A l \in Loan : loans[l].status = "active" /\ loans[l].cred # None
    => creds[loans[l].cred].status = "active"
\* Keys are made in order.
Ordered == \E n \in 0..MaxKeys : Made = 1..n
\* Whose key is whose.
Owned == Ordered /\ Backed /\ Held /\ Named /\ Lent

\* One thread acts at a time, or all stop.
LEMMA OneMoves ==
  ASSUME Types, [LoanNext]_loanVars, NEW t \in Thread, NEW u \in Thread, thread'[t] # thread[t],
         thread'[u] # thread[u]
  PROVE  t = u \/ (thread'[t] = Resting /\ thread'[u] = Resting)
<1>1. ASSUME NEW s \in Thread, NEW v, thread' = [thread EXCEPT ![s] = v] PROVE t = u
  <2>1. \A r \in Thread : r # s => thread'[r] = thread[r]
    BY <1>1 DEF Types
  <2> QED BY <2>1
<1>2. ASSUME NEW s \in Thread, NEW v, Goes(s, v) PROVE t = u
  BY <1>1, <1>2 DEF Goes
<1>3. ASSUME NEW s \in Thread, Over(s) PROVE t = u
  BY <1>2, <1>3 DEF Over
<1>4. ASSUME NEW s \in Thread, Starting(s) PROVE t = u
  BY <1>2, <1>4, Started
<1>5. ASSUME NEW s \in Thread, Admitted(s) PROVE t = u
  BY <1>2, <1>3, <1>5, AdmittedStep
<1>6. ASSUME NEW s \in Thread, Validated(s) PROVE t = u
  BY <1>2, <1>3, <1>6, ValidatedStep
<1>7. ASSUME NEW s \in Thread, Creates(s) PROVE t = u
  BY <1>2, <1>3, <1>7, CreatesStep
<1>8. ASSUME NEW s \in Thread, Resolves(s) PROVE t = u
  BY <1>2, <1>3, <1>8, ResolvesStep
<1>9. ASSUME NEW s \in Thread, Stores(s) PROVE t = u
  BY <1>2, <1>3, <1>9, StoresStep
<1>10. ASSUME NEW s \in Thread, Finalizes(s) PROVE t = u
  BY <1>3, <1>10, FinalizesStep
<1>11. ASSUME NEW s \in Thread, Recalls(s) PROVE t = u
  BY <1>2, <1>3, <1>11, RecallsStep
<1>12. ASSUME NEW s \in Thread, Flushes(s) PROVE t = u
  BY <1>2, <1>12, FlushesStep
<1>13. ASSUME NEW s \in Thread, Closes(s) PROVE t = u
  BY <1>3, <1>13, ClosesStep
<1>14. Crash => thread'[t] = Resting /\ thread'[u] = Resting
  BY CrashStep
<1>15. \/ UNCHANGED thread \/ Crash
       \/ \E s \in Thread : Starting(s) \/ ThreadStep(s)
  BY DEF LoanNext, Starting, loanVars, IssuePool, Patch, ResetDay
<1> QED BY <1>4, <1>5, <1>6, <1>7, <1>8, <1>9, <1>10, <1>11, <1>12, <1>13, <1>14,
     <1>15 DEF ThreadStep

\* The next key has not been made.
LEMMA NextFree ==
  ASSUME Ordered, NextKey \in Key
  PROVE  keys[NextKey] = NoKey /\ Made \cup {NextKey} = 1..NextKey /\ NextKey \in 0..MaxKeys
<1>1. PICK n \in 0..MaxKeys : Made = 1..n
  BY DEF Ordered
<1>2. MaxKeys \in Nat /\ n \in Nat
  BY <1>1, LoanAssumption
<1>3. Cardinality(1..n) = n
  BY <1>2, FS_Interval
<1>4. NextKey = n + 1
  BY <1>1, <1>3 DEF NextKey, Made
<1>5. NextKey \notin Made
  BY <1>1, <1>2, <1>4
<1>6. Made \cup {NextKey} = 1..NextKey
  BY <1>1, <1>2, <1>4
<1> HIDE DEF NextKey
<1> QED BY <1>2, <1>5, <1>6 DEF Made, Key

\* The ways in which a key is revoked.
Kills(x) ==
  \/ \E t \in Thread : /\ Stores(t) /\ Over(t) /\ thread[t].at = "storing" /\ x = thread[t].remote
                       /\ UNCHANGED <<creds, loans, marks>>
  \/ \E t \in Thread : /\ Finalizes(t) /\ Over(t) /\ thread[t].at = "finalizing"
                            /\ x = thread[t].old
                       /\ UNCHANGED <<creds, loans, marks>>
  \/ \E t \in Thread : /\ Recalls(t) /\ Current(t) \in thread[t].todo /\ x = RemoteOf(Current(t)[2])
                       /\ UNCHANGED <<creds, loans, marks>>
                       /\ \E v : /\ Goes(t, v) /\ v.todo = thread[t].todo
                                      /\ v.ended = thread[t].ended
                                 /\ v.recalled = (thread[t].recalled \/ Alive(x))
\* The way in which one is made.
Makes(t) ==
  /\ Creates(t) /\ NextKey \in Key /\ UNCHANGED <<creds, loans>> /\ thread[t].account \in Account
  /\ keys' = [keys EXCEPT ![NextKey] = [at |-> thread[t].account, name |-> thread[t].borrower,
       live |-> TRUE]]
  /\ \/ Over(t) /\ marks' = marks \cup {"kept"}
     \/ UNCHANGED marks /\ \E v : Goes(t, v) /\ v.key = NextKey

\* Nothing else happens to keys.
LEMMA KeysStep ==
  ASSUME Types, [LoanNext]_loanVars
  PROVE  UNCHANGED keys \/ (\E t \in Thread : Makes(t)) \/ \E x \in Key : keys' = Dead(x)
       /\ Kills(x)
<1> DEFINE Goal == UNCHANGED keys \/ (\E t \in Thread : Makes(t)) \/ \E x \in Key : keys' = Dead(x)
     /\ Kills(x)
<1>1. ASSUME NEW x \in RemoteId, Revoked(x), x \in Key => Kills(x) PROVE Goal
  BY <1>1, RevokedStep
<1>2. ASSUME NEW t \in Thread, Creates(t) PROVE Goal
  BY <1>2, CreatesStep DEF Makes
<1>3. ASSUME NEW t \in Thread, Stores(t) PROVE Goal
  <2>1. thread[t].remote \in RemoteId /\ thread[t].at = "storing"
    BY <1>3, StoresStep DEF Types, ThreadRec
  <2>2. CASE UNCHANGED keys
    BY <2>2
  <2>3. CASE Over(t) /\ Revoked(thread[t].remote) /\ UNCHANGED <<creds, loans>>
    <3>1. thread[t].remote \in Key => Kills(thread[t].remote)
      BY <1>3, <2>1, <2>3, RevokedStep DEF Kills
    <3> QED BY <1>1, <2>1, <2>3, <3>1
  <2> QED BY <1>3, <2>2, <2>3, StoresStep
<1>4. ASSUME NEW t \in Thread, Finalizes(t) PROVE Goal
  <2>1. thread[t].old \in RemoteId /\ Over(t) /\ thread[t].at = "finalizing"
       /\ UNCHANGED <<creds, loans>>
        /\ (UNCHANGED keys \/ Revoked(thread[t].old))
    BY <1>4, FinalizesStep
  <2>2. CASE UNCHANGED keys
    BY <2>2
  <2>3. CASE Revoked(thread[t].old)
    <3>1. thread[t].old \in Key => Kills(thread[t].old)
      BY <1>4, <2>1, <2>3, RevokedStep DEF Kills
    <3> QED BY <1>1, <2>1, <2>3, <3>1
  <2> QED BY <2>1, <2>2, <2>3
<1>5. ASSUME NEW t \in Thread, Recalls(t) PROVE Goal
  <2> DEFINE x == RemoteOf(Current(t)[2])
  <2>1. Current(t) \in thread[t].todo /\ UNCHANGED <<creds, loans>>
    BY <1>5, RecallsStep
  <2>2. x \in RemoteId
    <3>1. Current(t)[2] \in Key \cup {None}
      BY <2>1 DEF Types, ThreadRec
    <3> QED BY <3>1, RemoteTyped
  <2>3. CASE UNCHANGED keys
    BY <2>3
  <2>4. CASE /\ Revoked(x)
             /\ \E v : /\ Goes(t, v) /\ v.todo = thread[t].todo /\ v.ended = thread[t].ended
                       /\ v.recalled = (thread[t].recalled \/ Alive(x))
    <3> HIDE DEF x
    <3>1. x \in Key => Kills(x)
      <4>1. x \in Key => keys' = Dead(x) /\ UNCHANGED marks
        BY <2>2, <2>4, RevokedStep
      <4> QED BY <1>5, <2>1, <2>4, <4>1 DEF Kills, x
    <3> QED BY <1>1, <2>2, <2>4, <3>1
  <2>5. \/ UNCHANGED keys
        \/ /\ Revoked(x)
           /\ \E v : /\ Goes(t, v) /\ v.todo = thread[t].todo /\ v.ended = thread[t].ended
                     /\ v.recalled = (thread[t].recalled \/ Alive(x))
    BY <1>5, RecallsStep
  <2> QED BY <2>3, <2>4, <2>5
<1>6. UNCHANGED keys \/ \E t \in Thread : Creates(t) \/ Stores(t) \/ Finalizes(t) \/ Recalls(t)
  <2>1. ASSUME NEW t \in Thread, Starting(t) PROVE UNCHANGED keys
    BY <2>1, Started
  <2>2. ASSUME NEW t \in Thread, ThreadStep(t)
        PROVE  UNCHANGED keys \/ Creates(t) \/ Stores(t) \/ Finalizes(t) \/ Recalls(t)
    BY <2>2 DEF ThreadStep, Admitted, Validated, Resolves, Flushes, Closes
  <2>3. \/ UNCHANGED keys \/ \E t \in Thread : Starting(t) \/ ThreadStep(t)
    BY DEF LoanNext, Starting, loanVars, IssuePool, Patch, ResetDay, Crash
  <2> QED BY <2>1, <2>2, <2>3
<1> QED BY <1>2, <1>3, <1>4, <1>5, <1>6

\* Keys are made in order, and never disappear.
LEMMA KeysLast ==
  ASSUME Types, Ordered, [LoanNext]_loanVars
  PROVE  Ordered' /\ \A k \in Key : keys[k] # NoKey => keys'[k] # NoKey
<1>1. CASE UNCHANGED keys
  BY <1>1 DEF Ordered, Made
<1>2. ASSUME NEW x \in Key, keys' = Dead(x)
      PROVE Ordered' /\ \A k \in Key : keys[k] # NoKey => keys'[k] # NoKey
  <2>1. \A k \in Key : keys'[k] = NoKey <=> keys[k] = NoKey
    BY <1>2, DeadTyped DEF RemoteId
  <2>2. Made' = Made
    BY <2>1 DEF Made
  <2> QED BY <2>1, <2>2 DEF Ordered
<1>3. ASSUME NEW t \in Thread, Makes(t)
      PROVE Ordered' /\ \A k \in Key : keys[k] # NoKey => keys'[k] # NoKey
  <2>1. PICK n \in Key : n = NextKey
    BY <1>3 DEF Makes
  <2>2. keys' = [keys EXCEPT ![n] = [at |-> thread[t].account, name |-> thread[t].borrower,
       live |-> TRUE]]
        /\ thread[t].account \in Account
    BY <1>3, <2>1 DEF Makes
  <2>3. keys[n] = NoKey /\ Made \cup {n} = 1..n /\ n \in 0..MaxKeys
    BY <2>1, NextFree
  <2>4. keys'[n] # NoKey /\ \A k \in Key : k # n => keys'[k] = keys[k]
    BY <2>2, LoanAssumption DEF Types, NoKey
  <2>5. Made' = Made \cup {n}
    BY <2>4 DEF Made
  <2> QED BY <2>3, <2>4, <2>5 DEF Ordered
<1> QED BY <1>1, <1>2, <1>3, KeysStep

\* Stores commits or writes no row.
LEMMA StoredOr ==
  ASSUME Types, NEW t \in Thread, Stores(t)
  PROVE  Stored(t) \/ UNCHANGED <<creds, loans>>
BY StoresStep DEF Stored

\* The ways in which the credential of a key is revoked.
Drops(k) ==
  \E t \in Thread :
    \/ /\ Stored(t) /\ thread[t].at = "storing" /\ Leaves(thread[t]) /\ k = thread[t].view.cred
    \/ Closed(t) /\ \E p \in thread[t].ended : p[2] = k

\* A credential is written by the commit that lends its key, and revoked by a move away
\* from it or a return.
LEMMA CredsStep ==
  ASSUME Base, [LoanNext]_loanVars, NEW k \in Key
  PROVE  \/ creds'[k] = creds[k]
         \/ \E t \in Thread : /\ Stored(t) /\ thread[t].at = "storing" /\ k = thread[t].key
                              /\ creds'[k].remote = thread[t].remote /\ creds'[k].status = "active"
         \/ creds'[k].remote = creds[k].remote /\ creds'[k].status = "revoked" /\ Drops(k)
<1> DEFINE Goal == \/ creds'[k] = creds[k]
                   \/ \E t \in Thread : /\ Stored(t) /\ thread[t].at = "storing"
                                             /\ k = thread[t].key
                                        /\ creds'[k].remote = thread[t].remote
                                             /\ creds'[k].status = "active"
                   \/ creds'[k].remote = creds[k].remote /\ creds'[k].status = "revoked" /\ Drops(k)
<1>1. Types /\ Booked /\ k # None
  BY LoanAssumption DEF Base, Key, None
<1>2. ASSUME NEW t \in Thread, Stored(t) PROVE Goal
  <2> DEFINE w == thread[t]
  <2>1. w \in ThreadRec /\ Staged(w) /\ w.at = "storing"
    BY <1>1, <1>2 DEF Stored, Stores, At, Types
  <2>2. creds'[k] = IF k = w.key THEN [remote |-> w.remote, status |-> "active"]
                    ELSE IF k = w.view.cred /\ (w.key # None \/ w.account = NoAccount)
                    THEN [creds[k] EXCEPT !.status = "revoked"] ELSE creds[k]
    BY <1>2 DEF Stored, CredsAfter
  <2>3. CASE k = w.key
    BY <1>2, <2>1, <2>2, <2>3
  <2>4. CASE k # w.key /\ k = w.view.cred /\ (w.key # None \/ w.account = NoAccount)
    <3>1. w.op = "move"
      BY <1>1, <2>1, <2>4 DEF Staged, Booked, Working
    <3>2. Drops(k)
      BY <1>2, <2>1, <2>4, <3>1 DEF Drops, Leaves
    <3>3. creds[k] \in [remote : RemoteId, status : {"none", "active", "revoked"}]
      BY <1>1 DEF Types
    <3> QED BY <2>2, <2>4, <3>2, <3>3
  <2> QED BY <2>2, <2>3, <2>4
<1>3. ASSUME NEW t \in Thread, Closed(t) PROVE Goal
  <2>1. creds'[k].remote = creds[k].remote
        /\ creds'[k].status = IF \E p \in thread[t].ended : p[2] = k THEN "revoked"
             ELSE creds[k].status
    BY <1>3 DEF Closed
  <2>2. CASE \E p \in thread[t].ended : p[2] = k
    BY <1>3, <2>1, <2>2 DEF Drops
  <2>3. CASE ~\E p \in thread[t].ended : p[2] = k
    <3>1. creds'[k] \in [remote : RemoteId, status : {"none", "active", "revoked"}]
          /\ creds[k] \in [remote : RemoteId, status : {"none", "active", "revoked"}]
      BY <1>1, TypesKept DEF Types
    <3> QED BY <2>1, <2>3, <3>1
  <2> QED BY <2>2, <2>3
<1>4. UNCHANGED creds \/ \E t \in Thread : Stores(t) \/ Closes(t)
  <2>1. ASSUME NEW t \in Thread, Starting(t) PROVE UNCHANGED creds
    BY <1>1, <2>1, Started
  <2>2. ASSUME NEW t \in Thread, ThreadStep(t) PROVE UNCHANGED creds \/ Stores(t) \/ Closes(t)
    BY <2>2 DEF ThreadStep, Admitted, Validated, Creates, Resolves, Finalizes, Recalls, Flushes
  <2>3. UNCHANGED creds \/ \E t \in Thread : Starting(t) \/ ThreadStep(t)
    BY DEF LoanNext, Starting, loanVars, IssuePool, Patch, ResetDay, Crash
  <2> QED BY <2>1, <2>2, <2>3
<1> QED BY <1>1, <1>2, <1>3, <1>4, StoredOr, ClosedOr

\* Loan l gets key c in this step.
Gives(l, c) ==
  \E t \in Thread : /\ Stored(t) /\ thread[t].at = "storing" /\ thread[t].key = c
                    /\ loans'[l].cred = c
                         /\ loans'[l].status = (IF thread[t].op = "move" THEN loans[l].status
                              ELSE "active")
                    /\ IF thread[t].op = "move" THEN l = thread[t].loan
                         ELSE loans[l].status = "none"

\* A loan has the credential it had, or the new key of the thread that issues or moves it.
LEMMA CredGiven ==
  ASSUME Base, [LoanNext]_loanVars, NEW l \in Loan, NEW c \in Key, loans'[l].cred = c
  PROVE  \/ loans[l].cred = c
         \/ Gives(l, c)
<1>1. Types /\ Booked /\ c # None
  BY LoanAssumption DEF Base, Key, None
<1>2. CASE SameLoan(loans'[l], loans[l])
  BY <1>2 DEF SameLoan
<1>3. ASSUME NEW b \in Borrower, loans'[l] = PoolRow(b) PROVE FALSE
  BY <1>1, <1>3, PoolRowFits
<1>4. ASSUME NEW t \in Thread, Stored(t), thread[t].op \in {"self", "manual"},
     thread[t].at = "storing",
             loans'[l] = NewRow(thread[t]), loans[l].status = "none"
      PROVE  Gives(l, c)
  <2>1. thread[t] \in ThreadRec
    BY <1>1 DEF Types
  <2>2. NewRow(thread[t]).cred = thread[t].key /\ NewRow(thread[t]).status = "active"
    BY <2>1, NewRowFits
  <2> QED BY <1>4, <2>2 DEF Gives
<1>5. ASSUME NEW t \in Thread, Shifts(l, t) PROVE loans[l].cred = c \/ Gives(l, c)
  <2> DEFINE w == thread[t]
             X == IF w.key # None THEN w.key ELSE IF w.account = NoAccount THEN None
                  ELSE w.view.cred
  <2>1. w \in ThreadRec /\ loans \in [Loan -> LoanRow] /\ w.loan = l /\ loans'[l] = MovedLoan(w)
    BY <1>1, <1>5 DEF Types, Shifts
  <2>2. /\ loans'[l].status = loans[l].status
        /\ loans'[l].cred = Written(w.view.cred, X, loans[l].cred)
    BY <2>1, MovedRow
  <2>3. CASE X = w.view.cred
    BY <2>2, <2>3 DEF Written
  <2>4. CASE X # w.view.cred
    <3>1. X = c
      BY <2>2, <2>4 DEF Written
    <3>2. w.key = c
      BY <1>1, <2>4, <3>1
    <3> HIDE DEF X, w
    <3> QED BY <1>5, <2>1, <2>2, <3>2 DEF Shifts, Gives, w
  <2> QED BY <2>3, <2>4
<1>6. ASSUME NEW t \in Thread, Returned(l, t) PROVE SameLoan(loans'[l], loans[l])
  BY <1>6 DEF Returned
<1> QED BY <1>1, <1>2, <1>3, <1>4, <1>5, <1>6, RowsStep DEF Issued

\* What is spoken of after a step was spoken of before, or is given in it.
LEMMA NamesStep ==
  ASSUME Base, [LoanNext]_loanVars, NEW l \in Loan, NEW c \in Key, Names(l, c)'
  PROVE  Names(l, c) \/ Gives(l, c)
<1>1. Types /\ Booked
  BY DEF Base
<1>2. CASE loans'[l].cred = c
  BY <1>2, CredGiven DEF Names
<1>3. ASSUME NEW t \in Thread, NEW v, v = thread'[t], v.op = "move" /\ v.loan = l /\ v.view.cred = c
      PROVE Names(l, c)
  <2>1. thread[t] \in ThreadRec /\ Staged(thread[t]) /\ Changed(thread[t], v)
    BY <1>1, <1>3, ThreadsStep DEF Types
  <2>2. SameReturn(v, thread[t]) /\ thread[t].at \in TakingBack => v.op # "move"
    BY <2>1 DEF SameReturn, Staged
  <2>3. CASE v = thread[t] \/ SameTask(v, thread[t])
    BY <1>3, <2>3 DEF SameTask, Names
  <2>4. CASE Begun(v)
    BY <1>3, <2>4 DEF Begun, Names
  <2> QED BY <1>3, <2>1, <2>2, <2>3, <2>4 DEF Changed
<1>4. ASSUME NEW t \in Thread, NEW v, v = thread'[t], <<l, c>> \in v.todo \cup v.ended
      PROVE Names(l, c)
  <2>1. thread[t] \in ThreadRec /\ Staged(thread[t]) /\ Changed(thread[t], v)
    BY <1>1, <1>4, ThreadsStep DEF Types
  <2>2. CASE v = thread[t] \/ SameReturn(v, thread[t])
    BY <1>4, <2>2 DEF SameReturn, Names
  <2>3. CASE Begun(v)
    BY <1>4, <2>3 DEF Begun, Names
  <2>4. SameTask(v, thread[t]) => v.todo = {} /\ v.ended = {}
    BY DEF SameTask
  <2> QED BY <1>4, <2>1, <2>2, <2>3, <2>4 DEF Changed
<1> QED BY <1>2, <1>3, <1>4 DEF Names

\* A thread holds the key it held, or one just made.
LEMMA KeyComes ==
  ASSUME Base, Owned, [LoanNext]_loanVars, NEW t \in Thread, thread'[t].key # None
  PROVE  /\ thread'[t].key \in Key
         /\ \/ thread'[t].key = thread[t].key
            \/ thread'[t].key = NextKey /\ UNCHANGED <<creds, loans>> /\ keys[NextKey] = NoKey
                 /\ keys'[NextKey].live
               /\ thread'[t] # thread[t] /\ thread'[t] # Resting
<1>1. PICK v : v = thread'[t]
  OBVIOUS
<1>2. v \in ThreadRec /\ Staged(v) /\ Changed(thread[t], v) /\ v.key \in Key
  BY <1>1, ThreadsStep DEF Base, ThreadRec
<1>3. v.key = thread[t].key
     \/ (v.key = NextKey /\ NextKey \in Key /\ UNCHANGED <<creds, loans>> /\ keys'[NextKey].live)
  BY <1>1, <1>2 DEF Changed, Begun, SameReturn
<1>4. Resting.key = None
  BY DEF Resting
<1>5. NextKey \in Key => keys[NextKey] = NoKey
  BY NextFree DEF Owned
<1> QED BY <1>1, <1>2, <1>3, <1>4, <1>5

\* A credential is revoked for a loan it belongs to.
LEMMA DropsNamed ==
  ASSUME Types, NEW k \in Key, Drops(k)
  PROVE  \E l \in Loan : Names(l, k)
<1>1. ASSUME NEW t \in Thread, thread[t].at = "storing", Leaves(thread[t]), k = thread[t].view.cred
      PROVE  \E l \in Loan : Names(l, k)
  <2>1. thread[t].op = "move" /\ thread[t].loan \in Loan
    BY <1>1 DEF Types, Staged, Leaves
  <2> QED BY <1>1, <2>1 DEF Names
<1>2. ASSUME NEW t \in Thread, NEW p \in thread[t].ended, p[2] = k PROVE \E l \in Loan : Names(l, k)
  <2>1. p = <<p[1], p[2]>> /\ p[1] \in Loan
    BY <1>2 DEF Types, ThreadRec
  <2> QED BY <1>2, <2>1 DEF Names
<1> QED BY <1>1, <1>2 DEF Drops

\* Every step keeps credentials backed by keys.
LEMMA BackedKept == Base /\ Owned /\ [LoanNext]_loanVars => Backed'
<1> SUFFICES ASSUME Base, Owned, [LoanNext]_loanVars, NEW k \in Key, creds'[k].status # "none"
    PROVE  keys'[k] # NoKey
  BY DEF Backed
<1>1. keys[k] # NoKey => keys'[k] # NoKey
  BY KeysLast DEF Base, Owned
<1>2. CASE creds'[k] = creds[k]
  BY <1>1, <1>2 DEF Owned, Backed
<1>3. ASSUME NEW t \in Thread, k = thread[t].key PROVE keys[k] # NoKey
  BY <1>3, LoanAssumption DEF Owned, Held, Key, None
<1>4. ASSUME Drops(k) PROVE keys[k] # NoKey
  <2>1. PICK l \in Loan : Names(l, k)
    BY <1>4, DropsNamed DEF Base
  <2> QED BY <2>1 DEF Owned, Named, Backed
<1> QED BY <1>1, <1>2, <1>3, <1>4, CredsStep

\* Every step keeps held keys in one pair of hands.
LEMMA HeldKept == Base /\ Owned /\ [LoanNext]_loanVars => Held'
<1> SUFFICES ASSUME Base, Owned, [LoanNext]_loanVars, NEW t \in Thread, thread'[t].key # None
    PROVE  /\ keys'[thread'[t].key] # NoKey /\ creds'[thread'[t].key].status = "none"
           /\ \A u \in Thread : thread'[u].key = thread'[t].key => u = t
  BY DEF Held
<1>1. PICK v : v = thread'[t]
  OBVIOUS
<1>2. PICK k \in Key : k = v.key
  BY <1>1, KeyComes
<1>3. k # None /\ Types /\ Ordered
  BY <1>1, <1>2 DEF Base, Owned
<1>4. CASE k = thread[t].key
  <2>1. keys[k] # NoKey /\ creds[k].status = "none" /\ \A u \in Thread : thread[u].key = k => u = t
    BY <1>3, <1>4 DEF Owned, Held
  <2>2. keys'[k] # NoKey
    BY <1>3, <2>1, KeysLast
  <2>3. ASSUME NEW u \in Thread, Stored(u), k = thread[u].key PROVE FALSE
    <3>1. u = t /\ v = After(thread[t])
      BY <1>1, <1>3, <2>1, <2>3, Moved DEF Stored
    <3> QED BY <1>2, <1>3, <3>1 DEF After, Resting
  <2>4. ~Drops(k)
    <3> SUFFICES ASSUME Drops(k) PROVE FALSE
      OBVIOUS
    <3>1. PICK l \in Loan : Names(l, k)
      BY DropsNamed DEF Base
    <3> QED BY <2>1, <3>1 DEF Owned, Named
  <2>5. creds'[k].status = "none"
    BY <2>1, <2>3, <2>4, CredsStep
  <2>6. ASSUME NEW u \in Thread, thread'[u].key = k PROVE u = t
    <3>1. thread'[u].key = thread[u].key \/ keys[k] = NoKey
      BY <1>3, <2>6, KeyComes
    <3> QED BY <2>1, <2>6, <3>1
  <2> QED BY <1>1, <1>2, <2>2, <2>5, <2>6
<1>5. CASE k # thread[t].key
  <2>1. k = NextKey /\ UNCHANGED creds /\ keys[k] = NoKey /\ keys'[k].live /\ v # thread[t]
       /\ v # Resting
    BY <1>1, <1>2, <1>3, <1>5, KeyComes
  <2>2. creds[k].status = "none"
    BY <2>1 DEF Owned, Backed
  <2>3. keys'[k] # NoKey
    <3>1. NoKey.live = FALSE
      BY DEF NoKey
    <3> QED BY <2>1, <3>1
  <2>4. ASSUME NEW u \in Thread, thread'[u].key = k PROVE u = t
    <3>1. thread[u].key # k
      BY <1>3, <2>1 DEF Owned, Held
    <3>2. thread'[u] # thread[u]
      BY <2>4, <3>1
    <3> QED BY <1>1, <1>3, <2>1, <3>2, OneMoves
  <2> QED BY <1>1, <1>2, <2>1, <2>2, <2>3, <2>4
<1> QED BY <1>4, <1>5

\* Every step keeps a credential with one loan.
LEMMA NamedKept == Base /\ Owned /\ [LoanNext]_loanVars => Named'
<1> SUFFICES ASSUME Base, Owned, [LoanNext]_loanVars, NEW k \in Key
    PROVE  \A l \in Loan : Names(l, k)' => creds'[k].status # "none" /\ \A m \in Loan : Names(m, k)'
         => m = l
  BY DEF Named
<1>1. Types /\ k # None
  BY LoanAssumption DEF Base, Key, None
<1>2. ASSUME NEW l \in Loan, Names(l, k)' PROVE creds'[k].status # "none"
  <2>1. CASE Names(l, k)
    <3>1. creds[k].status # "none"
      BY <2>1 DEF Owned, Named
    <3> QED BY <3>1, CredsStep
  <2>2. CASE Gives(l, k)
    <3>1. PICK t \in Thread : Stored(t) /\ thread[t].key = k
      BY <2>2 DEF Gives
    <3>2. creds'[k].status = "active"
      BY <3>1 DEF Stored, CredsAfter
    <3> QED BY <3>2
  <2> QED BY <1>2, <2>1, <2>2, NamesStep
<1>3. ASSUME NEW l \in Loan, NEW m \in Loan, Names(l, k), Gives(m, k) PROVE FALSE
  <2>1. PICK t \in Thread : thread[t].key = k
    BY <1>3 DEF Gives
  <2>2. creds[k].status = "none"
    BY <1>1, <2>1 DEF Owned, Held
  <2> QED BY <1>3, <2>2 DEF Owned, Named
<1>4. ASSUME NEW l \in Loan, NEW m \in Loan, Gives(l, k), Gives(m, k) PROVE l = m
  <2>1. PICK t \in Thread :
            /\ thread[t].key = k
            /\ loans'[l].status = (IF thread[t].op = "move" THEN loans[l].status ELSE "active")
            /\ IF thread[t].op = "move" THEN l = thread[t].loan ELSE loans[l].status = "none"
    BY <1>4 DEF Gives
  <2>2. PICK u \in Thread :
            /\ thread[u].key = k
            /\ loans'[m].status = (IF thread[u].op = "move" THEN loans[m].status ELSE "active")
            /\ IF thread[u].op = "move" THEN m = thread[u].loan ELSE loans[m].status = "none"
    BY <1>4 DEF Gives
  <2>3. t = u
    BY <1>1, <2>1, <2>2 DEF Owned, Held
  <2>4. CASE thread[t].op = "move"
    BY <2>1, <2>2, <2>3, <2>4
  <2>5. CASE thread[t].op # "move"
    BY <1>1, <2>1, <2>2, <2>3, <2>5, OneIssued
  <2> QED BY <2>4, <2>5
<1>5. ASSUME NEW l \in Loan, NEW m \in Loan, Names(l, k)', Names(m, k)' PROVE m = l
  <2>1. (Names(l, k) \/ Gives(l, k)) /\ (Names(m, k) \/ Gives(m, k))
    BY <1>5, NamesStep
  <2>2. Names(l, k) /\ Names(m, k) => m = l
    BY DEF Owned, Named
  <2> QED BY <1>3, <1>4, <2>1, <2>2
<1> QED BY <1>2, <1>5

\* A key given in a step is active, and not the one left.
LEMMA LentKept == Base /\ Owned /\ [LoanNext]_loanVars => Lent'
<1> SUFFICES ASSUME Base, Owned, [LoanNext]_loanVars, NEW l \in Loan, loans'[l].status = "active",
     loans'[l].cred # None
    PROVE  creds'[loans'[l].cred].status = "active"
  BY DEF Lent
<1>1. Types
  BY DEF Base
<1>2. PICK c \in Key : c = loans'[l].cred
  <2>1. Types'
    BY <1>1, TypesKept DEF Base
  <2>2. loans'[l].cred \in Key \cup {None}
    BY <2>1 DEF Types, LoanRow
  <2> QED BY <2>2
<1>3. CASE Gives(l, c)
  <2>1. PICK t \in Thread : Stored(t) /\ thread[t].key = c
    BY <1>3 DEF Gives
  <2>2. creds'[c].status = "active"
    BY <2>1 DEF Stored, CredsAfter
  <2> QED BY <1>2, <2>2
<1>4. CASE loans[l].cred = c /\ ~Gives(l, c)
  <2>1. Names(l, c) /\ \A m \in Loan : Names(m, c) => m = l
    BY <1>4 DEF Names, Owned, Named
  <2>2. loans[l].status = "active"
    <3>1. loans[l].status = "none" => loans[l].cred = None
      BY <1>1 DEF Types, NoLoanRow
    <3> QED BY <1>1, <1>2, <1>4, <3>1, StatusKept
  <2>3. creds[c].status = "active"
    BY <1>2, <1>4, <2>2 DEF Owned, Lent
  <2>4. ASSUME NEW t \in Thread, Stored(t), thread[t].at = "storing", Leaves(thread[t]),
       c = thread[t].view.cred PROVE FALSE
    <3> DEFINE w == thread[t]
               X == IF w.key # None THEN w.key ELSE IF w.account = NoAccount THEN None
                    ELSE w.view.cred
    <3>1. w \in ThreadRec /\ Staged(w) /\ loans \in [Loan -> LoanRow] /\ w.op = "move"
         /\ w.loan \in Loan
      BY <1>1, <2>4 DEF Types, Leaves, Staged
    <3>2. w.loan = l
      BY <2>1, <2>4, <3>1 DEF Names
    <3>3. loans'[l] = MovedLoan(w)
      BY <2>4, <3>1, <3>2 DEF Stored
    <3>4. loans'[l].cred = Written(w.view.cred, X, loans[l].cred)
      BY <3>1, <3>2, <3>3, MovedRow
    <3>5. w.key # c
      BY <1>2, <2>3 DEF Owned, Held
    <3>6. X # c
      BY <1>2, <2>4, <3>5 DEF Leaves
    <3> QED BY <1>2, <2>4, <3>4, <3>6 DEF Written
  <2>5. ASSUME NEW t \in Thread, Closed(t), NEW p \in thread[t].ended, p[2] = c PROVE FALSE
    <3>1. p = <<p[1], p[2]>> /\ p[1] \in Loan
      BY <1>1, <2>5 DEF Types, ThreadRec
    <3>2. Names(p[1], c)
      BY <2>5, <3>1 DEF Names
    <3>3. p[1] = l
      BY <2>1, <3>1, <3>2
    <3> QED BY <2>5, <3>3 DEF Closed
  <2>6. ~Drops(c)
    BY <2>4, <2>5 DEF Drops
  <2> QED BY <1>2, <2>3, <2>6, CredsStep
<1> QED BY <1>2, <1>3, <1>4, CredGiven

\* Whose key is whose is settled in every state.
LEMMA OwnedHolds == LoanSpec => []Owned
<1>1. LoanInit => Owned
  <2> SUFFICES ASSUME LoanInit PROVE Owned
    OBVIOUS
  <2>1. /\ \A t \in Thread : thread[t] = Resting
        /\ \A l \in Loan : loans[l] = NoLoanRow
        /\ \A k \in Key : keys[k] = NoKey /\ creds[k] = NoCredRow
    BY DEF LoanInit
  <2>2. Made = 1..0 /\ 0 \in 0..MaxKeys
    BY <2>1, LoanAssumption DEF Made
  <2>3. Ordered
    BY <2>2 DEF Ordered
  <2>4. Backed /\ Held /\ Lent
    BY <2>1 DEF Backed, Held, Lent, Resting, NoCredRow, NoLoanRow
  <2>5. \A l \in Loan, k \in Key : ~Names(l, k)
    BY <2>1, LoanAssumption DEF Names, Resting, NoLoanRow, Key, None
  <2> QED BY <2>3, <2>4, <2>5 DEF Owned, Named
<1>2. Base /\ Owned /\ [LoanNext]_loanVars => Owned'
  <2>1. Base /\ Owned /\ [LoanNext]_loanVars => Ordered'
    BY KeysLast DEF Base, Owned
  <2> QED BY <2>1, BackedKept, HeldKept, NamedKept, LentKept DEF Owned
<1> QED BY <1>1, <1>2, BaseHolds, PTL DEF LoanSpec

\* No name has resolved to the key of another.
Clear == {"namesake", "mistaken"} \cap marks = {}
\* Then a credential stands for its own key, or, as is marked, for none; a key about to be
\* stored works, and a key about to be revoked has its credential revoked already.
Remotes ==
  Clear =>
  /\ \A k \in Key : creds[k].status # "none" =>
       creds[k].remote = k \/ (creds[k].remote = None /\ "unknown" \in marks)
  /\ \A t \in Thread :
       /\ thread[t].at = "storing" => \/ thread[t].remote = thread[t].key
                                      \/ thread[t].remote = None /\ "unknown" \in marks
       /\ thread[t].key # None => keys[thread[t].key].live
       /\ thread[t].old # None =>
            thread[t].old \in Key /\ creds[thread[t].old].status = "revoked"

\* History is not forgotten.
LEMMA MarksGrow ==
  ASSUME Types, [LoanNext]_loanVars
  PROVE  marks \subseteq marks'
<1>1. ASSUME NEW t \in Thread, Starting(t) PROVE marks \subseteq marks'
  BY <1>1, Started
<1>2. ASSUME NEW t \in Thread, ThreadStep(t) PROVE marks \subseteq marks'
  <2>1. CASE Stores(t)
    BY <2>1, StoresStep DEF Revoked, Marks
  <2>2. CASE Closes(t)
    <3>1. Closed(t) => UNCHANGED marks
      BY DEF Closed
    <3> QED BY <2>2, <3>1, ClosedOr
  <2>3. CASE Recalls(t)
    BY <2>3, RecallsStep DEF Revoked, Marks
  <2>4. CASE Creates(t)
    BY <2>4 DEF Creates, Marks
  <2>5. CASE Resolves(t)
    BY <2>5, ResolvesStep DEF Learnt
  <2>6. CASE Finalizes(t)
    BY <2>6, FinalizesStep DEF Revoked, Marks
  <2>7. CASE Flushes(t)
    BY <2>7, FlushesStep
  <2>8. CASE Validated(t) \/ Admitted(t)
    BY <2>8, ValidatedStep, AdmittedStep
  <2> QED BY <1>2, <2>1, <2>2, <2>3, <2>4, <2>5, <2>6, <2>7, <2>8 DEF ThreadStep
<1>3. Crash => marks \subseteq marks'
  BY CrashStep
<1>4. \/ UNCHANGED marks \/ Crash
      \/ \E t \in Thread : Starting(t) \/ ThreadStep(t)
  BY DEF LoanNext, Starting, loanVars, IssuePool, Patch, ResetDay
<1> QED BY <1>1, <1>2, <1>3, <1>4

\* What has not happened yet had not happened before.
LEMMA Unmarked ==
  ASSUME Types, [LoanNext]_loanVars, Clear'
  PROVE  Clear
BY MarksGrow DEF Clear

\* A key in a thread's hands is revoked only by the failure of that thread.
LEMMA HeldLives ==
  ASSUME Base, Owned, Remotes, Clear, [LoanNext]_loanVars, NEW t \in Thread, NEW k \in Key,
         thread[t].key = k, thread'[t].key = k
  PROVE  keys'[k].live
<1>1. Types /\ k # None
  BY LoanAssumption DEF Base, Key, None
<1>2. keys[k].live /\ keys[k] # NoKey /\ creds[k].status = "none"
     /\ \A u \in Thread : thread[u].key = k => u = t
  BY <1>1 DEF Owned, Held, Remotes
<1>3. ASSUME NEW u \in Thread, Makes(u) PROVE keys'[k].live
  <2>1. NextKey # k
    BY <1>2, <1>3, NextFree DEF Makes, Owned
  <2>2. keys'[k] = keys[k]
    BY <1>1, <1>3, <2>1 DEF Makes, Types
  <2> QED BY <1>2, <2>2
<1>4. ASSUME NEW x \in Key, keys' = Dead(x), Kills(x) PROVE keys'[k].live
  <2>1. keys'[k].live = (keys[k].live /\ k # x)
    BY <1>1, <1>4, DeadTyped DEF RemoteId
  <2>2. x # None
    BY LoanAssumption DEF Key, None
  <2>3. ASSUME x = k PROVE FALSE
    <3>1. ASSUME NEW u \in Thread, Over(u), thread[u].at = "storing", x = thread[u].remote
          PROVE FALSE
      <4>1. thread[u].key = k
        BY <2>2, <2>3, <3>1 DEF Remotes
      <4>2. thread'[t] = Resting
        BY <1>1, <1>2, <3>1, <4>1, Moved DEF Over
      <4> QED BY <1>1, <4>2 DEF Resting
    <3>2. ASSUME NEW u \in Thread, x = thread[u].old PROVE FALSE
      BY <1>2, <2>2, <2>3, <3>2 DEF Remotes
    <3>3. ASSUME NEW u \in Thread, Current(u) \in thread[u].todo, x = RemoteOf(Current(u)[2])
          PROVE FALSE
      <4>1. PICK c \in Key \cup {None} : c = Current(u)[2]
        BY <1>1, <3>3 DEF Types, ThreadRec
      <4>2. c \in Key /\ creds[c].status = "active" /\ x = creds[c].remote
        BY <2>2, <3>3, <4>1 DEF RemoteOf
      <4>3. creds[c].remote = c
        BY <2>2, <4>2 DEF Remotes
      <4> QED BY <1>2, <2>3, <4>2, <4>3
    <3> QED BY <1>4, <3>1, <3>2, <3>3 DEF Kills
  <2> QED BY <1>2, <2>1, <2>3
<1> QED BY <1>2, <1>3, <1>4, KeysStep DEF Base

\* Every step keeps credentials with their own keys.
LEMMA RemotesKept == Base /\ Owned /\ Remotes /\ [LoanNext]_loanVars => Remotes'
<1> SUFFICES ASSUME Base, Owned, Remotes, [LoanNext]_loanVars, Clear' PROVE Remotes'
  BY DEF Remotes
<1>1. Types /\ Clear /\ {"namesake", "mistaken"} \cap marks' = {}
     /\ ("unknown" \in marks => "unknown" \in marks')
  BY Unmarked, MarksGrow DEF Base, Clear
<1>2. /\ \A k \in Key : creds[k].status # "none" =>
           creds[k].remote = k \/ (creds[k].remote = None /\ "unknown" \in marks')
      /\ \A t \in Thread :
           /\ thread[t].at = "storing" => \/ thread[t].remote = thread[t].key
                                          \/ thread[t].remote = None /\ "unknown" \in marks'
           /\ thread[t].key # None => keys[thread[t].key].live
           /\ thread[t].old # None =>
                thread[t].old \in Key /\ creds[thread[t].old].status = "revoked"
  BY <1>1 DEF Remotes
<1>3. ASSUME NEW k \in Key, creds'[k].status # "none"
      PROVE  creds'[k].remote = k \/ (creds'[k].remote = None /\ "unknown" \in marks')
  <2>1. CASE creds'[k] = creds[k]
    BY <1>2, <1>3, <2>1
  <2>2. CASE \E t \in Thread : Stored(t) /\ thread[t].at = "storing" /\ k = thread[t].key
       /\ creds'[k].remote = thread[t].remote
    BY <1>2, <2>2
  <2>3. CASE creds'[k].remote = creds[k].remote /\ Drops(k)
    <3>1. PICK l \in Loan : Names(l, k)
      BY <1>1, <2>3, DropsNamed
    <3>2. creds[k].status # "none"
      BY <3>1 DEF Owned, Named
    <3> QED BY <1>2, <2>3, <3>2
  <2> QED BY <2>1, <2>2, <2>3, CredsStep
<1>4. ASSUME NEW t \in Thread, thread'[t].at = "storing"
      PROVE  \/ thread'[t].remote = thread'[t].key
             \/ thread'[t].remote = None /\ "unknown" \in marks'
  <2>1. PICK v : v = thread'[t]
    OBVIOUS
  <2>2. Changed(thread[t], v) /\ v.at = "storing"
    BY <1>1, <1>4, <2>1, ThreadsStep
  <2>3. Learning(thread[t], v) => v.remote = v.key \/ (v.remote = None /\ "unknown" \in marks')
    BY <1>1, <2>2 DEF Learning
  <2>4. SameReturn(v, thread[t]) => v.at # "storing"
    BY DEF SameReturn, TakingBack
  <2> QED BY <1>2, <2>1, <2>2, <2>3, <2>4 DEF Changed, Begun
<1>5. ASSUME NEW t \in Thread, thread'[t].key # None PROVE keys'[thread'[t].key].live
  <2>1. PICK k \in Key : k = thread'[t].key
    BY <1>5, KeyComes
  <2>2. CASE thread[t].key = k
    BY <1>1, <2>1, <2>2, HeldLives
  <2>3. CASE thread[t].key # k
    BY <1>5, <2>1, <2>3, KeyComes
  <2> QED BY <2>2, <2>3
<1>6. ASSUME NEW t \in Thread, thread'[t].old # None
      PROVE  thread'[t].old \in Key /\ creds'[thread'[t].old].status = "revoked"
  <2>1. PICK v : v = thread'[t]
    OBVIOUS
  <2> DEFINE w == thread[t]
  <2>2. Changed(w, v) /\ v.old # None /\ w \in ThreadRec /\ v \in ThreadRec
    BY <1>1, <1>6, <2>1, ThreadsStep DEF Types, ThreadRec
  <2>3. CASE v = w
    <3>1. v.old \in Key /\ creds[v.old].status = "revoked"
      BY <1>2, <2>2, <2>3
    <3>2. \A u \in Thread : thread[u].key # v.old
      BY <2>2, <3>1 DEF Owned, Held
    <3> QED BY <2>1, <2>2, <3>1, <3>2, CredsStep
  <2>4. CASE Leaving(w, v)
    <3>1. v.old = Left(w) /\ creds' = CredsAfter(w)
      BY <2>2, <2>4 DEF Leaving
    <3> DEFINE c == w.view.cred
    <3>2. Leaves(w) /\ c \in Key /\ creds[c].status = "active" /\ v.old = creds[c].remote
      <4>1. w.view.cred \in Key \cup {None}
        BY <2>2 DEF ThreadRec, LoanRow
      <4> QED BY <2>2, <3>1, <4>1 DEF Left, LeftBehind
    <3>3. v.old = c
      BY <1>2, <2>2, <3>2
    <3>4. w.key # c
      BY <3>2, LoanAssumption DEF Owned, Held, Key, None
    <3>5. creds'[c] = [creds[c] EXCEPT !.status = "revoked"]
      BY <3>1, <3>2, <3>4 DEF CredsAfter, Leaves
    <3>6. creds'[c].status = "revoked"
      BY <1>1, <3>2, <3>5 DEF Types
    <3> QED BY <2>1, <3>2, <3>3, <3>6
  <2>5. v = w \/ Leaving(w, v)
    BY <2>2 DEF Changed, Begun, SameTask, SameReturn
  <2> QED BY <2>3, <2>4, <2>5
<1> QED BY <1>3, <1>4, <1>5, <1>6 DEF Remotes

\* They are in every state.
LEMMA RemotesHolds == LoanSpec => []Remotes
<1>1. LoanInit => Remotes
  <2> SUFFICES ASSUME LoanInit PROVE Remotes
    OBVIOUS
  <2>1. /\ \A t \in Thread : thread[t] = Resting
        /\ \A k \in Key : creds[k] = NoCredRow
    BY DEF LoanInit
  <2> QED BY <2>1 DEF Remotes, Resting, NoCredRow
<1>2. Base /\ Owned /\ Remotes /\ [LoanNext]_loanVars => Remotes'
  BY RemotesKept
<1> QED BY <1>1, <1>2, BaseHolds, OwnedHolds, PTL DEF LoanSpec

\* Some thread is taking loan l back and has revoked a key.
Recalled(l) ==
  \E t \in Thread : thread[t].recalled /\ \E p \in thread[t].todo \cup thread[t].ended : p[1] = l
\* The key behind an active loan works, or the loan is being taken back: LentKeysWork as an
\* invariant that is kept.
Works ==
  {"half", "namesake", "mistaken"} \cap marks = {} =>
    \A l \in Loan : loans[l].status = "active" /\ loans[l].cred # None =>
      keys[loans[l].cred].live \/ Recalled(l)

\* A loan being taken back whose key is gone stays so until the loan is over.
LEMMA RecalledStays ==
  ASSUME Base, [LoanNext]_loanVars, NEW l \in Loan, Recalled(l), "half" \notin marks',
         loans'[l].status = "active"
  PROVE  Recalled(l)'
<1>1. PICK t \in Thread : thread[t].recalled /\ \E p \in thread[t].todo
     \cup thread[t].ended : p[1] = l
  BY DEF Recalled
<1>2. PICK v : v = thread'[t]
  OBVIOUS
<1> DEFINE w == thread[t]
<1>3. Changed(w, v) /\ Staged(w) /\ w.recalled /\ \E p \in w.todo \cup w.ended : p[1] = l
  BY <1>1, <1>2, ThreadsStep DEF Base, Types
<1>4. w.at \in TakingBack
  BY <1>3 DEF Staged
<1>5. CASE v = w
  BY <1>1, <1>2, <1>5 DEF Recalled
<1>6. CASE SameReturn(v, w) /\ Returning(w, v)
  <2>1. v.recalled /\ v.todo \cup v.ended = w.todo \cup w.ended
    BY <1>3, <1>6 DEF SameReturn, Returning
  <2>2. v.recalled /\ \E p \in v.todo \cup v.ended : p[1] = l
    BY <1>3, <2>1
  <2> QED BY <1>2, <2>2 DEF Recalled
<1>7. CASE Leaving(w, v)
  BY <1>3, <1>7 DEF Leaving
<1> HIDE DEF w
<1> QED BY <1>3, <1>4, <1>5, <1>6, <1>7 DEF Changed, TakingBack

\* The one key of an active credential that a step revokes is of a loan being taken back.
LEMMA KillsOnlyHis ==
  ASSUME Base, Owned, Remotes, Clear, [LoanNext]_loanVars, NEW x \in Key, Kills(x),
         creds[x].status = "active", keys[x].live
  PROVE  \E t \in Thread : \E p \in thread[t].todo :
           /\ p \in Loan \X (Key \cup {None}) /\ p[2] = x /\ Names(p[1], x) /\ UNCHANGED loans
           /\ thread'[t].recalled /\ p \in thread'[t].todo
<1>1. Types /\ x # None
  BY LoanAssumption DEF Base, Key, None
<1>2. /\ \A k \in Key : creds[k].status # "none" => creds[k].remote \in {k, None}
      /\ \A t \in Thread : /\ thread[t].at = "storing" => thread[t].remote \in {thread[t].key, None}
                           /\ thread[t].old # None => creds[thread[t].old].status = "revoked"
  BY DEF Remotes
<1>3. ASSUME NEW t \in Thread, thread[t].at = "storing", x = thread[t].remote PROVE FALSE
  <2>1. thread[t].key = x
    BY <1>1, <1>2, <1>3
  <2> QED BY <1>1, <2>1 DEF Owned, Held
<1>4. ASSUME NEW t \in Thread, x = thread[t].old PROVE FALSE
  BY <1>1, <1>2, <1>4
<1>5. PICK t \in Thread : /\ Current(t) \in thread[t].todo /\ x = RemoteOf(Current(t)[2])
                               /\ UNCHANGED loans
                          /\ \E v : /\ Goes(t, v) /\ v.todo = thread[t].todo
                                    /\ v.recalled = (thread[t].recalled \/ Alive(x))
  BY <1>3, <1>4 DEF Kills
<1>6. PICK p \in thread[t].todo : p = Current(t)
  BY <1>5
<1>7. p \in Loan \X (Key \cup {None}) /\ p = <<p[1], p[2]>> /\ p[1] \in Loan /\ p[2] \in Key
     \cup {None}
  BY <1>1, <1>6 DEF Types, ThreadRec
<1>8. p[2] = x
  BY <1>1, <1>2, <1>5, <1>6, <1>7 DEF RemoteOf
<1>9. Names(p[1], x)
  BY <1>6, <1>7, <1>8 DEF Names
<1>10. thread'[t].recalled /\ p \in thread'[t].todo
  <2>1. PICK v : Goes(t, v) /\ v.todo = thread[t].todo
       /\ v.recalled = (thread[t].recalled \/ Alive(x))
    BY <1>5
  <2>2. thread'[t] = v
    BY <1>1, <2>1, Moved
  <2>3. v.recalled
    BY <2>1 DEF Alive
  <2> QED BY <1>6, <2>1, <2>2, <2>3
<1> QED BY <1>5, <1>6, <1>7, <1>8, <1>9, <1>10

\* Every step keeps lent keys working.
LEMMA WorksKept == Base /\ Owned /\ Remotes /\ Works /\ [LoanNext]_loanVars => Works'
<1> SUFFICES ASSUME Base, Owned, Remotes, Works, [LoanNext]_loanVars, "half" \notin marks',
     {"namesake", "mistaken"} \cap marks' = {},
                    NEW l \in Loan, loans'[l].status = "active", loans'[l].cred # None
    PROVE  keys'[loans'[l].cred].live \/ Recalled(l)'
  BY DEF Works
<1>1. Types /\ Clear /\ {"half", "namesake", "mistaken"} \cap marks = {}
  BY MarksGrow DEF Base, Clear
<1>2. PICK c \in Key : c = loans'[l].cred
  <2>1. Types'
    BY TypesKept DEF Base
  <2>2. loans'[l].cred \in Key \cup {None}
    BY <2>1 DEF Types, LoanRow
  <2> QED BY <2>2
<1>3. CASE Gives(l, c)
  <2>1. PICK t \in Thread : Stored(t) /\ thread[t].key = c
    BY <1>3 DEF Gives
  <2>2. UNCHANGED keys
    BY <2>1 DEF Stored
  <2>3. keys[c].live
    BY <1>1, <1>2, <2>1 DEF Remotes
  <2> QED BY <1>2, <2>2, <2>3
<1>4. CASE loans[l].cred = c
  <2>1. loans[l].status = "active"
    <3>1. loans[l].status = "none" => loans[l].cred = None
      BY <1>1 DEF Types, NoLoanRow
    <3> QED BY <1>1, <1>2, <1>4, <3>1, StatusKept
  <2>2. creds[c].status = "active" /\ (keys[c].live \/ Recalled(l))
    BY <1>1, <1>2, <1>4, <2>1 DEF Owned, Lent, Works
  <2>3. CASE Recalled(l)
    BY <2>3, RecalledStays
  <2>4. CASE keys[c].live
    <3>1. ASSUME NEW t \in Thread, Makes(t) PROVE keys'[c].live
      <4>1. keys[c] # NoKey
        BY <2>2 DEF Owned, Backed
      <4>2. NextKey # c
        BY <3>1, <4>1, NextFree DEF Makes, Owned
      <4>3. keys'[c] = keys[c]
        BY <1>1, <3>1, <4>2 DEF Makes, Types
      <4> QED BY <2>4, <4>3
    <3>2. ASSUME NEW x \in Key, keys' = Dead(x), Kills(x), x # c PROVE keys'[c].live
      BY <1>1, <2>4, <3>2, DeadTyped DEF RemoteId
    <3>3. ASSUME Kills(c) PROVE Recalled(l)'
      <4>0. PICK t \in Thread : \E p \in thread[t].todo :
              /\ p \in Loan \X (Key \cup {None}) /\ p[2] = c /\ Names(p[1], c)
              /\ thread'[t].recalled /\ p \in thread'[t].todo
        BY <1>1, <2>2, <2>4, <3>3, KillsOnlyHis
      <4>1. PICK p \in thread[t].todo :
              /\ p \in Loan \X (Key \cup {None}) /\ p[2] = c /\ Names(p[1], c)
              /\ thread'[t].recalled /\ p \in thread'[t].todo
        BY <4>0
      <4>2. p[1] \in Loan /\ Names(l, c)
        BY <1>4, <4>1 DEF Names
      <4>3. p[1] = l
        BY <4>1, <4>2 DEF Owned, Named
      <4> QED BY <4>1, <4>3 DEF Recalled
    <3> QED BY <1>1, <1>2, <2>4, <3>1, <3>2, <3>3, KeysStep
  <2> QED BY <2>2, <2>3, <2>4
<1> QED BY <1>2, <1>3, <1>4, CredGiven

\* They are in every state.
LEMMA WorksHolds == LoanSpec => []Works
<1>1. LoanInit => Works
  BY DEF LoanInit, Works, NoLoanRow
<1>2. Base /\ Owned /\ Remotes /\ Works /\ [LoanNext]_loanVars => Works'
  BY WorksKept
<1> QED BY <1>1, <1>2, BaseHolds, OwnedHolds, RemotesHolds, PTL DEF LoanSpec

\* The key behind an active loan works unless a thread is taking that loan back, however
\* moves, returns and ticks interleave and fail: a credential belongs to one loan
\* (reassign_loan_source, revoke_loan, expire_loans_on_reset). Excepted are a return rolled
\* back after the key was revoked, and a name that resolved to another's key, be it a
\* namesake's or just the last listed (_resolve_remote_key_id).
THEOREM LentWork == LoanSpec => []LentKeysWork
<1>1. Works => LentKeysWork
  BY DEF Works, LentKeysWork, Recalled
<1> QED BY <1>1, WorksHolds, PTL

\* While nobody writes from a stale read, a thread that has a loan's row locked knows its
\* credential.
Fresh == "stale" \notin marks =>
   \A t \in Thread : LET w == thread[t] IN
     /\ w.op = "move" /\ w.at \in Working
          => loans[w.loan].status = "active" /\ loans[w.loan].cred = w.view.cred
     /\ \A p \in w.ended : loans[p[1]].cred = p[2]

\* Only the thread that has its row locked changes the status or the key of a loan.
LEMMA RowLocked ==
  ASSUME Base, [LoanNext]_loanVars, NEW l \in Loan, loans[l].status # "none",
         loans'[l].status # loans[l].status \/ loans'[l].cred # loans[l].cred
  PROVE  \E t \in Thread : lock[l] = t /\ thread'[t].op = "none" /\ thread'[t].ended = {}
<1>1. Types /\ Locks
  BY DEF Base
<1>2. ~SameLoan(loans'[l], loans[l]) \/ loans'[l].status # loans[l].status
  BY DEF SameLoan
<1>3. ASSUME NEW t \in Thread, Shifts(l, t)
      PROVE lock[l] = t /\ thread'[t].op = "none" /\ thread'[t].ended = {}
  <2>1. lock[l] = t
    BY <1>1, <1>3 DEF Shifts, Locks, Holding, Working
  <2>2. thread'[t] = After(thread[t])
    BY <1>1, <1>3, Moved DEF Shifts, Stored
  <2>3. After(thread[t]).op = "none" /\ After(thread[t]).ended = {}
    BY DEF After, Resting
  <2> QED BY <2>1, <2>2, <2>3
<1>4. ASSUME NEW t \in Thread, Returned(l, t)
      PROVE lock[l] = t /\ thread'[t].op = "none" /\ thread'[t].ended = {}
  <2>1. lock[l] = t
    BY <1>1, <1>4 DEF Returned, Locks, Holding
  <2>2. thread'[t] = Resting
    BY <1>1, <1>4, Moved DEF Returned, Closed, Over
  <2> QED BY <2>1, <2>2 DEF Resting
<1> QED BY <1>1, <1>2, <1>3, <1>4, RowsStep

\* Every step keeps what is known of a locked row true.
LEMMA FreshKept == Base /\ Fresh /\ [LoanNext]_loanVars => Fresh'
<1> SUFFICES ASSUME Base, Fresh, [LoanNext]_loanVars, "stale" \notin marks', NEW t \in Thread
    PROVE  /\ thread'[t].op = "move" /\ thread'[t].at \in Working =>
                loans'[thread'[t].loan].status = "active"
                     /\ loans'[thread'[t].loan].cred = thread'[t].view.cred
           /\ \A p \in thread'[t].ended : loans'[p[1]].cred = p[2]
  BY DEF Fresh
<1> DEFINE w == thread[t]
<1>1. Types /\ Locks /\ Booked /\ "stale" \notin marks
  BY MarksGrow DEF Base
<1>2. PICK v : v = thread'[t]
  OBVIOUS
<1>3. Changed(w, v) /\ Staged(w) /\ Staged(v) /\ w \in ThreadRec /\ v \in ThreadRec
  BY <1>1, <1>2, ThreadsStep DEF Types
<1>4. /\ w.op = "move" /\ w.at \in Working
           => loans[w.loan].status = "active" /\ loans[w.loan].cred = w.view.cred
      /\ \A p \in w.ended : loans[p[1]].cred = p[2]
  BY <1>1 DEF Fresh
<1>5. /\ w.op = "move" /\ w.at \in Working => lock[w.loan] = t
      /\ \A p \in w.ended : lock[p[1]] = t
      /\ \A p \in w.ended : loans[p[1]].status # "none"
  BY <1>1 DEF Locks, Holding, Booked
<1>6. ASSUME NEW l \in Loan, lock[l] = t, loans[l].status # "none", v.op # "none"
      PROVE  loans'[l].status = loans[l].status /\ loans'[l].cred = loans[l].cred
  BY <1>1, <1>2, <1>6, RowLocked
<1> HIDE DEF w
<1>7. ASSUME v.op = "move", v.at \in Working
      PROVE  loans'[v.loan].status = "active" /\ loans'[v.loan].cred = v.view.cred
  <2>1. v.loan \in Loan
    BY <1>3, <1>7 DEF Staged
  <2>2. CASE (v = w \/ SameTask(v, w)) /\ w.at \in Working
    <3>1. w.op = "move" /\ w.loan = v.loan /\ w.view = v.view
      BY <1>7, <2>2 DEF SameTask
    <3>2. loans[v.loan].status = "active" /\ loans[v.loan].cred = v.view.cred /\ lock[v.loan] = t
      BY <1>4, <1>5, <2>2, <3>1
    <3> QED BY <1>6, <1>7, <2>1, <3>2
  <2>3. CASE w.at = "queued" /\ Learning(w, v)
    BY <1>7, <2>3 DEF Learning
  <2>4. CASE SameReturn(v, w)
    BY <1>7, <2>4 DEF SameReturn, Working, TakingBack
  <2>5. CASE Begun(v)
    BY <1>7, <2>5 DEF Begun, Working
  <2>6. SameTask(v, w) => w.at # "asking"
    BY <1>3, <1>7 DEF Staged, SameTask
  <2> QED BY <1>3, <1>7, <2>2, <2>3, <2>4, <2>5, <2>6 DEF Changed, Working
<1>8. ASSUME NEW p \in v.ended PROVE loans'[p[1]].cred = p[2]
  <2>1. p[1] \in Loan
    BY <1>3, HoldTypes
  <2>2. v.op # "none"
    BY <1>3, <1>8 DEF Staged, TakingBack
  <2>3. CASE p \in w.ended
    BY <1>4, <1>5, <1>6, <2>1, <2>2, <2>3
  <2>4. CASE UNCHANGED loans /\ loans[p[1]].cred = p[2]
    BY <2>4
  <2>5. v = w \/ (SameReturn(v, w) /\ Returning(w, v))
    BY <1>3, <1>8 DEF Changed, Begun, SameTask
  <2> QED BY <1>8, <2>3, <2>4, <2>5 DEF Returning
<1> QED BY <1>2, <1>7, <1>8

\* It is true in every state.
LEMMA FreshHolds == LoanSpec => []Fresh
<1>1. LoanInit => Fresh
  <2> SUFFICES ASSUME LoanInit PROVE Fresh
    OBVIOUS
  <2>1. \A t \in Thread : thread[t] = Resting
    BY DEF LoanInit
  <2> QED BY <2>1 DEF Fresh, Resting
<1>2. Base /\ Fresh /\ [LoanNext]_loanVars => Fresh'
  BY FreshKept
<1> QED BY <1>1, <1>2, BaseHolds, PTL DEF LoanSpec

\* The key of a loan to be ended is revoked, as long as the loan has it.
SettledIn(p, rows, made) ==
  rows[p[1]].status = "active" /\ rows[p[1]].cred = p[2] /\ p[2] # None => ~made[p[2]].live
Settled(p) == SettledIn(p, loans, keys)
\* Loans about to be ended have their keys revoked, unless a failed revocation was let
\* pass.
Gone == {"kept", "namesake", "mistaken", "unknown"} \cap marks = {} =>
   \A t \in Thread : /\ \A p \in thread[t].ended : Settled(p)
                     /\ thread[t].at = "flushing" => Settled(Current(t))

\* A loan settled stays settled: it gets no other key while it is being ended.
LEMMA SettledStays ==
  ASSUME Base, Owned, [LoanNext]_loanVars, NEW l \in Loan, NEW c \in Key \cup {None},
         Settled(<<l, c>>), loans[l].status # "none", c # None => Names(l, c)
  PROVE  SettledIn(<<l, c>>, loans', keys')
<1>1. Types
  BY DEF Base
<1>2. SUFFICES ASSUME loans'[l].status = "active", loans'[l].cred = c, c # None PROVE ~keys'[c].live
  BY DEF SettledIn
<1>3. c \in Key
  BY <1>2
<1>4. ~Gives(l, c)
  <2>1. ASSUME NEW t \in Thread, thread[t].key = c PROVE FALSE
    BY <1>2, <1>3, <2>1 DEF Owned, Held, Named
  <2> QED BY <2>1 DEF Gives
<1>5. loans[l].cred = c /\ loans[l].status = "active"
  BY <1>1, <1>2, <1>3, <1>4, CredGiven, StatusKept
<1>6. ~keys[c].live /\ creds[c].status = "active"
  BY <1>2, <1>5 DEF Settled, SettledIn, Owned, Lent
<1>7. ASSUME NEW t \in Thread, Makes(t) PROVE ~keys'[c].live
  <2>1. keys[c] # NoKey
    BY <1>3, <1>6 DEF Owned, Backed
  <2>2. NextKey # c
    BY <1>7, <2>1, NextFree DEF Makes, Owned
  <2>3. keys'[c] = keys[c]
    BY <1>1, <1>3, <1>7, <2>2 DEF Makes, Types
  <2> QED BY <1>6, <2>3
<1>8. ASSUME NEW x \in Key, keys' = Dead(x) PROVE ~keys'[c].live
  BY <1>1, <1>3, <1>6, <1>8, DeadTyped DEF RemoteId
<1> QED BY <1>1, <1>6, <1>7, <1>8, KeysStep

\* Every step keeps the loans about to be ended settled.
LEMMA GoneKept == Base /\ Owned /\ Remotes /\ Gone /\ [LoanNext]_loanVars => Gone'
<1> SUFFICES ASSUME Base, Owned, Remotes, Gone, [LoanNext]_loanVars, "kept" \notin marks',
     {"namesake", "mistaken", "unknown"} \cap marks' = {},
                    NEW t \in Thread
    PROVE  /\ \A p \in thread'[t].ended : SettledIn(p, loans', keys')
           /\ thread'[t].at = "flushing" => SettledIn(Newest(thread'[t].todo), loans', keys')
  BY DEF Gone, Settled, Current, Newest
<1> DEFINE w == thread[t]
<1>1. Types /\ Booked /\ Clear /\ {"kept", "namesake", "mistaken", "unknown"} \cap marks = {}
  BY MarksGrow DEF Base, Clear
<1>2. PICK v : v = thread'[t]
  OBVIOUS
<1>3. Changed(w, v) /\ Staged(w) /\ Staged(v) /\ w \in ThreadRec /\ v \in ThreadRec
  BY <1>1, <1>2, ThreadsStep DEF Types
<1>4. /\ \A p \in w.ended : Settled(p)
      /\ w.at = "flushing" => Settled(Newest(w.todo))
  BY <1>1 DEF Gone, Current, Newest
<1>5. ASSUME NEW p \in w.todo \cup w.ended
      PROVE p = <<p[1], p[2]>> /\ p[1] \in Loan /\ p[2] \in Key \cup {None}
  BY <1>3, <1>5 DEF ThreadRec
<1>6. ASSUME NEW p \in w.todo \cup w.ended, Settled(p) PROVE SettledIn(p, loans', keys')
  <2>1. loans[p[1]].status # "none"
    BY <1>1, <1>6 DEF Booked
  <2>2. Names(p[1], p[2])
    BY <1>5, <1>6 DEF Names
  <2>3. Settled(<<p[1], p[2]>>)
    BY <1>5, <1>6
  <2>4. SettledIn(<<p[1], p[2]>>, loans', keys')
    BY <1>5, <1>6, <2>1, <2>2, <2>3, SettledStays
  <2> QED BY <1>5, <1>6, <2>4
<1>7. w.at = "flushing" => Newest(w.todo) \in w.todo
  <2>1. w.at = "flushing" => w.todo # {}
    BY <1>3 DEF Staged
  <2>2. w.todo # {} => Current(t) \in w.todo
    BY <1>1, CurrentListed
  <2> QED BY <2>1, <2>2 DEF Current, Newest
<1> HIDE DEF w
<1>8. ASSUME NEW p \in v.ended PROVE SettledIn(p, loans', keys')
  <2>1. CASE p \in w.ended
    BY <1>4, <1>6, <2>1
  <2>2. CASE w.at = "flushing" /\ p = Newest(w.todo)
    BY <1>4, <1>6, <1>7, <2>2
  <2>3. v = w \/ (SameReturn(v, w) /\ Returning(w, v))
    BY <1>3, <1>8 DEF Changed, Begun, SameTask
  <2> QED BY <1>8, <2>1, <2>2, <2>3 DEF Returning
<1>9. ASSUME v.at = "flushing" PROVE SettledIn(Newest(v.todo), loans', keys')
  <2>1. CASE v = w
    BY <1>4, <1>6, <1>7, <1>9, <2>1
  <2>2. CASE Returning(w, v)
    <3> DEFINE p == Newest(w.todo)
    <3>1. /\ v.todo = w.todo /\ UNCHANGED <<creds, loans>>
          /\ RemoteOf(p[2]) \in Key => ~keys'[RemoteOf(p[2])].live
      BY <1>9, <2>2 DEF Returning
    <3>2. w.todo # {}
      BY <1>3, <1>9, <3>1 DEF Staged
    <3>3. p \in w.todo
      BY <1>1, <3>2, CurrentListed DEF Current, Newest, w
    <3>4. p[1] \in Loan /\ p[2] \in Key \cup {None}
      BY <1>5, <3>3
    <3> HIDE DEF p
    <3>5. ASSUME loans[p[1]].status = "active", loans[p[1]].cred = p[2], p[2] # None
          PROVE  ~keys'[p[2]].live
      <4>1. creds[p[2]].status = "active" /\ p[2] \in Key
        BY <3>4, <3>5 DEF Owned, Lent
      <4>2. creds[p[2]].remote = p[2]
        BY <1>1, <4>1 DEF Remotes
      <4>3. RemoteOf(p[2]) = p[2]
        BY <3>5, <4>1, <4>2 DEF RemoteOf
      <4> QED BY <3>1, <3>5, <4>1, <4>3
    <3>6. SettledIn(p, loans', keys')
      BY <3>1, <3>5 DEF SettledIn
    <3> QED BY <3>1, <3>6 DEF p
  <2>3. v = w \/ (SameReturn(v, w) /\ Returning(w, v))
    BY <1>3, <1>9 DEF Changed, Begun, SameTask, Working
  <2> QED BY <2>1, <2>2, <2>3
<1> QED BY <1>2, <1>8, <1>9

\* They are in every state.
LEMMA GoneHolds == LoanSpec => []Gone
<1>1. LoanInit => Gone
  <2> SUFFICES ASSUME LoanInit PROVE Gone
    OBVIOUS
  <2>1. \A t \in Thread : thread[t] = Resting
    BY DEF LoanInit
  <2> QED BY <2>1 DEF Gone, Resting
<1>2. Base /\ Owned /\ Remotes /\ Gone /\ [LoanNext]_loanVars => Gone'
  BY GoneKept
<1> QED BY <1>1, <1>2, BaseHolds, OwnedHolds, RemotesHolds, PTL DEF LoanSpec

\* Key k is behind an active loan, or with a thread that is to use or revoke it.
Minded(k) ==
  \/ \E l \in Loan : loans[l].status = "active" /\ loans[l].cred = k
  \/ \E t \in Thread : k \in {thread[t].key, thread[t].old}

\* The key a loan has is not lost sight of: a move keeps the old one to revoke, and a
\* return has it revoked already.
LEMMA LentMinded ==
  ASSUME Base, Owned, Remotes, Fresh, Gone, [LoanNext]_loanVars,
         {"kept", "stale", "namesake", "mistaken", "unknown"} \cap marks' = {},
         NEW k \in Key, keys'[k].live, NEW l \in Loan, loans[l].status = "active", loans[l].cred = k
  PROVE  Minded(k)'
<1>1. Types /\ Locks /\ Clear /\ {"kept", "stale", "namesake", "mistaken", "unknown"} \cap marks = {}
     /\ k # None
  BY MarksGrow, LoanAssumption DEF Base, Clear, Key, None
<1>2. creds[k].status = "active" /\ creds[k].remote = k /\ Names(l, k)
  BY <1>1 DEF Owned, Lent, Remotes, Names
<1>3. CASE loans'[l].status = "active" /\ loans'[l].cred = k
  BY <1>3 DEF Minded
<1>4. ASSUME NEW t \in Thread, Shifts(l, t), ~(loans'[l].status = "active" /\ loans'[l].cred = k)
      PROVE Minded(k)'
  <2> DEFINE w == thread[t]
             X == IF w.key # None THEN w.key ELSE IF w.account = NoAccount THEN None
                  ELSE w.view.cred
  <2>1. w \in ThreadRec /\ loans \in [Loan -> LoanRow] /\ w.loan = l /\ loans'[l] = MovedLoan(w)
       /\ w.op = "move" /\ w.at = "storing"
    BY <1>1, <1>4 DEF Types, Shifts
  <2>2. loans'[l].status = "active" /\ loans'[l].cred = Written(w.view.cred, X, loans[l].cred)
    BY <2>1, MovedRow
  <2>3. w.view.cred = k
    BY <1>1, <2>1 DEF Fresh, Working
  <2>4. X # w.view.cred
    BY <1>4, <2>2 DEF Written
  <2>5. Leaves(w)
    BY <2>1, <2>4 DEF Leaves
  <2>6. Left(w) = k
    BY <1>1, <1>2, <2>3, <2>5 DEF Left, LeftBehind
  <2>7. thread'[t] = After(w)
    BY <1>1, <1>4, Moved DEF Shifts, Stored
  <2>8. After(w).old = k
    BY <1>1, <2>6 DEF After, Resting
  <2> HIDE DEF w, X
  <2> QED BY <2>7, <2>8 DEF Minded
<1>5. ASSUME NEW t \in Thread, Returned(l, t) PROVE FALSE
  <2>1. PICK p \in thread[t].ended : p[1] = l
    BY <1>5 DEF Returned
  <2>2. UNCHANGED keys
    BY <1>5 DEF Returned, Closed
  <2>3. p[2] = k /\ Settled(p)
    BY <1>1, <2>1 DEF Fresh, Gone
  <2>4. ~keys[k].live
    BY <1>1, <2>1, <2>3 DEF Settled, SettledIn
  <2> QED BY <2>2, <2>4
<1>6. SameLoan(loans'[l], loans[l]) /\ loans'[l].status = loans[l].status
     => loans'[l].status = "active" /\ loans'[l].cred = k
  BY DEF SameLoan
<1> QED BY <1>1, <1>3, <1>4, <1>5, <1>6, RowsStep

\* The key a thread has is stored with a loan or revoked, or its loss is marked.
LEMMA HeldMinded ==
  ASSUME Base, Owned, Remotes, Fresh, [LoanNext]_loanVars,
         {"kept", "stale", "namesake", "mistaken", "unknown"} \cap marks' = {},
         NEW k \in Key, keys'[k].live, NEW t \in Thread, thread[t].key = k \/ thread[t].old = k
  PROVE  Minded(k)'
<1> DEFINE w == thread[t]
<1>1. Types /\ Clear /\ {"kept", "stale", "namesake", "mistaken", "unknown"} \cap marks = {}
     /\ k # None
  BY MarksGrow, LoanAssumption DEF Base, Clear, Key, None
<1>2. PICK v : v = thread'[t]
  OBVIOUS
<1>3. Changed(w, v) /\ Staged(w) /\ w \in ThreadRec
  BY <1>1, <1>2, ThreadsStep DEF Types
<1>4. CASE v.key = w.key /\ w.key = k
  BY <1>2, <1>4 DEF Minded
<1>5. CASE v = w /\ w.old = k
  BY <1>2, <1>5 DEF Minded
<1>6. ASSUME w.old = k, Leaving(w, v) PROVE FALSE
  BY <1>1, <1>6 DEF Leaving
<1>7. ASSUME w.key = k, Leaving(w, v) PROVE Minded(k)'
  <2>1. creds[k].status = "none"
    BY <1>1, <1>7 DEF Owned, Held
  <2>2. w.at = "storing" /\ (Saves(w) \/ keys' = Dead(w.remote))
    BY <1>1, <1>7 DEF Leaving
  <2>3. w.remote = k
    BY <1>1, <1>7, <2>2 DEF Remotes
  <2>4. keys' # Dead(k)
    <3>1. keys' = Dead(k) => ~keys'[k].live
      BY <1>1, DeadTyped DEF RemoteId
    <3> QED BY <3>1
  <2>5. CASE w.op = "move" /\ loans' = [loans EXCEPT ![w.loan] = MovedLoan(w)]
    <3>1. w.loan \in Loan /\ loans \in [Loan -> LoanRow]
      BY <1>1, <1>3, <2>5 DEF Staged, Types
    <3>2. loans[w.loan].status = "active"
      BY <1>1, <2>2, <2>5 DEF Fresh, Working
    <3>3. w.view.cred # k
      <4>1. w.view.cred = k => Names(w.loan, k)
        BY <2>5 DEF Names
      <4> QED BY <2>1, <3>1, <4>1 DEF Owned, Named
    <3>4. loans'[w.loan] = MovedLoan(w)
      BY <2>5, <3>1
    <3>5. MovedLoan(w).status = "active" /\ MovedLoan(w).cred = k
      BY <1>1, <1>3, <1>7, <3>1, <3>2, <3>3, MovedRow DEF Written
    <3> QED BY <3>1, <3>4, <3>5 DEF Minded
  <2>6. ASSUME NEW l \in Loan, loans' = [loans EXCEPT ![l] = NewRow(w)] PROVE Minded(k)'
    <3>1. loans'[l] = NewRow(w)
      BY <1>1, <2>6 DEF Types
    <3>2. NewRow(w).status = "active" /\ NewRow(w).cred = k
      BY <1>3, <1>7, NewRowFits
    <3> QED BY <3>1, <3>2 DEF Minded
  <2> QED BY <2>2, <2>3, <2>4, <2>5, <2>6 DEF Saves
<1>8. w.at = "idle" => w.key = None /\ w.old = None
  BY <1>3 DEF Staged
<1>9. w.at \in TakingBack => w.key = None /\ w.old = None
  BY <1>3 DEF Staged, TakingBack
<1>10. w.at \in {"asking", "queued", "admitted", "naming"} => w.old = None
  BY <1>3 DEF Staged
<1>11. w.key = k \/ w.old = k
  OBVIOUS
<1> HIDE DEF w
<1> QED BY <1>1, <1>3, <1>4, <1>5, <1>6, <1>7, <1>8, <1>9, <1>10, <1>11 DEF Changed

\* Every step keeps the keys minded.
LEMMA MindedKept ==
  Base /\ Owned /\ Remotes /\ Fresh /\ Gone /\ KeysAreLent /\ [LoanNext]_loanVars => KeysAreLent'
<1> SUFFICES ASSUME Base, Owned, Remotes, Fresh, Gone, KeysAreLent, [LoanNext]_loanVars,
                    {"kept", "stale", "namesake", "mistaken", "unknown"} \cap marks' = {},
                    NEW k \in Key, keys'[k].live
    PROVE  Minded(k)'
  BY DEF KeysAreLent, Minded
<1>1. Types /\ {"kept", "stale", "namesake", "mistaken", "unknown"} \cap marks = {}
  BY MarksGrow DEF Base
<1>2. CASE keys[k].live
  <2>1. Minded(k)
    BY <1>1, <1>2 DEF KeysAreLent, Minded
  <2> QED BY <2>1, LentMinded, HeldMinded DEF Minded
<1>3. CASE ~keys[k].live
  <2>1. ASSUME NEW x \in Key, keys' = Dead(x) PROVE FALSE
    BY <1>1, <1>3, <2>1, DeadTyped DEF RemoteId
  <2>2. PICK t \in Thread : Makes(t)
    BY <1>1, <1>3, <2>1, KeysStep
  <2>3. NextKey = k
    <3>1. NextKey # k => keys'[k] = keys[k]
      BY <1>1, <2>2 DEF Makes, Types
    <3> QED BY <1>3, <3>1
  <2>4. PICK v : Goes(t, v) /\ v.key = k
    BY <2>2, <2>3 DEF Makes
  <2>5. thread'[t] = v
    BY <1>1, <2>4, Moved
  <2> QED BY <2>4, <2>5 DEF Minded
<1> QED BY <1>2, <1>3

\* A key that works is behind an active loan or with a thread about to use or revoke it,
\* unless one of the things has happened that the property names: a call to Cursor, a commit
\* or a process failed, or a primary credential was missing ("kept"), an id was never learnt
\* or was another's, a loan was written from a stale read. There is no other way to lose sight
\* of a key, whatever moves, returns and ticks interleave (issue_loan_key,
\* finalize_reassign_old_remote_revoke, revoke_loan).
THEOREM NoKeyForgotten == LoanSpec => []KeysAreLent
<1>1. LoanInit => KeysAreLent
  BY DEF LoanInit, KeysAreLent, NoKey
<1>2. Base /\ Owned /\ Remotes /\ Fresh /\ Gone /\ KeysAreLent /\ [LoanNext]_loanVars
     => KeysAreLent'
  BY MindedKept
<1> QED BY <1>1, <1>2, BaseHolds, OwnedHolds, RemotesHolds, FreshHolds, GoneHolds, PTL DEF LoanSpec
=============================================================================
