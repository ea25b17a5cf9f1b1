------------------------------ MODULE KeyLoan ------------------------------
(***************************************************************************)
(* Loans of Cursor keys: request threads of Pulse Web and the expiry tick, *)
(* each in a database transaction, issue loans, move them to another       *)
(* account, take them back; the keys themselves are made and revoked at    *)
(* Cursor, outside any transaction (pulse/tool_center/key_loan_issue.py,   *)
(* key_loan_state.py and their callers). Rows are read as committed, and a *)
(* row a session has loaded is not read again.                             *)
(***************************************************************************)
EXTENDS Naturals, FiniteSets

CONSTANTS
  Borrower, NoBorrower,
  Account, NoAccount,
  MaxThreads,   \* how many threads at once
  LoanCap,      \* max_active_loans_per_account
  MaxLoans, MaxKeys, MaxRequests, MaxResets,  \* bounds: loans, keys ever made, requests, reset days
  Faults,       \* the kinds of fault that may happen
  MaxFaults     \* how many faults in all

Loan == 1..MaxLoans
Key == 1..MaxKeys
Thread == 1..MaxThreads
None == 0
Nobody == 0
PrimaryKey == MaxKeys + 1   \* the key of an account itself, which Cursor lists with the others
RemoteId == Key \cup {None, PrimaryKey}

\* lost: no answer to a creation; list, revoke: Cursor fails; unlisted: the key just made is not
\* in Cursor's list; unbound: the account has no primary credential at that moment; flush, commit:
\* the database fails; unclean: a flush fails, and Cursor with it.
FaultKinds == {"lost", "list", "unlisted", "unbound", "flush", "unclean", "commit", "revoke", "crash"}

\* What has happened: a key was left working; one was revoked and its loan not ended; an id was
\* taken for that of a namesake's key, of a stranger's, or not found; a primary key was revoked;
\* a loan was changed between being loaded and being written.
MarkKinds == {"kept", "half", "namesake", "mistaken", "unknown", "cut", "stale"}

ASSUME LoanAssumption ==
  /\ NoBorrower \notin Borrower /\ NoAccount \notin Account
  /\ LoanCap \in Nat \ {0} /\ Faults \subseteq FaultKinds
  /\ {MaxThreads, MaxLoans, MaxKeys, MaxRequests, MaxResets, MaxFaults} \subseteq Nat

VARIABLES
  keys,      \* at Cursor: where each loan key is, for whom it is named, whether it works
  creds,     \* ai_account_credentials: the row of each key, with remote_key_id
  loans,     \* key_loans
  lock,      \* who holds each row: borrowers, accounts, loans
  thread,    \* what each thread is doing
  requests, resets, faults,
  marks      \* history: which rare things have happened

loanVars == <<keys, creds, loans, lock, thread, requests, resets, faults, marks>>

NoKey == [at |-> NoAccount, name |-> NoBorrower, live |-> FALSE]
NoCredRow == [remote |-> None, status |-> "none"]
NoLoanRow == [status |-> "none", borrower |-> NoBorrower, account |-> NoAccount, cred |-> None,
              auto |-> FALSE, pool |-> FALSE, reset |-> FALSE, due |-> FALSE]

\* view: the loan as the session loaded it; key, remote: the key made for this request and
\* the id recorded for it; old: the id still to be revoked after the commit; todo, ended:
\* loans (with their credentials) to take back, and taken back in this transaction; recalled:
\* whether one of their keys has been revoked.
Resting == [at |-> "idle", op |-> "none", borrower |-> NoBorrower, account |-> NoAccount,
            loan |-> None, view |-> NoLoanRow, key |-> None, remote |-> None, old |-> None,
            todo |-> {}, ended |-> {}, recalled |-> FALSE]

LoanRow == [status : {"none", "active", "revoked", "expired"}, borrower : Borrower \cup {NoBorrower},
            account : Account \cup {NoAccount}, cred : Key \cup {None},
            auto : BOOLEAN, pool : BOOLEAN, reset : BOOLEAN, due : BOOLEAN]

LoanInit ==
  /\ keys = [k \in Key |-> NoKey]
  /\ creds = [k \in Key |-> NoCredRow]
  /\ loans = [l \in Loan |-> NoLoanRow]
  /\ lock = [row \in Borrower \cup Account \cup Loan |-> Nobody]
  /\ thread = [t \in Thread |-> Resting]
  /\ requests = 0 /\ resets = 0 /\ faults = 0 /\ marks = {}

\* Once a primary key has been revoked by mistake, the calls made with one may fail for that.
Fault(kind) ==
  /\ kind \in Faults
  /\ \/ faults < MaxFaults /\ faults' = faults + 1
     \/ "cut" \in marks /\ kind \in {"list", "unbound", "revoke"} /\ UNCHANGED faults
NoFault == UNCHANGED faults
Marks(new) == marks' = marks \cup new
-----------------------------------------------------------------------------
(* Threads and their transactions *)

At(t, phase) == thread[t].at = phase
Becomes(t, phase) == thread' = [thread EXCEPT ![t].at = phase]

Begin(t, started) ==
  /\ At(t, "idle") /\ requests < MaxRequests
  /\ requests' = requests + 1
  /\ thread' = [thread EXCEPT ![t] = started]
  /\ UNCHANGED <<keys, creds, loans, lock, resets, faults, marks>>

\* Slip: rows are counted without being locked.
TakesUnlocked(t, row) == UNCHANGED lock

\* SELECT ... FOR UPDATE, or an UPDATE: waits for whoever has the row.
Takes(t, row) == lock[row] \in {Nobody, t} /\ lock' = [lock EXCEPT ![row] = t]

\* Slip: the lock on a loan outlives the transaction.
ReleasesButLoans(t) == lock' = [row \in DOMAIN lock |->
                          IF lock[row] = t /\ row \notin Loan THEN Nobody ELSE lock[row]]
Releases(t) == lock' = [row \in DOMAIN lock |-> IF lock[row] = t THEN Nobody ELSE lock[row]]

\* The transaction is over, by commit, error or rollback.
Ends(t) == thread' = [thread EXCEPT ![t] = Resting] /\ Releases(t)

ActiveOn(rows, a) == {l \in Loan : rows[l].status = "active" /\ rows[l].account = a}
ActiveOf(b) == {l \in Loan : loans[l].status = "active" /\ loans[l].borrower = b}
-----------------------------------------------------------------------------
(* Issuing, and moving a loan *)

\* request_self_service_loan; the lender has been picked before any lock.
RequestSelf(t, b, a) ==
  Begin(t, [Resting EXCEPT !.at = "asking", !.op = "self", !.borrower = b, !.account = a])

\* loan_key of an administrator, for one account: neither other loans nor the cap matter.
IssueManual(t, b, a) ==
  Begin(t, [Resting EXCEPT !.at = "admitted", !.op = "manual", !.borrower = b, !.account = a])

\* The loan gets the next row.
NewLoan(row) ==
  LET l == CHOOSE x \in Loan : loans[x].status = "none" /\ \A y \in 1..x - 1 : loans[y].status # "none"
  IN loans' = [loans EXCEPT ![l] = row]
RowLeft == \E l \in Loan : loans[l].status = "none"

\* issue_pool_loan: no account, no key.
IssuePool(b) ==
  /\ requests < MaxRequests /\ RowLeft
  /\ requests' = requests + 1
  /\ NewLoan([NoLoanRow EXCEPT !.status = "active", !.borrower = b, !.auto = TRUE, !.pool = TRUE])
  /\ UNCHANGED <<keys, creds, lock, thread, resets, faults, marks>>

\* One loan at a time for a borrower who helps himself.
Admitted(t) ==
  /\ At(t, "asking") /\ lock[thread[t].borrower] \in {Nobody, t}
  /\ IF ActiveOf(thread[t].borrower) # {} THEN Ends(t)
     ELSE Becomes(t, "admitted") /\ Takes(t, thread[t].borrower)
  /\ UNCHANGED <<keys, creds, loans, requests, resets, faults, marks>>

\* reassign_loan_source_account loads the loan; account NoAccount stands for the pool.
RequestMove(t, l, a) ==
  /\ loans[l].status # "none"
  /\ Begin(t, [Resting EXCEPT !.at = "queued", !.op = "move", !.loan = l, !.view = loans[l],
                              !.borrower = loans[l].borrower, !.account = a])

\* reassign_loan_source: locks the loan's row, and judges the loan as loaded before.
Validated(t) ==
  LET w == thread[t]
      v == w.view
      same == ~v.pool /\ w.account = v.account
  IN /\ At(t, "queued") /\ lock[w.loan] \in {Nobody, t}
     /\ IF v.status # "active" \/ (v.pool /\ w.account = NoAccount) \/ (same /\ ~v.auto)
        THEN Ends(t) /\ UNCHANGED marks
        ELSE /\ Takes(t, w.loan)
             /\ Becomes(t, IF same \/ w.account = NoAccount THEN "storing" ELSE "admitted")
             /\ Marks(IF v.status = loans[w.loan].status /\ v.cred = loans[w.loan].cred
                      THEN {} ELSE {"stale"})
     /\ UNCHANGED <<keys, creds, loans, requests, resets, faults>>

Full(a) == Cardinality(ActiveOn(loans, a)) >= LoanCap

NextKey == Cardinality({k \in Key : keys[k] # NoKey}) + 1

\* issue_loan_key, and reassign_loan_source from there on: with the account locked, its loans
\* are counted and the key is made with the primary one, if there is one that works; without
\* Cursor's answer nobody knows of the key.
Creates(t) ==
  LET w == thread[t]
      made == keys' = [keys EXCEPT ![NextKey] =
                         [at |-> w.account, name |-> w.borrower, live |-> TRUE]]
  IN /\ At(t, "admitted") /\ lock[w.account] \in {Nobody, t} /\ NextKey \in Key
     /\ \/ w.op = "self" /\ Full(w.account) /\ Ends(t) /\ NoFault /\ UNCHANGED <<keys, marks>>
        \/ /\ ~(w.op = "self" /\ Full(w.account))
           /\ made /\ NoFault /\ Takes(t, w.account) /\ UNCHANGED marks
           /\ thread' = [thread EXCEPT ![t].at = "naming", ![t].key = NextKey]
        \/ /\ ~(w.op = "self" /\ Full(w.account))
           /\ made /\ Fault("lost") /\ Ends(t) /\ Marks({"kept"})
        \/ Fault("unbound") /\ Ends(t) /\ UNCHANGED <<keys, marks>>
     /\ UNCHANGED <<creds, loans, requests, resets>>

\* The keys Cursor lists at an account, besides the account's own: those with a name, and others.
Namesakes(a, b) == {k \in Key : keys[k] = [at |-> a, name |-> b, live |-> TRUE]}
Strangers(a, b) == {k \in Key : keys[k].live /\ keys[k].at = a /\ keys[k].name # b}

\* The id is recorded for the key.
Learns(t, id) ==
  thread' = [thread EXCEPT ![t].at = "storing", ![t].remote = id] /\ UNCHANGED lock

\* _resolve_remote_key_id: the first listed with the borrower's name; where there is none, the
\* last listed, whosever it is, and no id where nothing is listed. It is outside the block that
\* revokes the key when something fails.
Resolves(t) ==
  LET w == thread[t]
      named == Namesakes(w.account, w.borrower)
      others == Strangers(w.account, w.borrower) \cup {PrimaryKey}
  IN /\ At(t, "naming")
     /\ \/ \E id \in named :
             Learns(t, id) /\ NoFault /\ Marks(IF id = w.key THEN {} ELSE {"namesake"})
        \/ /\ Fault("unlisted") /\ named \ {w.key} = {}
           /\ \/ \E id \in others : Learns(t, id) /\ Marks({"mistaken"})
              \/ Learns(t, None) /\ Marks({"unknown"})
        \/ Fault("list") /\ Ends(t) /\ Marks({"kept"})
     /\ UNCHANGED <<keys, creds, loans, requests, resets>>

\* Cursor revokes a key; a primary one is no key of a loan, but nothing can be done without it.
Dead(id) == IF id \in Key THEN [keys EXCEPT ![id].live = FALSE] ELSE keys
Revoked(id) == keys' = Dead(id) /\ Marks(IF id = PrimaryKey THEN {"cut"} ELSE {})

\* The remote id of the credential a move leaves, if it is still to be revoked.
LeftBehind(v) ==
  IF v.cred # None /\ creds[v.cred].status = "active" THEN creds[v.cred].remote ELSE None

\* The rows of the new key and of the one left, if any.
CredsAfter(w) ==
  [k \in Key |-> IF k = w.key THEN [remote |-> w.remote, status |-> "active"]
                 ELSE IF k = w.view.cred /\ (w.key # None \/ w.account = NoAccount)
                 THEN [creds[k] EXCEPT !.status = "revoked"] ELSE creds[k]]

\* A column as an UPDATE leaves it: written only if the session has changed what it loaded.
Written(loaded, changed, stored) == IF changed = loaded THEN stored ELSE changed

\* The loan's row after a move, with its new deadline.
MovedLoan(w) ==
  LET v == w.view
      toPool == w.account = NoAccount
      cred == IF w.key # None THEN w.key ELSE IF toPool THEN None ELSE v.cred
  IN [loans[w.loan] EXCEPT !.account = Written(v.account, w.account, @),
                           !.auto = Written(v.auto, toPool, @), !.pool = Written(v.pool, toPool, @),
                           !.cred = Written(v.cred, cred, @),
                           !.reset = Written(v.reset, v.reset /\ ~toPool, @), !.due = FALSE]

\* Slip: the key left is revoked before the commit.
StoresAndRevokes(t) ==
  LET w == thread[t]
      leaves == w.op = "move" /\ (w.key # None \/ w.account = NoAccount)
  IN /\ At(t, "storing") /\ (w.op # "move" => RowLeft)
     /\ \/ /\ NoFault /\ UNCHANGED <<keys, marks>>
           /\ creds' = CredsAfter(w)
           /\ IF w.op = "move" THEN loans' = [loans EXCEPT ![w.loan] = MovedLoan(w)]
              ELSE NewLoan([NoLoanRow EXCEPT !.status = "active", !.borrower = w.borrower,
                      !.account = w.account, !.cred = w.key, !.auto = (w.op = "self"), !.reset = TRUE])
           /\ Ends(t)
        \/ /\ Fault("commit") /\ Ends(t) /\ UNCHANGED <<creds, loans>>
           /\ keys' = IF leaves THEN Dead(LeftBehind(w.view)) ELSE keys
           /\ Marks(IF w.key = None THEN {} ELSE {"kept"})
     /\ UNCHANGED <<requests, resets>>

\* The rows are flushed and committed. An error before the commit revokes the new key, if
\* Cursor does it; one of the commit does not.
Stores(t) ==
  LET w == thread[t]
      old == IF w.op = "move" /\ (w.key # None \/ w.account = NoAccount)
             THEN LeftBehind(w.view) ELSE None
  IN /\ At(t, "storing") /\ (w.op # "move" => RowLeft)
     /\ \/ /\ NoFault /\ UNCHANGED <<keys, marks>>
           /\ creds' = CredsAfter(w)
           /\ IF w.op = "move" THEN loans' = [loans EXCEPT ![w.loan] = MovedLoan(w)]
              ELSE NewLoan([NoLoanRow EXCEPT !.status = "active", !.borrower = w.borrower,
                      !.account = w.account, !.cred = w.key, !.auto = (w.op = "self"), !.reset = TRUE])
           /\ Releases(t)
           /\ thread' = [thread EXCEPT ![t] = IF old = None THEN Resting
                           ELSE [Resting EXCEPT !.at = "finalizing", !.old = old]]
        \/ Fault("flush") /\ Ends(t) /\ Revoked(w.remote) /\ UNCHANGED <<creds, loans>>
        \/ /\ \/ Fault("unclean") /\ w.key # None
              \/ Fault("commit")
           /\ Ends(t) /\ UNCHANGED <<keys, creds, loans>>
           /\ Marks(IF w.key = None THEN {} ELSE {"kept"})
     /\ UNCHANGED <<requests, resets>>

\* Slip: nobody revokes the key a move has left.
FinalizesNot(t) ==
  /\ At(t, "finalizing") /\ Ends(t)
  /\ UNCHANGED <<keys, creds, loans, requests, resets, faults, marks>>

\* finalize_reassign_old_remote_revoke; without a primary credential there the key stays.
Finalizes(t) ==
  /\ At(t, "finalizing") /\ Ends(t)
  /\ \/ Revoked(thread[t].old) /\ NoFault
     \/ (Fault("revoke") \/ Fault("unbound")) /\ Marks({"kept"}) /\ UNCHANGED keys
  /\ UNCHANGED <<creds, loans, requests, resets>>
-----------------------------------------------------------------------------
(* Taking back *)

\* loan_should_auto_expire
Due(l) == LET r == loans[l] IN r.status = "active" /\ ~r.pool /\ r.reset /\ r.due
WithCred(ls) == {<<l, loans[l].cred>> : l \in ls}

\* revoke_loan for a borrower or an administrator; a loan no longer active is left alone.
RequestRevoke(t, l) ==
  /\ loans[l].status = "active"
  /\ Begin(t, [Resting EXCEPT !.at = "recalling", !.op = "revoke", !.todo = WithCred({l})])

\* expire_loans_on_reset, of all loans or of one account's.
Expire(t, op, as) ==
  LET due == {l \in Loan : Due(l) /\ loans[l].account \in as}
  IN /\ At(t, "idle") /\ due # {}
     /\ thread' = [thread EXCEPT ![t] =
                     [Resting EXCEPT !.at = "recalling", !.op = op, !.todo = WithCred(due)]]
     /\ UNCHANGED <<keys, creds, loans, lock, requests, resets, faults, marks>>

\* run_expire_key_loans: the daily job, which does not overlap itself.
Tick(t) == (\A u \in Thread : thread[u].op # "tick") /\ Expire(t, "tick", Account)

\* _expire_loans_after_sync
AfterSync(t, a) == Expire(t, "sync", {a})

\* The newest first.
Current(t) == CHOOSE p \in thread[t].todo : \A q \in thread[t].todo : q[1] <= p[1]
RemoteOf(c) == IF c # None /\ creds[c].status = "active" THEN creds[c].remote ELSE None
Alive(id) == id = PrimaryKey \/ (id \in Key /\ keys[id].live)

\* The call to Cursor, which may refuse a key that is gone; the tick goes on without it. With no
\* primary credential there is no call, and every thread goes on as if the key were revoked.
Recalls(t) ==
  LET remote == RemoteOf(Current(t)[2])
      refused == IF thread[t].op # "revoke" THEN Becomes(t, "flushing") /\ UNCHANGED lock ELSE Ends(t)
  IN /\ At(t, "recalling")
     /\ \/ /\ NoFault /\ Revoked(remote) /\ UNCHANGED lock
           /\ thread' = [thread EXCEPT ![t].at = "flushing", ![t].recalled = @ \/ Alive(remote)]
        \/ remote # None /\ ~Alive(remote) /\ NoFault /\ refused /\ UNCHANGED <<keys, marks>>
        \/ /\ remote # None /\ Fault("unbound") /\ Becomes(t, "flushing")
           /\ Marks({"kept"}) /\ UNCHANGED <<keys, lock>>
        \/ /\ remote # None /\ Fault("revoke") /\ refused /\ UNCHANGED keys
           /\ Marks(IF thread[t].op # "revoke" THEN {"kept"} ELSE {})
     /\ UNCHANGED <<creds, loans, requests, resets>>

\* The loan's new status is flushed, which takes the row.
Flushes(t) ==
  LET p == Current(t)
      left == thread[t].todo \ {p}
  IN /\ At(t, "flushing") /\ Takes(t, p[1])
     /\ thread' = [thread EXCEPT ![t].todo = left, ![t].ended = @ \cup {p},
                                 ![t].at = IF left = {} THEN "closing" ELSE "recalling"]
     /\ Marks(IF loans[p[1]].cred = p[2] THEN {} ELSE {"stale"})
     /\ NoFault /\ UNCHANGED <<keys, creds, loans, requests, resets>>

\* Slip: what was flushed is never committed.
ClosesUncommitted(t) ==
  /\ At(t, "closing") /\ Ends(t)
  /\ UNCHANGED <<keys, creds, loans, requests, resets, faults, marks>>

\* The commit, or its failure after the keys are gone.
Closes(t) ==
  LET w == thread[t]
      ended == {p[1] : p \in w.ended}
      old == {p[2] : p \in w.ended}
  IN /\ At(t, "closing") /\ Ends(t)
     /\ \/ /\ NoFault /\ UNCHANGED marks
           /\ loans' = [l \in Loan |-> IF l \in ended
                 THEN [loans[l] EXCEPT !.status = IF w.op = "revoke" THEN "revoked" ELSE "expired"]
                 ELSE loans[l]]
           /\ creds' = [k \in Key |-> IF k \in old THEN [creds[k] EXCEPT !.status = "revoked"]
                                      ELSE creds[k]]
        \/ /\ Fault("commit") /\ UNCHANGED <<creds, loans>>
           /\ Marks(IF w.recalled THEN {"half"} ELSE {})
     /\ UNCHANGED <<keys, requests, resets>>
-----------------------------------------------------------------------------
(* The surroundings *)

\* patch_loan
Patch(l) ==
  /\ loans[l].status = "active" /\ ~loans[l].pool /\ lock[l] = Nobody
  /\ requests < MaxRequests /\ requests' = requests + 1
  /\ loans' = [loans EXCEPT ![l].reset = ~@]
  /\ UNCHANGED <<keys, creds, lock, thread, resets, faults, marks>>

\* The day on which an account's loans expire.
ResetDay(a) ==
  /\ resets < MaxResets /\ resets' = resets + 1
  /\ \E l \in ActiveOn(loans, a) : ~loans[l].due
  /\ loans' = [l \in Loan |-> IF l \in ActiveOn(loans, a)
                              THEN [loans[l] EXCEPT !.due = TRUE] ELSE loans[l]]
  /\ UNCHANGED <<keys, creds, lock, thread, requests, faults, marks>>

\* Pulse Web dies: what was not committed is gone, what Cursor did is not.
Crash ==
  /\ Fault("crash")
  /\ thread' = [t \in Thread |-> Resting]
  /\ lock' = [row \in DOMAIN lock |-> Nobody]
  /\ Marks((IF \E t \in Thread : thread[t].key # None \/ thread[t].old # None THEN {"kept"} ELSE {})
           \cup (IF \E t \in Thread : thread[t].recalled THEN {"half"} ELSE {}))
  /\ UNCHANGED <<keys, creds, loans, requests, resets>>

ThreadStep(t) ==
  \/ Admitted(t) \/ Validated(t) \/ Creates(t) \/ Resolves(t) \/ Stores(t)
  \/ Finalizes(t) \/ Recalls(t) \/ Flushes(t) \/ Closes(t)

LoanNext ==
  \/ \E t \in Thread :
       \/ \E b \in Borrower, a \in Account : RequestSelf(t, b, a) \/ IssueManual(t, b, a)
       \/ \E l \in Loan, a \in Account \cup {NoAccount} : RequestMove(t, l, a)
       \/ \E l \in Loan : RequestRevoke(t, l)
       \/ Tick(t) \/ \E a \in Account : AfterSync(t, a)
       \/ ThreadStep(t)
  \/ \E b \in Borrower : IssuePool(b)
  \/ \E l \in Loan : Patch(l)
  \/ \E a \in Account : ResetDay(a)
  \/ Crash

LoanSpec == LoanInit /\ [][LoanNext]_loanVars

\* Threads go on, and the tick comes round.
LoanFairness ==
  /\ \A t \in Thread : WF_loanVars(ThreadStep(t))
  /\ WF_loanVars(\E t \in Thread : Tick(t))

LoanFairSpec == LoanSpec /\ LoanFairness
-----------------------------------------------------------------------------
(* What must hold *)

\* Besides the types: a row is locked only by a thread in a transaction.
LoanTypeOK ==
  /\ keys \in [Key -> [at : Account \cup {NoAccount}, name : Borrower \cup {NoBorrower}, live : BOOLEAN]]
  /\ creds \in [Key -> [remote : RemoteId, status : {"none", "active", "revoked"}]]
  /\ loans \in [Loan -> LoanRow]
  /\ \A row \in DOMAIN lock : lock[row] # Nobody => thread[lock[row]].at \notin {"idle", "finalizing"}
  /\ requests \in 0..MaxRequests /\ resets \in 0..MaxResets /\ faults \in 0..MaxFaults
  /\ marks \subseteq MarkKinds

\* The key behind an active loan works unless a thread is taking the loan back, however
\* moves, returns and ticks interleave and fail. Except where a key was revoked and the
\* commit that should have ended its loan failed, and where a key was recorded under the id
\* of another: one of the same name, or, when Cursor does not list it, the last one listed.
LentKeysWork ==
  {"half", "namesake", "mistaken"} \cap marks = {} =>
    \A l \in Loan : loans[l].status = "active" /\ loans[l].cred # None =>
      \/ keys[loans[l].cred].live
      \/ \E t \in Thread : \E p \in thread[t].todo \cup thread[t].ended : p[1] = l

\* A key that works is behind an active loan, or a thread is about to use or revoke it. Keys are
\* left working in these ways and no other: Cursor failed to revoke one, or the account had no
\* primary credential to revoke it with ("kept"); Cursor's answer, a listing, a commit or the
\* process failed after it was made ("kept"); its id was not listed and so never known
\* ("unknown"), or another key's id was taken for it ("mistaken", "namesake"); a loan was written
\* by one thread after another had loaded it ("stale").
KeysAreLent ==
  {"kept", "stale", "namesake", "mistaken", "unknown"} \cap marks = {} =>
    \A k \in Key : keys[k].live =>
      \/ \E l \in Loan : loans[l].status = "active" /\ loans[l].cred = k
      \/ \E t \in Thread : k \in {thread[t].key, thread[t].old}

\* Who helps himself has one such loan at a time (the lock on the member's row).
OneSelfLoan ==
  \A l, m \in Loan :
    LET own(x) == loans[x].status = "active" /\ loans[x].auto /\ ~loans[x].pool
    IN own(l) /\ own(m) /\ loans[l].borrower = loans[m].borrower => l = m

\* A member who helps himself never brings an account above its cap, whatever is
\* issued or moved there at the same time (the lock on the account's row).
SelfWithinCap ==
  [][\A l \in Loan :
       loans[l].status = "none" /\ loans'[l].auto /\ ~loans'[l].pool =>
         Cardinality(ActiveOn(loans', loans'[l].account)) <= LoanCap]_loanVars

\* Loans that have expired are taken back, or no longer due, in the end, every one of them,
\* even if Cursor refuses or a tick fails (the days on which more fall due are bounded).
DueLoansEnd == (\E l \in Loan : Due(l)) ~> (\A l \in Loan : ~Due(l))
=============================================================================
