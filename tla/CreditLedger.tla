---------------------------- MODULE CreditLedger ----------------------------
(***************************************************************************)
(* Pulse's billing writes as the database runs them: each request is one   *)
(* transaction of pulse/proxy/usage.py, credit.py or membership.py, several *)
(* run at once, each reads what others have committed, an UPDATE of a      *)
(* balance locks that row to the end of its transaction, and any of them   *)
(* can fail before it commits.  The same batch may be delivered again.     *)
(***************************************************************************)
EXTENDS Integers, SequencesExt

CONSTANTS
  Member,
  Prepaid,      \* members whose plan has credit_mode prepaid
  Tx,           \* request threads of Pulse Web
  Nobody,
  Payer,        \* the proxy keys and the loans whose use is reported
  Gone,         \* those of them the tables have no row of
  Batches,      \* the usage batches that may be delivered: sequences of items
  RequestId, NoRequest,   \* the request_ids of items; that of an item without one
  Grants, Adjustments,   \* the amounts administrators enter, in cents
  OpeningCredit,         \* opening_credit_cents of every plan, 0 for none
  MaxRequests   \* bound of the model: requests received

\* What a batch says of a turn: which one it is, the key or loan that used it, the member
\* it bills, its cost (0 when the wallet does not count it: own key, free model), and its
\* request_id.
Item == [turn : Nat, payer : Payer, member : Member, cost : Nat,
         request : RequestId \cup {NoRequest}]

ASSUME LedgerAssumption ==
  /\ Prepaid \subseteq Member
  /\ Nobody \notin Tx
  /\ Gone \subseteq Payer
  /\ Batches \subseteq Seq(Item)
  /\ Grants \subseteq Nat \ {0}
  /\ Adjustments \subseteq Int \ {0}
  /\ OpeningCredit \in Nat
  /\ MaxRequests \in Nat

VARIABLES
  lines,      \* credit_transactions, committed
  balance,    \* credit_accounts.balance_cents, committed
  usages,     \* proxy_key_usages, committed
  active,     \* how many active memberships each member has
  lock,       \* who holds the lock on each member's credit_accounts row
  tx,         \* the transactions in progress
  nextId,     \* the next primary key
  requests    \* requests received so far

vars == <<lines, balance, usages, active, lock, tx, nextId, requests>>

NoRef == 0

Kind == {"grant", "opening", "adjust", "refund", "charge"}

\* A movement a transaction has still to make.
Entry(kind, m, amount, ref) == [kind |-> kind, member |-> m, amount |-> amount, ref |-> ref]

\* todo: items still to record; owed: movements still to make; rows, posted:
\* what it has written; joins: the members it has opened a membership for;
\* judged: what it found out about who is charged.
IdleTx == [at |-> "idle", todo |-> <<>>, owed |-> <<>>, rows |-> {}, posted |-> {},
           joins |-> {}, judged |-> [m \in Member |-> "unknown"]]

\* Nothing billed yet.
Fresh(memberships) ==
  /\ lines = {}
  /\ balance = [m \in Member |-> 0]
  /\ usages = {}
  /\ active = memberships
  /\ lock = [m \in Member |-> Nobody]
  /\ tx = [t \in Tx |-> IdleTx]
  /\ nextId = 1
  /\ requests = 0

Init == Fresh([m \in Member |-> 0])

-----------------------------------------------------------------------------

Begin(t, started) ==
  /\ tx[t].at = "idle"
  /\ requests < MaxRequests
  /\ requests' = requests + 1
  /\ tx' = [tx EXCEPT ![t] = started]
  /\ UNCHANGED <<lines, balance, usages, active, lock, nextId>>

Paying(owed) == [IdleTx EXCEPT !.at = "paying", !.owed = owed]

Grant(t, m, amount) == Begin(t, Paying(<<Entry("grant", m, amount, NoRef)>>))

Adjust(t, m, amount) == Begin(t, Paying(<<Entry("adjust", m, amount, NoRef)>>))

\* Refunded already, as far as this transaction can see.
Refunded(l) == \E r \in lines : r.kind = "refund" /\ r.ref = l.id

\* refund_charge, up to its check.
Refund(t, l) ==
  /\ l.kind = "charge"
  /\ ~Refunded(l)
  /\ Begin(t, Paying(<<Entry("refund", l.member, -l.amount, l.id)>>))

\* PUT membership: opens one when it sees none, changes the one it sees.
PutMembership(t, m) ==
  Begin(t, [IdleTx EXCEPT !.at = "opening", !.joins = IF active[m] = 0 THEN {m} ELSE {},
                          !.owed = <<Entry("opening", m, OpeningCredit, NoRef)>>])

\* _maybe_grant_opening_credit: once in a member's life.
GrantedOpening(m) == \E l \in lines : l.kind = "opening" /\ l.member = m

CheckOpening(t) ==
  /\ tx[t].at = "opening"
  /\ tx' = [tx EXCEPT ![t].at = "paying",
              ![t].owed = IF OpeningCredit = 0 \/ GrantedOpening(Head(@).member)
                          THEN <<>> ELSE @]
  /\ UNCHANGED <<lines, balance, usages, active, lock, nextId, requests>>

CancelMembership(m) ==
  /\ active[m] > 0
  /\ requests < MaxRequests
  /\ requests' = requests + 1
  /\ active' = [active EXCEPT ![m] = @ - 1]
  /\ UNCHANGED <<lines, balance, usages, lock, tx, nextId>>

\* record_usages
Record(t, batch) == Begin(t, [IdleTx EXCEPT !.at = "recording", !.todo = batch])

\* Recorded already for this key or loan, as far as this transaction can see.
Duplicate(t, item) ==
  /\ item.request # NoRequest
  /\ \E r \in usages \cup tx[t].rows :
       r.item.payer = item.payer /\ r.item.request = item.request

\* An item that leaves no row, though the batch goes on and is answered with success.
PassedOver(t, item) == item.payer \in Gone \/ Duplicate(t, item)

RecordItem(t) ==
  /\ tx[t].at = "recording"
  /\ tx[t].todo # <<>>
  /\ LET item == Head(tx[t].todo)
         row == [id |-> nextId, item |-> item]
         due == IF item.cost = 0 THEN <<>>
                ELSE <<Entry("charge", item.member, -item.cost, nextId)>>
     IN IF PassedOver(t, item)
        THEN /\ tx' = [tx EXCEPT ![t].todo = Tail(@)]
             /\ UNCHANGED nextId
        ELSE /\ tx' = [tx EXCEPT ![t].todo = Tail(@), ![t].rows = @ \cup {row},
                                 ![t].owed = @ \o due]
             /\ nextId' = nextId + 1
  /\ UNCHANGED <<lines, balance, usages, active, lock, requests>>

Recorded(t) ==
  /\ tx[t].at = "recording"
  /\ tx[t].todo = <<>>
  /\ tx' = [tx EXCEPT ![t].at = "paying"]
  /\ UNCHANGED <<lines, balance, usages, active, lock, nextId, requests>>

\* _should_charge, looked up once per member and transaction.
Judge(t, m) ==
  IF tx[t].judged[m] # "unknown" THEN tx[t].judged[m]
  ELSE IF active[m] > 0 /\ m \in Prepaid THEN "prepaid" ELSE "free"

NotCharged(t) ==
  /\ tx[t].at = "paying"
  /\ tx[t].owed # <<>>
  /\ LET e == Head(tx[t].owed)
     IN /\ e.kind = "charge"
        /\ Judge(t, e.member) = "free"
        /\ tx' = [tx EXCEPT ![t].owed = Tail(@), ![t].judged[e.member] = "free"]
  /\ UNCHANGED <<lines, balance, usages, active, lock, nextId, requests>>

\* The lines of m that t sees, its own among them, and the last of them.
LinesOf(ls, m) == {l \in ls : l.member = m}
LastLine(ls) == CHOOSE l \in ls : \A k \in ls : k.id <= l.id

\* The balance t reads back after its own updates.
BalanceSeen(t, m) ==
  LET own == LinesOf(tx[t].posted, m)
  IN IF own = {} THEN balance[m] ELSE LastLine(own).after

\* Slip: the row is read and written without its lock.
FreeForUnlocked(t, m) == TRUE

FreeFor(t, m) == lock[m] \in {Nobody, t}

\* Slip: ref_transaction_id without its unique index.
RefNeverTaken(e) == FALSE

\* ref_transaction_id is unique; usage_id is too, but never of two transactions.
RefTaken(e) == e.ref # NoRef /\ \E l \in lines : l.kind = e.kind /\ l.ref = e.ref

\* _apply_delta and the line it is for: the UPDATE waits for the row's lock.
Move(t) ==
  /\ tx[t].at = "paying"
  /\ tx[t].owed # <<>>
  /\ LET e == Head(tx[t].owed)
         line == [id |-> nextId, kind |-> e.kind, member |-> e.member, amount |-> e.amount,
                  after |-> BalanceSeen(t, e.member) + e.amount, ref |-> e.ref]
     IN /\ e.kind = "charge" => Judge(t, e.member) = "prepaid"
        /\ FreeFor(t, e.member)
        /\ ~RefTaken(e)
        /\ lock' = [lock EXCEPT ![e.member] = t]
        /\ nextId' = nextId + 1
        /\ tx' = [tx EXCEPT ![t].owed = Tail(@), ![t].posted = @ \cup {line},
                    ![t].judged[e.member] = IF e.kind = "charge" THEN "prepaid" ELSE @]
  /\ UNCHANGED <<lines, balance, usages, active, requests>>

Unlocked(t) == [m \in Member |-> IF lock[m] = t THEN Nobody ELSE lock[m]]

Commit(t) ==
  /\ tx[t].at = "paying"
  /\ tx[t].owed = <<>>
  /\ lines' = lines \cup tx[t].posted
  /\ balance' = [m \in Member |-> BalanceSeen(t, m)]
  /\ usages' = usages \cup tx[t].rows
  /\ active' = [m \in Member |-> IF m \in tx[t].joins THEN active[m] + 1 ELSE active[m]]
  /\ lock' = Unlocked(t)
  /\ tx' = [tx EXCEPT ![t] = IdleTx]
  /\ UNCHANGED <<nextId, requests>>

\* Slip: the lines stay, committed one by one, and the rest is rolled back.
FailKeepingLines(t) ==
  /\ tx[t].at # "idle"
  /\ lines' = lines \cup tx[t].posted
  /\ balance' = [m \in Member |-> BalanceSeen(t, m)]
  /\ lock' = Unlocked(t)
  /\ tx' = [tx EXCEPT ![t] = IdleTx]
  /\ UNCHANGED <<usages, active, nextId, requests>>

\* A unique violation, a deadlock broken by the database, a lost connection,
\* the death of the process: nothing of the transaction remains.
Fail(t) ==
  /\ tx[t].at # "idle"
  /\ lock' = Unlocked(t)
  /\ tx' = [tx EXCEPT ![t] = IdleTx]
  /\ UNCHANGED <<lines, balance, usages, active, nextId, requests>>

Step(t) ==
  \/ CheckOpening(t) \/ RecordItem(t) \/ Recorded(t)
  \/ NotCharged(t) \/ Move(t) \/ Commit(t)

Next ==
  \/ \E t \in Tx :
       \/ \E m \in Member, a \in Grants : Grant(t, m, a)
       \/ \E m \in Member, a \in Adjustments : Adjust(t, m, a)
       \/ \E l \in lines : Refund(t, l)
       \/ \E m \in Member : PutMembership(t, m)
       \/ \E b \in Batches : Record(t, b)
       \/ Step(t)
       \/ Fail(t)
  \/ \E m \in Member : CancelMembership(m)

Spec == Init /\ [][Next]_vars

-----------------------------------------------------------------------------
Line == [id : Nat \ {0}, kind : Kind, member : Member, amount : Int, after : Int, ref : Nat]

\* Every record is one the code can write, and a lock is held by a transaction
\* that is running and has moved the row it guards.
LedgerTypeOK ==
  /\ lines \subseteq Line
  /\ balance \in [Member -> Int]
  /\ active \in [Member -> Nat]
  /\ lock \in [Member -> Tx \cup {Nobody}]
  /\ \A t \in Tx :
       /\ tx[t].at \in {"idle", "opening", "recording", "paying"}
       /\ tx[t].posted \subseteq Line
       /\ \A m \in Member : lock[m] = t <=> LinesOf(tx[t].posted, m) # {}
  /\ nextId \in Nat \ {0}
  /\ requests \in 0 .. MaxRequests

SumOf(ls) == FoldSet(LAMBDA l, sum : sum + l.amount, 0, ls)

\* Reconciling never finds a difference (reconcile, credit.py:160): whatever
\* ran concurrently or failed, a member's balance is what the committed lines
\* add up to and what the last of them shows.
StatementAddsUp ==
  \A m \in Member :
    LET own == LinesOf(lines, m)
    IN /\ balance[m] = SumOf(own)
       /\ own # {} => balance[m] = LastLine(own).after

\* A charge is never without the usage it is for, nor for another member or
\* amount, and a batch that fails leaves neither: the row and its line are
\* committed together (usage.py:515).
ChargesMatchUsage ==
  \A l \in lines : l.kind = "charge" =>
    \E r \in usages :
      r.id = l.ref /\ r.item.member = l.member /\ l.amount = -r.item.cost

\* The statement of a member: the lines by id (the console turns its pages from the last).
Place(ls, l) == Cardinality({k \in ls : k.id <= l.id})
Listed(ls) == [i \in 1 .. Cardinality(ls) |-> CHOOSE l \in ls : Place(ls, l) = i]
Statement(m) == Listed(LinesOf(lines, m))

\* The tables implement the wallet: no commit puts a line in the middle of a
\* statement or changes one, each carries the balance after it, and no usage is
\* charged and no charge refunded twice.
Promise == INSTANCE Wallet WITH statement <- [m \in Member |-> Statement(m)]

WalletSpec == Promise!Spec

\* Stated of open_membership (membership.py:140): the opening credit is granted
\* once in a member's life.
OpeningOnce ==
  \A k, l \in lines :
    k.kind = "opening" /\ l.kind = "opening" /\ k.member = l.member => k = l
=============================================================================
