--------------------------- MODULE BillingProofs ----------------------------
(***************************************************************************)
(* What holds of the wallet's tables for every number of members,          *)
(* transactions, batches and amounts: balances that are the sum of their   *)
(* lines, charges that are for recorded usages, and the step to the        *)
(* statements the wallet promises; and of the data plane that reports to   *)
(* them, for every number of goroutines, turns, losses and deaths and every *)
(* limit of its buffer and retries: the tables stay in order under what it *)
(* sends, and no turn is mislaid or doubled on its way.                    *)
(***************************************************************************)
EXTENDS UsageReport, FiniteSetTheorems, FunctionTheorems, TLAPS

USE LedgerAssumption

\* Every line has an amount.
Amounts(S) == \A l \in S : l.amount \in Int

\* g is the sum of the amounts of every subset of S.
Sums(g, S) ==
  /\ g \in [SUBSET S -> Int] /\ g[{}] = 0
  /\ \A s \in SUBSET S : \A x \in S \ s : g[s \cup {x}] = g[s] + x.amount

\* A family of subsets of a finite set has a smallest member.
LEMMA SmallestWithout ==
  ASSUME NEW S, IsFiniteSet(S), NEW F \in SUBSET (SUBSET S), F # {}
  PROVE  \E T \in F : \A U \in F : U \subseteq T => U = T
<1>1. IsWellFoundedOn(StrictSubsetOrdering(S), SUBSET S)
  <2>1. FiniteSubsetsOf(S) = SUBSET S
    BY FS_FiniteSubsetsOfFinite
  <2>2. IsWellFoundedOn(StrictSubsetOrdering(S), FiniteSubsetsOf(S))
    BY FS_StrictSubsetOrderingWellFounded
  <2> QED BY <2>1, <2>2
<1>2. PICK T \in F : \A U \in F : <<U, T>> \notin StrictSubsetOrdering(S)
  BY <1>1, WFMin
<1> QED BY <1>2 DEF StrictSubsetOrdering

\* Finitely many amounts have sums.
LEMMA SumsExist ==
  ASSUME NEW S, IsFiniteSet(S), Amounts(S)
  PROVE  \E g : Sums(g, S)
<1> DEFINE F == {T \in SUBSET S : ~\E g : Sums(g, T)}
<1> SUFFICES ASSUME F # {} PROVE FALSE
  OBVIOUS
<1>1. PICK T \in F : \A U \in F : U \subseteq T => U = T
  <2>1. F \in SUBSET (SUBSET S)
    OBVIOUS
  <2> HIDE DEF F
  <2> QED BY <2>1, SmallestWithout
<1>2. T # {}
  <2>1. Sums([s \in SUBSET {} |-> 0], {})
    BY DEF Sums
  <2> QED BY <2>1
<1>3. PICK x \in T : TRUE
  BY <1>2
<1> DEFINE R == T \ {x}
<1>4. R \subseteq T /\ R # T /\ R \in SUBSET S
  BY <1>3
<1>5. PICK h : Sums(h, R)
  BY <1>1, <1>4
<1> DEFINE g == [s \in SUBSET T |-> IF x \in s THEN h[s \ {x}] + x.amount ELSE h[s]]
<1>6. x.amount \in Int
  BY <1>3 DEF Amounts
<1>7. \A s \in SUBSET T : s \ {x} \in SUBSET R /\ (x \notin s => s \in SUBSET R)
  OBVIOUS
<1>8. g \in [SUBSET T -> Int]
  BY <1>5, <1>6, <1>7 DEF Sums
<1>9. g[{}] = 0
  BY <1>5 DEF Sums
<1>10. ASSUME NEW s \in SUBSET T, NEW y \in T \ s PROVE g[s \cup {y}] = g[s] + y.amount
  <2>0. s \cup {y} \in SUBSET T
    OBVIOUS
  <2>1. CASE y = x
    <3>1. (s \cup {y}) \ {x} = s /\ x \notin s /\ x \in s \cup {y}
      BY <1>10, <2>1
    <3> QED BY <2>0, <2>1, <3>1
  <2>2. CASE y # x /\ x \in s
    <3>1. (s \cup {y}) \ {x} = (s \ {x}) \cup {y} /\ x \in s \cup {y}
      BY <2>2
    <3>2. s \ {x} \in SUBSET R /\ y \in R \ (s \ {x})
      BY <1>10, <2>2
    <3>3. h[(s \ {x}) \cup {y}] = h[s \ {x}] + y.amount /\ h[s \ {x}] \in Int
      BY <1>5, <3>2 DEF Sums
    <3>4. y.amount \in Int
      BY DEF Amounts
    <3>5. g[s \cup {y}] = h[(s \ {x}) \cup {y}] + x.amount /\ g[s] = h[s \ {x}] + x.amount
      BY <2>0, <2>2, <3>1
    <3> QED BY <1>6, <3>3, <3>4, <3>5
  <2>3. CASE y # x /\ x \notin s
    <3>1. s \in SUBSET R /\ y \in R \ s /\ x \notin s \cup {y}
      BY <1>10, <2>3
    <3>2. h[s \cup {y}] = h[s] + y.amount
      BY <1>5, <3>1 DEF Sums
    <3> QED BY <2>0, <3>1, <3>2
  <2> QED BY <2>1, <2>2, <2>3
<1>11. Sums(g, T)
  BY <1>8, <1>9, <1>10 DEF Sums
<1> QED BY <1>11

\* SumOf, the fold the reconciliation is written with, is that sum.
LEMMA SumIsSums ==
  ASSUME NEW S, IsFiniteSet(S), Amounts(S), NEW g, Sums(g, S)
  PROVE  SumOf(S) = g[S]
<1> DEFINE Ch(s) == CHOOSE x \in s : TRUE
           Iter(f) == f = [s \in SUBSET S |-> IF s = {} THEN 0 ELSE f[s \ {Ch(s)}] + Ch(s).amount]
<1>1. Iter(g)
  <2>1. g = [s \in SUBSET S |-> g[s]]
    BY DEF Sums
  <2>2. ASSUME NEW s \in SUBSET S PROVE g[s] = IF s = {} THEN 0 ELSE g[s \ {Ch(s)}] + Ch(s).amount
    <3>1. CASE s = {}
      BY <3>1 DEF Sums
    <3>2. CASE s # {}
      <4>1. Ch(s) \in s
        BY <3>2
      <4> HIDE DEF Ch
      <4>2. s \ {Ch(s)} \in SUBSET S /\ Ch(s) \in S \ (s \ {Ch(s)}) /\ (s \ {Ch(s)}) \cup {Ch(s)} = s
        BY <4>1
      <4> QED BY <3>2, <4>2 DEF Sums
    <3> QED BY <3>1, <3>2
  <2> HIDE DEF Ch
  <2> QED BY <2>1, <2>2
<1> DEFINE f == CHOOSE f : Iter(f)
<1>2. Iter(f)
  BY <1>1
<1>3. SumOf(S) = f[S]
  BY DEF SumOf, FoldSet, MapThenFoldSet
<1> HIDE DEF f
<1> DEFINE F == {s \in SUBSET S : f[s] # g[s]}
<1>4. ASSUME F # {} PROVE FALSE
  <2>1. F \in SUBSET (SUBSET S)
    OBVIOUS
  <2>2. PICK s \in F : \A u \in F : u \subseteq s => u = s
    <3> HIDE DEF F
    <3> QED BY <1>4, <2>1, SmallestWithout
  <2>3. s \in SUBSET S /\ f[s] # g[s]
    OBVIOUS
  <2>4. f[s] = IF s = {} THEN 0 ELSE f[s \ {Ch(s)}] + Ch(s).amount
    BY <1>2, <2>3
  <2>5. g[s] = IF s = {} THEN 0 ELSE g[s \ {Ch(s)}] + Ch(s).amount
    BY <1>1, <2>3
  <2>6. s # {}
    BY <2>3, <2>4, <2>5
  <2>7. Ch(s) \in s
    BY <2>6
  <2> HIDE DEF Ch
  <2>8. s \ {Ch(s)} \notin F
    BY <2>2, <2>7
  <2>9. f[s \ {Ch(s)}] = g[s \ {Ch(s)}]
    BY <2>3, <2>8
  <2> QED BY <2>3, <2>4, <2>5, <2>6, <2>9
<1> QED BY <1>3, <1>4

\* A sum is an integer, nothing for no lines, and a new line adds its amount.
LEMMA SumAdds ==
  ASSUME NEW S, IsFiniteSet(S), Amounts(S)
  PROVE  /\ SumOf({}) = 0 /\ SumOf(S) \in Int
         /\ \A l : l \notin S /\ l.amount \in Int => SumOf(S \cup {l}) = SumOf(S) + l.amount
<1>1. SumOf({}) = 0
  <2>1. Sums([s \in SUBSET {} |-> 0], {})
    BY DEF Sums
  <2>2. IsFiniteSet({}) /\ Amounts({})
    BY FS_EmptySet DEF Amounts
  <2> QED BY <2>1, <2>2, SumIsSums
<1>2. SumOf(S) \in Int
  <2>1. PICK g : Sums(g, S)
    BY SumsExist
  <2>2. SumOf(S) = g[S]
    BY <2>1, SumIsSums
  <2>3. S \in SUBSET S
    OBVIOUS
  <2> QED BY <2>1, <2>2, <2>3 DEF Sums
<1>3. ASSUME NEW l, l \notin S, l.amount \in Int PROVE SumOf(S \cup {l}) = SumOf(S) + l.amount
  <2> DEFINE T == S \cup {l}
  <2>1. IsFiniteSet(T) /\ Amounts(T)
    BY <1>3, FS_AddElement DEF Amounts
  <2>2. PICK g : Sums(g, T)
    BY <2>1, SumsExist
  <2> DEFINE h == [s \in SUBSET S |-> g[s]]
  <2>3. Sums(h, S)
    <3>1. \A s \in SUBSET S : s \in SUBSET T /\ \A x \in S \ s : x \in T \ s
             /\ s \cup {x} \in SUBSET S
      OBVIOUS
    <3> QED BY <2>2, <3>1 DEF Sums
  <2>4. SumOf(S) = g[S] /\ SumOf(T) = g[T]
    <3>1. SumOf(S) = h[S]
      BY <2>3, SumIsSums
    <3>2. SumOf(T) = g[T]
      BY <2>1, <2>2, SumIsSums
    <3> QED BY <3>1, <3>2
  <2>5. g[S \cup {l}] = g[S] + l.amount
    BY <1>3, <2>2 DEF Sums
  <2> QED BY <2>4, <2>5
<1> QED BY <1>1, <1>2, <1>3

\* Finitely many lines, numbered.
Numbers(S) == IsFiniteSet(S) /\ \A l \in S : l.id \in Nat
\* The number names the line.
Distinct(S) == \A k, l \in S : k.id = l.id => k = l
\* The line of the greatest number.
Latest(S, l) == l \in S /\ \A k \in S : k.id <= l.id

\* LastLine picks it.
LEMMA LastIs ==
  ASSUME NEW S, Numbers(S), Distinct(S), NEW l, Latest(S, l)
  PROVE  LastLine(S) = l
<1> DEFINE c == CHOOSE x \in S : \A k \in S : k.id <= x.id
<1>1. c \in S /\ \A k \in S : k.id <= c.id
  BY DEF Latest
<1> HIDE DEF c
<1>2. c.id <= l.id /\ l.id <= c.id /\ c.id \in Nat /\ l.id \in Nat
  BY <1>1 DEF Latest, Numbers
<1>3. c.id = l.id
  BY <1>2
<1>4. c = l
  BY <1>1, <1>3 DEF Latest, Distinct
<1> QED BY <1>4 DEF LastLine, c

\* k is the line of S just before l.
Before(S, k, l) == k \in S /\ k.id < l.id /\ \A j \in S : j.id <= k.id \/ l.id <= j.id
\* Every line carries the balance after it.
Follows(S) ==
  \A l \in S : \/ (\A k \in S : l.id <= k.id) /\ l.after = l.amount
               \/ \E k \in S : Before(S, k, l) /\ l.after = l.amount + k.after

\* The lines S end in the balance b.
EndIn(S, b) == b = SumOf(S) /\ (S = {} \/ \E l \in S : Latest(S, l) /\ l.after = b)

\* A later line that carries on from the balance keeps all this.
LEMMA OneMore ==
  ASSUME NEW S, Numbers(S), Amounts(S), Follows(S), NEW b, EndIn(S, b),
         NEW l, l.id \in Nat, l.amount \in Int, \A k \in S : k.id < l.id, l.after = b + l.amount
  PROVE  /\ Numbers(S \cup {l}) /\ Amounts(S \cup {l})
         /\ Follows(S \cup {l}) /\ EndIn(S \cup {l}, l.after)
<1> DEFINE T == S \cup {l}
<1>1. Numbers(T) /\ Amounts(T) /\ l \notin S
  BY FS_AddElement DEF Numbers, Amounts
<1>2. EndIn(T, l.after)
  <2>1. SumOf(T) = SumOf(S) + l.amount
    BY <1>1, SumAdds DEF Numbers
  <2>2. \A k \in T : k.id <= l.id
    BY DEF Numbers
  <2>3. Latest(T, l)
    BY <2>2 DEF Latest
  <2> QED BY <2>1, <2>3 DEF EndIn
<1>3. Follows(T)
  <2> SUFFICES ASSUME NEW x \in T
               PROVE  \/ (\A k \in T : x.id <= k.id) /\ x.after = x.amount
                      \/ \E k \in T : Before(T, k, x) /\ x.after = x.amount + k.after
    BY DEF Follows
  <2>1. CASE x \in S
    <3>1. x.id <= l.id
      BY <2>1 DEF Numbers
    <3>2. CASE (\A k \in S : x.id <= k.id) /\ x.after = x.amount
      BY <3>1, <3>2
    <3>3. ASSUME NEW k \in S, Before(S, k, x), x.after = x.amount + k.after
          PROVE  \E j \in T : Before(T, j, x) /\ x.after = x.amount + j.after
      BY <3>1, <3>3 DEF Before
    <3> QED BY <2>1, <3>2, <3>3 DEF Follows
  <2>2. CASE x = l /\ S = {}
    <3>1. b = 0
      BY <2>2, SumAdds DEF EndIn, Numbers
    <3>2. x.after = x.amount
      BY <2>2, <3>1
    <3>3. \A k \in T : x.id <= k.id
      BY <2>2
    <3> QED BY <3>2, <3>3
  <2>3. CASE x = l /\ S # {}
    <3>1. PICK k \in S : Latest(S, k) /\ k.after = b
      BY <2>3 DEF EndIn
    <3>2. \A j \in T : j.id <= k.id \/ l.id <= j.id
      BY <3>1 DEF Latest
    <3>3. Before(T, k, x)
      BY <2>3, <3>2 DEF Before
    <3>4. b \in Int
      BY SumAdds DEF EndIn, Numbers
    <3>5. x.after = x.amount + k.after
      BY <2>3, <3>1, <3>4
    <3> QED BY <3>3, <3>5
  <2> QED BY <2>1, <2>2, <2>3
<1> QED BY <1>1, <1>2, <1>3

\* The place of a line in a statement: between 1 and its length, in the order of the ids.
LEMMA Places ==
  ASSUME NEW S, Numbers(S), Distinct(S)
  PROVE  /\ Cardinality(S) \in Nat
         /\ \A l \in S : Place(S, l) \in 1 .. Cardinality(S)
         /\ \A k, l \in S : k.id < l.id => Place(S, k) < Place(S, l)
         /\ \A k, l \in S : Place(S, k) = Place(S, l) => k = l
         /\ \A i \in 1 .. Cardinality(S) : Listed(S)[i] \in S /\ Place(S, Listed(S)[i]) = i
         /\ \A l \in S : Listed(S)[Place(S, l)] = l
<1> DEFINE Upto(l) == {k \in S : k.id <= l.id}
           n == Cardinality(S)
<1>1. IsFiniteSet(S) /\ n \in Nat
  BY FS_CardinalityType DEF Numbers
<1>2. \A l \in S : IsFiniteSet(Upto(l)) /\ Cardinality(Upto(l)) \in Nat /\ Cardinality(Upto(l)) <= n
  <2> SUFFICES ASSUME NEW l \in S
               PROVE  IsFiniteSet(Upto(l)) /\ Cardinality(Upto(l)) \in Nat
                         /\ Cardinality(Upto(l)) <= n
    OBVIOUS
  <2>1. Upto(l) \in SUBSET S
    OBVIOUS
  <2> HIDE DEF Upto
  <2> QED BY <1>1, <2>1, FS_Subset, FS_CardinalityType
<1>3. \A l \in S : Place(S, l) = Cardinality(Upto(l))
  BY DEF Place
<1>4. \A l \in S : Place(S, l) \in 1 .. n
  <2> SUFFICES ASSUME NEW l \in S PROVE Place(S, l) \in 1 .. n
    OBVIOUS
  <2>1. l \in Upto(l)
    BY DEF Numbers
  <2> HIDE DEF Upto
  <2>2. Cardinality(Upto(l)) # 0
    BY <1>2, <2>1, FS_EmptySet
  <2> HIDE DEF n
  <2> QED BY <1>1, <1>2, <1>3, <2>2
<1>5. \A k, l \in S : k.id < l.id => Place(S, k) < Place(S, l)
  <2> SUFFICES ASSUME NEW k \in S, NEW l \in S, k.id < l.id PROVE Place(S, k) < Place(S, l)
    OBVIOUS
  <2>1. Upto(k) \in SUBSET Upto(l) /\ l \in Upto(l) /\ l \notin Upto(k)
    BY DEF Numbers
  <2> HIDE DEF Upto
  <2>2. Cardinality(Upto(k)) <= Cardinality(Upto(l)) /\ Cardinality(Upto(k)) # Cardinality(Upto(l))
    BY <1>2, <2>1, FS_Subset
  <2> QED BY <1>2, <1>3, <2>2
<1>6. \A k, l \in S : Place(S, k) = Place(S, l) => k = l
  <2> SUFFICES ASSUME NEW k \in S, NEW l \in S, Place(S, k) = Place(S, l) PROVE k.id = l.id
    BY DEF Distinct
  <2>1. k.id \in Nat /\ l.id \in Nat /\ Place(S, k) \in Nat
    BY <1>1, <1>4 DEF Numbers
  <2>2. ~(k.id < l.id) /\ ~(l.id < k.id)
    BY <1>5, <2>1
  <2> QED BY <2>1, <2>2
<1>7. \A i \in 1 .. n : \E l \in S : Place(S, l) = i
  <2> DEFINE P == [l \in S |-> Place(S, l)]
  <2>1. P \in Injection(S, 1 .. n)
    <3>1. P \in [S -> 1 .. n]
      BY <1>4
    <3>2. \A k, l \in S : P[k] = P[l] => k = l
      BY <1>6
    <3> QED BY <3>1, <3>2, Fun_IsInj
  <2>2. IsFiniteSet(1 .. n) /\ Cardinality(1 .. n) = n
    BY <1>1, FS_Interval
  <2>3. P \in Surjection(S, 1 .. n)
    <3> HIDE DEF P
    <3> QED BY <2>1, <2>2, FS_Injection
  <2>4. \A i \in 1 .. n : \E l \in S : P[l] = i
    <3> HIDE DEF P, n
    <3> QED BY <2>3, Fun_SurjectionProperties
  <2> QED BY <2>4
<1>8. \A i \in 1 .. n : Listed(S)[i] \in S /\ Place(S, Listed(S)[i]) = i
  BY <1>7 DEF Listed
<1>9. \A l \in S : Listed(S)[Place(S, l)] = l
  BY <1>4, <1>6, <1>8
<1> QED BY <1>1, <1>4, <1>5, <1>6, <1>8, <1>9

\* A statement has a place for every line.
LEMMA ListedLength ==
  ASSUME NEW S, Numbers(S), Distinct(S)
  PROVE  Len(Listed(S)) = Cardinality(S) /\ DOMAIN Listed(S) = 1 .. Cardinality(S)
            /\ Cardinality(S) \in Nat
<1>1. Cardinality(S) \in Nat /\ DOMAIN Listed(S) = 1 .. Cardinality(S)
  BY Places DEF Listed
<1>2. Listed(S) \in Seq(S)
  <2>1. Listed(S) \in [1 .. Cardinality(S) -> S]
    BY Places DEF Listed
  <2> QED BY <1>1, <2>1
<1> QED BY <1>1, <1>2

\* Lines with later ids are listed after those there were.
LEMMA ListedGrows ==
  ASSUME NEW T, Numbers(T), Distinct(T), NEW S \in SUBSET T,
         \A k \in S : \A l \in T \ S : k.id < l.id
  PROVE  /\ Len(Listed(S)) <= Len(Listed(T))
         /\ Listed(S) = SubSeq(Listed(T), 1, Len(Listed(S)))
<1>1. Numbers(S) /\ Distinct(S)
  BY FS_Subset DEF Numbers, Distinct
<1>2. Cardinality(S) <= Cardinality(T)
  BY FS_Subset DEF Numbers
<1> DEFINE n == Cardinality(S)
           N == Cardinality(T)
<1>3. /\ Len(Listed(S)) = n /\ DOMAIN Listed(S) = 1 .. n /\ n \in Nat
      /\ Len(Listed(T)) = N /\ DOMAIN Listed(T) = 1 .. N /\ N \in Nat
  BY <1>1, ListedLength
<1>4. \A l \in S : Place(T, l) = Place(S, l)
  <2> SUFFICES ASSUME NEW l \in S PROVE Place(T, l) = Place(S, l)
    OBVIOUS
  <2>1. \A k \in T : k.id <= l.id => k \in S
    BY DEF Numbers
  <2>2. {k \in T : k.id <= l.id} = {k \in S : k.id <= l.id}
    BY <2>1
  <2> QED BY <2>2 DEF Place
<1>5. \A i \in 1 .. n : Listed(S)[i] = Listed(T)[i]
  <2> SUFFICES ASSUME NEW i \in 1 .. n PROVE Listed(S)[i] = Listed(T)[i]
    OBVIOUS
  <2>1. Listed(S)[i] \in S /\ Place(S, Listed(S)[i]) = i
    BY <1>1, Places
  <2>2. Listed(T)[Place(T, Listed(S)[i])] = Listed(S)[i]
    BY <2>1, Places
  <2> QED BY <1>4, <2>1, <2>2
<1> HIDE DEF n, N
<1>6. Listed(S) = [i \in 1 .. n |-> Listed(T)[i]]
  <2>1. Listed(S) = [i \in 1 .. n |-> Listed(S)[i]]
    BY DEF Listed, n
  <2> QED BY <1>5, <2>1
<1>7. SubSeq(Listed(T), 1, n) = [i \in 1 .. n |-> Listed(T)[i]]
  <2>1. SubSeq(Listed(T), 1, n) = [i \in 1 .. (n - 1 + 1) |-> Listed(T)[i + 1 - 1]]
    BY <1>3 DEF SubSeq
  <2>2. n - 1 + 1 = n /\ \A i \in 1 .. n : i + 1 - 1 = i
    BY <1>3
  <2> QED BY <2>1, <2>2
<1> QED BY <1>2, <1>3, <1>6, <1>7 DEF n, N

\* Lines that follow on each other do so in the statement.
LEMMA ListedFollows ==
  ASSUME NEW S, Numbers(S), Distinct(S), Amounts(S), Follows(S)
  PROVE  Promise!FollowsOn(Listed(S))
<1> DEFINE L == Listed(S)
           n == Cardinality(S)
<1>1. DOMAIN L = 1 .. n /\ n \in Nat /\ \A i \in 1 .. n : L[i] \in S /\ Place(S, L[i]) = i
  BY ListedLength, Places
<1>2. \A l \in S : L[Place(S, l)] = l /\ Place(S, l) \in 1 .. n
  BY Places
<1>3. \A k, l \in S : k.id < l.id => Place(S, k) < Place(S, l)
  BY Places
<1> HIDE DEF L, n
<1>4. ASSUME NEW i \in 1 .. n PROVE L[i].after = L[i].amount + IF i = 1 THEN 0 ELSE L[i - 1].after
  <2> DEFINE l == L[i]
  <2>1. l \in S /\ Place(S, l) = i /\ l.id \in Nat /\ l.amount \in Int
    BY <1>1 DEF Numbers, Amounts
  <2> HIDE DEF l
  <2>2. ASSUME \A k \in S : l.id <= k.id,
                  l.after = l.amount PROVE l.after = l.amount + IF i = 1 THEN 0 ELSE L[i - 1].after
    <3>1. {k \in S : k.id <= l.id} = {l}
      <4>1. \A k \in S : k.id <= l.id => k = l
        BY <2>1, <2>2 DEF Numbers, Distinct
      <4> QED BY <2>1, <4>1
    <3>2. i = 1
      BY <2>1, <3>1, FS_Singleton DEF Place
    <3> QED BY <2>1, <2>2, <3>2
  <2>3. ASSUME NEW k \in S, Before(S, k, l), l.after = l.amount + k.after
        PROVE  l.after = l.amount + IF i = 1 THEN 0 ELSE L[i - 1].after
    <3> DEFINE j == Place(S, k)
    <3>1. j \in 1 .. n /\ L[j] = k /\ j < i
      BY <1>2, <1>3, <2>1, <2>3 DEF Before
    <3> HIDE DEF j
    <3>2. ASSUME j < i - 1 PROVE FALSE
      <4>1. i - 1 \in 1 .. n
        BY <1>1, <3>1, <3>2
      <4>2. L[i - 1] \in S /\ Place(S, L[i - 1]) = i - 1
        BY <1>1, <4>1
      <4>3. L[i - 1].id <= k.id \/ l.id <= L[i - 1].id
        BY <2>3, <4>2 DEF Before
      <4>4. k.id \in Nat /\ L[i - 1].id \in Nat
        BY <4>2 DEF Numbers
      <4>5. CASE L[i - 1].id <= k.id
        <5>1. L[i - 1].id < k.id \/ L[i - 1] = k
          BY <4>2, <4>4, <4>5 DEF Distinct
        <5> QED BY <1>3, <3>1, <3>2, <4>1, <4>2, <5>1 DEF j
      <4>6. CASE l.id <= L[i - 1].id
        <5>1. l.id < L[i - 1].id \/ L[i - 1] = l
          BY <2>1, <4>2, <4>4, <4>6 DEF Distinct
        <5> QED BY <1>3, <2>1, <4>1, <4>2, <5>1
      <4> QED BY <4>3, <4>5, <4>6
    <3>3. i # 1 /\ i - 1 = j
      BY <3>1, <3>2
    <3> QED BY <2>3, <3>1, <3>3
  <2> QED BY <2>1, <2>2, <2>3 DEF Follows, l
<1> QED BY <1>1, <1>4 DEF Promise!FollowsOn, L

\* No two lines refer to the same usage or charge.
RefsFree(S) == \A k, l \in S : k.ref # NoRef /\ k.ref = l.ref => k = l

\* Lines without a common reference have none in the statement.
LEMMA ListedRefs ==
  ASSUME NEW S, Numbers(S), Distinct(S), RefsFree(S)
  PROVE  Promise!RefsOnce(Listed(S))
<1> SUFFICES ASSUME NEW i \in DOMAIN Listed(S), NEW j \in DOMAIN Listed(S),
                    Listed(S)[i].ref # NoRef, Listed(S)[i].ref = Listed(S)[j].ref
             PROVE  i = j
  BY DEF Promise!RefsOnce
<1>1. /\ Listed(S)[i] \in S /\ Place(S, Listed(S)[i]) = i
      /\ Listed(S)[j] \in S /\ Place(S, Listed(S)[j]) = j
  BY ListedLength, Places
<1>2. Listed(S)[i] = Listed(S)[j]
  BY <1>1 DEF RefsFree
<1> QED BY <1>1, <1>2

\* The rows and movements that items become.
Row == [id : Nat \ {0}, item : Item]
Movement == [kind : Kind, member : Member, amount : Int, ref : Nat]
\* What a transaction may be doing.
TxState ==
  [at : {"idle", "opening", "recording", "paying"}, todo : Seq(Item), owed : Seq(Movement),
   rows : SUBSET Row, posted : SUBSET Line, joins : SUBSET Member,
   judged : [Member -> {"unknown", "prepaid", "free"}]]

\* The lines of m that t has written and not committed.
Own(t, m) == LinesOf(tx[t].posted, m)

\* The records are what the code can write, and a row's lock is held by the transaction
\* that has moved it.
Tables ==
  /\ lines \in SUBSET Line /\ IsFiniteSet(lines) /\ usages \in SUBSET Row
  /\ balance \in [Member -> Int] /\ active \in [Member -> Nat]
        /\ lock \in [Member -> Tx \cup {Nobody}]
  /\ tx \in [Tx -> TxState]
  /\ \A t \in Tx : /\ IsFiniteSet(tx[t].posted) /\ (tx[t].at = "idle" => tx[t] = IdleTx)
                   /\ \A m \in Member : lock[m] = t <=> Own(t, m) # {}
  /\ nextId \in Nat \ {0} /\ requests \in 0 .. MaxRequests

\* What a transaction has written, and what is committed.
Written(t) == tx[t].posted \cup tx[t].rows
Booked == lines \cup usages
\* Ids come from one counter: no row or line has the id of another.
Numbered ==
  /\ \A x \in Booked : x.id < nextId /\ \A y \in Booked : x.id = y.id => x = y
  /\ \A t \in Tx : \A x \in Written(t) :
       x.id < nextId /\ (\A y \in Booked : x.id # y.id) /\ \A y \in Written(t) : x.id = y.id => x = y
  /\ \A s, t \in Tx : s # t => \A x \in Written(s), y \in Written(t) : x.id # y.id


\* The lines of m that t sees.
Seen(t, m) == LinesOf(lines \cup tx[t].posted, m)

\* Each balance is what its lines end in, for readers and for the transaction that has
\* added to them: its lines come after all others since it holds the row's lock.
Chained ==
  /\ \A m \in Member : Follows(LinesOf(lines, m)) /\ EndIn(LinesOf(lines, m), balance[m])
  /\ \A t \in Tx, m \in Member : Own(t, m) # {} =>
       /\ \A k \in LinesOf(lines, m), l \in Own(t, m) : k.id < l.id
       /\ Follows(Seen(t, m)) /\ \E b \in Int : EndIn(Seen(t, m), b)

\* A charge, made or owed, is for one of the usages recorded.
Matches(c, rows) == \E r \in rows : r.id = c.ref /\ r.item.member = c.member
   /\ c.amount = -r.item.cost

\* A refund, made or owed, gives back a charge on the books.
Returns(e, ls) == \E c \in ls : c.kind = "charge" /\ c.id = e.ref /\ c.member = e.member

\* Only charges and refunds refer to something, and to something there is.
Refers(e, rows, ls) ==
  /\ e.kind = "charge" => Matches(e, rows)
  /\ e.kind = "refund" => Returns(e, ls)
  /\ e.kind \notin {"charge", "refund"} => e.ref = NoRef

\* What a transaction has written and owes, beside the committed lines ls.
Sound(w, ls) ==
  /\ w.at # "paying" => w.posted = {}
  /\ \A l \in w.posted : Refers(l, w.rows, ls)
  /\ \A i \in DOMAIN w.owed :
       /\ Refers(w.owed[i], w.rows, ls)
       /\ w.owed[i].kind # "charge" => Len(w.owed) = 1 /\ w.posted = {} /\ w.at # "recording"
       /\ w.owed[i].kind = "charge" =>
            /\ \A l \in w.posted : l.ref # w.owed[i].ref
            /\ \A j \in DOMAIN w.owed : w.owed[i].ref = w.owed[j].ref => i = j
  /\ RefsFree(w.posted)
  /\ \A l \in w.posted, k \in ls : l.ref # NoRef => l.ref # k.ref

\* Everything on the books and under way refers to something that is there, once.
Referring ==
  /\ \A l \in lines : Refers(l, usages, lines)
  /\ RefsFree(lines)
  /\ \A t \in Tx : Sound(tx[t], lines)

\* The first of a sequence and the rest.
LEMMA HeadTail ==
  ASSUME NEW S, NEW q \in Seq(S), q # <<>>
  PROVE  /\ Head(q) = q[1] /\ Head(q) \in S /\ 1 \in DOMAIN q /\ DOMAIN q = 1 .. Len(q)
               /\ Len(q) \in Nat
         /\ Tail(q) \in Seq(S) /\ Len(Tail(q)) = Len(q) - 1 /\ DOMAIN Tail(q) = 1 .. Len(q) - 1
         /\ \A i \in DOMAIN Tail(q) : i + 1 \in DOMAIN q /\ i + 1 # 1 /\ Tail(q)[i] = q[i + 1]
<1>1. Len(q) \in Nat /\ Len(q) # 0 /\ DOMAIN q = 1 .. Len(q)
  OBVIOUS
<1>2. Tail(q) \in Seq(S) /\ Len(Tail(q)) = Len(q) - 1
  OBVIOUS
<1>3. DOMAIN Tail(q) = 1 .. Len(q) - 1
  BY <1>2
<1>4. \A i \in 1 .. Len(q) - 1 : Tail(q)[i] = q[i + 1]
  OBVIOUS
<1>5. Head(q) = q[1] /\ 1 \in DOMAIN q /\ q[1] \in S
  BY <1>1
<1> QED BY <1>1, <1>2, <1>3, <1>4, <1>5

\* A sequence of one.
LEMMA OneMovement ==
  ASSUME NEW e
  PROVE  /\ Len(<<e>>) = 1 /\ DOMAIN <<e>> = {1} /\ <<e>>[1] = e
         /\ DOMAIN <<>> = {} /\ \A S : e \in S => <<e>> \in Seq(S)
OBVIOUS

\* A movement less is owed.
LEMMA OwedLess ==
  ASSUME NEW w \in TxState, NEW ls, Sound(w, ls), w.owed # <<>>, NEW v \in TxState,
         v.owed = Tail(w.owed), v.at = w.at, v.rows = w.rows, v.posted = w.posted
  PROVE  Sound(v, ls)
<1>1. w.owed \in Seq(Movement)
  BY DEF TxState
<1>2. /\ DOMAIN w.owed = 1 .. Len(w.owed) /\ Len(w.owed) \in Nat /\ Len(v.owed) = Len(w.owed) - 1
      /\ DOMAIN v.owed = 1 .. Len(w.owed) - 1
      /\ \A i \in DOMAIN v.owed : i + 1 \in DOMAIN w.owed /\ i + 1 # 1 /\ v.owed[i] = w.owed[i + 1]
  BY <1>1, HeadTail
<1>3. ASSUME NEW i \in DOMAIN v.owed
      PROVE  /\ Refers(v.owed[i], v.rows, ls) /\ v.owed[i].kind = "charge"
             /\ \A l \in v.posted : l.ref # v.owed[i].ref
             /\ \A j \in DOMAIN v.owed : v.owed[i].ref = v.owed[j].ref => i = j
  <2>1. i + 1 \in DOMAIN w.owed /\ v.owed[i] = w.owed[i + 1] /\ Len(w.owed) # 1 /\ i \in Nat
    BY <1>2
  <2>2. Refers(v.owed[i], v.rows, ls) /\ v.owed[i].kind = "charge"
           /\ \A l \in v.posted : l.ref # v.owed[i].ref
    BY <2>1 DEF Sound
  <2>3. \A j \in DOMAIN w.owed : w.owed[i + 1].ref = w.owed[j].ref => i + 1 = j
    BY <2>1, <2>2 DEF Sound
  <2>4. \A j \in DOMAIN v.owed : v.owed[i].ref = v.owed[j].ref => i = j
    BY <1>2, <2>1, <2>3
  <2> QED BY <2>2, <2>4
<1> QED BY <1>3 DEF Sound

\* A transaction that has not begun has written nothing.
LEMMA IdleFits == IdleTx \in TxState /\ IdleTx.posted = {} /\ IdleTx.rows = {} /\ IdleTx.owed = <<>>
BY DEF IdleTx, TxState

\* A transaction that has begun.
LEMMA Started ==
  ASSUME NEW v \in TxState, NEW ls, v.posted = {}, v.rows = {},
         v.owed = <<>> \/ \E e \in Movement : /\ v.owed = <<e>> /\ e.kind # "charge"
            /\ Refers(e, {}, ls)
                                              /\ v.at # "recording"
  PROVE  Sound(v, ls)
<1>1. CASE v.owed = <<>>
  <2>1. DOMAIN v.owed = {}
    BY <1>1
  <2> QED BY <2>1 DEF Sound, RefsFree
<1>2. ASSUME NEW e \in Movement, v.owed = <<e>>, e.kind # "charge", Refers(e, {}, ls),
                v.at # "recording"
      PROVE  Sound(v, ls)
  <2>1. DOMAIN v.owed = {1} /\ v.owed[1] = e /\ Len(v.owed) = 1
    BY <1>2, OneMovement
  <2> QED BY <1>2, <2>1 DEF Sound, RefsFree
<1> QED BY <1>1, <1>2

\* t goes on without writing anything.
GoesOn(t, v) ==
  /\ v \in TxState /\ tx' = [tx EXCEPT ![t] = v] /\ v.at # "idle" /\ Sound(v, lines)
  /\ v.posted = tx[t].posted /\ v.rows = tx[t].rows
  /\ UNCHANGED <<lines, balance, usages, active, lock, nextId>>

\* Beginning a transaction writes nothing.
LEMMA Begins ==
  ASSUME Tables, NEW t \in Tx, NEW v \in TxState, Begin(t, v), v.at # "idle", Sound(v, lines),
         v.posted = {}, v.rows = {}
  PROVE  GoesOn(t, v) /\ requests' \in 0 .. MaxRequests
<1>1. tx[t] = IdleTx
  BY DEF Tables, Begin
<1>2. requests' \in 0 .. MaxRequests
  BY DEF Tables, Begin
<1> QED BY <1>1, <1>2, IdleFits DEF Begin, GoesOn

\* Nor does one that owes a movement other than a charge.
LEMMA BeginPaying ==
  ASSUME Tables, NEW t \in Tx, NEW e \in Movement, Begin(t, Paying(<<e>>)),
         e.kind # "charge", Refers(e, {}, lines)
  PROVE  \E v : GoesOn(t, v) /\ requests' \in 0 .. MaxRequests
<1> DEFINE v == Paying(<<e>>)
<1>1. <<e>> \in Seq(Movement)
  OBVIOUS
<1>2. v \in TxState /\ v.at = "paying" /\ v.owed = <<e>> /\ v.posted = {} /\ v.rows = {}
  BY <1>1, IdleFits DEF Paying, TxState
<1> HIDE DEF v
<1>3. Sound(v, lines)
  BY <1>2, Started
<1> QED BY <1>2, <1>3, Begins DEF v

\* What administrators grant is an amount.
LEMMA GrantsAreWhole == Grants \subseteq Int
BY LedgerAssumption

\* Each request begins a transaction that owes what it may: a refund, for a charge on the
\* books.
LEMMA Requested ==
  ASSUME Tables, NEW t \in Tx,
         \/ \E m \in Member, a \in Grants : Grant(t, m, a)
         \/ \E m \in Member, a \in Adjustments : Adjust(t, m, a)
         \/ \E l \in lines : Refund(t, l)
         \/ \E m \in Member : PutMembership(t, m)
         \/ \E b \in Seq(Item) : Record(t, b)
  PROVE  \E v : GoesOn(t, v) /\ requests' \in 0 .. MaxRequests
<1> DEFINE Goal == \E v : GoesOn(t, v) /\ requests' \in 0 .. MaxRequests
<1>1. ASSUME NEW m \in Member, NEW a \in Grants, Grant(t, m, a) PROVE Goal
  <2> DEFINE e == Entry("grant", m, a, NoRef)
  <2>0. a \in Int
    BY ZenonT(40), GrantsAreWhole
  <2>1. e \in Movement /\ e.kind # "charge" /\ Refers(e, {}, lines)
    BY <2>0 DEF Entry, Movement, Kind, NoRef, Refers
  <2> HIDE DEF e
  <2> QED BY <1>1, <2>1, BeginPaying DEF Grant, e
<1>2. ASSUME NEW m \in Member, NEW a \in Adjustments, Adjust(t, m, a) PROVE Goal
  <2> DEFINE e == Entry("adjust", m, a, NoRef)
  <2>1. e \in Movement /\ e.kind # "charge" /\ Refers(e, {}, lines)
    BY DEF Entry, Movement, Kind, NoRef, Refers
  <2> HIDE DEF e
  <2> QED BY <1>2, <2>1, BeginPaying DEF Adjust, e
<1>3. ASSUME NEW l \in lines, Refund(t, l) PROVE Goal
  <2> DEFINE e == Entry("refund", l.member, -l.amount, l.id)
  <2>1. l \in Line /\ l.kind = "charge"
    BY <1>3 DEF Tables, Refund
  <2>2. l.member \in Member /\ l.amount \in Int /\ l.id \in Nat
    BY <2>1 DEF Line
  <2>3. e \in Movement /\ e.kind = "refund" /\ e.ref = l.id /\ e.member = l.member
    BY <2>2 DEF Entry, Movement, Kind
  <2> HIDE DEF e
  <2>4. Refers(e, {}, lines)
    BY <2>1, <2>3 DEF Refers, Returns
  <2> QED BY <1>3, <2>3, <2>4, BeginPaying DEF Refund, e
<1>4. ASSUME NEW m \in Member, PutMembership(t, m) PROVE Goal
  <2> DEFINE e == Entry("opening", m, OpeningCredit, NoRef)
             joins == IF active[m] = 0 THEN {m} ELSE {}
             v == [IdleTx EXCEPT !.at = "opening", !.joins = joins, !.owed = <<e>>]
  <2>1. e \in Movement /\ e.kind # "charge" /\ Refers(e, {}, lines)
    BY DEF Entry, Movement, Kind, NoRef, Refers
  <2>2. Begin(t, v)
    BY <1>4 DEF PutMembership
  <2>3. joins \in SUBSET Member
    OBVIOUS
  <2> HIDE DEF e, joins
  <2>4. <<e>> \in Seq(Movement)
    BY <2>1
  <2>5. v \in TxState /\ v.at = "opening" /\ v.owed = <<e>> /\ v.posted = {} /\ v.rows = {}
    BY <2>3, <2>4, IdleFits DEF TxState
  <2> HIDE DEF v
  <2>6. Sound(v, lines)
    BY <2>1, <2>5, Started
  <2> QED BY <2>2, <2>5, <2>6, Begins
<1>5. ASSUME NEW b \in Seq(Item), Record(t, b) PROVE Goal
  <2> DEFINE v == [IdleTx EXCEPT !.at = "recording", !.todo = b]
  <2>1. Begin(t, v)
    BY <1>5 DEF Record
  <2>3. v \in TxState /\ v.at = "recording" /\ v.owed = <<>> /\ v.posted = {} /\ v.rows = {}
    BY IdleFits DEF TxState
  <2> HIDE DEF v
  <2>4. Sound(v, lines)
    BY <2>3, Started
  <2> QED BY <2>1, <2>3, <2>4, Begins
<1> QED BY <1>1, <1>2, <1>3, <1>4, <1>5

\* The steps of a transaction that write nothing.
LEMMA GoingOn ==
  ASSUME Tables, Referring, NEW t \in Tx,
         CheckOpening(t) \/ Recorded(t) \/ NotCharged(t) \/ (RecordItem(t) /\ nextId' = nextId)
  PROVE  (\E v : GoesOn(t, v)) /\ requests' = requests
<1> DEFINE w == tx[t]
<1>1. w \in TxState /\ Sound(w, lines) /\ tx \in [Tx -> TxState] /\ w.owed \in Seq(Movement)
         /\ w.todo \in Seq(Item)
      /\ nextId \in Nat
  BY DEF Tables, Referring, TxState
<1>2. CASE CheckOpening(t)
  <2> DEFINE due == IF OpeningCredit = 0 \/ GrantedOpening(Head(w.owed).member) THEN <<>> ELSE w.owed
             v == [w EXCEPT !.at = "paying", !.owed = due]
  <2>1. tx' = [tx EXCEPT ![t] = v] /\ w.at = "opening"
    BY <1>1, <1>2 DEF CheckOpening
  <2>2. due \in Seq(Movement) /\ (due = <<>> \/ due = w.owed)
    BY <1>1
  <2> HIDE DEF due
  <2>3. v \in TxState /\ v.at = "paying" /\ v.owed = due /\ v.posted = w.posted /\ v.rows = w.rows
    BY <1>1, <2>2 DEF TxState
  <2> HIDE DEF v
  <2>4. Sound(v, lines)
    <3>1. w.posted = {}
      BY <1>1, <2>1 DEF Sound
    <3>2. CASE due = <<>>
      <4>1. DOMAIN v.owed = {}
        BY <2>3, <3>2
      <4> QED BY <1>1, <2>3, <3>1, <4>1 DEF Sound
    <3>3. CASE due = w.owed
      BY <1>1, <2>1, <2>3, <3>3 DEF Sound
    <3> QED BY <2>2, <3>2, <3>3
  <2>5. GoesOn(t, v)
    BY <1>2, <2>1, <2>3, <2>4 DEF CheckOpening, GoesOn
  <2> QED BY <1>2, <2>5 DEF CheckOpening
<1>3. CASE Recorded(t)
  <2> DEFINE v == [w EXCEPT !.at = "paying"]
  <2>1. tx' = [tx EXCEPT ![t] = v]
    BY <1>1, <1>3 DEF Recorded
  <2>2. v \in TxState /\ v.at = "paying" /\ v.owed = w.owed /\ v.posted = w.posted /\ v.rows = w.rows
    BY <1>1 DEF TxState
  <2> HIDE DEF v
  <2>3. Sound(v, lines)
    BY <1>1, <2>2 DEF Sound
  <2>4. GoesOn(t, v)
    BY <1>3, <2>1, <2>2, <2>3 DEF Recorded, GoesOn
  <2> QED BY <1>3, <2>4 DEF Recorded
<1>4. CASE NotCharged(t)
  <2> DEFINE m == Head(w.owed).member
             v == [w EXCEPT !.owed = Tail(w.owed), !.judged = [w.judged EXCEPT ![m] = "free"]]
  <2>1. tx' = [tx EXCEPT ![t] = v] /\ w.owed # <<>> /\ w.at = "paying"
    BY <1>1, <1>4 DEF NotCharged
  <2>2. m \in Member /\ Tail(w.owed) \in Seq(Movement)
    <3>1. Head(w.owed) \in Movement /\ Tail(w.owed) \in Seq(Movement)
      BY <1>1, <2>1, HeadTail
    <3> QED BY <3>1 DEF Movement
  <2> HIDE DEF m
  <2>3. [w.judged EXCEPT ![m] = "free"] \in [Member -> {"unknown", "prepaid", "free"}]
    BY <1>1, <2>2 DEF TxState
  <2>4. v \in TxState /\ v.at = w.at /\ v.owed = Tail(w.owed) /\ v.posted = w.posted
           /\ v.rows = w.rows
    BY <1>1, <2>2, <2>3 DEF TxState
  <2> HIDE DEF v
  <2>5. Sound(v, lines)
    BY <1>1, <2>1, <2>4, OwedLess
  <2>6. GoesOn(t, v)
    BY <1>4, <2>1, <2>4, <2>5 DEF NotCharged, GoesOn
  <2> QED BY <1>4, <2>6 DEF NotCharged
<1>5. CASE RecordItem(t) /\ nextId' = nextId
  <2> DEFINE v == [w EXCEPT !.todo = Tail(w.todo)]
  <2>1. tx' = [tx EXCEPT ![t] = v] /\ w.todo # <<>> /\ w.at = "recording"
    <3>1. PassedOver(t, Head(w.todo))
      <4>1. ~PassedOver(t, Head(w.todo)) => nextId' = nextId + 1
        BY <1>5 DEF RecordItem
      <4> QED BY <1>1, <1>5, <4>1
    <3> QED BY <1>1, <1>5, <3>1 DEF RecordItem
  <2>2. Tail(w.todo) \in Seq(Item)
    BY <1>1, <2>1, HeadTail
  <2>3. v \in TxState /\ v.at = w.at /\ v.owed = w.owed /\ v.posted = w.posted /\ v.rows = w.rows
    BY <1>1, <2>2 DEF TxState
  <2> HIDE DEF v
  <2>4. Sound(v, lines)
    BY <1>1, <2>3 DEF Sound
  <2>5. GoesOn(t, v)
    BY <1>5, <2>1, <2>3, <2>4 DEF RecordItem, GoesOn
  <2> QED BY <1>5, <2>5 DEF RecordItem
<1> QED BY <1>2, <1>3, <1>4, <1>5

\* Lines and usage rows are different records.
LEMMA LinesAreNotRows == \A x \in Line, y \in Row : x # y
<1> SUFFICES ASSUME NEW x \in Line, x \in Row PROVE FALSE
  OBVIOUS
<1>1. DOMAIN x = {"id", "kind", "member", "amount", "after", "ref"}
  BY DEF Line
<1>2. DOMAIN x = {"id", "item"}
  BY DEF Row
<1> QED BY <1>1, <1>2

\* A sequence with one more at its end.
LEMMA Appended ==
  ASSUME NEW S, NEW q \in Seq(S), NEW e \in S
  PROVE  /\ q \o <<e>> \in Seq(S) /\ Len(q \o <<e>>) = Len(q) + 1
               /\ DOMAIN (q \o <<e>>) = 1 .. Len(q) + 1
         /\ \A i \in 1 .. Len(q) + 1 : (q \o <<e>>)[i] = IF i = Len(q) + 1 THEN e ELSE q[i]
         /\ Len(q) \in Nat /\ DOMAIN q = 1 .. Len(q)
<1>1. Len(q) \in Nat /\ DOMAIN q = 1 .. Len(q)
  OBVIOUS
<1>2. q \o <<e>> \in Seq(S) /\ Len(q \o <<e>>) = Len(q) + 1
  OBVIOUS
<1>3. DOMAIN (q \o <<e>>) = 1 .. Len(q) + 1
  BY <1>2
<1>4. \A i \in 1 .. Len(q) + 1 : (q \o <<e>>)[i] = IF i = Len(q) + 1 THEN e ELSE q[i]
  OBVIOUS
<1> QED BY <1>1, <1>2, <1>3, <1>4

\* t records an item as a row, and what it owes for it.
RecordsRow(t, v, row) ==
  /\ v \in TxState /\ tx' = [tx EXCEPT ![t] = v] /\ v.at # "idle" /\ Sound(v, lines)
  /\ row \in Row /\ row.id = nextId /\ v.posted = tx[t].posted /\ v.rows = tx[t].rows \cup {row}
  /\ nextId' = nextId + 1
  /\ UNCHANGED <<lines, balance, usages, active, lock, requests>>

\* Recording an item adds its row and owes the charge for exactly that row (usage.py:515).
LEMMA Recording ==
  ASSUME Tables, Numbered, Referring, NEW t \in Tx, RecordItem(t), nextId' # nextId
  PROVE  \E v, row : RecordsRow(t, v, row)
<1> DEFINE w == tx[t]
           item == Head(w.todo)
           row == [id |-> nextId, item |-> item]
           e == Entry("charge", item.member, -item.cost, nextId)
           due == IF item.cost = 0 THEN <<>> ELSE <<e>>
           v == [w EXCEPT !.todo = Tail(w.todo), !.rows = w.rows \cup {row}, !.owed = w.owed \o due]
<1>1. w \in TxState /\ Sound(w, lines) /\ tx \in [Tx -> TxState] /\ w.owed \in Seq(Movement)
         /\ w.todo \in Seq(Item)
      /\ nextId \in Nat \ {0} /\ w.at = "recording" /\ w.todo # <<>> /\ w.rows \in SUBSET Row
  BY DEF Tables, Referring, TxState, RecordItem
<1>2. ~PassedOver(t, Head(w.todo))
  BY DEF RecordItem
<1>3. tx' = [tx EXCEPT ![t] = v] /\ nextId' = nextId + 1
  BY <1>1, <1>2 DEF RecordItem
<1>4. item \in Item /\ Tail(w.todo) \in Seq(Item)
  BY <1>1, HeadTail
<1>5. item.member \in Member /\ item.cost \in Nat
  BY <1>4 DEF Item
<1>6. row \in Row /\ row.id = nextId /\ row.item = item
  BY <1>1, <1>4 DEF Row
<1>7. /\ e \in Movement /\ e.kind = "charge" /\ e.ref = nextId /\ e.member = item.member
            /\ e.amount = -item.cost
  BY <1>1, <1>5 DEF Entry, Movement, Kind
<1> HIDE DEF item, row, e
<1>8. w.owed \o due \in Seq(Movement)
  BY <1>1, <1>7
<1>9. /\ v \in TxState /\ v.at = "recording" /\ v.posted = w.posted /\ v.rows = w.rows \cup {row}
            /\ v.owed = w.owed \o due
  <2> HIDE DEF due
  <2> QED BY <1>1, <1>4, <1>6, <1>8 DEF TxState
<1>0. due = <<>> \/ due = <<e>>
  OBVIOUS
<1> HIDE DEF v, due
<1>10. w.posted = {}
  BY <1>1 DEF Sound
<1>11. ASSUME NEW i \in DOMAIN w.owed
       PROVE  /\ Refers(w.owed[i], v.rows, lines) /\ w.owed[i].kind = "charge"
                    /\ w.owed[i].ref # nextId
              /\ \A j \in DOMAIN w.owed : w.owed[i].ref = w.owed[j].ref => i = j
  <2>1. Refers(w.owed[i], w.rows, lines) /\ w.owed[i].kind = "charge"
    BY <1>1 DEF Sound
  <2>2. PICK r \in w.rows : r.id = w.owed[i].ref /\ r.item.member = w.owed[i].member
           /\ w.owed[i].amount = -r.item.cost
    BY <2>1 DEF Refers, Matches
  <2>3. r.id < nextId /\ r.id \in Nat
    BY <1>1, <2>2 DEF Numbered, Written, Row
  <2>4. Refers(w.owed[i], v.rows, lines)
    BY <1>9, <2>1, <2>2 DEF Refers, Matches
  <2>5. \A j \in DOMAIN w.owed : w.owed[i].ref = w.owed[j].ref => i = j
    BY <1>1, <2>1 DEF Sound
  <2> QED BY <1>1, <2>1, <2>2, <2>3, <2>4, <2>5
<1>12. Refers(e, v.rows, lines)
  BY <1>6, <1>7, <1>9 DEF Refers, Matches
<1>13. Sound(v, lines)
  <2>1. CASE due = <<>>
    <3>1. v.owed = w.owed
      BY <1>1, <1>9, <2>1
    <3> QED BY <1>9, <1>10, <1>11, <3>1 DEF Sound, RefsFree
  <2>2. CASE due = <<e>>
    <3>1. /\ DOMAIN v.owed = 1 .. Len(w.owed) + 1 /\ Len(w.owed) \in Nat
                /\ DOMAIN w.owed = 1 .. Len(w.owed)
          /\ \A i \in DOMAIN v.owed : v.owed[i] = IF i = Len(w.owed) + 1 THEN e ELSE w.owed[i]
      BY <1>1, <1>7, <1>9, <2>2, Appended
    <3>2. ASSUME NEW i \in DOMAIN v.owed
          PROVE  /\ Refers(v.owed[i], v.rows, lines) /\ v.owed[i].kind = "charge"
                 /\ \A j \in DOMAIN v.owed : v.owed[i].ref = v.owed[j].ref => i = j
      <4>1. i = Len(w.owed) + 1 \/ i \in DOMAIN w.owed
        BY SMTT(30), <3>1
      <4>2. \A j \in DOMAIN v.owed : j = Len(w.owed) + 1 \/ (j \in DOMAIN w.owed
               /\ j # Len(w.owed) + 1)
        BY SMTT(30), <3>1
      <4>3. CASE i = Len(w.owed) + 1
        <5>1. v.owed[i] = e
          BY <3>1, <4>3
        <5>2. \A j \in DOMAIN v.owed : j # i => v.owed[j].ref # nextId
          BY <1>11, <3>1, <4>2, <4>3
        <5> QED BY <1>7, <1>12, <5>1, <5>2
      <4>4. CASE i # Len(w.owed) + 1
        <5>1. v.owed[i] = w.owed[i] /\ i \in DOMAIN w.owed
          BY <3>1, <4>1, <4>4
        <5>2. \A j \in DOMAIN v.owed : v.owed[i].ref = v.owed[j].ref => i = j
          BY <1>7, <1>11, <3>1, <4>2, <5>1
        <5> QED BY <1>11, <5>1, <5>2
      <4> QED BY <4>3, <4>4
    <3> QED BY <1>9, <1>10, <3>2 DEF Sound, RefsFree
  <2> QED BY <1>0, <2>1, <2>2
<1>14. UNCHANGED <<lines, balance, usages, active, lock, requests>>
  BY DEF RecordItem
<1>15. RecordsRow(t, v, row)
  BY <1>1, <1>3, <1>6, <1>9, <1>13, <1>14 DEF RecordsRow
<1> QED BY <1>15

\* What t sees of a member's lines and balance is in order.
LEMMA SeenInOrder ==
  ASSUME Tables, Numbered, Chained, NEW t \in Tx, NEW m \in Member
  PROVE  LET S == Seen(t, m)
             b == BalanceSeen(t, m)
         IN Numbers(S) /\ Distinct(S) /\ Amounts(S) /\ Follows(S) /\ EndIn(S, b) /\ b \in Int
<1> DEFINE S == Seen(t, m)
           own == Own(t, m)
<1>1. /\ lines \in SUBSET Line /\ IsFiniteSet(lines) /\ tx[t].posted \in SUBSET Line
            /\ IsFiniteSet(tx[t].posted)
      /\ balance[m] \in Int
  BY DEF Tables, TxState
<1>2. S \subseteq Line /\ IsFiniteSet(S) /\ S = LinesOf(lines, m) \cup own
  <2>1. IsFiniteSet(lines \cup tx[t].posted)
    BY <1>1, FS_Union
  <2>2. S \in SUBSET (lines \cup tx[t].posted)
    BY DEF Seen, LinesOf
  <2>3. IsFiniteSet(S)
    BY <2>1, <2>2, FS_Subset
  <2> QED BY <1>1, <2>2, <2>3 DEF Seen, LinesOf, Own
<1>3. Numbers(S) /\ Amounts(S)
  BY <1>2 DEF Numbers, Amounts, Line
<1>4. Distinct(S)
  BY DEF Numbered, Written, Booked, Seen, LinesOf, Distinct
<1>5. CASE own = {}
  <2>1. S = LinesOf(lines, m) /\ BalanceSeen(t, m) = balance[m]
    BY <1>2, <1>5 DEF BalanceSeen, Own
  <2> QED BY <1>1, <1>3, <1>4, <2>1 DEF Chained
<1>6. CASE own # {}
  <2>1. /\ \A k \in LinesOf(lines, m), l \in own : k.id < l.id
        /\ Follows(S) /\ \E b \in Int : EndIn(S, b)
    BY <1>6 DEF Chained
  <2>2. PICK b \in Int : EndIn(S, b)
    BY <2>1
  <2>3. PICK l \in S : Latest(S, l) /\ l.after = b
    BY <1>2, <1>6, <2>2 DEF EndIn
  <2>4. l \in own
    <3>1. PICK k \in own : TRUE
      BY <1>6
    <3>2. k.id <= l.id /\ k.id \in Nat /\ l.id \in Nat
      BY <1>2, <1>3, <2>3 DEF Latest, Numbers
    <3>3. l \in LinesOf(lines, m) => l.id < k.id
      BY <2>1
    <3> QED BY <1>2, <3>2, <3>3
  <2>5. Numbers(own) /\ Distinct(own) /\ Latest(own, l)
    <3>1. own \in SUBSET S
      BY <1>2
    <3>2. IsFiniteSet(own)
      BY <1>2, <3>1, FS_Subset
    <3> QED BY <1>3, <1>4, <2>3, <2>4, <3>1, <3>2 DEF Numbers, Distinct, Latest
  <2>6. LastLine(own) = l
    BY <2>5, LastIs
  <2>7. BalanceSeen(t, m) = b
    BY <1>6, <2>3, <2>6 DEF BalanceSeen, Own
  <2> QED BY <1>3, <1>4, <2>1, <2>2, <2>7
<1> QED BY <1>5, <1>6

\* t moves a balance: it posts a line and takes the row's lock.
Posts(t, v, line) ==
  /\ v \in TxState /\ tx' = [tx EXCEPT ![t] = v] /\ v.at = "paying" /\ Sound(v, lines)
  /\ line \in Line /\ line.id = nextId /\ v.posted = tx[t].posted \cup {line}
  /\ v.rows = tx[t].rows /\ v.todo = tx[t].todo
  /\ line.after = BalanceSeen(t, line.member) + line.amount
  /\ lock[line.member] \in {Nobody, t} /\ lock' = [lock EXCEPT ![line.member] = t]
  /\ nextId' = nextId + 1
  /\ UNCHANGED <<lines, balance, usages, active, requests>>

\* A line of a transaction refers to nothing that a committed line refers to.
LEMMA FreshReference ==
  ASSUME Tables, Numbered, Referring, NEW t \in Tx, NEW e, Refers(e, tx[t].rows, lines),
         e.kind = "refund" => ~RefTaken(e), NEW k \in lines, e.ref # NoRef
  PROVE  e.ref # k.ref
<1> SUFFICES ASSUME e.ref = k.ref PROVE FALSE
  OBVIOUS
<1>1. Refers(k, usages, lines) /\ usages \subseteq Row /\ lines \subseteq Line
  BY DEF Referring, Tables
<1>2. \A c \in lines : \A r \in usages \cup tx[t].rows : c.id # r.id
  <2> SUFFICES ASSUME NEW c \in lines, NEW r \in usages \cup tx[t].rows, c.id = r.id PROVE FALSE
    OBVIOUS
  <2>1. CASE r \in usages
    <3>1. c = r
      BY <2>1 DEF Numbered, Booked
    <3> QED BY <1>1, <2>1, <3>1, LinesAreNotRows
  <2>2. CASE r \in tx[t].rows
    BY <2>2 DEF Numbered, Booked, Written
  <2> QED BY <2>1, <2>2
<1>3. \A q \in usages, r \in tx[t].rows : q.id # r.id
  BY DEF Numbered, Booked, Written
<1>4. CASE e.kind = "charge"
  BY <1>1, <1>2, <1>3, <1>4 DEF Refers, Matches, Returns
<1>5. CASE e.kind = "refund"
  <2>1. k.kind # "refund"
    BY <1>5 DEF RefTaken
  <2> QED BY <1>1, <1>2, <1>5, <2>1 DEF Refers, Matches, Returns
<1>6. CASE e.kind \notin {"charge", "refund"}
  BY <1>6 DEF Refers
<1> QED BY <1>4, <1>5, <1>6

\* Moving a balance posts a line that carries on from what the transaction sees
\* (_apply_delta).
LEMMA Moving ==
  ASSUME Tables, Numbered, Chained, Referring, NEW t \in Tx, Move(t)
  PROVE  \E v, line : Posts(t, v, line)
<1> DEFINE w == tx[t]
           e == Head(w.owed)
           m == e.member
           line == [id |-> nextId, kind |-> e.kind, member |-> m, amount |-> e.amount,
                    after |-> BalanceSeen(t, m) + e.amount, ref |-> e.ref]
           verdicts == [w.judged EXCEPT ![m] = IF e.kind = "charge" THEN "prepaid" ELSE @]
           v == [w EXCEPT !.owed = Tail(w.owed), !.posted = w.posted \cup {line}, !.judged = verdicts]
<1>1. w \in TxState /\ Sound(w, lines) /\ tx \in [Tx -> TxState] /\ w.owed \in Seq(Movement)
         /\ w.owed # <<>>
      /\ nextId \in Nat \ {0} /\ w.at = "paying" /\ w.posted \in SUBSET Line
  BY DEF Tables, Referring, TxState, Move
<1>2. e \in Movement /\ Tail(w.owed) \in Seq(Movement) /\ e = w.owed[1] /\ 1 \in DOMAIN w.owed
  BY <1>1, HeadTail
<1>3. e.kind \in Kind /\ m \in Member /\ e.amount \in Int /\ e.ref \in Nat
  BY <1>2 DEF Movement
<1>4. ~RefTaken(e) /\ lock[m] \in {Nobody, t} /\ lock' = [lock EXCEPT ![m] = t]
         /\ nextId' = nextId + 1
      /\ UNCHANGED <<lines, balance, usages, active, requests>>
  BY DEF Move, FreeFor
<1>5. tx' = [tx EXCEPT ![t] = v]
  BY ZenonT(40), <1>1 DEF Move
<1>6. BalanceSeen(t, m) \in Int
  BY <1>3, SeenInOrder
<1>7. /\ line \in Line /\ line.id = nextId /\ line.kind = e.kind /\ line.member = m
            /\ line.amount = e.amount
      /\ line.ref = e.ref /\ line.after = BalanceSeen(t, m) + line.amount
  BY <1>1, <1>3, <1>6 DEF Line
<1>8. verdicts \in [Member -> {"unknown", "prepaid", "free"}]
  BY <1>1, <1>3 DEF TxState
<1> HIDE DEF e, line, verdicts
<1>9. /\ v \in TxState /\ v.at = "paying" /\ v.owed = Tail(w.owed) /\ v.rows = w.rows
            /\ v.todo = w.todo
      /\ v.posted = w.posted \cup {line}
  BY <1>1, <1>2, <1>7, <1>8 DEF TxState
<1>10. /\ DOMAIN v.owed = 1 .. Len(w.owed) - 1 /\ Len(w.owed) \in Nat
       /\ \A i \in DOMAIN v.owed : i + 1 \in DOMAIN w.owed /\ i + 1 # 1 /\ v.owed[i] = w.owed[i + 1]
  BY <1>1, <1>9, HeadTail
<1> HIDE DEF v
<1>11. Refers(e, w.rows, lines)
  BY <1>1, <1>2 DEF Sound
<1>12. Refers(line, w.rows, lines)
  BY <1>7, <1>11 DEF Refers, Matches, Returns
<1>13. ASSUME NEW i \in DOMAIN v.owed
       PROVE  /\ Refers(v.owed[i], w.rows, lines) /\ v.owed[i].kind = "charge"
              /\ \A l \in v.posted : l.ref # v.owed[i].ref
              /\ \A j \in DOMAIN v.owed : v.owed[i].ref = v.owed[j].ref => i = j
  <2>1. i + 1 \in DOMAIN w.owed /\ i + 1 # 1 /\ v.owed[i] = w.owed[i + 1] /\ Len(w.owed) # 1
           /\ i \in Nat
    BY <1>10
  <2>2. /\ Refers(v.owed[i], w.rows, lines) /\ v.owed[i].kind = "charge"
        /\ \A l \in w.posted : l.ref # v.owed[i].ref
    BY <1>1, <2>1 DEF Sound
  <2>3. \A j \in DOMAIN w.owed : w.owed[i + 1].ref = w.owed[j].ref => i + 1 = j
    BY <1>1, <2>1, <2>2 DEF Sound
  <2>4. line.ref # v.owed[i].ref
    BY <1>2, <1>7, <2>1, <2>3
  <2>5. \A j \in DOMAIN v.owed : v.owed[i].ref = v.owed[j].ref => i = j
    BY SMTT(30), <1>10, <2>1, <2>3
  <2> QED BY <1>9, <2>2, <2>4, <2>5
<1>14. \A l \in w.posted : line.ref # NoRef => l.ref # line.ref
  <2>1. CASE e.kind = "charge"
    BY <1>1, <1>2, <1>7, <2>1 DEF Sound
  <2>2. CASE e.kind # "charge"
    BY <1>1, <1>2, <2>2 DEF Sound
  <2> QED BY <2>1, <2>2
<1>15. RefsFree(v.posted)
  BY <1>1, <1>9, <1>14 DEF Sound, RefsFree
<1>16. \A l \in v.posted, k \in lines : l.ref # NoRef => l.ref # k.ref
  <2>1. \A k \in lines : line.ref # NoRef => line.ref # k.ref
    BY <1>4, <1>7, <1>11, FreshReference
  <2> QED BY <1>1, <1>9, <2>1 DEF Sound
<1>17. \A l \in v.posted : Refers(l, w.rows, lines)
  BY <1>1, <1>9, <1>12 DEF Sound
<1>18. Sound(v, lines)
  BY <1>9, <1>13, <1>15, <1>16, <1>17 DEF Sound
<1>19. Posts(t, v, line)
  BY <1>4, <1>5, <1>7, <1>9, <1>18 DEF Posts
<1> QED BY <1>19

\* The inductive invariant of the tables.
LedgerInv == Tables /\ Numbered /\ Chained /\ Referring

\* A step of the ledger, whatever batches it is sent.
Steps == Next \/ \E t \in Tx, b \in Seq(Item) : Record(t, b)

\* What a step of the ledger can be.
LEMMA Kinds ==
  ASSUME LedgerInv, [Steps]_vars
  PROVE  \/ \E t \in Tx : \/ \E v : GoesOn(t, v) /\ requests' \in 0 .. MaxRequests
                          \/ \E v, row : RecordsRow(t, v, row)
                          \/ \E v, line : Posts(t, v, line)
                          \/ Commit(t)
                          \/ Fail(t)
         \/ \E m \in Member : CancelMembership(m)
         \/ UNCHANGED vars
<1> USE DEF LedgerInv
<1> DEFINE Moves(t) == \/ \E v : GoesOn(t, v) /\ requests' \in 0 .. MaxRequests
                       \/ \E v, row : RecordsRow(t, v, row)
                       \/ \E v, line : Posts(t, v, line)
                       \/ Commit(t)
                       \/ Fail(t)
<1>1. ASSUME NEW t \in Tx,
             \/ \E m \in Member, a \in Grants : Grant(t, m, a)
             \/ \E m \in Member, a \in Adjustments : Adjust(t, m, a)
             \/ \E l \in lines : Refund(t, l)
             \/ \E m \in Member : PutMembership(t, m)
             \/ \E b \in Seq(Item) : Record(t, b)
      PROVE  Moves(t)
  BY <1>1, Requested
<1>2. ASSUME NEW t \in Tx, Step(t) PROVE Moves(t)
  <2>1. requests \in 0 .. MaxRequests
    BY DEF Tables
  <2>2. CASE CheckOpening(t) \/ Recorded(t) \/ NotCharged(t) \/ (RecordItem(t) /\ nextId' = nextId)
    BY <2>1, <2>2, GoingOn
  <2>3. CASE RecordItem(t) /\ nextId' # nextId
    BY <2>3, Recording
  <2>4. CASE Move(t)
    BY <2>4, Moving
  <2> QED BY <1>2, <2>2, <2>3, <2>4 DEF Step
<1>3. Batches \subseteq Seq(Item)
  BY LedgerAssumption
<1> QED BY <1>1, <1>2, <1>3 DEF Steps, Next

\* What the steps leave alone of what transactions have written.
LEMMA SameWritten ==
  ASSUME LedgerInv, UNCHANGED <<lines, balance, usages, nextId>>,
         \A s \in Tx : tx'[s].posted = tx[s].posted /\ tx'[s].rows = tx[s].rows
  PROVE  Numbered' /\ Chained'
<1>1. Numbered'
  BY DEF LedgerInv, Numbered, Written, Booked
<1>2. /\ \A s \in Tx, m \in Member : Own(s, m)' = Own(s, m) /\ Seen(s, m)' = Seen(s, m)
      /\ \A m \in Member : LinesOf(lines', m) = LinesOf(lines, m)
  BY DEF Own, Seen, LinesOf
<1>3. Chained'
  BY <1>2 DEF LedgerInv, Chained
<1> QED BY <1>1, <1>3

\* The invariant after a step that writes nothing,
LEMMA AfterGoingOn ==
  ASSUME LedgerInv, NEW t \in Tx, NEW v, GoesOn(t, v), requests' \in 0 .. MaxRequests
  PROVE  LedgerInv'
<1>1. /\ tx \in [Tx -> TxState] /\ v \in TxState /\ tx' = [tx EXCEPT ![t] = v] /\ v.at # "idle"
            /\ Sound(v, lines)
      /\ v.posted = tx[t].posted /\ v.rows = tx[t].rows
      /\ UNCHANGED <<lines, balance, usages, active, lock, nextId>>
  BY DEF LedgerInv, Tables, GoesOn
<1>2. tx' \in [Tx -> TxState] /\ \A s \in Tx : tx'[s] = IF s = t THEN v ELSE tx[s]
  BY <1>1
<1>3. \A s \in Tx : tx'[s].posted = tx[s].posted /\ tx'[s].rows = tx[s].rows
  BY <1>1, <1>2
<1>4. Numbered' /\ Chained'
  BY <1>1, <1>3, SameWritten
<1>5. Tables'
  <2>1. \A s \in Tx, m \in Member : Own(s, m)' = Own(s, m)
    BY <1>3 DEF Own, LinesOf
  <2> QED BY <1>1, <1>2, <1>3, <2>1 DEF LedgerInv, Tables
<1>6. Referring'
  BY <1>1, <1>2 DEF LedgerInv, Referring
<1> QED BY <1>4, <1>5, <1>6 DEF LedgerInv

\* after a row is recorded,
LEMMA AfterRecording ==
  ASSUME LedgerInv, NEW t \in Tx, NEW v, NEW row, RecordsRow(t, v, row)
  PROVE  LedgerInv'
<1>1. /\ tx \in [Tx -> TxState] /\ v \in TxState /\ tx' = [tx EXCEPT ![t] = v] /\ v.at # "idle"
            /\ Sound(v, lines)
      /\ v.posted = tx[t].posted /\ v.rows = tx[t].rows \cup {row} /\ row \in Row /\ row.id = nextId
      /\ UNCHANGED <<lines, balance, usages, active, lock, requests>> /\ nextId' = nextId + 1
            /\ nextId \in Nat \ {0}
  BY DEF LedgerInv, Tables, RecordsRow
<1>2. tx' \in [Tx -> TxState] /\ \A s \in Tx : tx'[s] = IF s = t THEN v ELSE tx[s]
  BY <1>1
<1>3. \A s \in Tx : tx'[s].posted = tx[s].posted
  BY <1>1, <1>2
<1>4. \A s \in Tx : Written(s)' = IF s = t THEN Written(s) \cup {row} ELSE Written(s)
  BY <1>1, <1>2 DEF Written
<1>5. Numbered'
  <2>1. /\ \A x \in Booked : x.id \in Nat /\ x.id < nextId
        /\ \A s \in Tx : \A x \in Written(s) : x.id \in Nat /\ x.id < nextId
    <3>1. \A x \in Booked : x.id \in Nat
      BY DEF LedgerInv, Tables, Booked, Line, Row
    <3>2. \A s \in Tx : \A x \in Written(s) : x.id \in Nat
      BY DEF LedgerInv, Tables, TxState, Written, Line, Row
    <3> QED BY <3>1, <3>2 DEF LedgerInv, Numbered
  <2>2. Booked' = Booked
    BY <1>1 DEF Booked
  <2> QED BY <1>1, <1>4, <2>1, <2>2 DEF LedgerInv, Numbered
<1>6. Chained'
  <2>1. /\ \A s \in Tx, m \in Member : Own(s, m)' = Own(s, m) /\ Seen(s, m)' = Seen(s, m)
        /\ \A m \in Member : LinesOf(lines', m) = LinesOf(lines, m)
    BY <1>1, <1>3 DEF Own, Seen, LinesOf
  <2> QED BY <1>1, <2>1 DEF LedgerInv, Chained
<1>7. Tables'
  <2>1. \A s \in Tx, m \in Member : Own(s, m)' = Own(s, m)
    BY <1>3 DEF Own, LinesOf
  <2>2. nextId' \in Nat \ {0}
    BY <1>1
  <2> QED BY <1>1, <1>2, <1>3, <2>1, <2>2 DEF LedgerInv, Tables
<1>8. Referring'
  BY <1>1, <1>2 DEF LedgerInv, Referring
<1> QED BY <1>5, <1>6, <1>7, <1>8 DEF LedgerInv

\* after a line is posted,
LEMMA AfterPosting ==
  ASSUME LedgerInv, NEW t \in Tx, NEW v, NEW line, Posts(t, v, line)
  PROVE  LedgerInv'
<1> DEFINE m0 == line.member
<1>1. /\ tx \in [Tx -> TxState] /\ v \in TxState /\ tx' = [tx EXCEPT ![t] = v] /\ v.at = "paying"
            /\ Sound(v, lines)
      /\ v.posted = tx[t].posted \cup {line} /\ v.rows = tx[t].rows /\ line \in Line
            /\ line.id = nextId
      /\ UNCHANGED <<lines, balance, usages, active, requests>> /\ nextId' = nextId + 1
            /\ nextId \in Nat \ {0}
      /\ lock \in [Member -> Tx \cup {Nobody}] /\ lock[m0] \in {Nobody, t}
            /\ lock' = [lock EXCEPT ![m0] = t]
      /\ line.after = BalanceSeen(t, m0) + line.amount
  BY DEF LedgerInv, Tables, Posts
<1>2. tx' \in [Tx -> TxState] /\ \A s \in Tx : tx'[s] = IF s = t THEN v ELSE tx[s]
  BY <1>1
<1>3. m0 \in Member /\ line.amount \in Int /\ line.after \in Int
  BY <1>1 DEF Line
<1>4. \A s \in Tx : Written(s)' = IF s = t THEN Written(s) \cup {line} ELSE Written(s)
  BY <1>1, <1>2 DEF Written
<1>5. /\ \A x \in Booked : x.id \in Nat /\ x.id < nextId
      /\ \A s \in Tx : \A x \in Written(s) : x.id \in Nat /\ x.id < nextId
  <2>1. \A x \in Booked : x.id \in Nat
    BY DEF LedgerInv, Tables, Booked, Line, Row
  <2>2. \A s \in Tx : \A x \in Written(s) : x.id \in Nat
    BY DEF LedgerInv, Tables, TxState, Written, Line, Row
  <2> QED BY <2>1, <2>2 DEF LedgerInv, Numbered
<1>6. Numbered'
  <2>1. Booked' = Booked
    BY <1>1 DEF Booked
  <2> QED BY <1>1, <1>4, <1>5, <2>1 DEF LedgerInv, Numbered
<1>7. \A s \in Tx, m \in Member :
        /\ Own(s, m)' = IF s = t /\ m = m0 THEN Own(s, m) \cup {line} ELSE Own(s, m)
        /\ Seen(s, m)' = IF s = t /\ m = m0 THEN Seen(s, m) \cup {line} ELSE Seen(s, m)
  <2>1. \A s \in Tx : tx'[s].posted = IF s = t THEN tx[s].posted \cup {line} ELSE tx[s].posted
    BY <1>1, <1>2
  <2>2. \A s \in Tx, m \in Member : Own(s, m)' = IF s = t /\ m = m0 THEN Own(s, m) \cup {line}
           ELSE Own(s, m)
    BY <2>1 DEF Own, LinesOf
  <2>3. \A s \in Tx, m \in Member : Seen(s, m)' = IF s = t /\ m = m0 THEN Seen(s, m) \cup {line}
           ELSE Seen(s, m)
    BY <1>1, <2>1 DEF Seen, LinesOf
  <2> QED BY <2>2, <2>3
<1>8. Chained'
  <2>1. \A m \in Member : LinesOf(lines', m) = LinesOf(lines, m)
    BY <1>1
  <2>2. ASSUME NEW s \in Tx, NEW m \in Member, Own(s, m)' # {}
        PROVE  /\ \A k \in LinesOf(lines, m), l \in Own(s, m)' : k.id < l.id
               /\ Follows(Seen(s, m)') /\ \E b \in Int : EndIn(Seen(s, m)', b)
    <3>1. CASE s = t /\ m = m0
      <4>1. /\ Numbers(Seen(t, m0)) /\ Distinct(Seen(t, m0)) /\ Amounts(Seen(t, m0))
                  /\ Follows(Seen(t, m0))
            /\ EndIn(Seen(t, m0), BalanceSeen(t, m0)) /\ BalanceSeen(t, m0) \in Int
        BY <1>3, SeenInOrder DEF LedgerInv
      <4>2. \A k \in Seen(t, m0) : k.id < line.id
        BY <1>1, <1>5 DEF Seen, LinesOf, Booked, Written
      <4>3. Follows(Seen(t, m0) \cup {line}) /\ EndIn(Seen(t, m0) \cup {line}, line.after)
        BY <1>1, <1>3, <4>1, <4>2, OneMore
      <4>4. \A k \in LinesOf(lines, m), l \in Own(t, m) : k.id < l.id
        BY <3>1 DEF LedgerInv, Chained
      <4>5. \A k \in LinesOf(lines, m) : k.id < line.id
        BY <1>1, <1>5 DEF LinesOf, Booked
      <4> QED BY ZenonT(40), <1>3, <1>7, <3>1, <4>3, <4>4, <4>5
    <3>2. CASE ~(s = t /\ m = m0)
      BY <1>7, <2>2, <3>2 DEF LedgerInv, Chained
    <3> QED BY <3>1, <3>2
  <2> QED BY <1>1, <2>1, <2>2 DEF LedgerInv, Chained
<1>9. Tables'
  <2>1. lock' \in [Member -> Tx \cup {Nobody}] /\ \A m \in Member : lock'[m] = IF m = m0 THEN t
           ELSE lock[m]
    BY <1>1, <1>3
  <2>2. ASSUME NEW s \in Tx, NEW m \in Member PROVE lock'[m] = s <=> Own(s, m)' # {}
    <3>1. lock[m] = s <=> Own(s, m) # {}
      BY DEF LedgerInv, Tables
    <3>2. CASE m = m0 /\ s = t
      BY <1>7, <2>1, <3>2
    <3>4. CASE m = m0 /\ s # t
      <4>1. lock[m] # s
        BY <1>1, <3>4
      <4>2. Own(s, m)' = Own(s, m)
        BY <1>7, <3>4
      <4> QED BY <2>1, <3>1, <3>4, <4>1, <4>2
    <3>3. CASE m # m0
      BY <1>7, <2>1, <3>1, <3>3
    <3> QED BY <3>2, <3>3, <3>4
  <2>3. \A s \in Tx : IsFiniteSet(tx'[s].posted) /\ (tx'[s].at = "idle" => tx'[s] = IdleTx)
    <3>1. IsFiniteSet(v.posted)
      <4>1. IsFiniteSet(tx[t].posted)
        BY DEF LedgerInv, Tables
      <4>2. IsFiniteSet(tx[t].posted \cup {line})
        BY <4>1, FS_AddElement
      <4> QED BY <1>1, <4>2
    <3> QED BY <1>1, <1>2, <3>1 DEF LedgerInv, Tables
  <2>4. nextId' \in Nat \ {0}
    BY <1>1
  <2> QED BY <1>1, <1>2, <2>1, <2>2, <2>3, <2>4 DEF LedgerInv, Tables
<1>10. Referring'
  BY <1>1, <1>2 DEF LedgerInv, Referring
<1> QED BY <1>6, <1>8, <1>9, <1>10 DEF LedgerInv

\* Two transactions refer to different usages and different charges.
LEMMA RefsApart ==
  ASSUME LedgerInv, NEW s \in Tx, NEW t \in Tx, s # t, NEW l \in tx[s].posted,
            NEW k \in tx[t].posted, l.ref # NoRef
  PROVE  l.ref # k.ref
<1> SUFFICES ASSUME l.ref = k.ref PROVE FALSE
  OBVIOUS
<1>1. Refers(l, tx[s].rows, lines) /\ Refers(k, tx[t].rows, lines)
  BY DEF LedgerInv, Referring, Sound
<1>2. l.member \in Member /\ k.member \in Member
  BY DEF LedgerInv, Tables, TxState, Line
<1>3. \A p \in tx[s].rows, q \in tx[t].rows : p.id # q.id
  BY DEF LedgerInv, Numbered, Written
<1>4. /\ \A c \in lines : \A p \in tx[s].rows \cup tx[t].rows : p.id # c.id
      /\ \A c, d \in lines : c.id = d.id => c = d
  BY DEF LedgerInv, Numbered, Written, Booked
<1>5. CASE l.kind = "charge"
  BY <1>1, <1>3, <1>4, <1>5 DEF Refers, Matches, Returns
<1>6. CASE k.kind = "charge"
  BY <1>1, <1>3, <1>4, <1>6 DEF Refers, Matches, Returns
<1>7. CASE l.kind = "refund" /\ k.kind = "refund"
  <2>1. l.member = k.member
    BY <1>1, <1>4, <1>7 DEF Refers, Returns
  <2>2. Own(s, l.member) # {} /\ Own(t, l.member) # {}
    BY <2>1 DEF Own, LinesOf
  <2>3. lock[l.member] = s /\ lock[l.member] = t
    BY <1>2, <2>2 DEF LedgerInv, Tables
  <2> QED BY <2>3
<1> QED BY <1>1, <1>5, <1>6, <1>7 DEF Refers

\* References stay good when rows and lines are added.
LEMMA RefersStill ==
  ASSUME NEW e, NEW rows, NEW ls, Refers(e, rows, ls), NEW rows2, rows \subseteq rows2, NEW ls2,
            ls \subseteq ls2
  PROVE  Refers(e, rows2, ls2)
BY DEF Refers, Matches, Returns

\* What becomes of the transactions when t ends.
LEMMA Ending ==
  ASSUME Tables, NEW t \in Tx, tx' = [tx EXCEPT ![t] = IdleTx], lock' = Unlocked(t)
  PROVE  /\ tx' \in [Tx -> TxState] /\ \A s \in Tx : tx'[s] = IF s = t THEN IdleTx ELSE tx[s]
         /\ \A s \in Tx : Written(s)' = IF s = t THEN {} ELSE Written(s)
         /\ \A s \in Tx, m \in Member : Own(s, m)' = IF s = t THEN {} ELSE Own(s, m)
         /\ lock' \in [Member -> Tx \cup {Nobody}]
         /\ \A s \in Tx : /\ IsFiniteSet(tx'[s].posted) /\ (tx'[s].at = "idle" => tx'[s] = IdleTx)
                          /\ \A m \in Member : lock'[m] = s <=> Own(s, m)' # {}
<1>1. tx' \in [Tx -> TxState] /\ \A s \in Tx : tx'[s] = IF s = t THEN IdleTx ELSE tx[s]
  BY IdleFits DEF Tables
<1>2. \A s \in Tx : Written(s)' = IF s = t THEN {} ELSE Written(s)
  BY <1>1, IdleFits DEF Written
<1>3. \A s \in Tx, m \in Member : Own(s, m)' = IF s = t THEN {} ELSE Own(s, m)
  BY <1>1, IdleFits DEF Own, LinesOf
<1>4. \A m \in Member : lock[m] \in Tx \cup {Nobody} /\ lock'[m] = IF lock[m] = t THEN Nobody
         ELSE lock[m]
  BY DEF Unlocked, Tables
<1>5. lock' \in [Member -> Tx \cup {Nobody}]
  BY <1>4 DEF Unlocked
<1>6. ASSUME NEW s \in Tx PROVE IsFiniteSet(tx'[s].posted) /\ (tx'[s].at = "idle" => tx'[s] = IdleTx)
  <2>1. IsFiniteSet(IdleTx.posted)
    BY IdleFits, FS_EmptySet
  <2> QED BY <1>1, <2>1 DEF Tables
<1>7. ASSUME NEW s \in Tx, NEW m \in Member PROVE lock'[m] = s <=> Own(s, m)' # {}
  <2>1. lock[m] = s <=> Own(s, m) # {}
    BY DEF Tables
  <2>2. CASE s = t
    <3>1. lock'[m] # t
      BY <1>4
    <3>2. Own(s, m)' = {}
      BY <1>3, <2>2
    <3> QED BY <2>2, <3>1, <3>2
  <2>3. CASE s # t
    <3>1. lock'[m] = s <=> lock[m] = s
      BY <1>4, <2>3
    <3>2. Own(s, m)' = Own(s, m)
      BY <1>3, <2>3
    <3> QED BY <2>1, <3>1, <3>2
  <2> QED BY <2>2, <2>3
<1> QED BY <1>1, <1>2, <1>3, <1>5, <1>6, <1>7

\* after a transaction is rolled back,
LEMMA AfterFailing ==
  ASSUME LedgerInv, NEW t \in Tx, Fail(t)
  PROVE  LedgerInv'
<1>1. /\ tx' = [tx EXCEPT ![t] = IdleTx] /\ lock' = Unlocked(t) /\ Tables
      /\ UNCHANGED <<lines, balance, usages, active, nextId, requests>>
  BY DEF Fail, LedgerInv
<1>2. /\ tx' \in [Tx -> TxState] /\ \A s \in Tx : tx'[s] = IF s = t THEN IdleTx ELSE tx[s]
      /\ \A s \in Tx : Written(s)' = IF s = t THEN {} ELSE Written(s)
      /\ \A s \in Tx, m \in Member : Own(s, m)' = IF s = t THEN {} ELSE Own(s, m)
      /\ lock' \in [Member -> Tx \cup {Nobody}]
      /\ \A s \in Tx : /\ IsFiniteSet(tx'[s].posted) /\ (tx'[s].at = "idle" => tx'[s] = IdleTx)
                       /\ \A m \in Member : lock'[m] = s <=> Own(s, m)' # {}
  BY <1>1, Ending
<1>3. Tables'
  BY <1>1, <1>2 DEF Tables
<1>4. Numbered'
  <2>1. Booked' = Booked
    BY <1>1 DEF Booked
  <2> QED BY <1>1, <1>2, <2>1 DEF LedgerInv, Numbered
<1>5. Chained'
  <2>1. \A s \in Tx, m \in Member : Own(s, m)' # {} => Own(s, m)' = Own(s, m)
           /\ Seen(s, m)' = Seen(s, m)
    BY <1>1, <1>2 DEF Seen
  <2>2. \A m \in Member : LinesOf(lines', m) = LinesOf(lines, m)
    BY <1>1
  <2> QED BY <1>1, <2>1, <2>2 DEF LedgerInv, Chained
<1>6. Referring'
  <2>1. Sound(IdleTx, lines)
    BY IdleFits, Started
  <2> QED BY <1>1, <1>2, <2>1 DEF LedgerInv, Referring
<1> QED BY <1>3, <1>4, <1>5, <1>6 DEF LedgerInv

\* after one commits: other transactions with lines of the same member would hold its lock,
LEMMA AfterCommit ==
  ASSUME LedgerInv, NEW t \in Tx, Commit(t)
  PROVE  LedgerInv'
<1> DEFINE w == tx[t]
<1>1. /\ tx' = [tx EXCEPT ![t] = IdleTx] /\ lock' = Unlocked(t) /\ Tables /\ w \in TxState
      /\ lines' = lines \cup w.posted /\ usages' = usages \cup w.rows
      /\ balance' = [m \in Member |-> BalanceSeen(t, m)]
      /\ UNCHANGED <<nextId, requests>>
  BY DEF Commit, LedgerInv, Tables
<1>2. /\ tx' \in [Tx -> TxState] /\ \A s \in Tx : tx'[s] = IF s = t THEN IdleTx ELSE tx[s]
      /\ \A s \in Tx : Written(s)' = IF s = t THEN {} ELSE Written(s)
      /\ \A s \in Tx, m \in Member : Own(s, m)' = IF s = t THEN {} ELSE Own(s, m)
      /\ lock' \in [Member -> Tx \cup {Nobody}]
      /\ \A s \in Tx : /\ IsFiniteSet(tx'[s].posted) /\ (tx'[s].at = "idle" => tx'[s] = IdleTx)
                       /\ \A m \in Member : lock'[m] = s <=> Own(s, m)' # {}
  BY <1>1, Ending
<1>3. \A m \in Member : LinesOf(lines', m) = Seen(t, m)
  BY <1>1 DEF Seen
<1>4. ASSUME NEW s \in Tx, NEW m \in Member, Own(s, m)' # {}
      PROVE  /\ s # t /\ Own(s, m)' = Own(s, m) /\ LinesOf(lines', m) = LinesOf(lines, m)
             /\ Seen(s, m)' = Seen(s, m)
  <2>1. s # t /\ Own(s, m)' = Own(s, m)
    BY <1>2, <1>4
  <2>2. Own(t, m) = {}
    BY <1>1, <1>4, <2>1 DEF Tables
  <2>3. LinesOf(lines', m) = LinesOf(lines, m)
    BY <1>1, <2>2 DEF Own, LinesOf
  <2>4. /\ Seen(s, m) = LinesOf(lines, m) \cup Own(s, m)
        /\ Seen(s, m)' = LinesOf(lines', m) \cup Own(s, m)'
    BY DEF Seen, Own, LinesOf
  <2> QED BY <2>1, <2>3, <2>4
<1>5. Tables'
  <2>1. lines' \in SUBSET Line /\ IsFiniteSet(lines') /\ usages' \in SUBSET Row
    <3>1. IsFiniteSet(lines) /\ IsFiniteSet(w.posted)
      BY <1>1 DEF Tables
    <3>2. IsFiniteSet(lines \cup w.posted)
      BY <3>1, FS_Union
    <3> QED BY <1>1, <3>2 DEF Tables, TxState
  <2>2. balance' \in [Member -> Int]
    <3>1. \A m \in Member : BalanceSeen(t, m) \in Int
      BY SeenInOrder DEF LedgerInv
    <3> QED BY <1>1, <3>1
  <2>3. active' \in [Member -> Nat]
    BY <1>1 DEF Commit, Tables
  <2> QED BY <1>1, <1>2, <2>1, <2>2, <2>3 DEF Tables
<1>6. Numbered'
  <2>1. Booked' = Booked \cup Written(t)
    BY <1>1 DEF Booked, Written
  <2> QED BY <1>1, <1>2, <2>1 DEF LedgerInv, Numbered
<1>7. Chained'
  <2>1. ASSUME NEW m \in Member PROVE Follows(LinesOf(lines', m))
                  /\ EndIn(LinesOf(lines', m), balance'[m])
    <3>1. Follows(Seen(t, m)) /\ EndIn(Seen(t, m), BalanceSeen(t, m))
      BY SeenInOrder DEF LedgerInv
    <3> QED BY <1>1, <1>3, <3>1
  <2> QED BY <1>4, <2>1 DEF LedgerInv, Chained
<1>8. Referring'
  <2>1. Sound(w, lines) /\ RefsFree(lines)
    BY DEF LedgerInv, Referring
  <2>2. \A l \in lines' : Refers(l, usages', lines')
    <3>1. ASSUME NEW l \in lines PROVE Refers(l, usages', lines')
      <4>1. Refers(l, usages, lines)
        BY DEF LedgerInv, Referring
      <4> QED BY <1>1, <4>1, RefersStill
    <3>2. ASSUME NEW l \in w.posted PROVE Refers(l, usages', lines')
      <4>1. Refers(l, w.rows, lines)
        BY <2>1 DEF Sound
      <4> QED BY <1>1, <4>1, RefersStill
    <3> QED BY <1>1, <3>1, <3>2
  <2>3. RefsFree(lines')
    BY <1>1, <2>1 DEF Sound, RefsFree
  <2>4. ASSUME NEW s \in Tx PROVE Sound(tx'[s], lines')
    <3>1. CASE s = t
      BY <1>2, <3>1, IdleFits, Started
    <3>2. CASE s # t
      <4>1. tx'[s] = tx[s] /\ Sound(tx[s], lines)
        BY <1>2, <3>2 DEF LedgerInv, Referring
      <4>2. \A l \in tx[s].posted, k \in lines' : l.ref # NoRef => l.ref # k.ref
        BY <1>1, <3>2, <4>1, RefsApart DEF Sound
      <4>3. /\ \A l \in tx[s].posted : Refers(l, tx[s].rows, lines')
            /\ \A i \in DOMAIN tx[s].owed : Refers(tx[s].owed[i], tx[s].rows, lines')
        BY <1>1, <4>1, RefersStill DEF Sound
      <4> QED BY <4>1, <4>2, <4>3 DEF Sound
    <3> QED BY <3>1, <3>2
  <2> QED BY <2>2, <2>3, <2>4 DEF Referring
<1> QED BY <1>5, <1>6, <1>7, <1>8 DEF LedgerInv

\* and after a membership is cancelled.
LEMMA AfterCancel ==
  ASSUME LedgerInv, NEW m \in Member, CancelMembership(m)
  PROVE  LedgerInv'
<1>1. /\ active' = [active EXCEPT ![m] = @ - 1] /\ active[m] > 0 /\ requests < MaxRequests
            /\ requests' = requests + 1
      /\ UNCHANGED <<lines, balance, usages, lock, tx, nextId>>
  BY DEF CancelMembership
<1>2. Numbered' /\ Chained'
  BY <1>1, SameWritten
<1>3. Tables'
  <2>1. active' \in [Member -> Nat] /\ requests' \in 0 .. MaxRequests
    BY <1>1 DEF LedgerInv, Tables
  <2>2. \A s \in Tx, n \in Member : Own(s, n)' = Own(s, n)
    BY <1>1 DEF Own
  <2> QED BY <1>1, <2>1, <2>2 DEF LedgerInv, Tables
<1>4. Referring'
  BY <1>1 DEF LedgerInv, Referring
<1> QED BY <1>2, <1>3, <1>4 DEF LedgerInv

\* Empty tables satisfy it.
LEMMA InitHolds ==
  ASSUME NEW memberships \in [Member -> Nat], Fresh(memberships)
  PROVE  LedgerInv
<1>1. /\ lines = {} /\ balance = [m \in Member |-> 0] /\ usages = {} /\ active = memberships
      /\ lock = [m \in Member |-> Nobody] /\ tx = [t \in Tx |-> IdleTx] /\ nextId = 1 /\ requests = 0
  BY DEF Fresh
<1>2. \A t \in Tx : tx[t] = IdleTx /\ Written(t) = {} /\ \A m \in Member : Own(t, m) = {}
  BY <1>1, IdleFits DEF Written, Own, LinesOf
<1>3. Tables
  <2>1. IsFiniteSet(lines) /\ IsFiniteSet(IdleTx.posted)
    BY <1>1, IdleFits, FS_EmptySet
  <2>2. tx \in [Tx -> TxState]
    BY <1>1, IdleFits
  <2> QED BY <1>1, <1>2, <2>1, <2>2 DEF Tables
<1>4. Numbered
  BY <1>1, <1>2 DEF Numbered, Booked
<1>5. Chained
  <2>1. \A m \in Member : LinesOf(lines, m) = {}
    BY <1>1 DEF LinesOf
  <2>2. SumOf({}) = 0
    BY SumAdds, FS_EmptySet DEF Amounts
  <2>3. Follows({}) /\ EndIn({}, 0)
    BY <2>2 DEF Follows, EndIn
  <2> QED BY <1>1, <1>2, <2>1, <2>3 DEF Chained
<1>6. Referring
  <2>1. Sound(IdleTx, lines)
    BY IdleFits, Started
  <2> QED BY <1>1, <1>2, <2>1 DEF Referring, RefsFree
<1> QED BY <1>3, <1>4, <1>5, <1>6 DEF LedgerInv

\* Every step keeps the invariant.
LEMMA LedgerKept == ASSUME LedgerInv, [Steps]_vars PROVE LedgerInv'
<1>1. CASE UNCHANGED vars
  <2>1. UNCHANGED <<lines, balance, usages, active, lock, tx, nextId, requests>>
    BY <1>1 DEF vars
  <2>2. Numbered' /\ Chained'
    BY <2>1, SameWritten
  <2>3. \A s \in Tx, m \in Member : Own(s, m)' = Own(s, m)
    BY <2>1 DEF Own
  <2>4. Tables'
    BY <2>1, <2>3 DEF LedgerInv, Tables
  <2>5. Referring'
    BY <2>1 DEF LedgerInv, Referring
  <2> QED BY <2>2, <2>4, <2>5 DEF LedgerInv
<1> QED BY <1>1, Kinds, AfterGoingOn, AfterRecording, AfterPosting, AfterCommit, AfterFailing,
              AfterCancel

\* The invariant holds throughout.
LEMMA LedgerHolds == Spec => []LedgerInv
<1>1. Init => LedgerInv
  BY InitHolds DEF Init
<1>2. LedgerInv /\ [Next]_vars => LedgerInv'
  BY LedgerKept DEF Steps
<1> QED BY <1>1, <1>2, PTL DEF Spec

\* What the invariant says of the tables.
LEMMA InOrder == LedgerInv => LedgerTypeOK /\ StatementAddsUp /\ ChargesMatchUsage
<1> SUFFICES ASSUME LedgerInv PROVE LedgerTypeOK /\ StatementAddsUp /\ ChargesMatchUsage
  OBVIOUS
<1>1. LedgerTypeOK
  <2>1. ASSUME NEW t \in Tx
        PROVE  /\ tx[t].at \in {"idle", "opening", "recording", "paying"}
               /\ tx[t].posted \subseteq Line
               /\ \A m \in Member : lock[m] = t <=> LinesOf(tx[t].posted, m) # {}
    BY DEF LedgerInv, Tables, TxState, Own
  <2> QED BY <2>1 DEF LedgerInv, Tables, LedgerTypeOK
<1>2. ASSUME NEW m \in Member
      PROVE  LET own == LinesOf(lines, m)
             IN balance[m] = SumOf(own) /\ (own # {} => balance[m] = LastLine(own).after)
  <2> DEFINE own == LinesOf(lines, m)
  <2>1. EndIn(own, balance[m])
    BY DEF LedgerInv, Chained
  <2>2. own \subseteq lines /\ lines \subseteq Line /\ IsFiniteSet(lines)
    BY DEF LedgerInv, Tables, LinesOf
  <2>3. Numbers(own) /\ Distinct(own)
    <3>1. IsFiniteSet(own)
      BY <2>2, FS_Subset
    <3> QED BY <2>2, <3>1 DEF Numbers, Distinct, Line, LedgerInv, Numbered, Booked
  <2> HIDE DEF own
  <2>4. own # {} => balance[m] = LastLine(own).after
    BY <2>1, <2>3, LastIs DEF EndIn
  <2> QED BY <2>1, <2>4 DEF EndIn, own
<1>3. ChargesMatchUsage
  BY DEF LedgerInv, Referring, Refers, Matches, ChargesMatchUsage
<1> QED BY <1>1, <1>2, <1>3 DEF StatementAddsUp

\* Type correctness of the tables and transactions, and locks held exactly by those that
\* have moved the row.
THEOREM LedgerTyped == Spec => []LedgerTypeOK
BY InOrder, LedgerHolds, PTL

\* Reconciling never finds a difference (reconcile, credit.py:160): whatever ran at once or
\* failed, a balance is the sum of its lines and what the last of them shows.
THEOREM StatementsAddUp == Spec => []StatementAddsUp
BY InOrder, LedgerHolds, PTL

\* No charge without the usage it is for, of its member and its cost: row and line are
\* committed together (usage.py:515).
THEOREM ChargesAreForUsages == Spec => []ChargesMatchUsage
BY InOrder, LedgerHolds, PTL

\* Lines are added by commits only.
LEMMA OnlyCommitsPost ==
  ASSUME LedgerInv, [Steps]_vars
  PROVE  lines' = lines \/ \E t \in Tx : Commit(t)
BY Kinds DEF GoesOn, RecordsRow, Posts, Fail, CancelMembership, vars

\* A commit adds lines after those there were, which carry the balance on and refer to
\* nothing twice.
LEMMA CommitPosts ==
  ASSUME LedgerInv, LedgerInv', NEW t \in Tx, Commit(t), NEW m \in Member
  PROVE  LET S == LinesOf(lines, m)
             T == LinesOf(lines', m)
         IN /\ Numbers(T) /\ Distinct(T) /\ Amounts(T) /\ Follows(T) /\ RefsFree(T)
            /\ S \in SUBSET T /\ \A k \in S : \A l \in T \ S : k.id < l.id
<1> DEFINE S == LinesOf(lines, m)
           T == LinesOf(lines', m)
<1>1. T = S \cup Own(t, m)
  BY DEF Commit, Own, LinesOf
<1>2. T = Seen(t, m)
  BY DEF Commit, Seen
<1>3. Numbers(T) /\ Distinct(T) /\ Amounts(T) /\ Follows(T)
  BY <1>2, SeenInOrder DEF LedgerInv
<1>4. RefsFree(T)
  BY DEF LedgerInv, Referring, RefsFree, LinesOf
<1>5. \A k \in S : \A l \in T \ S : k.id < l.id
  BY <1>1 DEF LedgerInv, Chained
<1> QED BY <1>1, <1>3, <1>4, <1>5

\* Nothing billed yet is an empty wallet.
LEMMA WalletOpens ==
  ASSUME NEW memberships, Fresh(memberships)
  PROVE  Promise!Init
<1>1. \A m \in Member : LinesOf(lines, m) = {}
  BY DEF Fresh, LinesOf
<1>2. Listed({}) = <<>>
  <2>1. Cardinality({}) = 0
    BY FS_EmptySet
  <2> QED BY <2>1 DEF Listed
<1> QED BY <1>1, <1>2 DEF Statement, Promise!Init

\* Every step of the ledger is one of the wallet, or changes no statement.
LEMMA WalletGoesOn ==
  ASSUME LedgerInv, LedgerInv', [Steps]_vars
  PROVE  [Promise!Post]_[m \in Member |-> Statement(m)]
<1> DEFINE st == [m \in Member |-> Statement(m)]
<1>1. CASE lines' = lines
  <2>1. \A m \in Member : Statement(m)' = Statement(m)
    BY <1>1 DEF Statement
  <2> QED BY <2>1
<1>2. ASSUME NEW t \in Tx, Commit(t) PROVE Promise!Post
  <2>1. ASSUME NEW m \in Member
        PROVE  /\ Len(Statement(m)) <= Len(Statement(m)')
               /\ Statement(m) = SubSeq(Statement(m)', 1, Len(Statement(m)))
               /\ Promise!FollowsOn(Statement(m)') /\ Promise!RefsOnce(Statement(m)')
    <3> DEFINE S == LinesOf(lines, m)
               T == LinesOf(lines', m)
    <3>1. /\ Numbers(T) /\ Distinct(T) /\ Amounts(T) /\ Follows(T) /\ RefsFree(T)
          /\ S \in SUBSET T /\ \A k \in S : \A l \in T \ S : k.id < l.id
      BY <1>2, CommitPosts
    <3>2. Statement(m) = Listed(S) /\ Statement(m)' = Listed(T)
      BY DEF Statement
    <3> HIDE DEF S, T
    <3> QED BY <3>1, <3>2, ListedGrows, ListedFollows, ListedRefs
  <2>2. \A m \in Member : st[m] = Statement(m) /\ st'[m] = Statement(m)'
    OBVIOUS
  <2> QED BY <2>1, <2>2 DEF Promise!Post
<1>3. lines' = lines \/ \E t \in Tx : Commit(t)
  BY OnlyCommitsPost
<1> QED BY <1>1, <1>2, <1>3

\* The tables implement the wallet: statements only grow at their end, every line carries
\* the balance after it, and no usage is charged and no charge refunded twice
\* (docs/adr/0006).
THEOREM WalletKept == Spec => WalletSpec
<1>1. Init => Promise!Init
  BY WalletOpens DEF Init
<1>2. LedgerInv /\ LedgerInv' /\ [Next]_vars => [Promise!Post]_[m \in Member |-> Statement(m)]
  BY WalletGoesOn DEF Steps
<1> QED BY <1>1, <1>2, LedgerHolds, PTL DEF Spec, WalletSpec, Promise!Spec

-----------------------------------------------------------------------------
(* The data plane that reports usage *)


FlushState == [at : {"idle", "due", "posting", "waiting"}, batch : Seq(Turns),
               tries : 0 .. usageMaxRetries, by : Tx \cup {Nobody}]

\* What a flush of the turns known so far may be.
FlushFits(w) ==
  /\ w.at \in {"posting", "waiting"} <=> w.batch # <<>>
  /\ w.at = "waiting" <=> w.by # Nobody
  /\ w.at = "waiting" => w.tries < usageMaxRetries

\* The proxy's own state: turns are numbered as they end, a flush has a batch while it
\* posts or waits, and a post it waits for was not its last.
Proxy ==
  /\ ended \in Nat /\ ended <= Len(BilledTo)
  /\ usageBuf \in Seq(Turns) /\ flush \in [Flusher -> FlushState] /\ resting \in BOOLEAN
  /\ \A n \in Range(usageBuf) : n <= ended
  /\ \A f \in Flusher : FlushFits(flush[f]) /\ \A n \in Range(flush[f].batch) : n <= ended

\* No turn is in two places of the buffer and the batches.
Separate ==
  /\ IsInjective(usageBuf)
  /\ \A f \in Flusher : /\ IsInjective(flush[f].batch)
                        /\ Range(usageBuf) \cap Range(flush[f].batch) = {}
  /\ \A f, g \in Flusher : f # g => Range(flush[f].batch) \cap Range(flush[g].batch) = {}

\* Transaction w has still to record, or has recorded, every turn of a batch.
Carries(w, batch) ==
  /\ w.at \in {"recording", "paying"} /\ (w.at = "paying" => w.todo = <<>>)
  /\ \A i \in DOMAIN w.todo : w.todo[i].request = NoRequest
  /\ \A n \in Range(batch) : \/ \E i \in DOMAIN w.todo : w.todo[i] = UsageItem(n)
                             \/ \E r \in w.rows : r.item = UsageItem(n)
                             \/ BilledTo[n].payer \in Gone

\* The transaction a flush waits for carries its batch, and no other waits for it.
Carried ==
  \A f \in Flusher, t \in Tx : Waiting(f, t) =>
    /\ Carries(tx[t], flush[f].batch)
    /\ \A g \in Flusher : Waiting(g, t) => f = g

\* Every turn that has ended is somewhere.
Accounted ==
  \A n \in 1 .. ended : n \in Range(usageBuf) \/ InFlight(n) \/ n \in dropped \/ Settled(n)

ReportInv == LedgerInv /\ Proxy /\ Separate /\ Carried /\ Accounted

\* Turns are numbered from one.
LEMMA TurnsAre == Turns = 1 .. Len(BilledTo) /\ Len(BilledTo) \in Nat
   /\ Cardinality(Turns) = Len(BilledTo)
<1>1. BilledTo \in Seq([payer : Payer, member : Member, cost : Nat])
  BY ReportAssumption
<1>2. Turns = 1 .. Len(BilledTo) /\ Len(BilledTo) \in Nat
  BY <1>1 DEF Turns
<1>3. Cardinality(1 .. Len(BilledTo)) = Len(BilledTo)
  <2> DEFINE k == Len(BilledTo)
  <2>1. Cardinality(1 .. k) = IF 1 > k THEN 0 ELSE k - 1 + 1
    BY <1>2, FS_Interval
  <2> HIDE DEF k
  <2>2. k \in Nat
    BY <1>2 DEF k
  <2> QED BY <2>1, <2>2 DEF k
<1> QED BY <1>2, <1>3

\* What is reported of a turn is an item without a request_id.
LEMMA ItemsFit ==
  ASSUME NEW n \in Turns
  PROVE  UsageItem(n) \in Item /\ UsageItem(n).turn = n /\ UsageItem(n).request = NoRequest
<1> DEFINE Bill == [payer : Payer, member : Member, cost : Nat]
<1>1. BilledTo \in Seq(Bill) /\ n \in 1 .. Len(BilledTo)
  BY ReportAssumption, TurnsAre
<1> HIDE DEF Bill
<1>2. BilledTo[n] \in Bill /\ n \in Nat
  BY <1>1
<1> USE DEF Bill
<1> QED BY <1>2 DEF UsageItem, Item

LEMMA EmptyRange == Range(<<>>) = {} /\ IsInjective(<<>>) /\ \A S : <<>> \in Seq(S)
BY DEF Range, IsInjective

LEMMA NoFlushFits == NoFlush \in FlushState /\ FlushFits(NoFlush) /\ NoFlush.batch = <<>>
BY ReportAssumption DEF NoFlush, FlushState, FlushFits

\* Appending adds one element.
LEMMA AppendIs ==
  ASSUME NEW S, NEW q \in Seq(S), NEW e \in S
  PROVE  /\ Append(q, e) \in Seq(S) /\ Range(Append(q, e)) = Range(q) \cup {e}
         /\ IsInjective(q) /\ e \notin Range(q) => IsInjective(Append(q, e))
<1> DEFINE a == Append(q, e)
<1>1. /\ a \in Seq(S) /\ Len(q) \in Nat /\ DOMAIN q = 1 .. Len(q) /\ DOMAIN a = 1 .. Len(q) + 1
      /\ \A i \in 1 .. Len(q) + 1 : a[i] = IF i = Len(q) + 1 THEN e ELSE q[i]
  OBVIOUS
<1> HIDE DEF a
<1>2. \A i \in 1 .. Len(q) + 1 : i = Len(q) + 1 \/ (i \in 1 .. Len(q) /\ i # Len(q) + 1)
  BY <1>1
<1>3. \A i \in 1 .. Len(q) : i \in 1 .. Len(q) + 1 /\ i # Len(q) + 1
  BY <1>1
<1>4. Len(q) + 1 \in 1 .. Len(q) + 1
  BY <1>1
<1>5. Range(a) = Range(q) \cup {e}
  BY <1>1, <1>2, <1>3, <1>4 DEF Range
<1>6. IsInjective(q) /\ e \notin Range(q) => IsInjective(a)
  BY <1>1, <1>2, <1>3 DEF Range, IsInjective
<1> QED BY <1>1, <1>5, <1>6 DEF a

\* Joining two sequences without a common element.
LEMMA JoinIs ==
  ASSUME NEW S, NEW p \in Seq(S), NEW q \in Seq(S)
  PROVE  /\ p \o q \in Seq(S) /\ Range(p \o q) = Range(p) \cup Range(q)
         /\ IsInjective(p) /\ IsInjective(q) /\ Range(p) \cap Range(q) = {} => IsInjective(p \o q)
<1> DEFINE j == p \o q
<1>1. /\ j \in Seq(S) /\ Len(p) \in Nat /\ DOMAIN p = 1 .. Len(p) /\ Len(q) \in Nat
            /\ DOMAIN q = 1 .. Len(q)
      /\ DOMAIN j = 1 .. Len(p) + Len(q)
      /\ \A i \in 1 .. Len(p) + Len(q) : j[i] = IF i <= Len(p) THEN p[i] ELSE q[i - Len(p)]
  OBVIOUS
<1> HIDE DEF j
<1>2. \A i \in DOMAIN p : i \in DOMAIN j /\ j[i] = p[i]
  BY <1>1
<1>3. \A i \in DOMAIN q : i + Len(p) \in DOMAIN j /\ j[i + Len(p)] = q[i]
  BY <1>1
<1>4. \A i \in DOMAIN j : \/ i \in DOMAIN p /\ j[i] = p[i]
                          \/ i - Len(p) \in DOMAIN q /\ j[i] = q[i - Len(p)]
  BY <1>1
<1>5. Range(j) = Range(p) \cup Range(q)
  <2>1. Range(j) \subseteq Range(p) \cup Range(q)
    BY <1>4 DEF Range
  <2>2. Range(p) \subseteq Range(j)
    BY <1>2 DEF Range
  <2>3. Range(q) \subseteq Range(j)
    BY <1>3 DEF Range
  <2> QED BY <2>1, <2>2, <2>3
<1>6. ASSUME IsInjective(p), IsInjective(q), Range(p) \cap Range(q) = {} PROVE IsInjective(j)
  <2> SUFFICES ASSUME NEW x \in DOMAIN j, NEW y \in DOMAIN j, j[x] = j[y] PROVE x = y
    BY DEF IsInjective
  <2>1. x \in Int /\ y \in Int /\ Len(p) \in Int
    BY <1>1
  <2>2. CASE x \in DOMAIN p /\ j[x] = p[x] /\ y \in DOMAIN p /\ j[y] = p[y]
    BY <1>6, <2>2 DEF IsInjective
  <2>3. CASE x - Len(p) \in DOMAIN q /\ j[x] = q[x - Len(p)] /\ y - Len(p) \in DOMAIN q
           /\ j[y] = q[y - Len(p)]
    <3>1. x - Len(p) = y - Len(p)
      BY <1>6, <2>3 DEF IsInjective
    <3> QED BY <2>1, <3>1
  <2>4. CASE x \in DOMAIN p /\ j[x] = p[x] /\ y - Len(p) \in DOMAIN q /\ j[y] = q[y - Len(p)]
    BY <1>6, <2>4 DEF Range
  <2>5. CASE x - Len(p) \in DOMAIN q /\ j[x] = q[x - Len(p)] /\ y \in DOMAIN p /\ j[y] = p[y]
    BY <1>6, <2>5 DEF Range
  <2> QED BY <1>4, <2>2, <2>3, <2>4, <2>5
<1> QED BY <1>1, <1>5, <1>6 DEF j

\* What is kept of a buffer is a beginning of it.
LEMMA KeptIs ==
  ASSUME NEW S, NEW q \in Seq(S)
  PROVE  /\ Kept(q) \in Seq(S) /\ Range(Kept(q)) \subseteq Range(q)
         /\ IsInjective(q) => IsInjective(Kept(q))
<1> DEFINE m == IF Len(q) > usageBufMax THEN usageBufMax ELSE Len(q)
<1>1. m \in Nat /\ m <= Len(q) /\ Len(q) \in Nat /\ DOMAIN q = 1 .. Len(q)
  BY ReportAssumption
<1>2. Kept(q) = SubSeq(q, 1, m)
  BY DEF Kept
<1> HIDE DEF m
<1>3. /\ Kept(q) \in Seq(S) /\ DOMAIN Kept(q) = 1 .. m
      /\ \A i \in 1 .. m : i \in DOMAIN q /\ Kept(q)[i] = q[i]
  BY <1>1, <1>2
<1> QED BY <1>3 DEF Range, IsInjective
-----------------------------------------------------------------------------
(* What the steps of Pulse do to a batch under way *)

\* A transaction that goes on loses no turn of its batch: an item without a request_id is
\* never taken for a duplicate.
LEMMA ServingCarries ==
  ASSUME LedgerInv, NEW t \in Tx, RecordItem(t) \/ Recorded(t) \/ NotCharged(t) \/ Move(t)
  PROVE  /\ usages' = usages /\ \A s \in Tx \ {t} : tx'[s] = tx[s]
         /\ \A batch : Carries(tx[t], batch) => Carries(tx'[t], batch)
<1> DEFINE w == tx[t]
<1>1. tx \in [Tx -> TxState] /\ w \in TxState /\ w.todo \in Seq(Item)
  BY DEF LedgerInv, Tables, TxState
<1>2. usages' = usages /\ \A s \in Tx \ {t} : tx'[s] = tx[s]
  BY <1>1 DEF RecordItem, Recorded, NotCharged, Move
<1>3. ASSUME NEW batch, Carries(w, batch) PROVE Carries(tx'[t], batch)
  <2>1. CASE RecordItem(t)
    <3> DEFINE item == Head(w.todo)
               row == [id |-> nextId, item |-> item]
    <3>1. w.at = "recording" /\ w.todo # <<>>
      BY <2>1 DEF RecordItem
    <3>2. /\ item = w.todo[1] /\ 1 \in DOMAIN w.todo /\ DOMAIN w.todo = 1 .. Len(w.todo)
                /\ Len(w.todo) \in Nat
          /\ DOMAIN Tail(w.todo) = 1 .. Len(w.todo) - 1
          /\ \A i \in 1 .. Len(w.todo) - 1 : Tail(w.todo)[i] = w.todo[i + 1]
      BY <1>1, <3>1, HeadTail
    <3>3. PassedOver(t, item) => item.payer \in Gone
      BY <1>3, <3>2 DEF Carries, PassedOver, Duplicate
    <3>4. /\ tx'[t].at = w.at /\ tx'[t].todo = Tail(w.todo)
          /\ w.rows \subseteq tx'[t].rows
          /\ item.payer \in Gone \/ row \in tx'[t].rows
      <4> DEFINE v == [w EXCEPT !.todo = Tail(w.todo), !.rows = w.rows \cup {row},
                                !.owed = w.owed \o (IF item.cost = 0 THEN <<>>
                                   ELSE <<Entry("charge", item.member, -item.cost, nextId)>>)]
                 u == [w EXCEPT !.todo = Tail(w.todo)]
      <4>1. /\ PassedOver(t, item) => tx' = [tx EXCEPT ![t] = u]
            /\ ~PassedOver(t, item) => tx' = [tx EXCEPT ![t] = v]
        BY <1>1, <2>1 DEF RecordItem
      <4>2. v.at = w.at /\ v.todo = Tail(w.todo) /\ v.rows = w.rows \cup {row}
        BY <1>1 DEF TxState
      <4>3. u.at = w.at /\ u.todo = Tail(w.todo) /\ u.rows = w.rows
        BY <1>1 DEF TxState
      <4> HIDE DEF v, u
      <4> QED BY <1>1, <3>3, <4>1, <4>2, <4>3
    <3>5. row.item = item
      OBVIOUS
    <3> HIDE DEF item, row
    <3>6. \A i \in 1 .. Len(w.todo) - 1 : i + 1 \in DOMAIN w.todo
      BY <3>2
    <3>7. \A i \in DOMAIN w.todo : i = 1 \/ (i - 1 \in 1 .. Len(w.todo) - 1
                                              /\ Tail(w.todo)[i - 1] = w.todo[i])
      <4> SUFFICES ASSUME NEW i \in DOMAIN w.todo, i # 1
                   PROVE  i - 1 \in 1 .. Len(w.todo) - 1 /\ Tail(w.todo)[i - 1] = w.todo[i]
        OBVIOUS
      <4>1. i \in Nat /\ i - 1 \in 1 .. Len(w.todo) - 1 /\ (i - 1) + 1 = i
        BY <3>2
      <4> QED BY <3>2, <4>1
    <3>8. ASSUME NEW n \in Range(batch)
          PROVE  \/ \E i \in DOMAIN Tail(w.todo) : Tail(w.todo)[i] = UsageItem(n)
                 \/ \E r \in tx'[t].rows : r.item = UsageItem(n)
                 \/ BilledTo[n].payer \in Gone
      <4>1. CASE \E r \in w.rows : r.item = UsageItem(n)
        BY <4>1, <3>4
      <4>2. ASSUME NEW i \in DOMAIN w.todo, w.todo[i] = UsageItem(n)
            PROVE  \/ \E k \in DOMAIN Tail(w.todo) : Tail(w.todo)[k] = UsageItem(n)
                   \/ \E r \in tx'[t].rows : r.item = UsageItem(n)
                   \/ BilledTo[n].payer \in Gone
        <5>1. CASE i = 1
          <6>1. item = UsageItem(n)
            BY <3>2, <4>2, <5>1
          <6>2. item.payer = BilledTo[n].payer
            BY <6>1 DEF UsageItem
          <6> QED BY <3>4, <3>5, <6>1, <6>2
        <5>2. CASE i # 1
          BY <3>2, <3>7, <4>2, <5>2
        <5> QED BY <5>1, <5>2
      <4> QED BY <1>3, <4>1, <4>2 DEF Carries
    <3>9. \A i \in DOMAIN Tail(w.todo) : Tail(w.todo)[i].request = NoRequest
      BY <1>3, <3>2, <3>6 DEF Carries
    <3> QED BY <1>3, <3>1, <3>4, <3>8, <3>9 DEF Carries
  <2>2. CASE Recorded(t)
    <3> DEFINE v == [w EXCEPT !.at = "paying"]
    <3>1. tx' = [tx EXCEPT ![t] = v] /\ w.todo = <<>>
      BY <2>2 DEF Recorded
    <3>2. v.at = "paying" /\ v.todo = w.todo /\ v.rows = w.rows
      BY <1>1 DEF TxState
    <3> HIDE DEF v
    <3>3. tx'[t] = v
      BY <1>1, <3>1
    <3> QED BY <1>3, <3>1, <3>2, <3>3 DEF Carries
  <2>3. CASE NotCharged(t) \/ Move(t)
    <3>1. \A o, p, j : LET v == [w EXCEPT !.owed = o, !.posted = p, !.judged = j]
                       IN v.at = w.at /\ v.todo = w.todo /\ v.rows = w.rows
      BY <1>1 DEF TxState
    <3>2. \A o, j : LET v == [w EXCEPT !.owed = o, !.judged = j]
                    IN v.at = w.at /\ v.todo = w.todo /\ v.rows = w.rows
      BY <1>1 DEF TxState
    <3>3. tx'[t].at = w.at /\ tx'[t].todo = w.todo /\ tx'[t].rows = w.rows
      <4> DEFINE m == Head(w.owed).member
      <4>1. CASE NotCharged(t)
        <5>1. tx'[t] = [w EXCEPT !.owed = Tail(w.owed), !.judged = [w.judged EXCEPT ![m] = "free"]]
          BY <1>1, <4>1 DEF NotCharged
        <5> QED BY <3>2, <5>1
      <4>2. CASE Move(t)
        <5>1. PICK v, line : Posts(t, v, line)
          BY <4>2, Moving DEF LedgerInv
        <5>2. w.at = "paying"
          BY <4>2 DEF Move
        <5> QED BY <1>1, <5>1, <5>2 DEF Posts
      <4> QED BY <2>3, <4>1, <4>2
    <3> QED BY <1>3, <3>3 DEF Carries
  <2> QED BY <2>1, <2>2, <2>3
<1> QED BY <1>2, <1>3

\* A commit puts every turn of the batch on the books.
LEMMA CommitBooks ==
  ASSUME LedgerInv, NEW t \in Tx, Commit(t)
  PROVE  /\ usages \subseteq usages' /\ \A s \in Tx \ {t} : tx'[s] = tx[s]
         /\ \A batch \in Seq(Turns) : Carries(tx[t], batch) => \A n \in Range(batch) : Settled(n)'
<1>1. usages' = usages \cup tx[t].rows /\ tx[t].at = "paying" /\ tx' = [tx EXCEPT ![t] = IdleTx]
  BY DEF Commit
<1>2. tx \in [Tx -> TxState]
  BY DEF LedgerInv, Tables
<1>3. ASSUME NEW batch \in Seq(Turns), Carries(tx[t], batch), NEW n \in Range(batch)
      PROVE  Settled(n)'
  <2>1. n \in Turns
    BY DEF Range
  <2>2. tx[t].todo = <<>>
    BY <1>1, <1>3 DEF Carries
  <2>3. (\E r \in tx[t].rows : r.item = UsageItem(n)) \/ BilledTo[n].payer \in Gone
    <3>1. DOMAIN tx[t].todo = {}
      BY <2>2
    <3> QED BY <1>3, <3>1 DEF Carries
  <2>4. ASSUME NEW r \in tx[t].rows, r.item = UsageItem(n) PROVE r \in usages' /\ r.item.turn = n
    BY <1>1, <2>1, <2>4, ItemsFit
  <2> QED BY <2>3, <2>4 DEF Settled, Committed
<1> QED BY <1>1, <1>2, <1>3
-----------------------------------------------------------------------------
(* What the steps of the proxy do *)

Again(w) == [w EXCEPT !.at = "posting", !.tries = @ + 1, !.by = Nobody]

\* A post that gets no good answer is sent again, with the same batch.
LEMMA AgainFits ==
  ASSUME NEW w \in FlushState, FlushFits(w),
         w.at = "waiting" \/ (w.at = "posting" /\ w.tries < usageMaxRetries)
  PROVE  /\ Again(w) \in FlushState /\ FlushFits(Again(w)) /\ Again(w).batch = w.batch
         /\ Again(w).at = "posting"
<1>1. w.tries + 1 \in 0 .. usageMaxRetries
  BY ReportAssumption DEF FlushState, FlushFits
<1>2. /\ Again(w).at = "posting" /\ Again(w).batch = w.batch /\ Again(w).by = Nobody
  BY DEF FlushState, Again
<1>3. Again(w) \in FlushState
  BY <1>1 DEF FlushState, Again
<1> QED BY <1>2, <1>3 DEF FlushFits

\* Sending again changes this flush alone.
LEMMA TriesAgain ==
  ASSUME Proxy, NEW f \in Flusher, Posting(f) \/ flush[f].at = "waiting"
  PROVE  /\ TryAgain(f) = [flush EXCEPT ![f] = Again(flush[f])]
         /\ TryAgain(f)[f] = Again(flush[f])
         /\ Again(flush[f]) \in FlushState /\ FlushFits(Again(flush[f]))
         /\ Again(flush[f]).batch = flush[f].batch /\ Again(flush[f]).at = "posting"
<1>1. flush \in [Flusher -> FlushState] /\ flush[f] \in FlushState /\ FlushFits(flush[f])
  BY DEF Proxy
<1>2. TryAgain(f) = [flush EXCEPT ![f] = Again(flush[f])]
  BY <1>1 DEF TryAgain, Again
<1> QED BY <1>1, <1>2, AgainFits DEF Posting

\* A step that moves no turn between the buffer and the batches.
LEMMA NothingMoves ==
  ASSUME Proxy, Separate, Accounted, UNCHANGED <<usageBuf, ended, dropped>>, resting' \in BOOLEAN,
         usages \subseteq usages', flush' \in [Flusher -> FlushState],
         \A f \in Flusher : FlushFits(flush'[f]) /\ flush'[f].batch = flush[f].batch
  PROVE  Proxy' /\ Separate' /\ Accounted'
<1>1. Proxy'
  BY DEF Proxy
<1>2. Separate'
  BY DEF Separate
<1>3. \A n : (InFlight(n) => InFlight(n)') /\ (Settled(n) => Settled(n)')
  BY DEF InFlight, Settled, Committed
<1>4. Accounted'
  BY <1>3 DEF Accounted
<1> QED BY <1>1, <1>2, <1>4

\* A step that leaves the transactions alone and waits for none of them anew.
LEMMA NobodyWaits ==
  ASSUME Carried, \A t \in Tx : tx'[t] = tx[t],
         \A f \in Flusher : flush'[f].at = "waiting" => flush'[f] = flush[f]
  PROVE  Carried'
<1>1. \A f \in Flusher, t \in Tx : Waiting(f, t)' => Waiting(f, t) /\ flush'[f] = flush[f]
  BY DEF Waiting
<1> QED BY <1>1 DEF Carried

LEMMA Enqueues ==
  ASSUME ReportInv, NEW g \in Goroutine, EnqueueUsage(g)
  PROVE  Proxy' /\ Separate' /\ Accounted' /\ Carried'
<1> DEFINE n == ended + 1
<1>1. /\ ended \in Nat /\ ended < Len(BilledTo) /\ n \in Turns /\ n \in 1 .. n
  BY TurnsAre DEF ReportInv, Proxy, EnqueueUsage
<1>2. g \in Flusher /\ flush \in [Flusher -> FlushState] /\ flush[g] \in FlushState
         /\ FlushFits(flush[g])
      /\ usageBuf \in Seq(Turns)
  BY DEF ReportInv, Proxy, Flusher
<1>3. /\ usageBuf' = Append(usageBuf, n) /\ ended' = n /\ flush[g].at = "idle"
      /\ UNCHANGED <<usages, tx, resting, dropped>>
  BY DEF EnqueueUsage, vars
<1>4. PICK where \in {"due", "idle"} : flush' = [flush EXCEPT ![g] = [flush[g] EXCEPT !.at = where]]
  BY <1>2 DEF EnqueueUsage
<1>5. flush[g].batch = <<>> /\ flush[g].by = Nobody
  BY <1>2, <1>3 DEF FlushFits, FlushState
<1> DEFINE v == [flush[g] EXCEPT !.at = where]
<1>6. v \in FlushState /\ v.at = where /\ v.batch = <<>> /\ v.by = Nobody
  BY <1>2, <1>5 DEF FlushState
<1> HIDE DEF v
<1>7. /\ flush' \in [Flusher -> FlushState] /\ flush'[g] = v
      /\ \A f \in Flusher : f # g => flush'[f] = flush[f]
  BY <1>2, <1>4, <1>6 DEF v
<1>8. FlushFits(v)
  BY <1>6 DEF FlushFits
<1>9. \A f \in Flusher : FlushFits(flush'[f]) /\ flush'[f].batch = flush[f].batch
  BY <1>5, <1>6, <1>7, <1>8 DEF ReportInv, Proxy
<1>10. /\ usageBuf' \in Seq(Turns) /\ Range(usageBuf') = Range(usageBuf) \cup {n}
       /\ IsInjective(usageBuf) /\ n \notin Range(usageBuf) => IsInjective(usageBuf')
  BY <1>1, <1>2, <1>3, AppendIs
<1>11. /\ \A k \in Range(usageBuf) : k <= ended /\ k \in Nat
       /\ \A f \in Flusher : \A k \in Range(flush[f].batch) : k <= ended /\ k \in Nat
  <2>1. \A f \in Flusher : flush[f].batch \in Seq(Turns)
    BY <1>2 DEF FlushState
  <2>2. \A q \in Seq(Turns) : \A k \in Range(q) : k \in Turns
    BY DEF Range
  <2> QED BY <1>2, <2>1, <2>2, TurnsAre DEF ReportInv, Proxy
<1> HIDE DEF n
<1>12. ended < n /\ n \in Nat /\ n <= Len(BilledTo) /\ \A k \in Nat : k <= n => k = n \/ k <= ended
  BY <1>1, TurnsAre DEF n
<1>13. n \notin Range(usageBuf) /\ \A f \in Flusher : n \notin Range(flush[f].batch)
  BY <1>1, <1>11, <1>12
<1>14. Proxy'
  <2>1. \A k \in Range(usageBuf') : k <= ended'
    BY <1>1, <1>3, <1>10, <1>11, <1>12
  <2>2. \A f \in Flusher : \A k \in Range(flush'[f].batch) : k <= ended'
    BY <1>1, <1>3, <1>9, <1>11, <1>12
  <2>3. resting' \in BOOLEAN
    BY <1>3 DEF ReportInv, Proxy
  <2> QED BY <1>3, <1>7, <1>9, <1>10, <1>12, <2>1, <2>2, <2>3 DEF Proxy
<1>15. Separate'
  BY <1>9, <1>10, <1>13 DEF ReportInv, Separate
<1>16. Accounted'
  <2>1. \A k : (InFlight(k) => InFlight(k)') /\ (Settled(k) => Settled(k)')
    BY <1>3, <1>9 DEF InFlight, Settled, Committed
  <2>2. \A k \in 1 .. n : k = n \/ k \in 1 .. ended
    BY <1>1, <1>12
  <2> QED BY <1>3, <1>10, <2>1, <2>2 DEF ReportInv, Accounted
<1>17. Carried'
  BY <1>3, <1>6, <1>7, NobodyWaits DEF ReportInv
<1> QED BY <1>14, <1>15, <1>16, <1>17

\* Taking the buffer for a batch moves its turns, under the lock, to one flush.
LEMMA Takes ==
  ASSUME ReportInv, NEW f \in Flusher, TakeBatch(f)
  PROVE  Proxy' /\ Separate' /\ Accounted' /\ Carried'
<1>1. /\ flush \in [Flusher -> FlushState] /\ flush[f] \in FlushState /\ FlushFits(flush[f])
      /\ usageBuf \in Seq(Turns) /\ resting \in BOOLEAN
      /\ UNCHANGED <<usages, tx, resting, ended, dropped>>
  BY DEF ReportInv, Proxy, TakeBatch, vars
<1>2. flush[f].batch = <<>>
  BY <1>1 DEF TakeBatch, Due, FlushFits
<1>3. NoFlush \in FlushState /\ FlushFits(NoFlush) /\ NoFlush.batch = <<>> /\ NoFlush.at = "idle"
  BY NoFlushFits DEF NoFlush
<1>4. CASE usageBuf = <<>> \/ resting
  <2>1. flush' = [flush EXCEPT ![f] = NoFlush] /\ usageBuf' = usageBuf
    BY <1>4 DEF TakeBatch
  <2>2. /\ flush' \in [Flusher -> FlushState] /\ flush'[f] = NoFlush
        /\ \A g \in Flusher : g # f => flush'[g] = flush[g]
    BY <1>1, <1>3, <2>1
  <2>3. \A g \in Flusher : FlushFits(flush'[g]) /\ flush'[g].batch = flush[g].batch
    BY <1>2, <1>3, <2>2 DEF ReportInv, Proxy
  <2>4. \A g \in Flusher : flush'[g].at = "waiting" => flush'[g] = flush[g]
    BY <1>3, <2>2
  <2> QED BY <1>1, <2>1, <2>2, <2>3, <2>4, NothingMoves, NobodyWaits DEF ReportInv
<1>5. CASE ~(usageBuf = <<>> \/ resting)
  <2> DEFINE v == [NoFlush EXCEPT !.at = "posting", !.batch = usageBuf]
  <2>1. flush' = [flush EXCEPT ![f] = v] /\ usageBuf' = <<>> /\ usageBuf # <<>>
    BY <1>5 DEF TakeBatch
  <2>2. v \in FlushState /\ v.at = "posting" /\ v.batch = usageBuf /\ v.by = Nobody
    BY <1>1, <1>3 DEF NoFlush, FlushState
  <2> HIDE DEF v
  <2>3. FlushFits(v)
    BY <2>1, <2>2 DEF FlushFits
  <2>4. /\ flush' \in [Flusher -> FlushState] /\ flush'[f].batch = usageBuf
              /\ flush'[f].at = "posting"
        /\ FlushFits(flush'[f]) /\ \A g \in Flusher : g # f => flush'[g] = flush[g]
    BY <1>1, <2>1, <2>2, <2>3
  <2>5. Proxy'
    BY <1>1, <2>1, <2>4, EmptyRange DEF ReportInv, Proxy
  <2>6. Separate'
    BY <2>1, <2>4, EmptyRange DEF ReportInv, Separate
  <2>7. Accounted'
    <3>1. \A n : n \in Range(usageBuf) \/ InFlight(n) => InFlight(n)'
      BY <1>2, <2>4, EmptyRange DEF InFlight
    <3>2. \A n : Settled(n) => Settled(n)'
      BY <1>1 DEF Settled, Committed
    <3> QED BY <1>1, <3>1, <3>2 DEF ReportInv, Accounted
  <2>8. Carried'
    <3>1. \A g \in Flusher : flush'[g].at = "waiting" => flush'[g] = flush[g]
      BY <2>4
    <3> QED BY <1>1, <3>1, NobodyWaits DEF ReportInv
  <2> QED BY <2>5, <2>6, <2>7, <2>8
<1> QED BY <1>4, <1>5

\* Giving a batch up puts it back in front of what came since; what the buffer has no room
\* for is known dropped.
LEMMA GivesUp ==
  ASSUME ReportInv, NEW f \in Flusher, GiveUp(f)
  PROVE  Proxy' /\ Separate' /\ Accounted' /\ Carried'
<1> DEFINE q == Requeued(f)
<1>1. /\ flush \in [Flusher -> FlushState] /\ flush[f] \in FlushState /\ FlushFits(flush[f])
      /\ usageBuf \in Seq(Turns) /\ flush[f].batch \in Seq(Turns)
      /\ UNCHANGED <<usages, tx, ended>>
  BY DEF ReportInv, Proxy, GiveUp, vars, FlushState
<1>2. /\ usageBuf' = Kept(q) /\ dropped' = dropped \cup (Range(q) \ Range(Kept(q))) /\ resting' = TRUE
      /\ flush' = [flush EXCEPT ![f] = NoFlush]
  BY DEF GiveUp
<1>3. NoFlush \in FlushState /\ FlushFits(NoFlush) /\ NoFlush.batch = <<>> /\ NoFlush.at = "idle"
  BY NoFlushFits DEF NoFlush
<1>4. /\ flush' \in [Flusher -> FlushState] /\ flush'[f] = NoFlush
      /\ \A g \in Flusher : g # f => flush'[g] = flush[g]
  BY <1>1, <1>2, <1>3
<1>5. /\ IsInjective(usageBuf) /\ IsInjective(flush[f].batch)
      /\ Range(flush[f].batch) \cap Range(usageBuf) = {}
  BY DEF ReportInv, Separate
<1>6. q \in Seq(Turns) /\ Range(q) = Range(flush[f].batch) \cup Range(usageBuf) /\ IsInjective(q)
  BY <1>1, <1>5, JoinIs DEF Requeued
<1> HIDE DEF q
<1>7. usageBuf' \in Seq(Turns) /\ Range(usageBuf') \subseteq Range(q) /\ IsInjective(usageBuf')
  BY <1>2, <1>6, KeptIs
<1>8. Proxy'
  <2>1. \A n \in Range(usageBuf') : n <= ended
    BY <1>6, <1>7 DEF ReportInv, Proxy
  <2>2. \A g \in Flusher : FlushFits(flush'[g]) /\ \A n \in Range(flush'[g].batch) : n <= ended
    BY <1>3, <1>4, EmptyRange DEF ReportInv, Proxy
  <2> QED BY <1>1, <1>2, <1>4, <1>7, <2>1, <2>2 DEF ReportInv, Proxy
<1>9. Separate'
  BY <1>3, <1>4, <1>6, <1>7, EmptyRange DEF ReportInv, Separate
<1>10. Accounted'
  <2>1. ASSUME NEW n \in 1 .. ended
        PROVE  n \in Range(usageBuf') \/ InFlight(n)' \/ n \in dropped' \/ Settled(n)'
    <3>1. CASE n \in Range(q)
      BY <1>2, <3>1
    <3>2. CASE n \notin Range(q)
      <4>1. InFlight(n) => InFlight(n)'
        BY <1>4, <1>6, <3>2 DEF InFlight
      <4>2. Settled(n) => Settled(n)'
        BY <1>1 DEF Settled, Committed
      <4> QED BY <1>2, <1>6, <3>2, <4>1, <4>2 DEF ReportInv, Accounted
    <3> QED BY <3>1, <3>2
  <2> QED BY <1>1, <2>1 DEF Accounted
<1>11. Carried'
  <2>1. \A g \in Flusher : flush'[g].at = "waiting" => flush'[g] = flush[g]
    BY <1>3, <1>4
  <2> QED BY <1>1, <2>1, NobodyWaits DEF ReportInv
<1> QED BY <1>8, <1>9, <1>10, <1>11

\* What dies with the proxy is counted as dropped; Pulse goes on with what it has.
LEMMA Dies ==
  ASSUME ReportInv, Die
  PROVE  Proxy' /\ Separate' /\ Accounted' /\ Carried'
<1>1. /\ usageBuf' = <<>> /\ flush' = [f \in Flusher |-> NoFlush] /\ resting' = FALSE
      /\ dropped' = dropped \cup Range(usageBuf) \cup UNION {Range(flush[f].batch) : f \in Flusher}
      /\ UNCHANGED <<usages, tx, ended>>
  BY DEF Die, vars
<1>2. \A f \in Flusher : flush'[f] = NoFlush
  BY <1>1
<1>3. NoFlush \in FlushState /\ FlushFits(NoFlush) /\ NoFlush.batch = <<>> /\ NoFlush.at = "idle"
  BY NoFlushFits DEF NoFlush
<1>4. flush' \in [Flusher -> FlushState]
  BY <1>1, <1>3
<1>5. Proxy'
  BY <1>1, <1>2, <1>3, <1>4, EmptyRange DEF ReportInv, Proxy
<1>6. Separate'
  BY <1>1, <1>2, <1>3, EmptyRange DEF Separate
<1>7. Accounted'
  <2>1. \A n : n \in Range(usageBuf) \/ InFlight(n) \/ n \in dropped => n \in dropped'
    BY <1>1 DEF InFlight
  <2>2. \A n : Settled(n) => Settled(n)'
    BY <1>1 DEF Settled, Committed
  <2> QED BY <1>1, <2>1, <2>2 DEF ReportInv, Accounted
<1>8. Carried'
  BY <1>1, <1>2, <1>3, NobodyWaits DEF ReportInv
<1> QED BY <1>5, <1>6, <1>7, <1>8

\* The batch of a post, as Pulse gets it.
LEMMA Posted ==
  ASSUME Proxy, NEW f \in Flusher
  PROVE  LET b == [i \in DOMAIN flush[f].batch |-> UsageItem(flush[f].batch[i])]
         IN /\ b \in Seq(Item) /\ \A i \in DOMAIN b : b[i].request = NoRequest
            /\ \A n \in Range(flush[f].batch) : \E i \in DOMAIN b : b[i] = UsageItem(n)
<1> DEFINE q == flush[f].batch
           b == [i \in DOMAIN q |-> UsageItem(q[i])]
<1>1. q \in Seq(Turns)
  BY DEF Proxy, FlushState
<1> HIDE DEF q
<1>2. DOMAIN q = 1 .. Len(q) /\ Len(q) \in Nat /\ \A i \in DOMAIN q : q[i] \in Turns
  BY <1>1
<1>3. b \in [1 .. Len(q) -> Item] /\ \A i \in DOMAIN b : b[i] = UsageItem(q[i])
  BY <1>2, ItemsFit
<1>4. b \in Seq(Item)
  BY <1>2, <1>3
<1>5. \A i \in DOMAIN b : b[i].request = NoRequest
  BY <1>2, <1>3, ItemsFit
<1>6. \A n \in Range(q) : \E i \in DOMAIN b : b[i] = UsageItem(n)
  BY DEF Range
<1> QED BY <1>4, <1>5, <1>6 DEF q

\* A post is a transaction that has everything still to record.
LEMMA PostCarries ==
  ASSUME ReportInv, NEW f \in Flusher, NEW t \in Tx, Post(f, t)
  PROVE  Proxy' /\ Separate' /\ Accounted' /\ Carried'
<1> DEFINE b == [i \in DOMAIN flush[f].batch |-> UsageItem(flush[f].batch[i])]
           started == [IdleTx EXCEPT !.at = "recording", !.todo = b]
           v == [flush[f] EXCEPT !.at = "waiting", !.by = t]
<1>1. /\ flush \in [Flusher -> FlushState] /\ flush[f] \in FlushState /\ FlushFits(flush[f])
      /\ flush[f].at = "posting" /\ flush[f].tries < usageMaxRetries /\ resting \in BOOLEAN
      /\ tx \in [Tx -> TxState] /\ Nobody # t
  BY LedgerAssumption DEF ReportInv, Proxy, Post, Posting, LedgerInv, Tables
<1>2. tx' = [tx EXCEPT ![t] = started] /\ tx[t].at = "idle" /\ usages' = usages
  BY DEF Post, Record, Begin
<1>3. flush' = [flush EXCEPT ![f] = v] /\ UNCHANGED <<usageBuf, resting, ended, dropped>>
  BY <1>1 DEF Post
<1>4. v \in FlushState /\ v.at = "waiting" /\ v.by = t /\ v.batch = flush[f].batch
         /\ v.tries = flush[f].tries
  BY <1>1 DEF FlushState
<1> HIDE DEF v
<1>5. FlushFits(v)
  BY <1>1, <1>4 DEF FlushFits
<1>6. /\ flush' \in [Flusher -> FlushState] /\ flush'[f] = v
      /\ \A g \in Flusher : g # f => flush'[g] = flush[g]
  BY <1>1, <1>3, <1>4
<1>7. \A g \in Flusher : FlushFits(flush'[g]) /\ flush'[g].batch = flush[g].batch
  BY <1>4, <1>5, <1>6 DEF ReportInv, Proxy
<1>8. Proxy' /\ Separate' /\ Accounted'
  BY <1>1, <1>2, <1>3, <1>6, <1>7, NothingMoves DEF ReportInv
<1>9. started.at = "recording" /\ started.todo = b /\ started.rows = {}
  BY DEF IdleTx
<1>10. Carries(started, flush[f].batch)
  <2>1. /\ \A i \in DOMAIN b : b[i].request = NoRequest
        /\ \A n \in Range(flush[f].batch) : \E i \in DOMAIN b : b[i] = UsageItem(n)
    BY Posted DEF ReportInv
  <2> HIDE DEF started, b
  <2> QED BY <1>9, <2>1 DEF Carries
<1> HIDE DEF started
<1>11. \A s \in Tx : tx'[s] = IF s = t THEN started ELSE tx[s]
  BY <1>1, <1>2
<1>12. \A g \in Flusher : ~Waiting(g, t)
  BY <1>2 DEF ReportInv, Carried, Carries
<1>13. ASSUME NEW g \in Flusher, NEW s \in Tx, Waiting(g, s)'
       PROVE  /\ Carries(tx'[s], flush'[g].batch)
              /\ \A h \in Flusher : Waiting(h, s)' => g = h
  <2>1. \A h \in Flusher : h # f => Waiting(h, s)' = Waiting(h, s)
    BY <1>6 DEF Waiting
  <2>2. CASE s = t
    <3>1. \A h \in Flusher : Waiting(h, s)' => h = f
      BY <1>12, <2>1, <2>2
    <3> QED BY <1>4, <1>6, <1>10, <1>11, <1>13, <2>2, <3>1
  <2>3. CASE s # t
    <3>1. ~Waiting(f, s)'
      BY <1>4, <1>6, <2>3 DEF Waiting
    <3>2. g # f /\ Waiting(g, s) /\ flush'[g].batch = flush[g].batch /\ tx'[s] = tx[s]
      BY <1>6, <1>11, <1>13, <2>1, <2>3, <3>1
    <3> QED BY <2>1, <3>1, <3>2 DEF ReportInv, Carried
  <2> QED BY <2>2, <2>3
<1>14. Carried'
  BY <1>13 DEF Carried
<1> QED BY <1>8, <1>14

\* A flush that stops waiting, or cannot reach Pulse, keeps its batch and sends it again.
LEMMA SendsAgain ==
  ASSUME ReportInv, NEW f \in Flusher, Posting(f) \/ flush[f].at = "waiting",
         flush' = TryAgain(f), UNCHANGED <<usageBuf, ended, dropped, resting>>,
         usages \subseteq usages'
  PROVE  /\ Proxy' /\ Separate' /\ Accounted'
         /\ \A g \in Flusher : flush'[g].at = "waiting" => g # f /\ flush'[g] = flush[g]
<1> DEFINE v == Again(flush[f])
<1>1. flush \in [Flusher -> FlushState] /\ resting \in BOOLEAN
  BY DEF ReportInv, Proxy
<1>2. /\ flush' = [flush EXCEPT ![f] = v] /\ v \in FlushState /\ FlushFits(v)
      /\ v.batch = flush[f].batch /\ v.at = "posting"
  BY TriesAgain DEF ReportInv
<1> HIDE DEF v
<1>3. /\ flush' \in [Flusher -> FlushState] /\ flush'[f] = v
      /\ \A g \in Flusher : g # f => flush'[g] = flush[g]
  BY <1>1, <1>2
<1>4. \A g \in Flusher : FlushFits(flush'[g]) /\ flush'[g].batch = flush[g].batch
  BY <1>2, <1>3 DEF ReportInv, Proxy
<1>5. Proxy' /\ Separate' /\ Accounted'
  BY <1>1, <1>3, <1>4, NothingMoves DEF ReportInv
<1> QED BY <1>2, <1>3, <1>5

\* An answer reaches the one flush that waits for it: its turns are on the books.
LEMMA Answers ==
  ASSUME ReportInv, NEW t \in Tx, Answered(t)
  PROVE  Proxy' /\ Separate' /\ Accounted' /\ Carried'
<1>1. /\ flush \in [Flusher -> FlushState] /\ resting \in BOOLEAN
      /\ Commit(t) /\ UNCHANGED <<usageBuf, ended, dropped>>
      /\ resting' = (resting /\ ~\E f \in Flusher : Waiting(f, t))
      /\ flush' = [f \in Flusher |-> IF Waiting(f, t) THEN NoFlush ELSE flush[f]]
  BY DEF ReportInv, Proxy, Answered
<1>2. NoFlush \in FlushState /\ FlushFits(NoFlush) /\ NoFlush.batch = <<>> /\ NoFlush.at = "idle"
  BY NoFlushFits DEF NoFlush
<1>3. \A f \in Flusher : flush'[f] = IF Waiting(f, t) THEN NoFlush ELSE flush[f]
  BY <1>1
<1>4. flush' \in [Flusher -> FlushState]
  BY <1>1, <1>2
<1>5. /\ usages \subseteq usages' /\ \A s \in Tx \ {t} : tx'[s] = tx[s]
      /\ \A f \in Flusher : Waiting(f, t) => \A n \in Range(flush[f].batch) : Settled(n)'
  <2>1. \A f \in Flusher : flush[f].batch \in Seq(Turns)
    BY <1>1 DEF FlushState
  <2>2. \A f \in Flusher : Waiting(f, t) => Carries(tx[t], flush[f].batch)
    BY DEF ReportInv, Carried
  <2> QED BY <1>1, <2>1, <2>2, CommitBooks DEF ReportInv
<1>6. Proxy'
  <2>1. resting' \in BOOLEAN
    BY <1>1
  <2>2. \A f \in Flusher : FlushFits(flush'[f]) /\ \A n \in Range(flush'[f].batch) : n <= ended
    BY <1>2, <1>3, EmptyRange DEF ReportInv, Proxy
  <2> QED BY <1>1, <1>4, <2>1, <2>2 DEF ReportInv, Proxy
<1>7. Separate'
  BY <1>1, <1>2, <1>3, EmptyRange DEF ReportInv, Separate
<1>8. Accounted'
  <2>1. \A n : Settled(n) => Settled(n)'
    BY <1>5 DEF Settled, Committed
  <2>2. \A n : InFlight(n) => InFlight(n)' \/ Settled(n)'
    BY <1>3, <1>5 DEF InFlight
  <2> QED BY <1>1, <2>1, <2>2 DEF ReportInv, Accounted
<1>9. Carried'
  <2>1. \A f \in Flusher, s \in Tx : Waiting(f, s)' => s # t /\ Waiting(f, s) /\ flush'[f] = flush[f]
    BY <1>2, <1>3 DEF Waiting
  <2> QED BY <1>5, <2>1 DEF ReportInv, Carried
<1> QED BY <1>6, <1>7, <1>8, <1>9

\* A transaction that ends without its answer being heard is waited for by nobody.
LEMMA StillCarried ==
  ASSUME Carried, NEW t \in Tx, \A s \in Tx \ {t} : tx'[s] = tx[s],
         \A f \in Flusher : flush'[f].at = "waiting" => ~Waiting(f, t) /\ flush'[f] = flush[f]
  PROVE  Carried'
<1>1. \A f \in Flusher, s \in Tx : Waiting(f, s)' => s # t /\ Waiting(f, s) /\ flush'[f] = flush[f]
  BY DEF Waiting
<1> QED BY <1>1 DEF Carried

LEMMA LosesAnswer ==
  ASSUME ReportInv, NEW f \in Flusher, NEW t \in Tx, AnswerLost(f, t)
  PROVE  Proxy' /\ Separate' /\ Accounted' /\ Carried'
<1>1. /\ Waiting(f, t) /\ Commit(t) /\ flush' = TryAgain(f)
      /\ UNCHANGED <<usageBuf, resting, ended, dropped>>
  BY DEF AnswerLost
<1>2. usages \subseteq usages' /\ \A s \in Tx \ {t} : tx'[s] = tx[s]
  BY <1>1, CommitBooks DEF ReportInv
<1>3. /\ Proxy' /\ Separate' /\ Accounted'
      /\ \A g \in Flusher : flush'[g].at = "waiting" => g # f /\ flush'[g] = flush[g]
  BY <1>1, <1>2, SendsAgain DEF Waiting
<1>4. \A g \in Flusher : g # f => ~Waiting(g, t)
  BY <1>1 DEF ReportInv, Carried
<1>5. Carried'
  BY <1>2, <1>3, <1>4, StillCarried DEF ReportInv
<1> QED BY <1>3, <1>5

\* A request that fails leaves nothing, and whoever waits for it sends again.
LEMMA Refuses ==
  ASSUME ReportInv, NEW t \in Tx, Refused(t)
  PROVE  Proxy' /\ Separate' /\ Accounted' /\ Carried'
<1>1. /\ flush \in [Flusher -> FlushState] /\ tx \in [Tx -> TxState] /\ resting \in BOOLEAN
      /\ Fail(t) /\ UNCHANGED <<usageBuf, resting, ended, dropped>>
      /\ flush' = [f \in Flusher |-> IF Waiting(f, t) THEN TryAgain(f)[f] ELSE flush[f]]
  BY DEF ReportInv, Proxy, LedgerInv, Tables, Refused
<1>2. usages' = usages /\ \A s \in Tx \ {t} : tx'[s] = tx[s]
  BY <1>1 DEF Fail
<1>3. ASSUME NEW f \in Flusher, Waiting(f, t)
      PROVE  /\ TryAgain(f)[f] = Again(flush[f])
             /\ Again(flush[f]) \in FlushState /\ FlushFits(Again(flush[f]))
             /\ Again(flush[f]).batch = flush[f].batch /\ Again(flush[f]).at = "posting"
  BY <1>3, TriesAgain DEF ReportInv, Waiting
<1>4. \A f \in Flusher : flush'[f] = IF Waiting(f, t) THEN Again(flush[f]) ELSE flush[f]
  BY <1>1, <1>3
<1>5. flush' \in [Flusher -> FlushState]
  <2>1. flush' = [f \in Flusher |-> flush'[f]]
    BY <1>1
  <2>2. \A f \in Flusher : flush'[f] \in FlushState
    BY <1>1, <1>3, <1>4
  <2> QED BY <2>1, <2>2
<1>6. \A f \in Flusher : FlushFits(flush'[f]) /\ flush'[f].batch = flush[f].batch
  BY <1>3, <1>4 DEF ReportInv, Proxy
<1>7. Proxy' /\ Separate' /\ Accounted'
  BY <1>1, <1>2, <1>5, <1>6, NothingMoves DEF ReportInv
<1>8. \A f \in Flusher : flush'[f].at = "waiting" => ~Waiting(f, t) /\ flush'[f] = flush[f]
  BY <1>3, <1>4
<1>9. Carried'
  BY <1>2, <1>8, StillCarried DEF ReportInv
<1> QED BY <1>7, <1>9

LEMMA Serves ==
  ASSUME ReportInv, NEW t \in Tx, Serve(t)
  PROVE  Proxy' /\ Separate' /\ Accounted' /\ Carried'
<1>1. UNCHANGED <<usageBuf, flush, resting, ended, dropped>>
  BY DEF Serve, proxyVars
<1>2. /\ usages' = usages /\ \A s \in Tx \ {t} : tx'[s] = tx[s]
      /\ \A batch : Carries(tx[t], batch) => Carries(tx'[t], batch)
  BY ServingCarries DEF Serve, ReportInv
<1>3. Proxy' /\ Separate' /\ Accounted'
  BY <1>1, <1>2 DEF ReportInv, Proxy, Separate, Accounted, InFlight, Settled, Committed
<1>4. Carried'
  <2>1. \A f \in Flusher, s \in Tx : Waiting(f, s)' = Waiting(f, s)
    BY <1>1 DEF Waiting
  <2> QED BY <1>1, <1>2, <2>1 DEF ReportInv, Carried
<1> QED BY <1>3, <1>4

-----------------------------------------------------------------------------
(* The theorems *)

\* To the tables, whatever the data plane sends is a step of the ledger.
LEMMA ReportSteps ==
  ASSUME ReportInv, [ReportNext]_reportVars
  PROVE  [Steps]_vars
<1>1. ASSUME NEW f \in Flusher, NEW t \in Tx, Post(f, t) PROVE Steps
  <2> DEFINE b == [i \in DOMAIN flush[f].batch |-> UsageItem(flush[f].batch[i])]
  <2>1. Record(t, b)
    BY <1>1 DEF Post
  <2>2. b \in Seq(Item)
    BY Posted DEF ReportInv
  <2> HIDE DEF b
  <2> QED BY <2>1, <2>2 DEF Steps
<1>2. ASSUME NEW t \in Tx, Serve(t) \/ Commit(t) \/ Fail(t) PROVE Steps
  BY <1>2 DEF Serve, Steps, Next, Step
<1>3. \A t \in Tx : Answered(t) \/ Refused(t) \/ (\E f \in Flusher : AnswerLost(f, t)) => Commit(t)
         \/ Fail(t)
  BY DEF Answered, Refused, AnswerLost
<1>4. ASSUME \/ \E g \in Goroutine : EnqueueUsage(g)
             \/ \E f \in Flusher : TakeBatch(f) \/ Unreachable(f) \/ TooLong(f) \/ StopWaiting(f) \/ GiveUp(f)
             \/ Rested \/ Die \/ UNCHANGED reportVars
      PROVE  UNCHANGED vars
  BY <1>4 DEF EnqueueUsage, TakeBatch, Unreachable, TooLong, StopWaiting, GiveUp, Rested, Die, reportVars
<1> QED BY <1>1, <1>2, <1>3, <1>4 DEF ReportNext

\* The invariant holds of what the proxy and Pulse have together.
LEMMA ReportHolds == ReportSpec => []ReportInv
<1>1. ASSUME ReportInit PROVE ReportInv
  <2>1. LedgerInv
    <3>1. [m \in Member |-> 1] \in [Member -> Nat]
      OBVIOUS
    <3> QED BY <1>1, <3>1, InitHolds DEF ReportInit
  <2>2. NoFlush \in FlushState /\ FlushFits(NoFlush) /\ NoFlush.batch = <<>> /\ NoFlush.at = "idle"
    BY NoFlushFits DEF NoFlush
  <2>3. /\ usageBuf = <<>> /\ resting = FALSE /\ ended = 0 /\ flush = [f \in Flusher |-> NoFlush]
    BY <1>1 DEF ReportInit, ProxyInit
  <2>4. \A f \in Flusher : flush[f] = NoFlush
    BY <2>3
  <2>5. flush \in [Flusher -> FlushState]
    BY <2>2, <2>3
  <2>6. Proxy
    <3>0. Len(BilledTo) \in Nat /\ ended = 0 /\ resting = FALSE
      BY <2>3, TurnsAre
    <3>1. ended \in Nat /\ ended <= Len(BilledTo) /\ resting \in BOOLEAN
      <4>1. ended \in Nat /\ ended <= Len(BilledTo)
        BY <3>0
      <4>2. resting \in BOOLEAN
        BY <3>0
      <4> QED BY <4>1, <4>2
    <3>2. usageBuf \in Seq(Turns) /\ \A n \in Range(usageBuf) : n <= ended
      BY <2>3, EmptyRange
    <3>3. \A f \in Flusher : FlushFits(flush[f]) /\ \A n \in Range(flush[f].batch) : n <= ended
      BY <2>2, <2>4, EmptyRange
    <3> QED BY <2>5, <3>1, <3>2, <3>3 DEF Proxy
  <2>7. Separate
    BY <2>2, <2>3, <2>4, EmptyRange DEF Separate
  <2>8. Accounted /\ Carried
    BY <2>2, <2>3, <2>4 DEF Accounted, Carried, Waiting
  <2> QED BY <2>1, <2>6, <2>7, <2>8 DEF ReportInv
<1>2. ASSUME ReportInv, [ReportNext]_reportVars PROVE ReportInv'
  <2>1. LedgerInv'
    BY <1>2, ReportSteps, LedgerKept DEF ReportInv
  <2> DEFINE Goal == Proxy' /\ Separate' /\ Accounted' /\ Carried'
  <2>2. ASSUME NEW f \in Flusher, Unreachable(f) \/ TooLong(f) \/ StopWaiting(f) PROVE Goal
    <3>1. /\ Posting(f) \/ flush[f].at = "waiting"
          /\ flush' = TryAgain(f) /\ UNCHANGED <<usageBuf, ended, dropped, resting, usages, tx>>
      BY <2>2 DEF Unreachable, TooLong, StopWaiting, vars
    <3>2. /\ Proxy' /\ Separate' /\ Accounted'
          /\ \A g \in Flusher : flush'[g].at = "waiting" => g # f /\ flush'[g] = flush[g]
      BY <1>2, <3>1, SendsAgain
    <3> QED BY <1>2, <3>1, <3>2, NobodyWaits DEF ReportInv
  <2>3. ASSUME Rested \/ UNCHANGED reportVars PROVE Goal
    <3>1. UNCHANGED <<usageBuf, ended, dropped, flush, usages, tx>> /\ resting' \in BOOLEAN
      BY <1>2, <2>3 DEF Rested, reportVars, proxyVars, vars, ReportInv, Proxy
    <3>2. Carried'
      BY <1>2, <3>1 DEF ReportInv, Carried, Waiting
    <3>3. Proxy' /\ Separate' /\ Accounted'
      BY <1>2, <3>1 DEF ReportInv, Proxy, Separate, Accounted, InFlight, Settled, Committed
    <3> QED BY <3>2, <3>3
  <2>4. Goal
    <3> HIDE DEF Goal
    <3>1. ASSUME NEW g \in Goroutine, EnqueueUsage(g) PROVE Goal
      BY <1>2, <3>1, Enqueues DEF Goal
    <3>2. ASSUME NEW f \in Flusher, TakeBatch(f) \/ GiveUp(f) PROVE Goal
      BY <1>2, <3>2, Takes, GivesUp DEF Goal
    <3>3. ASSUME NEW f \in Flusher, NEW t \in Tx, Post(f, t) \/ AnswerLost(f, t) PROVE Goal
      BY <1>2, <3>3, PostCarries, LosesAnswer DEF Goal
    <3>4. ASSUME NEW t \in Tx, Serve(t) \/ Answered(t) \/ Refused(t) PROVE Goal
      BY <1>2, <3>4, Serves, Answers, Refuses DEF Goal
    <3>5. CASE Die
      BY <1>2, <3>5, Dies DEF Goal
    <3> QED BY <1>2, <2>2, <2>3, <3>1, <3>2, <3>3, <3>4, <3>5 DEF ReportNext
  <2> QED BY <2>1, <2>4 DEF ReportInv
<1> QED BY <1>1, <1>2, PTL DEF ReportSpec

\* Types of the tables, the buffer and the flushes; a flush has a batch exactly while it
\* posts or waits, and never tries more often than usageMaxRetries.
THEOREM ReportTyped == ReportSpec => []ReportTypeOK
<1>1. ReportInv => ReportTypeOK
  <2> SUFFICES ASSUME ReportInv PROVE ReportTypeOK
    OBVIOUS
  <2>1. LedgerTypeOK
    BY InOrder DEF ReportInv
  <2>2. Range(usageBuf) \subseteq Turns /\ resting \in BOOLEAN
    BY DEF ReportInv, Proxy, Range
  <2>3. ASSUME NEW f \in Flusher
        PROVE  /\ flush[f].at \in {"idle", "due", "posting", "waiting"}
               /\ flush[f].tries \in 0 .. usageMaxRetries
               /\ flush[f].at \in {"posting", "waiting"} <=> flush[f].batch # <<>>
               /\ flush[f].at = "waiting" <=> flush[f].by # Nobody
    BY DEF ReportInv, Proxy, FlushState, FlushFits
  <2> QED BY <2>1, <2>2, <2>3 DEF ReportTypeOK
<1> QED BY <1>1, ReportHolds, PTL

\* A turn that ended is in one place of the proxy at most, and unless Pulse has it or it is
\* known dropped, in one at least: flushes that run at once, retries, lost answers, a full
\* buffer and deaths neither mislay nor double one (pulse_client.go:553, 601).
THEOREM TurnsAreKept == ReportSpec => []NoTurnMislaid
<1>1. ReportInv => NoTurnMislaid
  BY DEF ReportInv, Accounted, Separate, NoTurnMislaid, InFlight
<1> QED BY <1>1, ReportHolds, PTL

\* Whatever the data plane sends again or loses, balances are what their lines add up to,
\* and no charge is without its usage.
THEOREM ReportedBooks == ReportSpec => [](StatementAddsUp /\ ChargesMatchUsage)
<1>1. ReportInv => StatementAddsUp /\ ChargesMatchUsage
  BY InOrder DEF ReportInv
<1> QED BY <1>1, ReportHolds, PTL

\* The data plane and the ledger together implement the wallet.
THEOREM ReportedWallet == ReportSpec => WalletSpec
<1>1. ReportInit => Promise!Init
  BY WalletOpens DEF ReportInit
<1>2. ReportInv /\ ReportInv' /\ [ReportNext]_reportVars
         => [Promise!Post]_[m \in Member |-> Statement(m)]
  BY ReportSteps, WalletGoesOn DEF ReportInv
<1> QED BY <1>1, <1>2, ReportHolds, PTL DEF ReportSpec, WalletSpec, Promise!Spec
=============================================================================
