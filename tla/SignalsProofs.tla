---------------------------- MODULE SignalsProofs ----------------------------
(***************************************************************************)
(* Theorems about Merge, Decode, Ledger and Signals, for every chain,      *)
(* every setting, every set of keys and every capacity: the merge actor    *)
(* by itself; what the decoder makes of a transaction; what the journal    *)
(* books; what the strategy acts on; what is taken for confirmed; what a   *)
(* buy asks for; and what the tokens that are left have cost.              *)
(***************************************************************************)
EXTENDS Signals, FiniteSetTheorems, WellFoundedInduction, TLAPS

(***************************************************************************)
(* Queues: appending a new key and dropping the oldest.                    *)
(***************************************************************************)
LEMMA AppendKey ==
  ASSUME NEW q \in Seq(Keys), NEW k \in Keys, IsInjective(q), k \notin Range(q)
  PROVE  LET a == Append(q, k) IN
         /\ a \in Seq(Keys) /\ Len(a) = Len(q) + 1
         /\ \A i \in 1..Len(q) : a[i] = q[i]
         /\ a[Len(q) + 1] = k
         /\ IsInjective(a)
         /\ Range(a) = Range(q) \cup {k}
<1> DEFINE a == Append(q, k)
<1>1. /\ a \in Seq(Keys) /\ Len(a) = Len(q) + 1
      /\ \A i \in 1..Len(q) : a[i] = q[i]
      /\ a[Len(q) + 1] = k
  OBVIOUS
<1>2. DOMAIN q = 1..Len(q) /\ DOMAIN a = 1..(Len(q) + 1) /\ Len(q) \in Nat
  BY <1>1
<1>3. IsInjective(a)
  BY <1>1, <1>2 DEF IsInjective, Range
<1>4. Range(a) = Range(q) \cup {k}
  <2>1. \A i \in DOMAIN a : a[i] \in Range(q) \cup {k}
    BY <1>1, <1>2 DEF Range
  <2>2. \A i \in DOMAIN q : q[i] \in Range(a)
    BY <1>1, <1>2 DEF Range
  <2>3. k \in Range(a)
    BY <1>1, <1>2 DEF Range
  <2> QED
    BY <2>1, <2>2, <2>3 DEF Range
<1> QED
  BY <1>1, <1>3, <1>4

\* A queue without its head.
LEMMA DropOldest ==
  ASSUME NEW q \in Seq(Keys), q # <<>>, IsInjective(q)
  PROVE  /\ Tail(q) \in Seq(Keys) /\ Len(Tail(q)) = Len(q) - 1
         /\ \A i \in 1..(Len(q) - 1) : Tail(q)[i] = q[i + 1]
         /\ Head(q) = q[1] /\ Head(q) \in Keys
         /\ IsInjective(Tail(q))
         /\ Range(Tail(q)) = Range(q) \ {Head(q)}
<1>1. /\ Tail(q) \in Seq(Keys) /\ Len(Tail(q)) = Len(q) - 1
      /\ \A i \in 1..(Len(q) - 1) : Tail(q)[i] = q[i + 1]
      /\ Head(q) = q[1] /\ Head(q) \in Keys
  OBVIOUS
<1>2. /\ Len(q) \in Nat \ {0}
      /\ DOMAIN q = 1..Len(q) /\ DOMAIN Tail(q) = 1..(Len(q) - 1)
  BY <1>1
<1>3. IsInjective(Tail(q))
  BY <1>1, <1>2 DEF IsInjective
<1>4. Range(Tail(q)) = Range(q) \ {Head(q)}
  <2>1. \A i \in DOMAIN Tail(q) : Tail(q)[i] \in Range(q) \ {Head(q)}
    BY <1>1, <1>2 DEF Range, IsInjective
  <2>2. ASSUME NEW i \in DOMAIN q, q[i] # Head(q)
        PROVE  q[i] \in Range(Tail(q))
    <3>1. i # 1 /\ i - 1 \in DOMAIN Tail(q) /\ Tail(q)[i - 1] = q[i]
      BY <2>2, <1>1, <1>2
    <3> QED
      BY <3>1 DEF Range
  <2> QED
    BY <2>1, <2>2 DEF Range
<1> QED
  BY <1>1, <1>3, <1>4

(***************************************************************************)
(* A duplicate changes neither the queue nor the table.                    *)
(***************************************************************************)
LEMMA DuplicateStep ==
  ASSUME IInv, NEW k \in Keys, NEW source \in Sources, Duplicate(k, source)
  PROVE  IInv'
<1> USE DEF IInv
<1>1. UNCHANGED <<first, order, since>> /\ first[k] # "none"
  BY DEF Duplicate
<1>2. CASE ShouldForward(k, source)
  <2>1. /\ enriched' = enriched \cup {k} /\ passed' = passed \cup {k}
        /\ out' = [key |-> k, complete |-> TRUE, replayed |-> TRUE]
        /\ first[k] = "shred"
        /\ got' \subseteq got \cup {k}
    BY <1>2 DEF Duplicate, ShouldForward
  <2>2. MergeTypeOK'
    BY <1>1, <2>1 DEF MergeTypeOK, Event
  <2>3. Window'
    BY <1>1 DEF Window
  <2>4. MemoryIsExact'
    BY <1>1, <2>1 DEF MemoryIsExact
  <2>5. CompleteGetsThrough'
    BY <2>1 DEF CompleteGetsThrough
  <2> QED
    BY <2>2, <2>3, <2>4, <2>5
<1>3. CASE ~ShouldForward(k, source)
  <2>1. UNCHANGED <<enriched, passed>> /\ out' = Nothing
    BY <1>3 DEF Duplicate
  <2>2. Complete(source) => k \in passed
    BY <1>1, <1>3 DEF ShouldForward, MemoryIsExact, MergeTypeOK, Sources
  <2>3. got' \subseteq passed'
    BY <2>1, <2>2 DEF Duplicate, CompleteGetsThrough
  <2>4. MergeTypeOK'
    BY <1>1, <2>1, <2>3 DEF MergeTypeOK
  <2>5. Window' /\ MemoryIsExact'
    BY <1>1, <2>1 DEF Window, MemoryIsExact
  <2> QED
    BY <2>3, <2>4, <2>5 DEF CompleteGetsThrough
<1> QED
  BY <1>2, <1>3

(***************************************************************************)
(* A first report appends its key; a key that leaves the queue thereby has *)
(* been followed by Capacity others.                                       *)
(***************************************************************************)
LEMMA FirstReportStep ==
  ASSUME IInv, NEW k \in Keys, NEW source \in Sources, FirstReport(k, source)
  PROVE  IInv'
<1> DEFINE queue == Append(order, k)
           known == [first EXCEPT ![k] = source]
           h == Head(queue)
           passedNow == With(passed, k, Complete(source))
<1> USE MergeAssumption DEF IInv
<1>0. k \notin Range(order) /\ IsInjective(order) /\ order \in Seq(Keys) /\ first[k] = "none"
  BY DEF MergeTypeOK, FirstReport
<1>1. /\ queue \in Seq(Keys) /\ Len(queue) = Len(order) + 1
      /\ \A i \in 1..Len(order) : queue[i] = order[i]
      /\ queue[Len(order) + 1] = k
      /\ IsInjective(queue)
      /\ Range(queue) = Range(order) \cup {k}
  BY <1>0, AppendKey
<1>2. Len(order) \in Nat /\ Len(order) <= Capacity
  BY DEF MergeTypeOK
<1>3. /\ got' = With(got, k, Complete(source)) /\ passed' = passedNow
      /\ got' \subseteq Keys /\ passed' \subseteq Keys /\ got' \subseteq passed'
      /\ k \in passed' <=> Complete(source)
      /\ \A j \in Keys : j # k => (j \in passed' <=> j \in passed)
  BY DEF FirstReport, With, MergeTypeOK, CompleteGetsThrough
<1>4. /\ out' \in Event
      /\ since' = [j \in Keys |-> IF j = k THEN 0 ELSE OneMore(j)]
      /\ since' \in [Keys -> 0..Capacity]
  BY DEF FirstReport, Event, Complete, OneMore, MergeTypeOK
<1>5. \A i \in 1..Len(queue) : since'[queue[i]] = Len(queue) - i
  <2> TAKE i \in 1..Len(queue)
  <2>1. CASE i = Len(queue)
    BY <2>1, <1>1, <1>2, <1>4
  <2>2. CASE i # Len(queue)
    <3>1. i \in 1..Len(order) /\ queue[i] = order[i]
      BY <2>2, <1>1, <1>2
    <3>2. order[i] \in Keys /\ order[i] # k
      BY <3>1, <1>0, <1>2 DEF Range
    <3>3. since[order[i]] = Len(order) - i /\ since[order[i]] < Capacity
      BY <3>1, <1>2 DEF Window
    <3>4. since'[order[i]] = since[order[i]] + 1
      BY <3>2, <3>3, <1>4 DEF OneMore
    <3> QED
      BY <3>1, <3>3, <3>4, <1>1, <1>2
  <2> QED
    BY <2>1, <2>2
<1>6. \A j \in Keys : j # k /\ first[j] = "none" => since'[j] = Capacity
  BY <1>4 DEF Window, OneMore, MergeTypeOK
<1>7. /\ known \in [Keys -> Sources \cup {"none"}]
      /\ \A j \in Keys : known[j] # "none" <=> j \in Range(queue)
      /\ source # "none"
  BY <1>0, <1>1 DEF MergeTypeOK, Sources
<1>8. /\ \A j \in Keys : j \in enriched \ {k} => known[j] = "shred"
      /\ \A j \in Keys : known[j] = "shred" => (j \in enriched \ {k} <=> j \in passed')
      /\ \A j \in Keys : known[j] \in {"live", "replay"} => j \in passed'
  BY <1>0, <1>3 DEF MemoryIsExact, MergeTypeOK, Complete, Sources
<1>9. CASE Overflows(queue)
  <2>1. /\ order' = Tail(queue) /\ first' = [known EXCEPT ![h] = "none"]
        /\ enriched' = (enriched \ {k}) \ {h}
    BY <1>9 DEF FirstReport, Forget
  <2>2. Len(order) = Capacity /\ Len(queue) = Capacity + 1 /\ queue # <<>>
    BY <1>9, <1>1, <1>2 DEF Overflows
  <2>3. /\ order' \in Seq(Keys) /\ Len(order') = Capacity
        /\ \A i \in 1..Capacity : order'[i] = queue[i + 1]
        /\ h = queue[1] /\ h \in Keys
        /\ IsInjective(order') /\ Range(order') = Range(queue) \ {h}
    <3> HIDE DEF queue
    <3>1. /\ Tail(queue) \in Seq(Keys) /\ Len(Tail(queue)) = Len(queue) - 1
          /\ \A i \in 1..(Len(queue) - 1) : Tail(queue)[i] = queue[i + 1]
          /\ h = queue[1] /\ h \in Keys
          /\ IsInjective(Tail(queue))
          /\ Range(Tail(queue)) = Range(queue) \ {h}
      BY <2>2, <1>1, DropOldest
    <3> QED
      BY <3>1, <2>1, <2>2
  <2>4. since'[h] = Capacity /\ h # k
    BY <2>2, <2>3, <1>1, <1>2, <1>5, <1>0 DEF Range
  <2>5. MergeTypeOK'
    <3>1. first' \in [Keys -> Sources \cup {"none"}]
      BY <2>1, <2>3, <1>7
    <3>2. \A j \in Keys : first'[j] # "none" <=> j \in Range(order')
      BY <2>1, <2>3, <1>7
    <3>3. Range(order') = {j \in Keys : first'[j] # "none"}
      BY <3>2, <2>3 DEF Range
    <3>4. enriched' \subseteq {j \in Keys : first'[j] = "shred"}
      BY <2>1, <2>3, <1>7, <1>8 DEF MergeTypeOK
    <3> QED
      BY <3>1, <3>3, <3>4, <2>3, <1>3, <1>4 DEF MergeTypeOK
  <2>6. Window'
    <3>1. \A i \in 1..Len(order') : since'[order'[i]] = Len(order') - i
      BY <2>2, <2>3, <1>5
    <3>2. \A j \in Keys : first'[j] = "none" => since'[j] = Capacity
      BY <2>1, <2>3, <2>4, <1>6, <1>7, <1>0
    <3> QED
      BY <3>1, <3>2 DEF Window
  <2>7. MemoryIsExact'
    BY <2>1, <2>3, <1>7, <1>8 DEF MemoryIsExact
  <2> QED
    BY <2>5, <2>6, <2>7, <1>3 DEF CompleteGetsThrough
<1>10. CASE ~Overflows(queue)
  <2>1. order' = queue /\ first' = known /\ enriched' = enriched \ {k}
    BY <1>10 DEF FirstReport
  <2>2. Len(queue) <= Capacity
    BY <1>10, <1>1, <1>2 DEF Overflows
  <2>3. Range(order') = {j \in Keys : first'[j] # "none"}
    BY <2>1, <1>1, <1>7 DEF Range
  <2>4. MergeTypeOK'
    BY <2>1, <2>2, <2>3, <1>1, <1>3, <1>4, <1>7, <1>8 DEF MergeTypeOK
  <2>5. \A j \in Keys : first'[j] = "none" => since'[j] = Capacity
    BY <2>1, <1>0, <1>6, <1>7 DEF MergeTypeOK
  <2>6. Window'
    BY <2>1, <2>5, <1>5 DEF Window
  <2>7. MemoryIsExact'
    BY <2>1, <1>8 DEF MemoryIsExact
  <2> QED
    BY <2>4, <2>6, <2>7, <1>3 DEF CompleteGetsThrough
<1> QED
  BY <1>9, <1>10

\* Initially nothing is remembered.
LEMMA MergeInit == Init => IInv
<1> SUFFICES ASSUME Init PROVE IInv
  OBVIOUS
<1>1. Range(order) = {} /\ IsInjective(order) /\ Len(order) = 0 /\ order \in Seq(Keys)
  BY DEF Init, Range, IsInjective
<1>2. MergeTypeOK
  BY <1>1, MergeAssumption DEF Init, MergeTypeOK
<1>3. Window /\ MemoryIsExact /\ CompleteGetsThrough
  BY <1>1 DEF Init, Window, MemoryIsExact, CompleteGetsThrough
<1> QED
  BY <1>2, <1>3 DEF IInv

(***************************************************************************)
(* The inductive invariant holds: queue, table and history of every key    *)
(* agree (merge.rs:17-45).                                                 *)
(***************************************************************************)
THEOREM MergeInvariant == Spec => []IInv
<1>2. IInv /\ [Next]_vars => IInv'
  <2> SUFFICES ASSUME IInv, [Next]_vars PROVE IInv'
    OBVIOUS
  <2>1. CASE UNCHANGED vars
    BY <2>1 DEF vars, IInv, MergeTypeOK, Window, MemoryIsExact, CompleteGetsThrough
  <2>2. ASSUME NEW k \in Keys, NEW source \in Sources, Duplicate(k, source)
        PROVE  IInv'
    BY <2>2, DuplicateStep
  <2>3. ASSUME NEW k \in Keys, NEW source \in Sources, FirstReport(k, source)
        PROVE  IInv'
    BY <2>3, FirstReportStep
  <2> QED
    BY <2>1, <2>2, <2>3 DEF Next
<1> QED
  BY <1>2, MergeInit, PTL DEF Spec

(***************************************************************************)
(* A complete copy that came in went out, or one before it did.            *)
(***************************************************************************)
THEOREM CompleteGetsThroughHolds == Spec => []CompleteGetsThrough
<1>1. IInv => CompleteGetsThrough
  BY DEF IInv
<1> QED
  BY <1>1, MergeInvariant, PTL

(***************************************************************************)
(* Of a key reported less than Capacity keys ago nothing goes out again    *)
(* but its complete copy, once and marked as a replay (merge.rs:20-30).    *)
(***************************************************************************)
THEOREM OncePerKeyHolds == Spec => OncePerKey
<1> DEFINE Once == out' # Nothing /\ since[out'.key] < Capacity
                     => out'.complete /\ out'.replayed /\ out'.key \notin passed
<1>1. ASSUME IInv, Next PROVE Once
  <2>1. ASSUME NEW k \in Keys, NEW source \in Sources, Duplicate(k, source)
        PROVE  Once
    <3>1. CASE ShouldForward(k, source)
      <4>1. out' = [key |-> k, complete |-> TRUE, replayed |-> TRUE]
        BY <2>1, <3>1 DEF Duplicate
      <4>2. k \notin passed
        BY <3>1, <1>1 DEF ShouldForward, IInv, MemoryIsExact
      <4> QED
        BY <4>1, <4>2
    <3>2. CASE ~ShouldForward(k, source)
      BY <2>1, <3>2 DEF Duplicate
    <3> QED
      BY <3>1, <3>2
  <2>2. ASSUME NEW k \in Keys, NEW source \in Sources, FirstReport(k, source)
        PROVE  Once
    <3>1. out'.key = k /\ first[k] = "none"
      BY <2>2 DEF FirstReport
    <3>2. since[k] = Capacity
      BY <3>1, <1>1 DEF IInv, Window
    <3> QED
      BY <3>1, <3>2, MergeAssumption
  <2> QED
    BY <1>1, <2>1, <2>2 DEF Next
<1>2. IInv /\ [Next]_vars => [Once]_vars
  BY <1>1
<1> QED
  BY <1>2, MergeInvariant, PTL DEF Spec, OncePerKey

(***************************************************************************)
(* The members of a finite set of numbers, in increasing order.            *)
(***************************************************************************)
Below(S, i) == {j \in S : j < i}

\* The rank of a member is the number of members below it; a greater member has a
\* greater rank.
LEMMA RankGrows ==
  ASSUME NEW S \in SUBSET Nat, IsFiniteSet(S)
  PROVE  /\ Cardinality(S) \in Nat
         /\ \A i \in S : Cardinality(Below(S, i)) \in 0..(Cardinality(S) - 1)
         /\ \A i, j \in S : i < j => Cardinality(Below(S, i)) < Cardinality(Below(S, j))
<1>1. ASSUME NEW T \in SUBSET S, NEW R \in SUBSET T, NEW i \in T \ R
      PROVE  /\ Cardinality(R) < Cardinality(T)
             /\ Cardinality(T) \in Nat /\ Cardinality(R) \in Nat
  <2>1. IsFiniteSet(T)
    BY FS_Subset
  <2>2. IsFiniteSet(R) /\ Cardinality(R) <= Cardinality(T) /\ Cardinality(R) # Cardinality(T)
    BY <2>1, <1>1, FS_Subset
  <2> QED
    BY <2>1, <2>2, FS_CardinalityType
<1>2. ASSUME NEW i \in S
      PROVE  Cardinality(Below(S, i)) \in 0..(Cardinality(S) - 1)
  <2>1. Below(S, i) \in SUBSET S /\ i \in S \ Below(S, i) /\ S \in SUBSET S
    BY DEF Below
  <2> HIDE DEF Below
  <2>2. /\ Cardinality(Below(S, i)) < Cardinality(S)
        /\ Cardinality(S) \in Nat /\ Cardinality(Below(S, i)) \in Nat
    BY <2>1, <1>1
  <2> QED
    BY <2>2
<1>3. ASSUME NEW i \in S, NEW j \in S, i < j
      PROVE  Cardinality(Below(S, i)) < Cardinality(Below(S, j))
  <2>0. i \in Nat /\ j \in Nat /\ \A k \in S : k \in Nat /\ (k < i => k < j) /\ ~(i < i)
    BY <1>3
  <2>1. /\ Below(S, j) \in SUBSET S /\ Below(S, i) \in SUBSET Below(S, j)
        /\ i \in Below(S, j) \ Below(S, i)
    BY <2>0, <1>3 DEF Below
  <2> QED
    BY <2>1, <1>1
<1> QED
  BY <1>2, <1>3, FS_CardinalityType

\* InOrder enumerates a finite set of numbers, each member at its rank.
LEMMA InOrderIs ==
  ASSUME NEW S \in SUBSET Nat, IsFiniteSet(S)
  PROVE  /\ Cardinality(S) \in Nat
         /\ InOrder(S) \in [1..Cardinality(S) -> S]
         /\ \A k \in 1..Cardinality(S) : Cardinality(Below(S, InOrder(S)[k])) = k - 1
         /\ \A i \in S : /\ Cardinality(Below(S, i)) + 1 \in 1..Cardinality(S)
                         /\ InOrder(S)[Cardinality(Below(S, i)) + 1] = i
<1> DEFINE n == Cardinality(S)
           rank(i) == Cardinality(Below(S, i))
           f == InOrder(S)
           g == [i \in S |-> rank(i) + 1]
<1>1. /\ n \in Nat
      /\ \A i \in S : rank(i) \in 0..(n - 1)
      /\ \A i, j \in S : i < j => rank(i) < rank(j)
  BY RankGrows
<1> HIDE DEF rank
<1>2. \A i, j \in S : rank(i) = rank(j) => i = j
  BY <1>1
<1>3. \A k \in 1..n : \E i \in S : rank(i) = k - 1
  <2>1. g \in [S -> 1..n]
    BY <1>1
  <2>2. g \in Injection(S, 1..n)
    BY <2>1, <1>1, <1>2 DEF Injection, IsInjective
  <2>3. IsFiniteSet(1..n) /\ Cardinality(1..n) = n
    BY <1>1, FS_Interval
  <2> HIDE DEF g
  <2>4. g \in Surjection(S, 1..n)
    BY <2>2, <2>3, FS_Injection
  <2>5. \A k \in 1..n : \E i \in S : g[i] = k
    BY <2>4 DEF Surjection
  <2> QED
    BY <2>5, <1>1 DEF g
<1>4. f = [k \in 1..n |-> CHOOSE i \in S : rank(i) = k - 1]
  BY DEF InOrder, rank, Below
<1>5. \A k \in 1..n : f[k] \in S /\ rank(f[k]) = k - 1
  BY <1>3, <1>4
<1>6. \A i \in S : rank(i) + 1 \in 1..n /\ rank(f[rank(i) + 1]) = rank(i)
  BY <1>1, <1>5
<1>7. \A i \in S : f[rank(i) + 1] = i
  BY <1>2, <1>5, <1>6
<1>8. f \in [1..n -> S]
  BY <1>4, <1>5
<1> QED
  BY <1>1, <1>5, <1>6, <1>7, <1>8 DEF rank
\* ... and does so in increasing order.
LEMMA InOrderGrows ==
  ASSUME NEW S \in SUBSET Nat, IsFiniteSet(S)
  PROVE  \A k, l \in 1..Cardinality(S) : k < l => InOrder(S)[k] < InOrder(S)[l]
<1> DEFINE n == Cardinality(S)
           f == InOrder(S)
           rank(i) == Cardinality(Below(S, i))
<1>1. /\ n \in Nat /\ f \in [1..n -> S]
      /\ \A k \in 1..n : rank(f[k]) = k - 1
  BY InOrderIs
<1>2. \A i, j \in S : i < j => rank(i) < rank(j)
  BY RankGrows
<1> HIDE DEF n, f, rank
<1>3. ASSUME NEW k \in 1..n, NEW l \in 1..n, k < l
      PROVE  f[k] < f[l]
  <2>1. f[k] \in S /\ f[l] \in S /\ f[k] \in Nat /\ f[l] \in Nat
    BY <1>1
  <2>2. f[l] # f[k] /\ ~(f[l] < f[k])
    BY <2>1, <1>1, <1>2, <1>3
  <2> QED
    BY <2>1, <2>2
<1> QED
  BY <1>3 DEF n, f

\* The members of an initial segment have the same numbers in the whole set.
LEMMA SegmentNumbers ==
  ASSUME NEW S \in SUBSET Nat, IsFiniteSet(S), NEW T \in SUBSET S,
         \A i \in T, j \in S : j < i => j \in T
  PROVE  /\ \A k \in 1..Cardinality(T) :
              k \in 1..Cardinality(S) /\ InOrder(S)[k] = InOrder(T)[k]
         /\ \A i \in T : Below(S, i) = Below(T, i)
<1>1. IsFiniteSet(T) /\ T \in SUBSET Nat
  BY FS_Subset
<1>2. \A i \in T : Below(S, i) = Below(T, i)
  BY DEF Below
<1>3. /\ \A k \in 1..Cardinality(T) :
           InOrder(T)[k] \in T /\ Cardinality(Below(T, InOrder(T)[k])) = k - 1
      /\ Cardinality(T) \in Nat
  BY <1>1, InOrderIs
<1>4. \A i \in S : /\ Cardinality(Below(S, i)) + 1 \in 1..Cardinality(S)
                   /\ InOrder(S)[Cardinality(Below(S, i)) + 1] = i
  BY InOrderIs
<1>5. ASSUME NEW k \in 1..Cardinality(T)
      PROVE  k \in 1..Cardinality(S) /\ InOrder(S)[k] = InOrder(T)[k]
  <2>1. Cardinality(Below(S, InOrder(T)[k])) = k - 1 /\ InOrder(T)[k] \in S
    BY <1>2, <1>3
  <2>2. Cardinality(Below(S, InOrder(T)[k])) + 1 = k
    BY <2>1, <1>3
  <2> QED
    BY <2>1, <2>2, <1>4
<1> QED
  BY <1>2, <1>5

\* g maps T to G, in the same order.
Ordered(g, T, G) ==
  /\ \A i \in T : g[i] \in Nat
  /\ \A i, j \in T : i < j => g[i] < g[j]
  /\ G = {g[i] : i \in T}

\* An increasing function carries the enumeration of a set to that of its image.
LEMMA ImageInOrder ==
  ASSUME NEW T \in SUBSET Nat, IsFiniteSet(T), NEW g, NEW G, Ordered(g, T, G)
  PROVE  /\ IsFiniteSet(G) /\ G \in SUBSET Nat /\ Cardinality(G) = Cardinality(T)
         /\ \A k \in 1..Cardinality(T) : InOrder(G)[k] = g[InOrder(T)[k]]
<1> DEFINE Image(U) == {g[i] : i \in U}
<1>0. /\ \A i \in T : g[i] \in Nat
      /\ \A i, j \in T : i < j => g[i] < g[j]
      /\ G = Image(T)
  BY DEF Ordered
<1>1. \A i, j \in T : g[i] = g[j] => i = j
  <2> TAKE i, j \in T
  <2>1. i \in Nat /\ j \in Nat /\ g[i] \in Nat /\ g[j] \in Nat
    BY <1>0
  <2> QED
    BY <2>1, <1>0
<1>2. ASSUME NEW U \in SUBSET T
      PROVE  IsFiniteSet(Image(U)) /\ Cardinality(Image(U)) = Cardinality(U)
  <2> DEFINE b == [i \in U |-> g[i]]
  <2>1. b \in [U -> Image(U)] /\ \A x \in Image(U) : \E i \in U : b[i] = x
    OBVIOUS
  <2>2. \A i, j \in U : b[i] = b[j] => i = j
    BY <1>1
  <2> HIDE DEF b
  <2>3. b \in Bijection(U, Image(U))
    BY <2>1, <2>2, Zenon DEF Bijection, Injection, Surjection, IsInjective
  <2>4. IsFiniteSet(U)
    BY FS_Subset
  <2> QED
    BY <2>3, <2>4, FS_Bijection DEF ExistsBijection
<1>3. Image(T) \in SUBSET Nat
  BY <1>0
<1>4. ASSUME NEW i \in T
      PROVE  Cardinality(Below(Image(T), g[i])) = Cardinality(Below(T, i))
  <2>1. \A j \in T : g[j] < g[i] <=> j < i
    <3> TAKE j \in T
    <3>1. i \in Nat /\ j \in Nat /\ g[i] \in Nat /\ g[j] \in Nat
      BY <1>0, <1>4
    <3> QED
      BY <3>1, <1>0, <1>4
  <2>2. Below(Image(T), g[i]) = Image(Below(T, i))
    BY <2>1 DEF Below
  <2> QED
    BY <2>2, <1>2 DEF Below
<1> HIDE DEF Image
<1>5. T \in SUBSET T
  OBVIOUS
<1>6. /\ \A k \in 1..Cardinality(T) :
           InOrder(T)[k] \in T /\ Cardinality(Below(T, InOrder(T)[k])) = k - 1
      /\ Cardinality(T) \in Nat
  BY InOrderIs
<1>7. \A x \in Image(T) : InOrder(Image(T))[Cardinality(Below(Image(T), x)) + 1] = x
  BY <1>2, <1>3, <1>5, InOrderIs
<1>8. ASSUME NEW k \in 1..Cardinality(T)
      PROVE  InOrder(Image(T))[k] = g[InOrder(T)[k]]
  <2>1. g[InOrder(T)[k]] \in Image(T)
    BY <1>6 DEF Image
  <2>2. Cardinality(Below(Image(T), g[InOrder(T)[k]])) = k - 1
    BY <1>4, <1>6
  <2>3. Cardinality(Below(Image(T), g[InOrder(T)[k]])) + 1 = k
    BY <2>2, <1>6
  <2> QED
    BY <2>1, <2>3, <1>7
<1> QED
  BY <1>0, <1>2, <1>3, <1>5, <1>8

(***************************************************************************)
(* Logs: the first n of the members of S; those of them that are in Q come *)
(* in the order of Q and are its first.                                    *)
(***************************************************************************)
UpTo(Q, i) == {j \in Q : j <= i}

\* In the enumeration of Q member i has the place of its turn.
LEMMA Turns ==
  ASSUME NEW Q \in SUBSET Nat, IsFiniteSet(Q)
  PROVE  /\ \A i \in Q : /\ Cardinality(UpTo(Q, i)) \in 1..Cardinality(Q)
                         /\ InOrder(Q)[Cardinality(UpTo(Q, i))] = i
         /\ \A k \in 1..Cardinality(Q) : Cardinality(UpTo(Q, InOrder(Q)[k])) = k
<1>1. ASSUME NEW i \in Q
      PROVE  Cardinality(UpTo(Q, i)) = Cardinality(Below(Q, i)) + 1
  <2>0. i \in Nat /\ \A j \in Q : j \in Nat /\ (j <= i <=> j < i \/ j = i) /\ ~(i < i)
    OBVIOUS
  <2>1. UpTo(Q, i) = Below(Q, i) \cup {i} /\ i \notin Below(Q, i)
    BY <2>0 DEF UpTo, Below
  <2>2. Below(Q, i) \in SUBSET Q
    BY DEF Below
  <2>3. IsFiniteSet(Below(Q, i))
    BY <2>2, FS_Subset
  <2> QED
    BY <2>1, <2>3, FS_AddElement
<1>2. ASSUME NEW k \in 1..Cardinality(Q)
      PROVE  Cardinality(UpTo(Q, InOrder(Q)[k])) = k
  <2>1. /\ InOrder(Q)[k] \in Q /\ Cardinality(Below(Q, InOrder(Q)[k])) = k - 1
        /\ Cardinality(Q) \in Nat
    BY InOrderIs
  <2>2. Cardinality(UpTo(Q, InOrder(Q)[k])) = Cardinality(Below(Q, InOrder(Q)[k])) + 1
    BY <2>1, <1>1
  <2> QED
    BY <2>1, <2>2
<1> QED
  BY <1>1, <1>2, InOrderIs

\* T are the lines of the log whose instruction is in Q.
Selects(T, log, n, Q) == T = {k \in 1..n : log[k] \in Q}

\* log are the first n of the members of S.
Begins(log, n, S) ==
  n \in 0..Cardinality(S) /\ \A k \in 1..n : log[k] = InOrder(S)[k]

\* The k-th line in T is that of the k-th member of Q.
FirstOf(T, log, n, Q) ==
  /\ IsFiniteSet(T) /\ T \in SUBSET (1..n)
  /\ \A k \in 1..Cardinality(T) :
       /\ InOrder(T)[k] \in T /\ k \in 1..Cardinality(Q)
       /\ log[InOrder(T)[k]] = InOrder(Q)[k]
  /\ \A j \in T : /\ Cardinality(UpTo(Q, log[j])) \in 1..Cardinality(T)
                  /\ InOrder(T)[Cardinality(UpTo(Q, log[j]))] = j

\* The logs are cut at the end, so that the n-th logged trade of any class of trades is
\* the n-th executed one (decode.rs:311-330, 566).
LEMMA LoggedPart ==
  ASSUME NEW S \in SUBSET Nat, IsFiniteSet(S), NEW n, NEW log, Begins(log, n, S),
         NEW Q \in SUBSET S, NEW T, Selects(T, log, n, Q)
  PROVE  FirstOf(T, log, n, Q)
<1> DEFINE G == {log[k] : k \in T}
<1> USE DEF Selects, Begins
<1>1. Cardinality(S) \in Nat /\ InOrder(S) \in [1..Cardinality(S) -> S]
  BY InOrderIs
<1>2. /\ T \in SUBSET (1..n) /\ T \in SUBSET Nat /\ n \in Nat
      /\ \A k \in 1..n : log[k] \in S /\ log[k] \in Nat
  <2>1. n \in Nat /\ \A k \in 1..n : k \in 1..Cardinality(S) /\ k \in Nat
    BY <1>1
  <2>2. \A k \in 1..n : log[k] \in S
    BY <2>1, <1>1
  <2> QED
    BY <2>1, <2>2
<1>3. IsFiniteSet(T) /\ IsFiniteSet(Q) /\ Q \in SUBSET Nat
  <2>1. IsFiniteSet(1..n)
    BY <1>2, FS_Interval
  <2> QED
    BY <2>1, <1>2, FS_Subset
<1>4. \A k, l \in 1..n : k < l <=> log[k] < log[l]
  <2>1. \A k, l \in 1..n : k < l => log[k] < log[l]
    BY <1>1, InOrderGrows
  <2> TAKE k, l \in 1..n
  <2>2. k \in Nat /\ l \in Nat /\ log[k] \in Nat /\ log[l] \in Nat
    BY <1>2
  <2> QED
    BY <2>1, <2>2
<1>5. /\ IsFiniteSet(G) /\ G \in SUBSET Nat /\ Cardinality(G) = Cardinality(T)
      /\ \A k \in 1..Cardinality(T) : InOrder(G)[k] = log[InOrder(T)[k]]
  <2>1. Ordered(log, T, G)
    BY <1>2, <1>4 DEF Ordered
  <2> HIDE DEF G
  <2> QED
    BY <2>1, <1>2, <1>3, ImageInOrder
<1>6. G \in SUBSET Q
  OBVIOUS
<1>7. ASSUME NEW i \in G, NEW j \in Q, j < i
      PROVE  j \in G
  <2>1. PICK k \in T : i = log[k]
    OBVIOUS
  <2>2. j \in S /\ j \in Nat /\ i \in S /\ i \in Nat
    BY <1>2, <1>6
  <2>3. PICK l \in 1..Cardinality(S) : j = InOrder(S)[l]
    BY <2>2, InOrderIs
  <2>4. k \in 1..n /\ k \in 1..Cardinality(S) /\ i = InOrder(S)[k]
    BY <2>1, <1>1, <1>2
  <2>5. l <= k
    BY <2>2, <2>3, <2>4, <1>7, <1>1, InOrderGrows
  <2>6. l \in 1..n
    BY <2>4, <2>5, <1>1
  <2> QED
    BY <2>3, <2>6
<1> HIDE DEF G
<1>8. /\ \A k \in 1..Cardinality(G) : k \in 1..Cardinality(Q) /\ InOrder(Q)[k] = InOrder(G)[k]
      /\ \A i \in G : Below(Q, i) = Below(G, i)
  BY <1>3, <1>6, <1>7, SegmentNumbers
<1>9. ASSUME NEW j \in T
      PROVE  /\ Cardinality(UpTo(Q, log[j])) \in 1..Cardinality(T)
             /\ InOrder(T)[Cardinality(UpTo(Q, log[j]))] = j
  <2>1. log[j] \in G /\ log[j] \in Nat
    BY <1>2 DEF G
  <2>2. UpTo(Q, log[j]) = UpTo(G, log[j])
    <3>1. ASSUME NEW i \in Q, i <= log[j]
          PROVE  i \in G
      <4>1. i \in Nat /\ (i = log[j] \/ i < log[j])
        BY <2>1, <3>1, <1>3
      <4> QED
        BY <4>1, <2>1, <1>7
    <3> QED
      BY <3>1, <1>6 DEF UpTo
  <2> DEFINE t == Cardinality(UpTo(G, log[j]))
  <2>3. t \in 1..Cardinality(T) /\ InOrder(G)[t] = log[j]
    BY <2>1, <1>5, Turns
  <2> HIDE DEF t
  <2>4. log[InOrder(T)[t]] = log[j] /\ InOrder(T)[t] \in T
    BY <2>3, <1>2, <1>3, <1>5, InOrderIs
  <2>5. InOrder(T)[t] \in 1..n /\ j \in 1..n
    BY <2>4, <1>2
  <2>6. log[j] \in Nat /\ ~(InOrder(T)[t] < j) /\ ~(j < InOrder(T)[t])
    BY <2>1, <2>4, <2>5, <1>4
  <2>7. InOrder(T)[t] = j
    BY <2>5, <2>6
  <2> QED
    BY <2>2, <2>3, <2>7 DEF t
<1>10. \A k \in 1..Cardinality(T) : InOrder(T)[k] \in T
  BY <1>2, <1>3, InOrderIs
<1> QED
  BY <1>2, <1>3, <1>5, <1>8, <1>9, <1>10 DEF FirstOf

-----------------------------------------------------------------------------
(***************************************************************************)
(* Instructions in execution order.                                        *)
(***************************************************************************)
LEMMA LeastOf ==
  ASSUME NEW X \in SUBSET Nat, X # {}
  PROVE  \E d \in X : \A e \in X : d <= e
<1>1. PICK d \in X : \A e \in X : ~(<<e, d>> \in OpToRel(<, Nat))
  BY NatLessThanWellFounded, WFMin
<1>2. ASSUME NEW e \in X
      PROVE  d <= e
  <2>1. e \in Nat /\ d \in Nat /\ ~(e < d)
    BY <1>1 DEF OpToRel
  <2> QED
    BY <2>1
<1> QED
  BY <1>2

\* A concatenation has the members of both sequences.
LEMMA Concatenation ==
  ASSUME NEW C, NEW a \in Seq(C), NEW b \in Seq(C)
  PROVE  /\ a \o b \in Seq(C)
         /\ Range(a) \subseteq Range(a \o b) /\ Range(b) \subseteq Range(a \o b)
<1>1. /\ a \o b \in Seq(C) /\ DOMAIN (a \o b) = 1..(Len(a) + Len(b))
      /\ \A i \in 1..Len(a) : (a \o b)[i] = a[i]
      /\ \A i \in 1..Len(b) : (a \o b)[Len(a) + i] = b[i]
  OBVIOUS
<1>2. DOMAIN a = 1..Len(a) /\ DOMAIN b = 1..Len(b) /\ Len(a) \in Nat /\ Len(b) \in Nat
  OBVIOUS
<1>3. /\ \A i \in DOMAIN a : i \in DOMAIN (a \o b) /\ (a \o b)[i] = a[i]
      /\ \A i \in DOMAIN b : Len(a) + i \in DOMAIN (a \o b) /\ (a \o b)[Len(a) + i] = b[i]
  BY <1>1, <1>2
<1> QED
  BY <1>1, <1>3 DEF Range

\* Flattening sequences of instructions gives a sequence that has the members of each.
LEMMA FlattenIs ==
  ASSUME NEW C, NEW ss \in Seq(Seq(C))
  PROVE  /\ FlattenSeq(ss) \in Seq(C)
         /\ \A j \in DOMAIN ss : Range(ss[j]) \subseteq Range(FlattenSeq(ss))
<1> DEFINE Body(f, m) == [i \in 1..m |-> IF i = 1 THEN ss[i] ELSE f[i - 1] \o ss[i]]
           Missing == {m \in Nat : ~ \E f : f = Body(f, m)}
           n == Len(ss)
           flat == CHOOSE f : f = Body(f, n)
<1>1. Missing = {}
  <2> SUFFICES ASSUME Missing # {} PROVE FALSE
    OBVIOUS
  <2>1. Missing \in SUBSET Nat
    OBVIOUS
  <2>2. PICK d \in Missing : \A e \in Missing : d <= e
    <3> HIDE DEF Missing
    <3> QED
      BY <2>1, LeastOf
  <2>3. d \in Nat /\ d # 0
    <3>1. Body(<<>>, 0) = Body(Body(<<>>, 0), 0)
      OBVIOUS
    <3> HIDE DEF Body
    <3> QED
      BY <3>1
  <2>4. d - 1 \in Nat /\ d - 1 \notin Missing
    <3>1. d - 1 \in Nat /\ ~(d <= d - 1)
      BY <2>3
    <3> HIDE DEF Missing
    <3> QED
      BY <2>2, <3>1
  <2>5. PICK f : f = Body(f, d - 1)
    BY <2>4
  <2> DEFINE g == [i \in 1..d |-> IF i < d THEN f[i]
                                  ELSE IF i = 1 THEN ss[i] ELSE f[i - 1] \o ss[i]]
  <2>6. \A i \in 1..d : g[i] = Body(g, d)[i]
    <3> TAKE i \in 1..d
    <3>1. CASE i < d
      <4>1. i \in 1..(d - 1) /\ g[i] = f[i]
        BY <3>1, <2>3
      <4>2. f[i] = IF i = 1 THEN ss[i] ELSE f[i - 1] \o ss[i]
        BY <4>1, <2>5
      <4>3. i # 1 => i - 1 \in 1..d /\ i - 1 < d
        BY <3>1, <2>3
      <4> QED
        BY <4>1, <4>2, <4>3
    <3>2. CASE ~(i < d)
      <4>1. g[i] = IF i = 1 THEN ss[i] ELSE f[i - 1] \o ss[i]
        BY <3>2
      <4>2. i # 1 => i - 1 \in 1..d /\ i - 1 < d
        BY <2>3
      <4> QED
        BY <4>1, <4>2
    <3> QED
      BY <3>1, <3>2
  <2>7. g = Body(g, d)
    BY <2>6
  <2> QED
    BY <2>2, <2>7
<1>2. n \in Nat /\ DOMAIN ss = 1..n /\ \A i \in 1..n : ss[i] \in Seq(C)
  OBVIOUS
<1>3. flat = Body(flat, n)
  BY <1>1, <1>2
<1>4. FlattenSeq(ss) = IF n = 0 THEN ss ELSE flat[n]
  BY DEF FlattenSeq
<1> HIDE DEF flat
<1>5. \A i \in 1..n : flat[i] = IF i = 1 THEN ss[i] ELSE flat[i - 1] \o ss[i]
  BY <1>3
<1> DEFINE Good(i) == flat[i] \in Seq(C) /\ \A j \in 1..i : Range(ss[j]) \subseteq Range(flat[i])
           Bad == {i \in 1..n : ~Good(i)}
<1>6. Bad = {}
  <2> SUFFICES ASSUME Bad # {} PROVE FALSE
    OBVIOUS
  <2>1. Bad \in SUBSET Nat
    BY <1>2
  <2>2. PICK d \in Bad : \A e \in Bad : d <= e
    <3> HIDE DEF Bad
    <3> QED
      BY <2>1, LeastOf
  <2>3. d \in 1..n /\ d \in Nat
    BY <1>2
  <2>4. CASE d = 1
    BY <2>4, <2>3, <1>2, <1>5
  <2>5. CASE d # 1
    <3>1. d - 1 \in 1..n /\ d - 1 \notin Bad
      <4>1. d - 1 \in 1..n /\ ~(d <= d - 1)
        BY <2>3, <2>5
      <4> HIDE DEF Bad
      <4> QED
        BY <2>2, <4>1
    <3>2. flat[d] = flat[d - 1] \o ss[d] /\ ss[d] \in Seq(C) /\ Good(d - 1)
      BY <3>1, <2>3, <2>5, <1>2, <1>5
    <3>3. /\ flat[d] \in Seq(C)
          /\ Range(flat[d - 1]) \subseteq Range(flat[d]) /\ Range(ss[d]) \subseteq Range(flat[d])
      BY <3>2, Concatenation
    <3>4. \A j \in 1..d : j = d \/ j \in 1..(d - 1)
      BY <2>3
    <3>5. Good(d)
      BY <3>2, <3>3, <3>4
    <3> QED
      BY <3>5
  <2> QED
    BY <2>4, <2>5
<1>7. CASE n = 0
  BY <1>2, <1>4, <1>7
<1>8. CASE n # 0
  <2>1. n \in 1..n
    BY <1>2, <1>8
  <2> QED
    BY <2>1, <1>2, <1>4, <1>6, <1>8
<1> QED
  BY <1>7, <1>8

\* The instructions of a transaction in execution order; the outer ones are among them.
LEMMA ExecutedIs ==
  ASSUME NEW tx \in Transaction
  PROVE  /\ Executed(tx) \in Seq(Call)
         /\ \A i \in DOMAIN tx.outer : tx.outer[i].call \in Range(Executed(tx)) \cap Call
<1> DEFINE ss == [i \in DOMAIN tx.outer |-> <<tx.outer[i].call>> \o tx.outer[i].inner]
           n == Len(tx.outer)
<1>1. /\ DOMAIN tx.outer = 1..n /\ n \in Nat
      /\ \A i \in 1..n : tx.outer[i].call \in Call /\ tx.outer[i].inner \in Seq(Call)
  <2>1. tx.outer \in Seq([call : Call, inner : Seq(Call)])
    BY DEF Transaction
  <2> DEFINE outer == tx.outer
             Outer == [call : Call, inner : Seq(Call)]
  <2>2. outer \in Seq(Outer)
    BY <2>1
  <2> HIDE DEF outer, Outer
  <2>3. DOMAIN outer = 1..Len(outer) /\ Len(outer) \in Nat /\ \A i \in 1..Len(outer) : outer[i] \in Outer
    BY <2>2
  <2> QED
    BY <2>3 DEF outer, Outer
<1>2. ASSUME NEW i \in 1..n
      PROVE  ss[i] \in Seq(Call) /\ tx.outer[i].call \in Range(ss[i])
  <2>1. <<tx.outer[i].call>> \in Seq(Call) /\ tx.outer[i].call \in Range(<<tx.outer[i].call>>)
    BY <1>1 DEF Range
  <2> QED
    BY <2>1, <1>1, Concatenation
<1>3. ss \in Seq(Seq(Call)) /\ DOMAIN ss = 1..n
  <2>1. DOMAIN ss = 1..n /\ \A i \in 1..n : ss[i] \in Seq(Call)
    BY <1>1, <1>2
  <2>2. ss \in [1..n -> Seq(Call)]
    BY <2>1, <1>1
  <2> HIDE DEF ss, n
  <2> QED
    BY <2>1, <2>2, <1>1
<1>4. Executed(tx) = FlattenSeq(ss)
  BY DEF Executed
<1> HIDE DEF ss
<1> QED
  BY <1>1, <1>2, <1>3, <1>4, FlattenIs

-----------------------------------------------------------------------------
(***************************************************************************)
(* Copies of a transaction.                                                *)
(***************************************************************************)
Traded(tx) == {i \in DOMAIN Executed(tx) : Buys(Executed(tx)[i]) \/ Sells(Executed(tx)[i])}

\* The log is the beginning of the enumeration of the traded instructions.
LEMMA LogIs ==
  ASSUME NEW tx \in Transaction
  PROVE  /\ Traded(tx) \in SUBSET Nat /\ IsFiniteSet(Traded(tx))
         /\ Len(Log(tx)) \in 0..Cardinality(Traded(tx))
         /\ Log(tx) \in Seq(Traded(tx))
         /\ \A k \in 1..Len(Log(tx)) : Log(tx)[k] = InOrder(Traded(tx))[k]
<1> DEFINE S == Traded(tx)
           trades == InOrder(S)
           n == Min({tx.logged, Len(trades)})
<1>1. S \in SUBSET Nat /\ IsFiniteSet(S)
  <2>1. Executed(tx) \in Seq(Call)
    BY ExecutedIs
  <2>2. DOMAIN Executed(tx) = 1..Len(Executed(tx)) /\ Len(Executed(tx)) \in Nat
    BY <2>1
  <2>3. IsFiniteSet(DOMAIN Executed(tx)) /\ DOMAIN Executed(tx) \in SUBSET Nat
    BY <2>2, FS_Interval
  <2>4. S \in SUBSET DOMAIN Executed(tx)
    BY DEF Traded
  <2> QED
    BY <2>3, <2>4, FS_Subset
<1>2. Cardinality(S) \in Nat /\ trades \in [1..Cardinality(S) -> S]
  BY <1>1, InOrderIs
<1>3. Log(tx) = SubSeq(trades, 1, n)
  BY DEF Log, Where, Traded
<1> HIDE DEF S, trades
<1>4. trades \in Seq(S) /\ Len(trades) = Cardinality(S)
  BY <1>2
<1>5. tx.logged \in Nat
  BY DEF Transaction
<1>6. n \in 0..Len(trades)
  <2>1. \E x \in {tx.logged, Len(trades)} : \A y \in {tx.logged, Len(trades)} : x =< y
    BY <1>4, <1>5, <1>2
  <2>2. n \in {tx.logged, Len(trades)} /\ \A y \in {tx.logged, Len(trades)} : n =< y
    BY <2>1 DEF Min
  <2> QED
    BY <2>2, <1>4, <1>5, <1>2
<1> HIDE DEF n
<1>7. /\ Log(tx) \in Seq(S) /\ Len(Log(tx)) = n
      /\ \A k \in 1..n : Log(tx)[k] = trades[k]
  BY <1>2, <1>3, <1>4, <1>6
<1> QED
  BY <1>1, <1>4, <1>6, <1>7 DEF S, trades

\* An instruction has one line in the log.
LEMMA LogIsInjective ==
  ASSUME NEW tx \in Transaction
  PROVE  \A i, j \in 1..Len(Log(tx)) : Log(tx)[i] = Log(tx)[j] => i = j
<1> DEFINE S == Traded(tx)
           n == Len(Log(tx))
           f == InOrder(S)
<1>1. /\ S \in SUBSET Nat /\ IsFiniteSet(S) /\ n \in 0..Cardinality(S)
      /\ \A k \in 1..n : Log(tx)[k] = f[k]
  BY LogIs
<1>2. Cardinality(S) \in Nat /\ f \in [1..Cardinality(S) -> S]
  BY <1>1, InOrderIs
<1>3. \A k, l \in 1..Cardinality(S) : k < l => f[k] < f[l]
  BY <1>1, InOrderGrows
<1> HIDE DEF S, n, f
<1>4. ASSUME NEW i \in 1..n, NEW j \in 1..n, Log(tx)[i] = Log(tx)[j]
      PROVE  i = j
  <2>1. i \in 1..Cardinality(S) /\ j \in 1..Cardinality(S) /\ i \in Nat /\ j \in Nat
    BY <1>1, <1>2
  <2>2. f[i] = f[j] /\ f[i] \in Nat
    BY <2>1, <1>1, <1>2, <1>4
  <2> QED
    BY <2>1, <2>2, <1>3
<1> QED
  BY <1>4 DEF n

\* What the decoder is given.
Copy == [signer : Wallets, calls : Seq(Call), tables : BOOLEAN,
         log : Seq([at : Nat, call : Call]), failed : BOOLEAN]

\* The complete copy has every instruction and the log.
LEMMA FullIs ==
  ASSUME NEW tx \in Transaction
  PROVE  /\ FullCopy(tx) \in Copy
         /\ FullCopy(tx).calls = Executed(tx) /\ FullCopy(tx).tables
         /\ FullCopy(tx).failed = tx.failed /\ FullCopy(tx).signer = tx.signer
         /\ DOMAIN FullCopy(tx).log = 1..Len(Log(tx))
         /\ \A k \in 1..Len(Log(tx)) :
              /\ FullCopy(tx).log[k].at = Log(tx)[k]
              /\ FullCopy(tx).log[k].call = Executed(tx)[Log(tx)[k]]
<1> DEFINE log == [i \in DOMAIN Log(tx) |-> [at |-> Log(tx)[i], call |-> Executed(tx)[Log(tx)[i]]]]
           n == Len(Log(tx))
<1>1. Executed(tx) \in Seq(Call) /\ tx.signer \in Wallets /\ tx.failed \in BOOLEAN
  BY ExecutedIs DEF Transaction
<1>2. /\ DOMAIN Log(tx) = 1..n /\ n \in Nat
      /\ \A k \in 1..n : Log(tx)[k] \in Traded(tx)
  BY LogIs
<1>3. \A k \in 1..n : Log(tx)[k] \in Nat /\ Executed(tx)[Log(tx)[k]] \in Call
  <2>1. \A i \in Traded(tx) : i \in Nat /\ Executed(tx)[i] \in Call
    BY <1>1 DEF Traded
  <2> QED
    BY <1>2, <2>1
<1>4. log \in Seq([at : Nat, call : Call])
  <2> DEFINE Line == [at : Nat, call : Call]
  <2>1. log \in [1..n -> Line]
    BY <1>2, <1>3
  <2>2. log \in Seq(Line)
    <3> HIDE DEF log, n, Line
    <3> QED
      BY <2>1, <1>2
  <2> QED
    BY <2>2
<1>5. FullCopy(tx) = [signer |-> tx.signer, calls |-> Executed(tx), tables |-> TRUE,
                      log |-> log, failed |-> tx.failed]
  BY DEF FullCopy
<1>6. FullCopy(tx) \in Copy
  <2> HIDE DEF log
  <2> QED
    BY <1>1, <1>4, <1>5 DEF Copy
<1> QED
  BY <1>2, <1>5, <1>6

\* The Shred copy has no log and no instruction that was not executed.
LEMMA ShredIs ==
  ASSUME NEW tx \in Transaction
  PROVE  /\ ShredCopy(tx) \in Copy
         /\ DOMAIN ShredCopy(tx).log = {}
         /\ Range(ShredCopy(tx).calls) \subseteq Range(Executed(tx))
         /\ ShredCopy(tx).signer = tx.signer
<1> DEFINE calls == [i \in DOMAIN tx.outer |-> tx.outer[i].call]
<1>1. \A i \in DOMAIN tx.outer : tx.outer[i].call \in Range(Executed(tx)) \cap Call
  BY ExecutedIs
<1>2. /\ DOMAIN tx.outer = 1..Len(tx.outer) /\ Len(tx.outer) \in Nat
      /\ tx.signer \in Wallets
  BY DEF Transaction
<1>3. calls \in Seq(Call) /\ Range(calls) \subseteq Range(Executed(tx))
  <2>1. calls \in [1..Len(tx.outer) -> Call] /\ Range(calls) \subseteq Range(Executed(tx))
    BY <1>1, <1>2 DEF Range
  <2> HIDE DEF calls
  <2> QED
    BY <2>1, <1>2
<1>4. ShredCopy(tx) = [signer |-> tx.signer, calls |-> calls, tables |-> FALSE,
                       log |-> <<>>, failed |-> FALSE]
  BY DEF ShredCopy
<1> HIDE DEF calls
<1>5. ShredCopy(tx) \in Copy
  BY <1>2, <1>3, <1>4 DEF Copy
<1> QED
  BY <1>3, <1>4, <1>5

-----------------------------------------------------------------------------
(***************************************************************************)
(* Trades of a copy.                                                       *)
(***************************************************************************)
Trade == [at : Nat, index : Nat \cup {Unpaired}, number : Nat, exact : BOOLEAN, call : Call]

\* Sets of positions in a sequence, enumerated.
LEMMA PositionsIn ==
  ASSUME NEW C, NEW s \in Seq(C), NEW Q \in SUBSET DOMAIN s
  PROVE  /\ Q \in SUBSET Nat /\ IsFiniteSet(Q)
         /\ Cardinality(Q) \in Nat /\ InOrder(Q) \in [1..Cardinality(Q) -> Q]
         /\ \A k \in 1..Cardinality(Q) : InOrder(Q)[k] \in Nat /\ s[InOrder(Q)[k]] \in C
<1>1. DOMAIN s = 1..Len(s) /\ Len(s) \in Nat /\ \A i \in 1..Len(s) : s[i] \in C
  OBVIOUS
<1>2. IsFiniteSet(DOMAIN s) /\ DOMAIN s \in SUBSET Nat
  BY <1>1, FS_Interval
<1>3. Q \in SUBSET Nat /\ IsFiniteSet(Q)
  BY <1>2, FS_Subset
<1>4. Cardinality(Q) \in Nat /\ InOrder(Q) \in [1..Cardinality(Q) -> Q]
  BY <1>3, InOrderIs
<1> QED
  BY <1>1, <1>2, <1>3, <1>4

\* A function on 1..n is a sequence.
LEMMA SequenceOf ==
  ASSUME NEW C, NEW n \in Nat, NEW f, f \in [1..n -> C]
  PROVE  f \in Seq(C) /\ DOMAIN f = 1..n
OBVIOUS

\* The trades of the curve are numbered; one is exact only if its mint is in the log.
LEMMA CurveTyped ==
  ASSUME NEW copy \in Copy, NEW m, NEW side
  PROVE  /\ CurveTrades(copy, m, side) \in Seq(Trade)
         /\ \A i \in DOMAIN CurveTrades(copy, m, side) :
              /\ CurveTrades(copy, m, side)[i].number = i
              /\ CurveTrades(copy, m, side)[i].exact => CurveLogged(copy, m, side) # {}
<1> DEFINE A == CurveCandidates(copy, m, side)
           T == CurveLogged(copy, m, side)
           trades == CurveTrades(copy, m, side)
           estimate == [i \in DOMAIN InOrder(A) |->
                          [at |-> InOrder(A)[i], index |-> InOrder(A)[i], number |-> i,
                           exact |-> FALSE, call |-> copy.calls[InOrder(A)[i]]]]
           executed == [i \in DOMAIN InOrder(T) |->
                          [at |-> copy.log[InOrder(T)[i]].at, index |-> Instruction(InOrder(A), i),
                           number |-> i, exact |-> TRUE, call |-> copy.log[InOrder(T)[i]].call]]
           Line == [at : Nat, call : Call]
<1>1. copy.calls \in Seq(Call) /\ copy.log \in Seq(Line)
  BY DEF Copy
<1>2. A \in SUBSET DOMAIN copy.calls /\ T \in SUBSET DOMAIN copy.log
  BY DEF CurveCandidates, CurveLogged, Logged
<1>3. trades = IF T = {} THEN estimate ELSE executed
  BY DEF CurveTrades
<1> HIDE DEF A, T, trades, Line
<1>4. /\ Cardinality(A) \in Nat /\ InOrder(A) \in [1..Cardinality(A) -> A]
      /\ \A k \in 1..Cardinality(A) : InOrder(A)[k] \in Nat /\ copy.calls[InOrder(A)[k]] \in Call
  BY <1>1, <1>2, PositionsIn
<1>5. /\ Cardinality(T) \in Nat /\ InOrder(T) \in [1..Cardinality(T) -> T]
      /\ \A k \in 1..Cardinality(T) : copy.log[InOrder(T)[k]] \in Line
  BY <1>1, <1>2, PositionsIn
<1>6. estimate \in [1..Cardinality(A) -> Trade]
  BY <1>4 DEF Trade
<1>7. executed \in [1..Cardinality(T) -> Trade]
  <2>1. \A i \in 1..Cardinality(T) : Instruction(InOrder(A), i) \in Nat \cup {Unpaired}
    BY <1>4, <1>5 DEF Instruction
  <2>2. \A i \in 1..Cardinality(T) :
           /\ copy.log[InOrder(T)[i]].at \in Nat /\ copy.log[InOrder(T)[i]].call \in Call
           /\ i \in Nat
    BY <1>5 DEF Line
  <2> QED
    BY <2>1, <2>2, <1>5 DEF Trade
<1>8. /\ \A i \in DOMAIN estimate : estimate[i].number = i /\ ~estimate[i].exact
      /\ \A i \in DOMAIN executed : executed[i].number = i
  OBVIOUS
<1> HIDE DEF estimate, executed
<1>9. estimate \in Seq(Trade) /\ executed \in Seq(Trade)
  BY <1>4, <1>5, <1>6, <1>7, SequenceOf
<1> QED
  BY <1>3, <1>8, <1>9 DEF trades, T

\* The instructions that are told apart from instruction i by their order alone; those of
\* one side and mint; whether a line of the log is left for i, and which.
AmmClass(copy, i) == {j \in AmmCandidates(copy) : SameTrade(copy.calls[j], copy.calls[i])}

AmmInstructions(copy, m, side) ==
  {i \in AmmCandidates(copy) : copy.calls[i].mint = m /\ copy.calls[i].op \in side}

AmmExact(copy, i) == Turn(copy, i) <= Cardinality(AmmLogged(copy, i))

AmmLine(copy, i) == copy.log[InOrder(AmmLogged(copy, i))[Turn(copy, i)]]

\* AmmTrades in these terms.
LEMMA AmmTradesAre ==
  ASSUME NEW copy \in Copy, NEW m, NEW side
  PROVE  LET Q == AmmInstructions(copy, m, side) IN
         /\ Q \in SUBSET Nat /\ IsFiniteSet(Q) /\ Cardinality(Q) \in Nat
         /\ AmmTrades(copy, m, side) =
              [n \in 1..Cardinality(Q) |->
                 LET i == InOrder(Q)[n]
                 IN  [at |-> IF AmmExact(copy, i) THEN AmmLine(copy, i).at ELSE i, index |-> i,
                      number |-> n, exact |-> AmmExact(copy, i),
                      call |-> IF AmmExact(copy, i) THEN AmmLine(copy, i).call
                               ELSE copy.calls[i]]]
<1> DEFINE Q == AmmInstructions(copy, m, side)
<1>1. copy.calls \in Seq(Call) /\ Q \in SUBSET DOMAIN copy.calls
  BY DEF Copy, AmmInstructions, AmmCandidates
<1>2. /\ Q \in SUBSET Nat /\ IsFiniteSet(Q) /\ Cardinality(Q) \in Nat
      /\ DOMAIN InOrder(Q) = 1..Cardinality(Q)
  BY <1>1, PositionsIn
<1> QED
  BY <1>2 DEF AmmTrades, AmmExact, AmmLine, AmmInstructions

\* The trades of the AMM are numbered; one is exact only if there is a log.
LEMMA AmmTyped ==
  ASSUME NEW copy \in Copy, NEW m, NEW side
  PROVE  /\ AmmTrades(copy, m, side) \in Seq(Trade)
         /\ \A i \in DOMAIN AmmTrades(copy, m, side) :
              /\ AmmTrades(copy, m, side)[i].number = i
              /\ AmmTrades(copy, m, side)[i].exact => DOMAIN copy.log # {}
<1> DEFINE Q == AmmInstructions(copy, m, side)
           trades == AmmTrades(copy, m, side)
           Line == [at : Nat, call : Call]
<1>1. copy.calls \in Seq(Call) /\ copy.log \in Seq(Line) /\ Q \in SUBSET DOMAIN copy.calls
  BY DEF Copy, AmmInstructions, AmmCandidates
<1> HIDE DEF Line
<1>2. /\ Cardinality(Q) \in Nat /\ InOrder(Q) \in [1..Cardinality(Q) -> Q]
      /\ \A k \in 1..Cardinality(Q) : InOrder(Q)[k] \in Nat /\ copy.calls[InOrder(Q)[k]] \in Call
  BY <1>1, PositionsIn
<1>3. ASSUME NEW i \in Q, AmmExact(copy, i)
      PROVE  AmmLine(copy, i) \in Line /\ DOMAIN copy.log # {}
  <2> DEFINE T == AmmLogged(copy, i)
             C == AmmClass(copy, i)
  <2>1. T \in SUBSET DOMAIN copy.log /\ C \in SUBSET DOMAIN copy.calls /\ i \in C
    BY DEF AmmLogged, Logged, AmmClass, AmmCandidates, SameTrade, AmmInstructions
  <2>2. Turn(copy, i) = Cardinality(UpTo(C, i))
    BY DEF Turn, UpTo, AmmClass
  <2>3. /\ Cardinality(T) \in Nat /\ InOrder(T) \in [1..Cardinality(T) -> T]
        /\ \A k \in 1..Cardinality(T) : copy.log[InOrder(T)[k]] \in Line
    BY <1>1, <2>1, PositionsIn
  <2>4. C \in SUBSET Nat /\ IsFiniteSet(C) /\ Cardinality(C) \in Nat
    BY <1>1, <2>1, PositionsIn
  <2>5. Cardinality(UpTo(C, i)) \in 1..Cardinality(C)
    BY <2>1, <2>4, Turns
  <2>6. Turn(copy, i) \in 1..Cardinality(T)
    BY <1>3, <2>2, <2>3, <2>4, <2>5 DEF AmmExact
  <2> QED
    BY <2>1, <2>3, <2>6 DEF AmmLine
<1>4. \A i \in Q : AmmExact(copy, i) \in BOOLEAN
  BY DEF AmmExact
<1>5. trades =
        [n \in 1..Cardinality(Q) |->
           LET i == InOrder(Q)[n]
           IN  [at |-> IF AmmExact(copy, i) THEN AmmLine(copy, i).at ELSE i, index |-> i,
                number |-> n, exact |-> AmmExact(copy, i),
                call |-> IF AmmExact(copy, i) THEN AmmLine(copy, i).call ELSE copy.calls[i]]]
  BY AmmTradesAre
<1> HIDE DEF Q, trades
<1>6. ASSUME NEW n \in 1..Cardinality(Q)
      PROVE  /\ trades[n] \in Trade /\ trades[n].number = n
             /\ trades[n].exact => DOMAIN copy.log # {}
  <2> DEFINE i == InOrder(Q)[n]
  <2>1. /\ n \in Nat /\ i \in Q /\ i \in Nat /\ copy.calls[i] \in Call
        /\ AmmExact(copy, i) \in BOOLEAN
    BY <1>2, <1>4
  <2>2. AmmExact(copy, i) =>
          AmmLine(copy, i).at \in Nat /\ AmmLine(copy, i).call \in Call /\ DOMAIN copy.log # {}
    BY <2>1, <1>3 DEF Line
  <2>3. trades[n] = [at |-> IF AmmExact(copy, i) THEN AmmLine(copy, i).at ELSE i, index |-> i,
                     number |-> n, exact |-> AmmExact(copy, i),
                     call |-> IF AmmExact(copy, i) THEN AmmLine(copy, i).call ELSE copy.calls[i]]
    BY <1>5
  <2> HIDE DEF i
  <2> QED
    BY <2>1, <2>2, <2>3 DEF Trade
<1>7. trades \in [1..Cardinality(Q) -> Trade]
  BY <1>5, <1>6
<1>8. trades \in Seq(Trade) /\ DOMAIN trades = 1..Cardinality(Q)
  BY <1>2, <1>7, SequenceOf
<1> QED
  BY <1>6, <1>8 DEF trades

-----------------------------------------------------------------------------
(***************************************************************************)
(* What the decoder makes of the complete copy of a transaction: the exact *)
(* trades are those of the log by instructions in ops of mint m, each once *)
(* and, if the decoder has a name for all instructions, each in its place. *)
(***************************************************************************)
AllNamed(tx) == \A c \in Range(Executed(tx)) : c.op # "new_buy"

\* The logged trades of mint m by instructions in ops.
LogOf(tx, m, ops) ==
  {a \in Range(Log(tx)) : Executed(tx)[a].mint = m /\ Executed(tx)[a].op \in ops}

\* The exact ones among trades are these, each once and with what was executed.
Faithful(tx, m, ops, trades) ==
  /\ \A i \in DOMAIN trades : trades[i].exact =>
       /\ trades[i].at \in LogOf(tx, m, ops)
       /\ trades[i].call = Executed(tx)[trades[i].at]
       /\ AllNamed(tx) => trades[i].index = trades[i].at
  /\ \A i, j \in DOMAIN trades :
       trades[i].exact /\ trades[j].exact /\ trades[i].at = trades[j].at => i = j
  /\ \A a \in LogOf(tx, m, ops) :
       \E i \in DOMAIN trades : trades[i].exact /\ trades[i].at = a

\* The places of the traded instructions in ops of mint m.
Placed(tx, m, ops) ==
  {i \in Traded(tx) : Executed(tx)[i].mint = m /\ Executed(tx)[i].op \in ops}

\* The members of the log are its lines.
LEMMA LogAt ==
  ASSUME NEW tx \in Transaction
  PROVE  /\ \A a \in Range(Log(tx)) : \E k \in 1..Len(Log(tx)) : Log(tx)[k] = a
         /\ \A k \in 1..Len(Log(tx)) : Log(tx)[k] \in Range(Log(tx)) /\ Log(tx)[k] \in Traded(tx)
BY LogIs DEF Range

\* The curve: the n-th logged trade is the n-th instruction (decode.rs:566, 721).
LEMMA CurveFaithful ==
  ASSUME NEW tx \in Transaction, NEW m, NEW side \in {BuyOps, SellOps}
  PROVE  Faithful(tx, m, CurveOps \cap side, CurveTrades(FullCopy(tx), m, side))
<1> DEFINE copy == FullCopy(tx)
           ops == CurveOps \cap side
           Q == Placed(tx, m, ops)
           T == CurveLogged(copy, m, side)
           A == CurveCandidates(copy, m, side)
           trades == CurveTrades(copy, m, side)
           S == Traded(tx)
           n == Len(Log(tx))
<1>1. /\ copy \in Copy /\ copy.calls = Executed(tx) /\ copy.tables /\ DOMAIN copy.log = 1..n
      /\ \A k \in 1..n : /\ copy.log[k].at = Log(tx)[k]
                         /\ copy.log[k].call = Executed(tx)[Log(tx)[k]]
  BY FullIs
<1>2. /\ S \in SUBSET Nat /\ IsFiniteSet(S) /\ n \in Nat
      /\ Begins(Log(tx), n, S)
      /\ \A k \in 1..n : Log(tx)[k] \in S
  BY LogIs, LogAt, FS_CardinalityType DEF Begins
<1>3. Q \in SUBSET S /\ T = {k \in 1..n : Log(tx)[k] \in Q} /\ Selects(T, Log(tx), n, Q)
  BY <1>1, <1>2 DEF Placed, CurveLogged, Logged, Selects
<1> HIDE DEF copy, Q, T, S, n
<1>4. /\ IsFiniteSet(T) /\ T \in SUBSET (1..n)
      /\ \A k \in 1..Cardinality(T) :
           /\ InOrder(T)[k] \in T /\ k \in 1..Cardinality(Q)
           /\ Log(tx)[InOrder(T)[k]] = InOrder(Q)[k]
  <2>1. FirstOf(T, Log(tx), n, Q)
    BY <1>2, <1>3, LoggedPart
  <2> QED
    BY <2>1 DEF FirstOf
<1>5. Q \in SUBSET Nat /\ IsFiniteSet(Q) /\ T \in SUBSET Nat /\ Cardinality(T) \in Nat
  <2>1. 1..n \in SUBSET Nat
    BY <1>2
  <2>2. IsFiniteSet(Q) /\ Q \in SUBSET Nat
    BY <1>2, <1>3, FS_Subset
  <2> QED
    BY <2>1, <2>2, <1>4, FS_CardinalityType
<1>6. InOrder(T) \in [1..Cardinality(T) -> T] /\ InOrder(Q) \in [1..Cardinality(Q) -> Q]
  BY <1>4, <1>5, InOrderIs
<1>7. AllNamed(tx) => A = Q
  <2> SUFFICES ASSUME AllNamed(tx) PROVE A = Q
    OBVIOUS
  <2>1. \A i \in DOMAIN Executed(tx) : Executed(tx)[i].op # "new_buy"
    BY DEF AllNamed, Range
  <2>2. A = {i \in DOMAIN Executed(tx) :
               /\ Executed(tx)[i].op \in {"create", "buy", "sell"}
               /\ Executed(tx)[i].op \in side /\ Executed(tx)[i].mint = m}
    BY <1>1 DEF CurveCandidates, Recognised
  <2>3. Q = {i \in DOMAIN Executed(tx) :
               /\ Buys(Executed(tx)[i]) \/ Sells(Executed(tx)[i])
               /\ Executed(tx)[i].mint = m
               /\ Executed(tx)[i].op \in CurveOps \cap side}
    BY DEF Q, Placed, Traded
  <2>4. \A o : o # "new_buy" =>
          (o \in {"create", "buy", "sell"} /\ o \in side
             <=> (o \in BuyOps \/ o \in SellOps) /\ o \in CurveOps \cap side)
    BY DEF BuyOps, SellOps, CurveOps
  <2> QED
    BY <2>1, <2>2, <2>3, <2>4 DEF Buys, Sells
<1>8. CASE T = {}
  <2>1. \A i \in DOMAIN trades : ~trades[i].exact
    BY <1>1, <1>8, CurveTyped DEF T, copy
  <2>2. LogOf(tx, m, ops) = {}
    <3> SUFFICES ASSUME NEW a \in LogOf(tx, m, ops) PROVE FALSE
      OBVIOUS
    <3>1. PICK k \in 1..n : Log(tx)[k] = a
      BY LogAt DEF LogOf, n
    <3>2. a \in Q
      BY <3>1, <1>2 DEF LogOf, Q, Placed, S
    <3> QED
      BY <3>1, <3>2, <1>3, <1>8
  <2> QED
    BY <2>1, <2>2 DEF Faithful, copy
<1>9. CASE T # {}
  <2>1. trades = [i \in 1..Cardinality(T) |->
                    [at |-> copy.log[InOrder(T)[i]].at, index |-> Instruction(InOrder(A), i),
                     number |-> i, exact |-> TRUE, call |-> copy.log[InOrder(T)[i]].call]]
    BY <1>6, <1>9 DEF CurveTrades, T
  <2>2. \A i \in 1..Cardinality(T) :
          /\ trades[i].at = InOrder(Q)[i] /\ trades[i].exact
          /\ trades[i].call = Executed(tx)[InOrder(Q)[i]]
          /\ trades[i].index = Instruction(InOrder(A), i)
          /\ i \in 1..Cardinality(Q) /\ i \in Nat
    <3> TAKE i \in 1..Cardinality(T)
    <3>0. i \in Nat
      BY <1>5
    <3>1. /\ InOrder(T)[i] \in 1..n /\ i \in 1..Cardinality(Q)
          /\ Log(tx)[InOrder(T)[i]] = InOrder(Q)[i]
      BY <1>4
    <3>2. /\ copy.log[InOrder(T)[i]].at = InOrder(Q)[i]
          /\ copy.log[InOrder(T)[i]].call = Executed(tx)[InOrder(Q)[i]]
      BY <3>1, <1>1
    <3>3. trades[i] = [at |-> copy.log[InOrder(T)[i]].at, index |-> Instruction(InOrder(A), i),
                       number |-> i, exact |-> TRUE, call |-> copy.log[InOrder(T)[i]].call]
      BY <2>1
    <3> HIDE DEF trades, A
    <3> QED
      BY <3>0, <3>1, <3>2, <3>3
  <2>3. \A i \in 1..Cardinality(T) : InOrder(Q)[i] \in LogOf(tx, m, ops)
    <3> TAKE i \in 1..Cardinality(T)
    <3>1. InOrder(Q)[i] \in Q /\ InOrder(Q)[i] \in Range(Log(tx))
      BY <1>4, <1>6, LogAt DEF n
    <3> QED
      BY <3>1 DEF LogOf, Q, Placed
  <2>4. \A i, j \in 1..Cardinality(T) : InOrder(Q)[i] = InOrder(Q)[j] => i = j
    <3> TAKE i, j \in 1..Cardinality(T)
    <3>1. /\ i \in 1..Cardinality(Q) /\ j \in 1..Cardinality(Q)
          /\ InOrder(Q)[i] \in Nat /\ InOrder(Q)[j] \in Nat
          /\ i \in Nat /\ j \in Nat
      BY <2>2, <1>5, <1>6
    <3>2. /\ i < j => InOrder(Q)[i] < InOrder(Q)[j]
          /\ j < i => InOrder(Q)[j] < InOrder(Q)[i]
      BY <3>1, <1>5, InOrderGrows
    <3> QED
      BY <3>1, <3>2
  <2>5. AllNamed(tx) => \A i \in 1..Cardinality(T) : trades[i].index = trades[i].at
    BY <1>6, <1>7, <2>2 DEF Instruction
  <2>6. \A a \in LogOf(tx, m, ops) : \E i \in 1..Cardinality(T) : InOrder(Q)[i] = a
    <3> TAKE a \in LogOf(tx, m, ops)
    <3>1. PICK k \in 1..n : Log(tx)[k] = a
      BY LogAt DEF LogOf, n
    <3>2. a \in Q
      BY <3>1, <1>2 DEF LogOf, Q, Placed, S
    <3>3. k \in T
      BY <3>1, <3>2, <1>3
    <3>4. PICK i \in 1..Cardinality(T) : InOrder(T)[i] = k
      BY <3>3, <1>4, <1>5, InOrderIs
    <3> QED
      BY <3>1, <3>4, <1>4
  <2>7. DOMAIN trades = 1..Cardinality(T)
    BY <2>1
  <2> HIDE DEF trades, A, ops
  <2>8. Faithful(tx, m, ops, trades)
    <3>1. \A i \in DOMAIN trades :
            /\ trades[i].at \in LogOf(tx, m, ops)
            /\ trades[i].call = Executed(tx)[trades[i].at]
            /\ AllNamed(tx) => trades[i].index = trades[i].at
      BY <2>2, <2>3, <2>5, <2>7
    <3>2. \A i, j \in DOMAIN trades : trades[i].at = trades[j].at => i = j
      BY <2>2, <2>4, <2>7
    <3>3. \A a \in LogOf(tx, m, ops) :
            \E i \in DOMAIN trades : trades[i].exact /\ trades[i].at = a
      BY <2>2, <2>6, <2>7
    <3> QED
      BY <3>1, <3>2, <3>3 DEF Faithful
  <2> QED
    BY <2>8 DEF trades, copy, ops
<1> QED
  BY <1>8, <1>9

\* The AMM: an instruction takes its own line of the log, if the log has it.
LEMMA AmmAt ==
  ASSUME NEW tx \in Transaction, NEW i \in AmmCandidates(FullCopy(tx))
  PROVE  /\ AmmExact(FullCopy(tx), i) =>
              /\ i \in Range(Log(tx))
              /\ AmmLine(FullCopy(tx), i).at = i
              /\ AmmLine(FullCopy(tx), i).call = Executed(tx)[i]
         /\ i \in Range(Log(tx)) => AmmExact(FullCopy(tx), i)
<1> DEFINE copy == FullCopy(tx)
           C == AmmClass(copy, i)
           T == AmmLogged(copy, i)
           S == Traded(tx)
           n == Len(Log(tx))
<1>1. /\ copy \in Copy /\ copy.calls = Executed(tx) /\ copy.tables /\ DOMAIN copy.log = 1..n
      /\ \A k \in 1..n : /\ copy.log[k].at = Log(tx)[k]
                         /\ copy.log[k].call = Executed(tx)[Log(tx)[k]]
  BY FullIs
<1>2. /\ S \in SUBSET Nat /\ IsFiniteSet(S) /\ n \in Nat
      /\ Begins(Log(tx), n, S)
      /\ \A k \in 1..n : Log(tx)[k] \in S
  BY LogIs, LogAt, FS_CardinalityType DEF Begins
<1> HIDE DEF copy
<1>3. \A j \in DOMAIN Executed(tx) : Executed(tx)[j].op \in AmmOps => j \in S
  BY DEF Traded, Buys, Sells, AmmOps, BuyOps, SellOps
<1>4. /\ C \in SUBSET S /\ i \in C
      /\ \A j \in S : j \in C <=> /\ Executed(tx)[j].op \in AmmOps
                                  /\ SameTrade(Executed(tx)[j], Executed(tx)[i])
  BY <1>1, <1>3 DEF AmmClass, AmmCandidates, SameTrade, Traded, copy
<1>5. T = {k \in 1..n : Log(tx)[k] \in C}
  <2>1. T = {k \in 1..n : /\ copy.log[k].call.op \in AmmOps
                          /\ SameTrade(copy.log[k].call, Executed(tx)[i])}
    BY <1>1 DEF AmmLogged, Logged
  <2>2. \A k \in 1..n : Log(tx)[k] \in C <=> /\ copy.log[k].call.op \in AmmOps
                                             /\ SameTrade(copy.log[k].call, Executed(tx)[i])
    BY <1>1, <1>2, <1>4
  <2> QED
    BY <2>1, <2>2
<1> HIDE DEF C, T, S, n
<1>6. FirstOf(T, Log(tx), n, C)
  BY <1>2, <1>4, <1>5, LoggedPart DEF Selects
<1>7. /\ C \in SUBSET Nat /\ IsFiniteSet(C) /\ T \in SUBSET Nat /\ IsFiniteSet(T)
      /\ Cardinality(T) \in Nat /\ Cardinality(C) \in Nat
  <2>1. 1..n \in SUBSET Nat
    BY <1>2
  <2> QED
    BY <2>1, <1>2, <1>4, <1>6, FS_Subset, FS_CardinalityType DEF FirstOf
<1>8. /\ Turn(copy, i) = Cardinality(UpTo(C, i))
      /\ Turn(copy, i) \in 1..Cardinality(C) /\ InOrder(C)[Turn(copy, i)] = i
  <2>1. Turn(copy, i) = Cardinality(UpTo(C, i))
    BY <1>1 DEF Turn, UpTo, C, AmmClass
  <2> QED
    BY <2>1, <1>4, <1>7, Turns
<1>9. ASSUME AmmExact(copy, i)
      PROVE  /\ i \in Range(Log(tx)) /\ AmmLine(copy, i).at = i
             /\ AmmLine(copy, i).call = Executed(tx)[i]
  <2> DEFINE t == Turn(copy, i)
  <2>1. t \in 1..Cardinality(T)
    BY <1>9, <1>7, <1>8 DEF AmmExact, T
  <2>2. InOrder(T)[t] \in 1..n /\ Log(tx)[InOrder(T)[t]] = InOrder(C)[t]
    BY <2>1, <1>6 DEF FirstOf
  <2>3. Log(tx)[InOrder(T)[t]] = i
    BY <2>2, <1>8
  <2>4. AmmLine(copy, i) = copy.log[InOrder(T)[t]]
    BY DEF AmmLine, T
  <2> HIDE DEF t
  <2> QED
    BY <2>2, <2>3, <2>4, <1>1, LogAt DEF n
<1>10. ASSUME i \in Range(Log(tx))
       PROVE  AmmExact(copy, i)
  <2>1. PICK k \in 1..n : Log(tx)[k] = i
    BY <1>10, LogAt DEF n
  <2>2. k \in T
    BY <2>1, <1>4, <1>5
  <2>3. Turn(copy, i) \in 1..Cardinality(T)
    BY <2>1, <2>2, <1>6, <1>8 DEF FirstOf
  <2> QED
    BY <2>3, <1>7 DEF AmmExact, T
<1> QED
  BY <1>9, <1>10 DEF copy

\* ... so that the trades of an AMM event are those of the log (decode.rs:311-432).
LEMMA AmmFaithful ==
  ASSUME NEW tx \in Transaction, NEW m, NEW side \in {BuyOps, SellOps}
  PROVE  Faithful(tx, m, AmmOps \cap side, AmmTrades(FullCopy(tx), m, side))
<1> DEFINE copy == FullCopy(tx)
           ops == AmmOps \cap side
           Q == AmmInstructions(copy, m, side)
           trades == AmmTrades(copy, m, side)
<1>1. /\ copy \in Copy /\ copy.calls = Executed(tx) /\ copy.tables
  BY FullIs
<1> HIDE DEF copy
<1>2. /\ Q \in SUBSET Nat /\ IsFiniteSet(Q) /\ Cardinality(Q) \in Nat
      /\ trades =
           [n \in 1..Cardinality(Q) |->
              LET i == InOrder(Q)[n]
              IN  [at |-> IF AmmExact(copy, i) THEN AmmLine(copy, i).at ELSE i, index |-> i,
                   number |-> n, exact |-> AmmExact(copy, i),
                   call |-> IF AmmExact(copy, i) THEN AmmLine(copy, i).call
                            ELSE copy.calls[i]]]
  BY <1>1, AmmTradesAre
<1>3. Q = {i \in DOMAIN Executed(tx) :
             Executed(tx)[i].op \in ops /\ Executed(tx)[i].mint = m}
  BY <1>1 DEF AmmInstructions, AmmCandidates
<1>4. Q \subseteq AmmCandidates(copy)
  BY DEF AmmInstructions
<1> HIDE DEF Q, trades
<1>5. InOrder(Q) \in [1..Cardinality(Q) -> Q]
  BY <1>2, InOrderIs
<1>6. ASSUME NEW n \in 1..Cardinality(Q)
      PROVE  /\ trades[n].index = InOrder(Q)[n]
             /\ trades[n].exact <=> InOrder(Q)[n] \in Range(Log(tx))
             /\ trades[n].exact => /\ trades[n].at = InOrder(Q)[n]
                                   /\ trades[n].call = Executed(tx)[InOrder(Q)[n]]
             /\ trades[n].exact => InOrder(Q)[n] \in LogOf(tx, m, ops)
  <2> DEFINE i == InOrder(Q)[n]
  <2>1. i \in Q
    BY <1>5
  <2>2. /\ AmmExact(copy, i) <=> i \in Range(Log(tx))
        /\ AmmExact(copy, i) => /\ AmmLine(copy, i).at = i
                                /\ AmmLine(copy, i).call = Executed(tx)[i]
    BY <2>1, <1>4, AmmAt DEF copy
  <2>3. trades[n] = [at |-> IF AmmExact(copy, i) THEN AmmLine(copy, i).at ELSE i, index |-> i,
                     number |-> n, exact |-> AmmExact(copy, i),
                     call |-> IF AmmExact(copy, i) THEN AmmLine(copy, i).call ELSE copy.calls[i]]
    BY <1>2
  <2>4. i \in Range(Log(tx)) => i \in LogOf(tx, m, ops)
    BY <2>1, <1>3 DEF LogOf
  <2> HIDE DEF i
  <2>5. /\ trades[n].index = i /\ (trades[n].exact <=> AmmExact(copy, i))
        /\ AmmExact(copy, i) => trades[n].at = AmmLine(copy, i).at
                                /\ trades[n].call = AmmLine(copy, i).call
    BY <2>3
  <2> QED
    BY <2>2, <2>4, <2>5 DEF i
<1>7. \A j, k \in 1..Cardinality(Q) : InOrder(Q)[j] = InOrder(Q)[k] => j = k
  <2> TAKE j, k \in 1..Cardinality(Q)
  <2>0. InOrder(Q)[j] \in Q /\ InOrder(Q)[k] \in Q
    BY <1>5
  <2>1. InOrder(Q)[j] \in Nat /\ InOrder(Q)[k] \in Nat
    BY <1>2, <2>0
  <2>3. j \in Nat /\ k \in Nat
    BY <1>2
  <2>2. /\ j < k => InOrder(Q)[j] < InOrder(Q)[k]
        /\ k < j => InOrder(Q)[k] < InOrder(Q)[j]
    BY <1>2, InOrderGrows
  <2> QED
    BY <2>1, <2>2, <2>3
<1>8. \A a \in LogOf(tx, m, ops) : \E n \in 1..Cardinality(Q) : InOrder(Q)[n] = a
  <2> TAKE a \in LogOf(tx, m, ops)
  <2>1. a \in Range(Log(tx)) /\ a \in Traded(tx)
    BY LogAt DEF LogOf
  <2>2. a \in Q
    BY <2>1, <1>3 DEF LogOf, Traded
  <2> QED
    BY <2>2, <1>2, InOrderIs
<1>9. DOMAIN trades = 1..Cardinality(Q)
  BY <1>2
<1> HIDE DEF ops
<1>10. Faithful(tx, m, ops, trades)
  <2>1. \A i \in DOMAIN trades : trades[i].exact =>
          /\ trades[i].at \in LogOf(tx, m, ops)
          /\ trades[i].call = Executed(tx)[trades[i].at]
          /\ AllNamed(tx) => trades[i].index = trades[i].at
    BY <1>6, <1>9
  <2>2. \A i, j \in DOMAIN trades :
          trades[i].exact /\ trades[j].exact /\ trades[i].at = trades[j].at => i = j
    BY <1>6, <1>7, <1>9
  <2>3. \A a \in LogOf(tx, m, ops) :
          \E i \in DOMAIN trades : trades[i].exact /\ trades[i].at = a
    <3> TAKE a \in LogOf(tx, m, ops)
    <3>1. PICK n \in 1..Cardinality(Q) : InOrder(Q)[n] = a
      BY <1>8
    <3>2. a \in Range(Log(tx))
      BY DEF LogOf
    <3> QED
      BY <3>1, <3>2, <1>6, <1>9
  <2> QED
    BY <2>1, <2>2, <2>3 DEF Faithful
<1> QED
  BY <1>10 DEF copy, trades, ops

-----------------------------------------------------------------------------
(***************************************************************************)
(* Events.  The trades of an event are those of its mint on its venue; an  *)
(* exact one is told by its instruction, or by its side and number.        *)
(***************************************************************************)
Venues == {"curve", "amm"}
Sides == {BuyOps, SellOps}

\* The instructions of a venue.
VenueOps(v) == IF v = "curve" THEN CurveOps ELSE AmmOps

\* The trades of one side that a copy tells of mint m on venue v.
Trades(copy, m, side, v) ==
  IF v = "curve" THEN CurveTrades(copy, m, side) ELSE AmmTrades(copy, m, side)

\* The trades of an event, as the journal takes them.
All(e) == e.buys \o e.sells

\* On either venue trades are numbered and exact by the log alone.
LEMMA TradesTyped ==
  ASSUME NEW copy \in Copy, NEW m, NEW side, NEW v \in Venues
  PROVE  /\ Trades(copy, m, side, v) \in Seq(Trade)
         /\ \A i \in DOMAIN Trades(copy, m, side, v) :
              /\ Trades(copy, m, side, v)[i].number = i
              /\ Trades(copy, m, side, v)[i].exact => DOMAIN copy.log # {}
<1>1. CASE v = "curve"
  <2>1. CurveLogged(copy, m, side) # {} => DOMAIN copy.log # {}
    BY DEF CurveLogged, Logged
  <2> QED
    BY <1>1, <2>1, CurveTyped DEF Trades
<1>2. CASE v # "curve"
  BY <1>2, AmmTyped DEF Trades
<1> QED
  BY <1>1, <1>2

\* On either venue the exact trades are those of the log.
LEMMA TradesFaithful ==
  ASSUME NEW tx \in Transaction, NEW m, NEW side \in Sides, NEW v \in Venues
  PROVE  Faithful(tx, m, VenueOps(v) \cap side, Trades(FullCopy(tx), m, side, v))
<1>1. CASE v = "curve"
  BY <1>1, CurveFaithful DEF Trades, VenueOps, Sides
<1>2. CASE v # "curve"
  BY <1>2, AmmFaithful DEF Trades, VenueOps, Sides
<1> QED
  BY <1>1, <1>2

\* An event is of one mint and one venue, and both are in the transaction.
LEMMA EventIs ==
  ASSUME NEW copy \in Copy, NEW e \in Events(copy)
  PROVE  /\ ~copy.failed
         /\ e.venue \in Venues /\ e.mint \in Mints
         /\ e.buys = Trades(copy, e.mint, BuyOps, e.venue)
         /\ e.sells = Trades(copy, e.mint, SellOps, e.venue)
         /\ \/ e.venue = "curve" /\ e.mint \in CurveMints(copy)
            \/ e.venue = "amm" /\ \E i \in AmmCandidates(copy) : copy.calls[i].mint = e.mint
<1>1. ~copy.failed
  BY DEF Events
<1>2. \/ \E m \in CurveMints(copy) : e = CurveEvent(copy, m)
      \/ \E i \in AmmCandidates(copy) : e = AmmEvent(copy, copy.calls[i].mint)
  BY <1>1 DEF Events
<1>3. /\ \A k \in DOMAIN copy.calls : copy.calls[k].mint \in Mints
      /\ \A k \in DOMAIN copy.log : copy.log[k].call.mint \in Mints
  <2> DEFINE L == [at : Nat, call : Call]
  <2>1. copy.calls \in Seq(Call) /\ copy.log \in Seq(L)
    BY DEF Copy
  <2>2. \A l \in L : l.call.mint \in Mints
    BY DEF Call
  <2>3. \A c \in Call : c.mint \in Mints
    BY DEF Call
  <2> HIDE DEF L
  <2> QED
    BY <2>1, <2>2, <2>3
<1>4. ASSUME NEW m \in CurveMints(copy), e = CurveEvent(copy, m)
      PROVE  /\ e.venue = "curve" /\ e.mint = m /\ m \in Mints
             /\ e.buys = CurveTrades(copy, m, BuyOps)
             /\ e.sells = CurveTrades(copy, m, SellOps)
  <2>1. m \in Mints
    BY <1>3 DEF CurveMints, Range, Logged
  <2> QED
    BY <1>4, <2>1 DEF CurveEvent
<1>5. ASSUME NEW i \in AmmCandidates(copy), e = AmmEvent(copy, copy.calls[i].mint)
      PROVE  /\ e.venue = "amm" /\ e.mint = copy.calls[i].mint /\ e.mint \in Mints
             /\ e.buys = AmmTrades(copy, e.mint, BuyOps)
             /\ e.sells = AmmTrades(copy, e.mint, SellOps)
  <2>1. copy.calls[i].mint \in Mints
    BY <1>3 DEF AmmCandidates
  <2> QED
    BY <1>5, <2>1 DEF AmmEvent
<1> QED
  BY <1>1, <1>2, <1>4, <1>5 DEF Trades, Venues

\* A trade of an event has its place by its side and its number.
LEMMA EventTyped ==
  ASSUME NEW copy \in Copy, NEW e \in Events(copy)
  PROVE  /\ e.buys \in Seq(Trade) /\ e.sells \in Seq(Trade) /\ All(e) \in Seq(Trade)
         /\ \A i \in DOMAIN All(e) : All(e)[i].exact => DOMAIN copy.log # {}
         /\ \A side \in Sides : \A j \in DOMAIN Trades(copy, e.mint, side, e.venue) :
              \E i \in DOMAIN All(e) : All(e)[i] = Trades(copy, e.mint, side, e.venue)[j]
         /\ \A i \in DOMAIN All(e) : \E side \in Sides :
              LET j == All(e)[i].number
              IN  /\ j \in DOMAIN Trades(copy, e.mint, side, e.venue)
                  /\ All(e)[i] = Trades(copy, e.mint, side, e.venue)[j]
                  /\ i = IF side = BuyOps THEN j ELSE Len(e.buys) + j
<1>0. BuyOps # SellOps
  BY DEF BuyOps, SellOps
<1>1. /\ e.buys = Trades(copy, e.mint, BuyOps, e.venue)
      /\ e.sells = Trades(copy, e.mint, SellOps, e.venue)
      /\ e.venue \in Venues
  BY EventIs
<1>2. /\ e.buys \in Seq(Trade) /\ e.sells \in Seq(Trade)
      /\ \A i \in DOMAIN e.buys : e.buys[i].number = i /\ (e.buys[i].exact => DOMAIN copy.log # {})
      /\ \A i \in DOMAIN e.sells : e.sells[i].number = i /\ (e.sells[i].exact => DOMAIN copy.log # {})
  BY <1>1, TradesTyped
<1> DEFINE b == e.buys
           s == e.sells
           T == Trade
<1>3. b \in Seq(T) /\ s \in Seq(T)
  BY <1>2
<1> HIDE DEF b, s, T
<1>4. /\ b \o s \in Seq(T) /\ DOMAIN (b \o s) = 1..(Len(b) + Len(s))
      /\ Len(b) \in Nat /\ Len(s) \in Nat
      /\ DOMAIN b = 1..Len(b) /\ DOMAIN s = 1..Len(s)
      /\ \A i \in 1..Len(b) : (b \o s)[i] = b[i]
      /\ \A i \in 1..Len(s) : (b \o s)[Len(b) + i] = s[i]
  BY <1>3
<1>5. \A i \in DOMAIN (b \o s) : \/ i \in 1..Len(b)
                                 \/ \E j \in 1..Len(s) : i = Len(b) + j
  <2> TAKE i \in DOMAIN (b \o s)
  <2>1. i \in 1..Len(b) \/ (i - Len(b) \in 1..Len(s) /\ i = Len(b) + (i - Len(b)))
    BY <1>4
  <2> QED
    BY <2>1
<1>6. All(e) = b \o s
  BY DEF All, b, s
<1>7. \A i \in 1..Len(s) : Len(b) + i \in DOMAIN (b \o s)
  BY <1>4
<1>8. \A i \in 1..Len(b) : i \in DOMAIN (b \o s)
  BY <1>4
<1>9. /\ b = Trades(copy, e.mint, BuyOps, e.venue)
      /\ s = Trades(copy, e.mint, SellOps, e.venue)
      /\ \A i \in 1..Len(b) : b[i].number = i /\ (b[i].exact => DOMAIN copy.log # {})
      /\ \A i \in 1..Len(s) : s[i].number = i /\ (s[i].exact => DOMAIN copy.log # {})
  BY <1>1, <1>2, <1>4 DEF b, s
<1>10. \A i \in DOMAIN (b \o s) : (b \o s)[i].exact => DOMAIN copy.log # {}
  BY <1>4, <1>5, <1>9
<1>11. \A side \in Sides : \A j \in DOMAIN Trades(copy, e.mint, side, e.venue) :
         \E i \in DOMAIN (b \o s) : (b \o s)[i] = Trades(copy, e.mint, side, e.venue)[j]
  <2>1. \A j \in DOMAIN b : \E i \in DOMAIN (b \o s) : (b \o s)[i] = b[j]
    BY <1>4, <1>8
  <2>2. \A j \in DOMAIN s : \E i \in DOMAIN (b \o s) : (b \o s)[i] = s[j]
    BY <1>4, <1>7
  <2> QED
    BY <2>1, <2>2, <1>9 DEF Sides
<1>12. \A i \in DOMAIN (b \o s) : \E side \in Sides :
         LET j == (b \o s)[i].number
         IN  /\ j \in DOMAIN Trades(copy, e.mint, side, e.venue)
             /\ (b \o s)[i] = Trades(copy, e.mint, side, e.venue)[j]
             /\ i = IF side = BuyOps THEN j ELSE Len(b) + j
  <2> TAKE i \in DOMAIN (b \o s)
  <2>1. CASE i \in 1..Len(b)
    <3>1. (b \o s)[i] = b[i] /\ b[i].number = i /\ BuyOps \in Sides
      BY <2>1, <1>4, <1>9 DEF Sides
    <3> QED
      BY <2>1, <3>1, <1>4, <1>9
  <2>2. ASSUME NEW j \in 1..Len(s), i = Len(b) + j
        PROVE  \E side \in Sides :
                 LET n == (b \o s)[i].number
                 IN  /\ n \in DOMAIN Trades(copy, e.mint, side, e.venue)
                     /\ (b \o s)[i] = Trades(copy, e.mint, side, e.venue)[n]
                     /\ i = IF side = BuyOps THEN n ELSE Len(b) + n
    <3>1. (b \o s)[i] = s[j] /\ s[j].number = j /\ SellOps \in Sides
      BY <2>2, <1>4, <1>9 DEF Sides
    <3> QED
      BY <2>2, <3>1, <1>0, <1>4, <1>9
  <2> QED
    BY <2>1, <2>2, <1>5
<1>13. e.buys \in Seq(Trade) /\ e.sells \in Seq(Trade) /\ All(e) \in Seq(Trade)
  BY <1>2, <1>4, <1>6 DEF T
<1>14. Len(e.buys) = Len(b)
  BY DEF b
<1>15. \A i \in DOMAIN All(e) : All(e)[i].exact => DOMAIN copy.log # {}
  BY <1>6, <1>10
<1>16. \A side \in Sides : \A j \in DOMAIN Trades(copy, e.mint, side, e.venue) :
         \E i \in DOMAIN All(e) : All(e)[i] = Trades(copy, e.mint, side, e.venue)[j]
  BY <1>6, <1>11
<1>17. \A i \in DOMAIN All(e) : \E side \in Sides :
         LET j == All(e)[i].number
         IN  /\ j \in DOMAIN Trades(copy, e.mint, side, e.venue)
             /\ All(e)[i] = Trades(copy, e.mint, side, e.venue)[j]
             /\ i = IF side = BuyOps THEN j ELSE Len(e.buys) + j
  BY <1>6, <1>12, <1>14
<1> QED
  BY <1>13, <1>15, <1>16, <1>17

\* x is a trade that executed, as event e of the complete copy of tx tells it.
Tells(tx, e, x) == e \in Events(FullCopy(tx)) /\ x \in Range(All(e)) /\ x.exact

\* Those of one side.
TradesOf(tx, e, side) == Trades(FullCopy(tx), e.mint, side, e.venue)

\* A trade told by an event of the complete copy is at its number in the list of its side.
LEMMA Told ==
  ASSUME NEW tx \in Transaction, NEW e, NEW x, Tells(tx, e, x)
  PROVE  \E side \in Sides :
           /\ x.number \in DOMAIN TradesOf(tx, e, side)
           /\ x = TradesOf(tx, e, side)[x.number]
           /\ x.at \in LogOf(tx, e.mint, VenueOps(e.venue) \cap side)
           /\ x.call = Executed(tx)[x.at]
           /\ AllNamed(tx) => x.index = x.at
<1>1. FullCopy(tx) \in Copy /\ e \in Events(FullCopy(tx)) /\ x.exact
  BY FullIs DEF Tells
<1>2. e.venue \in Venues
  BY <1>1, EventIs
<1>3. PICK i \in DOMAIN All(e) : x = All(e)[i]
  BY DEF Tells, Range
<1>4. PICK side \in Sides : /\ x.number \in DOMAIN TradesOf(tx, e, side)
                            /\ x = TradesOf(tx, e, side)[x.number]
  BY <1>1, <1>3, EventTyped DEF TradesOf
<1>5. Faithful(tx, e.mint, VenueOps(e.venue) \cap side, TradesOf(tx, e, side))
  BY <1>2, TradesFaithful DEF TradesOf
<1>6. /\ x.at \in LogOf(tx, e.mint, VenueOps(e.venue) \cap side)
      /\ x.call = Executed(tx)[x.at]
      /\ AllNamed(tx) => x.index = x.at
  BY <1>1, <1>4, <1>5 DEF Faithful
<1> QED
  BY <1>4, <1>6

\* ... and is what was executed.
LEMMA ToldIsExecuted ==
  ASSUME NEW tx \in Transaction, NEW e, NEW x, Tells(tx, e, x)
  PROVE  /\ ~tx.failed /\ e.mint \in Mints /\ x \in Trade
         /\ x.at \in Range(Log(tx)) /\ x.call = Executed(tx)[x.at] /\ x.call.mint = e.mint
         /\ x.call.op \in VenueOps(e.venue)
         /\ AllNamed(tx) => x.index = x.at
<1>1. FullCopy(tx) \in Copy /\ e \in Events(FullCopy(tx)) /\ FullCopy(tx).failed = tx.failed
  BY FullIs DEF Tells
<1>2. ~tx.failed /\ e.mint \in Mints
  BY <1>1, EventIs
<1>3. x \in Trade
  <2>1. All(e) \in Seq(Trade)
    BY <1>1, EventTyped
  <2> QED
    BY <2>1 DEF Tells, Range
<1>4. PICK side \in Sides :
           /\ x.at \in LogOf(tx, e.mint, VenueOps(e.venue) \cap side)
           /\ x.call = Executed(tx)[x.at]
           /\ AllNamed(tx) => x.index = x.at
  BY Told
<1>5. /\ x.at \in Range(Log(tx)) /\ Executed(tx)[x.at].mint = e.mint
      /\ Executed(tx)[x.at].op \in VenueOps(e.venue)
  BY <1>4 DEF LogOf
<1> QED
  BY <1>2, <1>3, <1>4, <1>5

(***************************************************************************)
(* The side of a trade, and its venue, are those of its instruction.       *)
(***************************************************************************)
LEMMA OneSide ==
  ASSUME NEW side \in Sides, NEW c, c.op \in side
  PROVE  side = IF Buys(c) THEN BuyOps ELSE SellOps
BY DEF Sides, Buys, BuyOps, SellOps

\* The instruction tells the venue.
LEMMA OneVenue ==
  ASSUME NEW v \in Venues, NEW op, op \in VenueOps(v)
  PROVE  v = IF op \in CurveOps THEN "curve" ELSE "amm"
BY DEF Venues, VenueOps, CurveOps, AmmOps

\* Two told trades of one instruction are one.
LEMMA SameAt ==
  ASSUME NEW tx \in Transaction, NEW e, NEW x, Tells(tx, e, x),
         NEW f, NEW y, Tells(tx, f, y), x.at = y.at
  PROVE  x = y /\ e.mint = f.mint
<1>1. PICK side \in Sides :
           /\ x.number \in DOMAIN TradesOf(tx, e, side)
           /\ x = TradesOf(tx, e, side)[x.number]
           /\ x.at \in LogOf(tx, e.mint, VenueOps(e.venue) \cap side)
  BY Told
<1>2. PICK other \in Sides :
           /\ y.number \in DOMAIN TradesOf(tx, f, other)
           /\ y = TradesOf(tx, f, other)[y.number]
           /\ y.at \in LogOf(tx, f.mint, VenueOps(f.venue) \cap other)
  BY Told
<1>3. /\ FullCopy(tx) \in Copy /\ e \in Events(FullCopy(tx)) /\ f \in Events(FullCopy(tx))
      /\ x.exact /\ y.exact
  BY FullIs DEF Tells
<1>4. e.venue \in Venues /\ f.venue \in Venues
  BY <1>3, EventIs
<1> DEFINE c == Executed(tx)[x.at]
<1>5. /\ c.mint = e.mint /\ c.mint = f.mint
      /\ c.op \in VenueOps(e.venue) /\ c.op \in VenueOps(f.venue)
      /\ c.op \in side /\ c.op \in other
  BY <1>1, <1>2 DEF LogOf
<1> HIDE DEF c
<1>6. side = other
  <2>1. side = IF Buys(c) THEN BuyOps ELSE SellOps
    BY <1>5, OneSide
  <2>2. other = IF Buys(c) THEN BuyOps ELSE SellOps
    BY <1>5, OneSide
  <2> QED
    BY <2>1, <2>2
<1>7. e.venue = f.venue
  BY <1>4, <1>5, OneVenue
<1>8. TradesOf(tx, e, side) = TradesOf(tx, f, other)
  BY <1>5, <1>6, <1>7 DEF TradesOf
<1>9. Faithful(tx, e.mint, VenueOps(e.venue) \cap side, TradesOf(tx, e, side))
  BY <1>4, TradesFaithful DEF TradesOf
<1>10. x.number = y.number
  BY <1>1, <1>2, <1>3, <1>8, <1>9 DEF Faithful
<1> QED
  BY <1>1, <1>2, <1>5, <1>8, <1>10

\* Two told trades of one mint, venue, side and number are one.
LEMMA SameNumber ==
  ASSUME NEW tx \in Transaction, NEW e, NEW x, Tells(tx, e, x),
         NEW f, NEW y, Tells(tx, f, y),
         e.mint = f.mint, e.venue = f.venue,
         x.number = y.number, Buys(x.call) = Buys(y.call)
  PROVE  x = y
<1>1. PICK side \in Sides :
           /\ x = TradesOf(tx, e, side)[x.number]
           /\ x.at \in LogOf(tx, e.mint, VenueOps(e.venue) \cap side)
           /\ x.call = Executed(tx)[x.at]
  BY Told
<1>2. PICK other \in Sides :
           /\ y.number \in DOMAIN TradesOf(tx, f, other)
           /\ y = TradesOf(tx, f, other)[y.number]
           /\ y.at \in LogOf(tx, f.mint, VenueOps(f.venue) \cap other)
           /\ y.call = Executed(tx)[y.at]
           /\ AllNamed(tx) => y.index = y.at
  BY Told
<1>3. x.call.op \in side /\ y.call.op \in other
  BY <1>1, <1>2 DEF LogOf
<1>4. side = other
  <2>1. side = IF Buys(x.call) THEN BuyOps ELSE SellOps
    BY <1>3, OneSide
  <2>2. other = IF Buys(y.call) THEN BuyOps ELSE SellOps
    BY <1>3, OneSide
  <2> QED
    BY <2>1, <2>2
<1>5. TradesOf(tx, e, side) = TradesOf(tx, f, other)
  BY <1>4 DEF TradesOf
<1> QED
  BY <1>1, <1>2, <1>5

\* Both executed trades and their places in the event are told by number and side.
LEMMA OnePlace ==
  ASSUME NEW tx \in Transaction, NEW e \in Events(FullCopy(tx)),
         NEW i \in DOMAIN All(e), NEW j \in DOMAIN All(e),
         All(e)[i].exact, All(e)[j].exact,
         All(e)[i].number = All(e)[j].number, Buys(All(e)[i].call) = Buys(All(e)[j].call)
  PROVE  i = j
<1> DEFINE x == All(e)[i]
           y == All(e)[j]
<1>1. Tells(tx, e, x) /\ Tells(tx, e, y)
  BY DEF Tells, Range
<1>2. x = y
  BY <1>1, SameNumber
<1>3. FullCopy(tx) \in Copy
  BY FullIs
<1>4. PICK side \in Sides :
        /\ x.number \in DOMAIN TradesOf(tx, e, side)
        /\ x = TradesOf(tx, e, side)[x.number]
        /\ i = IF side = BuyOps THEN x.number ELSE Len(e.buys) + x.number
  BY <1>3, EventTyped DEF TradesOf
<1>5. PICK other \in Sides :
        /\ y.number \in DOMAIN TradesOf(tx, e, other)
        /\ y = TradesOf(tx, e, other)[y.number]
        /\ j = IF other = BuyOps THEN y.number ELSE Len(e.buys) + y.number
  BY <1>3, EventTyped DEF TradesOf
<1>6. e.venue \in Venues
  BY <1>3, EventIs
<1>7. /\ Faithful(tx, e.mint, VenueOps(e.venue) \cap side, TradesOf(tx, e, side))
      /\ Faithful(tx, e.mint, VenueOps(e.venue) \cap other, TradesOf(tx, e, other))
  BY <1>6, TradesFaithful DEF TradesOf
<1>8. /\ x.at \in LogOf(tx, e.mint, VenueOps(e.venue) \cap side)
      /\ y.at \in LogOf(tx, e.mint, VenueOps(e.venue) \cap other)
  BY <1>4, <1>5, <1>7 DEF Faithful
<1>9. Executed(tx)[x.at].op \in side /\ Executed(tx)[y.at].op \in other
  BY <1>8 DEF LogOf
<1>10. side = other
  <2> DEFINE c == Executed(tx)[x.at]
  <2>1. c.op \in side /\ c.op \in other
    BY <1>2, <1>9
  <2> HIDE DEF c
  <2>2. side = IF Buys(c) THEN BuyOps ELSE SellOps
    BY <2>1, OneSide
  <2>3. other = IF Buys(c) THEN BuyOps ELSE SellOps
    BY <2>1, OneSide
  <2> QED
    BY <2>2, <2>3
<1> QED
  BY <1>2, <1>4, <1>5, <1>10

(***************************************************************************)
(* An event of a mint whose instructions are all of one venue tells every  *)
(* trade of that mint in the logs.                                         *)
(***************************************************************************)
Mixed(tx, m) ==
  \E c, d \in Range(Executed(tx)) :
    c.mint = m /\ d.mint = m /\ c.op \in CurveOps /\ d.op \in AmmOps

\* The transaction of an event has an instruction of its mint and venue.
LEMMA EventOfVenue ==
  ASSUME NEW tx \in Transaction, NEW e \in Events(FullCopy(tx))
  PROVE  \E c \in Range(Executed(tx)) : c.mint = e.mint /\ c.op \in VenueOps(e.venue)
<1> DEFINE copy == FullCopy(tx)
<1>1. /\ copy \in Copy /\ copy.calls = Executed(tx)
      /\ DOMAIN copy.log = 1..Len(Log(tx))
      /\ \A k \in 1..Len(Log(tx)) : copy.log[k].call = Executed(tx)[Log(tx)[k]]
      /\ \A k \in 1..Len(Log(tx)) : Log(tx)[k] \in DOMAIN Executed(tx)
  <2>1. \A k \in 1..Len(Log(tx)) : Log(tx)[k] \in DOMAIN Executed(tx)
    BY LogAt DEF Traded
  <2> QED
    BY <2>1, FullIs
<1> HIDE DEF copy
<1>2. \/ e.venue = "curve" /\ e.mint \in CurveMints(copy)
      \/ e.venue = "amm" /\ \E i \in AmmCandidates(copy) : copy.calls[i].mint = e.mint
  BY <1>1, EventIs DEF copy
<1>3. CASE e.venue = "curve" /\ e.mint \in CurveMints(copy)
  <2>1. \/ \E c \in Range(copy.calls) : c.mint = e.mint /\ Recognised(copy, c)
        \/ \E k \in DOMAIN copy.log : copy.log[k].call.op \in CurveOps /\ copy.log[k].call.mint = e.mint
    BY <1>3 DEF CurveMints, Logged
  <2>2. \A c : Recognised(copy, c) => c.op \in CurveOps
    BY DEF Recognised, CurveOps
  <2>3. \A k \in DOMAIN copy.log : copy.log[k].call \in Range(Executed(tx))
    BY <1>1 DEF Range
  <2> QED
    BY <1>1, <1>3, <2>1, <2>2, <2>3 DEF VenueOps
<1>4. CASE e.venue = "amm" /\ \E i \in AmmCandidates(copy) : copy.calls[i].mint = e.mint
  <2>1. PICK i \in AmmCandidates(copy) : copy.calls[i].mint = e.mint
    BY <1>4
  <2>2. i \in DOMAIN Executed(tx) /\ Executed(tx)[i].op \in AmmOps /\ Executed(tx)[i].mint = e.mint
    BY <2>1, <1>1 DEF AmmCandidates
  <2> QED
    BY <1>4, <2>2 DEF Range, VenueOps
<1> QED
  BY <1>2, <1>3, <1>4

\* All instructions of an unmixed mint are of the venue of its event.
LEMMA Unmixed ==
  ASSUME NEW tx \in Transaction, NEW e \in Events(FullCopy(tx)), ~Mixed(tx, e.mint),
         NEW c \in Range(Executed(tx)), c.mint = e.mint, c.op \in CurveOps \cup AmmOps
  PROVE  c.op \in VenueOps(e.venue)
<1>1. FullCopy(tx) \in Copy
  BY FullIs
<1>2. e.venue \in Venues
  BY <1>1, EventIs
<1>3. PICK d \in Range(Executed(tx)) : d.mint = e.mint /\ d.op \in VenueOps(e.venue)
  BY EventOfVenue
<1> QED
  BY <1>2, <1>3 DEF Mixed, VenueOps, Venues

\* Every logged trade of an unmixed mint is told by its event.
LEMMA AllTold ==
  ASSUME NEW tx \in Transaction, NEW e \in Events(FullCopy(tx)), ~Mixed(tx, e.mint),
         NEW a \in Range(Log(tx)), Executed(tx)[a].mint = e.mint
  PROVE  \E i \in DOMAIN All(e) : All(e)[i].exact /\ All(e)[i].at = a
<1>1. FullCopy(tx) \in Copy
  BY FullIs
<1>2. e.venue \in Venues
  BY <1>1, EventIs
<1> DEFINE c == Executed(tx)[a]
<1>3. a \in DOMAIN Executed(tx) /\ (Buys(c) \/ Sells(c))
  BY LogAt DEF Traded
<1>4. c \in Range(Executed(tx)) /\ c.op \in CurveOps \cup AmmOps
  BY <1>3 DEF Range, Buys, Sells, BuyOps, SellOps, CurveOps, AmmOps
<1>5. c.op \in VenueOps(e.venue)
  BY <1>4, Unmixed
<1>6. PICK side \in Sides : c.op \in side
  BY <1>3 DEF Sides, Buys, Sells
<1>7. a \in LogOf(tx, e.mint, VenueOps(e.venue) \cap side)
  BY <1>5, <1>6 DEF LogOf
<1>8. Faithful(tx, e.mint, VenueOps(e.venue) \cap side, TradesOf(tx, e, side))
  BY <1>2, TradesFaithful DEF TradesOf
<1>9. PICK j \in DOMAIN TradesOf(tx, e, side) :
        TradesOf(tx, e, side)[j].exact /\ TradesOf(tx, e, side)[j].at = a
  BY <1>7, <1>8 DEF Faithful
<1>10. \E i \in DOMAIN All(e) : All(e)[i] = TradesOf(tx, e, side)[j]
  BY <1>1, <1>9, EventTyped DEF TradesOf
<1> QED
  BY <1>9, <1>10

\* Two events of one mint have the same trades.
LEMMA SameEvent ==
  ASSUME NEW tx \in Transaction, NEW e \in Events(FullCopy(tx)), NEW f \in Events(FullCopy(tx)),
         e.mint = f.mint, ~Mixed(tx, e.mint)
  PROVE  e.venue = f.venue
<1>1. FullCopy(tx) \in Copy
  BY FullIs
<1>2. e.venue \in Venues /\ f.venue \in Venues
  BY <1>1, EventIs
<1>3. PICK c \in Range(Executed(tx)) : c.mint = f.mint /\ c.op \in VenueOps(f.venue)
  BY EventOfVenue
<1>4. c.op \in CurveOps \cup AmmOps
  BY <1>3 DEF VenueOps
<1>5. c.op \in VenueOps(e.venue)
  BY <1>3, <1>4, Unmixed
<1> QED
  BY <1>2, <1>3, <1>5, OneVenue

(***************************************************************************)
(* A Shred copy tells no executed trade.                                   *)
(***************************************************************************)
LEMMA ShredTellsNothing ==
  ASSUME NEW tx \in Transaction, NEW e \in Events(ShredCopy(tx))
  PROVE  /\ e.mint \in Mints /\ All(e) \in Seq(Trade)
         /\ \A i \in DOMAIN All(e) : ~All(e)[i].exact
BY ShredIs, EventIs, EventTyped

-----------------------------------------------------------------------------
(***************************************************************************)
(* Booking an event.                                                       *)
(***************************************************************************)
BookEntry ==
  [tx : Nat, mint : Mints, at : Nat, index : Nat \cup {Unpaired}, number : Nat, call : Call]

\* The key by which the journal knows trade i of event e.
KeyOf(t, e, i) == SeenKey(Entry(t, e.mint, All(e)[i]))

\* No two entries have one key.
EachOnce(book) ==
  \A k, l \in DOMAIN book : SeenKey(book[k]) = SeenKey(book[l]) => k = l

\* Fresh in these terms.
LEMMA FreshIs ==
  ASSUME NEW t, NEW e, NEW book
  PROVE  Fresh(book, t, e) =
           {i \in DOMAIN All(e) :
              /\ All(e)[i].exact
              /\ \A k \in DOMAIN book : SeenKey(book[k]) # KeyOf(t, e, i)
              /\ \A j \in 1..(i - 1) : All(e)[j].exact => KeyOf(t, e, j) # KeyOf(t, e, i)}
BY DEF Fresh, All, KeyOf

\* Booking an event adds its fresh trades and nothing else, no key twice.
LEMMA Recorded ==
  ASSUME booked \in Seq(BookEntry), NEW t \in Nat, NEW e, e.mint \in Mints,
         All(e) \in Seq(Trade), Record(t, e)
  PROVE  LET F == Fresh(booked, t, e) IN
         /\ booked' \in Seq(BookEntry)
         /\ \A k \in DOMAIN booked : k \in DOMAIN booked' /\ booked'[k] = booked[k]
         /\ \A k \in DOMAIN booked' :
              \/ k \in DOMAIN booked
              \/ \E i \in F : booked'[k] = Entry(t, e.mint, All(e)[i])
         /\ \A i \in F : \E k \in DOMAIN booked' : booked'[k] = Entry(t, e.mint, All(e)[i])
         /\ EachOnce(booked) => EachOnce(booked')
<1> DEFINE F == Fresh(booked, t, e)
           c == Cardinality(F)
           f == InOrder(F)
           tail == [n \in 1..c |-> Entry(t, e.mint, All(e)[f[n]])]
           B == BookEntry
<1>1. /\ F \in SUBSET Nat /\ F \subseteq DOMAIN All(e) /\ c \in Nat /\ f \in [1..c -> F]
      /\ IsFiniteSet(F)
  <2>1. F \in SUBSET DOMAIN All(e)
    BY FreshIs
  <2> HIDE DEF F
  <2> QED
    BY <2>1, PositionsIn
<1>2. \A i \in F : Entry(t, e.mint, All(e)[i]) \in B
  <2> TAKE i \in F
  <2>1. All(e)[i] \in Trade
    BY <1>1
  <2> QED
    BY <2>1 DEF Entry, BookEntry, Trade
<1>3. booked' = booked \o tail
  <2>1. DOMAIN f = 1..c
    BY <1>1
  <2> QED
    BY <2>1 DEF Record, All
<1>4. /\ \A i \in F : \E n \in 1..c : f[n] = i
      /\ \A n, m \in 1..c : f[n] = f[m] => n = m
  <2> HIDE DEF F
  <2>1. \A i \in F : \E n \in 1..c : f[n] = i
    BY <1>1, InOrderIs
  <2>2. ASSUME NEW n \in 1..c, NEW m \in 1..c, f[n] = f[m] PROVE n = m
    <3>1. f[n] \in F /\ f[m] \in F
      BY <1>1
    <3>2. f[n] \in Nat /\ f[m] \in Nat
      BY <1>1, <3>1
    <3>3. n \in Nat /\ m \in Nat
      BY <1>1
    <3>4. (n < m => f[n] < f[m]) /\ (m < n => f[m] < f[n])
      BY <1>1, InOrderGrows
    <3> QED
      BY <2>2, <3>2, <3>3, <3>4
  <2> QED
    BY <2>1, <2>2
<1> HIDE DEF F, f, c
<1>5. tail \in Seq(B) /\ Len(tail) = c /\ booked \in Seq(B)
  <2>1. tail \in [1..c -> B]
    BY <1>1, <1>2
  <2> HIDE DEF tail, B
  <2>2. booked \in Seq(B)
    BY DEF B
  <2> QED
    BY <2>1, <2>2, <1>1
<1>6. \A n \in 1..c : tail[n] = Entry(t, e.mint, All(e)[f[n]])
  OBVIOUS
<1> HIDE DEF tail, B
<1> DEFINE L == Len(booked)
<1>7. /\ booked' \in Seq(B) /\ DOMAIN booked' = 1..(L + c) /\ DOMAIN booked = 1..L /\ L \in Nat
      /\ \A k \in 1..L : booked'[k] = booked[k]
      /\ \A n \in 1..c : booked'[L + n] = tail[n]
  <2> DEFINE b == booked
  <2>1. b \in Seq(B) /\ tail \in Seq(B) /\ Len(tail) = c
    BY <1>5
  <2> HIDE DEF b
  <2>2. /\ b \o tail \in Seq(B) /\ DOMAIN (b \o tail) = 1..(Len(b) + Len(tail))
        /\ \A k \in 1..Len(b) : (b \o tail)[k] = b[k]
        /\ \A n \in 1..Len(tail) : (b \o tail)[Len(b) + n] = tail[n]
    BY <2>1, SMTT(30)
  <2>3. DOMAIN b = 1..Len(b) /\ Len(b) \in Nat
    BY <2>1
  <2> QED
    BY <2>1, <2>2, <2>3, <1>3 DEF b
<1> HIDE DEF L
<1>8. \A k \in 1..(L + c) : k \in 1..L \/ \E n \in 1..c : k = L + n
  <2> TAKE k \in 1..(L + c)
  <2>1. k \in 1..L \/ (k - L \in 1..c /\ k = L + (k - L))
    BY <1>1, <1>7
  <2> QED
    BY <2>1
<1>9. \A k \in DOMAIN booked : k \in DOMAIN booked' /\ booked'[k] = booked[k]
  BY <1>1, <1>7
<1>10. \A k \in DOMAIN booked' :
              \/ k \in DOMAIN booked
              \/ \E i \in F : booked'[k] = Entry(t, e.mint, All(e)[i])
  <2>1. \A n \in 1..c : \E i \in F : booked'[L + n] = Entry(t, e.mint, All(e)[i])
    <3> TAKE n \in 1..c
    <3>1. f[n] \in F
      BY <1>1
    <3>2. booked'[L + n] = Entry(t, e.mint, All(e)[f[n]])
      BY <1>6, <1>7
    <3> QED
      BY <3>1, <3>2
  <2> QED
    BY <2>1, <1>7, <1>8
<1>11. \A i \in F : \E k \in DOMAIN booked' : booked'[k] = Entry(t, e.mint, All(e)[i])
  <2> TAKE i \in F
  <2>1. PICK n \in 1..c : f[n] = i
    BY <1>4
  <2>2. L + n \in DOMAIN booked'
    BY <1>1, <1>7
  <2> QED
    BY <2>1, <2>2, <1>6, <1>7
<1>12. ASSUME EachOnce(booked) PROVE EachOnce(booked')
  <2>1. \A i \in F : /\ All(e)[i].exact
                     /\ \A k \in DOMAIN booked : SeenKey(booked[k]) # KeyOf(t, e, i)
                     /\ \A j \in 1..(i - 1) : All(e)[j].exact => KeyOf(t, e, j) # KeyOf(t, e, i)
    BY FreshIs DEF F
  <2>2. \A i, j \in F : KeyOf(t, e, i) = KeyOf(t, e, j) => i = j
    <3> TAKE i, j \in F
    <3>1. i \in Nat /\ j \in Nat /\ i \in DOMAIN All(e) /\ j \in DOMAIN All(e)
      BY <1>1
    <3>2. i \in 1..Len(All(e)) /\ j \in 1..Len(All(e))
      BY <3>1
    <3>3. (i < j => i \in 1..(j - 1)) /\ (j < i => j \in 1..(i - 1)) /\ (i < j \/ j < i \/ i = j)
      BY <3>1, <3>2
    <3> QED
      BY <2>1, <3>3
  <2>3. \A n \in 1..c : SeenKey(booked'[L + n]) = KeyOf(t, e, f[n]) /\ f[n] \in F
    BY <1>1, <1>6, <1>7 DEF KeyOf
  <2>4. \A k \in 1..L : SeenKey(booked'[k]) = SeenKey(booked[k])
    BY <1>7
  <2>5. \A k, l \in 1..L : SeenKey(booked'[k]) = SeenKey(booked'[l]) => k = l
    BY <1>12, <1>7, <2>4 DEF EachOnce
  <2>6. \A k \in 1..L, n \in 1..c : SeenKey(booked'[k]) # SeenKey(booked'[L + n])
    <3> TAKE k \in 1..L, n \in 1..c
    <3>1. k \in DOMAIN booked /\ SeenKey(booked'[k]) = SeenKey(booked[k])
      BY <2>4, <1>7
    <3>2. f[n] \in F /\ SeenKey(booked'[L + n]) = KeyOf(t, e, f[n])
      BY <2>3
    <3> QED
      BY <3>1, <3>2, <2>1
  <2>7. \A n, m \in 1..c : SeenKey(booked'[L + n]) = SeenKey(booked'[L + m]) => n = m
    BY <2>2, <2>3, <1>4
  <2>8. \A k, l \in 1..(L + c) : SeenKey(booked'[k]) = SeenKey(booked'[l]) => k = l
    BY <2>5, <2>6, <2>7, <1>8
  <2> QED
    BY <2>8, <1>7 DEF EachOnce
<1> QED
  BY <1>7, <1>9, <1>10, <1>11, <1>12 DEF F, B

-----------------------------------------------------------------------------
(***************************************************************************)
(* The composition keeps to the merge actor.                               *)
(***************************************************************************)
LEMMA MergeStep ==
  ASSUME IInv, NEW k \in Keys, NEW source \in Sources,
         Duplicate(k, source) \/ FirstReport(k, source)
  PROVE  /\ Next /\ IInv'
         /\ Complete(source) => k \in passed \/ out' # Nothing
         /\ passed' \subseteq IF Complete(source) THEN passed \cup {k} ELSE passed
<1>1. Next
  BY DEF Next
<1>2. IInv'
  BY DuplicateStep, FirstReportStep
<1>3. CASE FirstReport(k, source)
  <2>1. /\ out' = [key |-> k, complete |-> Complete(source), replayed |-> source = "replay"]
        /\ passed' = With(passed, k, Complete(source))
    BY <1>3 DEF FirstReport
  <2>2. Complete(source) => out' # Nothing
    BY <2>1 DEF Nothing
  <2>3. passed' \subseteq IF Complete(source) THEN passed \cup {k} ELSE passed
    BY <2>1 DEF With
  <2> QED
    BY <1>1, <1>2, <2>2, <2>3
<1>4. CASE Duplicate(k, source) /\ ShouldForward(k, source)
  <2>1. /\ out' = [key |-> k, complete |-> TRUE, replayed |-> TRUE]
        /\ passed' = passed \cup {k}
    BY <1>4 DEF Duplicate
  <2>2. out' # Nothing
    BY <2>1 DEF Nothing
  <2>3. Complete(source)
    BY <1>4 DEF ShouldForward
  <2> QED
    BY <1>1, <1>2, <2>1, <2>2, <2>3
<1>5. CASE Duplicate(k, source) /\ ~ShouldForward(k, source)
  <2>1. passed' = passed /\ first[k] # "none"
    BY <1>5 DEF Duplicate
  <2>2. Complete(source) => k \in passed
    BY <1>5, <2>1 DEF IInv, ShouldForward, MemoryIsExact, MergeTypeOK, Sources
  <2> QED
    BY <1>1, <1>2, <2>1, <2>2
<1> QED
  BY <1>3, <1>4, <1>5

-----------------------------------------------------------------------------
(***************************************************************************)
(* The invariant of the composition.                                       *)
(***************************************************************************)
\* What is given to a behaviour: the chain, its decoded copies and the settings.
Given ==
  /\ chain \in Seq(Transaction) /\ (DOMAIN chain) \X Mints \subseteq Keys
  /\ decoded = [t \in DOMAIN chain |->
                  [full \in BOOLEAN |->
                     Events(IF full THEN FullCopy(chain[t]) ELSE ShredCopy(chain[t]))]]
  /\ set.feeds \subseteq Sources

\* b stands for an executed trade of an event of a complete copy.
FromLogs(txs, b) ==
  /\ b.tx \in DOMAIN txs
  /\ \E e \in Events(FullCopy(txs[b.tx])) : \E i \in DOMAIN All(e) :
       All(e)[i].exact /\ b = Entry(b.tx, e.mint, All(e)[i])

\* The trade of instruction a of transaction t is booked.
InBook(t, a) == \E k \in DOMAIN booked : booked[k].tx = t /\ booked[k].at = a

\* All trades of mint m in the logs of transaction t.
AllIn(t, m) ==
  \A a \in Range(Log(chain[t])) : Executed(chain[t])[a].mint = m => InBook(t, a)

\* What the strategy was told of in full is in the book in full.
BooksFollow ==
  \A t \in DOMAIN chain, m \in Mints :
    <<t, m>> \in heard \cup passed /\ ~Migrates(t, m) => AllIn(t, m)

\* The inductive invariant.
LedgerInv ==
  /\ Given /\ IInv
  /\ booked \in Seq(BookEntry) /\ EachOnce(booked)
  /\ \A k \in DOMAIN booked : FromLogs(chain, booked[k])
  /\ BooksFollow

\* What comes in are the events of the copies of the chain's transactions.
LEMMA CopyIs ==
  ASSUME Given, NEW t \in DOMAIN chain, NEW source \in set.feeds,
         NEW e \in decoded[t][Complete(source)]
  PROVE  /\ t \in Nat /\ chain[t] \in Transaction /\ source \in Sources
         /\ e.mint \in Mints /\ <<t, e.mint>> \in Keys
         /\ All(e) \in Seq(Trade)
         /\ Complete(source) => e \in Events(FullCopy(chain[t]))
         /\ ~Complete(source) => /\ e \in Events(ShredCopy(chain[t]))
                                 /\ \A i \in DOMAIN All(e) : ~All(e)[i].exact
<1>1. /\ t \in Nat /\ chain[t] \in Transaction /\ source \in Sources
  BY DEF Given
<1>2. e \in Events(IF Complete(source) THEN FullCopy(chain[t]) ELSE ShredCopy(chain[t]))
  BY DEF Given, Complete
<1>3. ASSUME Complete(source)
      PROVE  e.mint \in Mints /\ All(e) \in Seq(Trade) /\ e \in Events(FullCopy(chain[t]))
  <2>1. e \in Events(FullCopy(chain[t]))
    BY <1>2, <1>3
  <2>2. FullCopy(chain[t]) \in Copy
    BY <1>1, FullIs
  <2> QED
    BY <2>1, <2>2, EventIs, EventTyped
<1>4. ASSUME ~Complete(source)
      PROVE  /\ e.mint \in Mints /\ All(e) \in Seq(Trade) /\ e \in Events(ShredCopy(chain[t]))
             /\ \A i \in DOMAIN All(e) : ~All(e)[i].exact
  <2>1. e \in Events(ShredCopy(chain[t]))
    BY <1>2, <1>4
  <2> QED
    BY <1>1, <2>1, ShredTellsNothing
<1>5. e.mint \in Mints
  BY <1>3, <1>4
<1>6. <<t, e.mint>> \in Keys
  BY <1>5 DEF Given
<1> QED
  BY <1>1, <1>3, <1>4, <1>5, <1>6

\* The parts of a key that tell trades of one mint and transaction apart.
LEMMA SeenKeyIs ==
  ASSUME NEW x, NEW y, SeenKey(x) = SeenKey(y)
  PROVE  /\ x.tx = y.tx /\ x.mint = y.mint /\ x.number = y.number
         /\ Buys(x.call) = Buys(y.call)
BY DEF SeenKey

\* The fields of an entry.
LEMMA EntryIs ==
  ASSUME NEW t, NEW m, NEW x
  PROVE  LET b == Entry(t, m, x)
         IN  b.tx = t /\ b.mint = m /\ b.at = x.at /\ b.index = x.index /\ b.number = x.number
             /\ b.call = x.call
BY DEF Entry

(***************************************************************************)
(* After a complete copy of an unmixed mint all its trades in the logs are *)
(* booked: the keys that keep a trade out of the book are of that trade.   *)
(***************************************************************************)
LEMMA BookedWhole ==
  ASSUME LedgerInv, NEW t \in DOMAIN chain, NEW e \in Events(FullCopy(chain[t])),
         e.mint \in Mints, All(e) \in Seq(Trade), Record(t, e), ~Mixed(chain[t], e.mint),
         NEW a \in Range(Log(chain[t])), Executed(chain[t])[a].mint = e.mint
  PROVE  \E k \in DOMAIN booked' : booked'[k].tx = t /\ booked'[k].at = a
<1> DEFINE tx == chain[t]
           F == Fresh(booked, t, e)
<1>1. tx \in Transaction /\ t \in Nat
  BY DEF LedgerInv, Given
<1>2. /\ \A k \in DOMAIN booked : k \in DOMAIN booked' /\ booked'[k] = booked[k]
      /\ \A i \in F : \E k \in DOMAIN booked' : booked'[k] = Entry(t, e.mint, All(e)[i])
  BY <1>1, Recorded DEF LedgerInv
<1>3. PICK i \in DOMAIN All(e) : All(e)[i].exact /\ All(e)[i].at = a
  BY <1>1, AllTold
<1>4. \/ i \in F
      \/ \E k \in DOMAIN booked : SeenKey(booked[k]) = KeyOf(t, e, i)
      \/ \E j \in 1..(i - 1) : All(e)[j].exact /\ KeyOf(t, e, j) = KeyOf(t, e, i)
  BY <1>3, FreshIs
<1> HIDE DEF F
<1>5. CASE i \in F
  <2>1. PICK k \in DOMAIN booked' : booked'[k] = Entry(t, e.mint, All(e)[i])
    BY <1>2, <1>5
  <2> QED
    BY <2>1, <1>3, EntryIs
<1>6. ASSUME NEW k \in DOMAIN booked, SeenKey(booked[k]) = KeyOf(t, e, i)
      PROVE  \E l \in DOMAIN booked' : booked'[l].tx = t /\ booked'[l].at = a
  <2> DEFINE b == booked[k]
             c == Entry(t, e.mint, All(e)[i])
  <2>1. /\ b.tx = t /\ b.mint = e.mint /\ b.number = All(e)[i].number
        /\ Buys(b.call) = Buys(All(e)[i].call)
    <3>1. b.tx = c.tx /\ b.mint = c.mint /\ b.number = c.number /\ Buys(b.call) = Buys(c.call)
      BY <1>6, SeenKeyIs DEF KeyOf
    <3>2. c.tx = t /\ c.mint = e.mint /\ c.number = All(e)[i].number /\ c.call = All(e)[i].call
      BY EntryIs
    <3> QED
      BY <3>1, <3>2
  <2>2. FromLogs(chain, b)
    BY DEF LedgerInv
  <2>9. PICK f \in Events(FullCopy(tx)) :
          \E j \in DOMAIN All(f) : All(f)[j].exact /\ b = Entry(t, f.mint, All(f)[j])
    BY <2>1, <2>2 DEF FromLogs
  <2>3. PICK j \in DOMAIN All(f) : All(f)[j].exact /\ b = Entry(t, f.mint, All(f)[j])
    BY <2>9
  <2>4. /\ f.mint = e.mint /\ All(f)[j].number = All(e)[i].number
        /\ Buys(All(f)[j].call) = Buys(All(e)[i].call) /\ b.at = All(f)[j].at
    BY <2>1, <2>3, EntryIs
  <2>5. f.venue = e.venue
    BY <2>4, <1>1, SameEvent
  <2>6. Tells(tx, e, All(e)[i]) /\ Tells(tx, f, All(f)[j])
    BY <1>3, <2>3 DEF Tells, Range
  <2>7. All(f)[j] = All(e)[i]
    BY <2>4, <2>5, <2>6, <1>1, SameNumber
  <2>8. b.at = a
    BY <2>4, <2>7, <1>3
  <2> QED
    BY <2>1, <2>8, <1>2
<1>7. ASSUME NEW j \in 1..(i - 1), All(e)[j].exact, KeyOf(t, e, j) = KeyOf(t, e, i)
      PROVE  FALSE
  <2> DEFINE c == Entry(t, e.mint, All(e)[i])
             d == Entry(t, e.mint, All(e)[j])
  <2>1. c.number = d.number /\ Buys(c.call) = Buys(d.call)
    BY <1>7, SeenKeyIs DEF KeyOf
  <2>2. /\ All(e)[j].number = All(e)[i].number
        /\ Buys(All(e)[j].call) = Buys(All(e)[i].call)
    BY <2>1, EntryIs
  <2>3. j \in DOMAIN All(e) /\ i # j
    <3>1. DOMAIN All(e) = 1..Len(All(e)) /\ Len(All(e)) \in Nat
      OBVIOUS
    <3> QED
      BY <3>1
  <2> QED
    BY <2>2, <2>3, <1>1, <1>3, <1>7, OnePlace
<1> QED
  BY <1>4, <1>5, <1>6, <1>7

(***************************************************************************)
(* A report preserves the invariant.                                       *)
(***************************************************************************)
LEMMA ReportStep ==
  ASSUME LedgerInv, NEW t \in DOMAIN chain, NEW source \in set.feeds,
         NEW e \in decoded[t][Complete(source)], Report(t, source, e)
  PROVE  LedgerInv' /\ Next
<1> DEFINE k == <<t, e.mint>>
<1> USE DEF LedgerInv
<1>1. /\ t \in Nat /\ chain[t] \in Transaction /\ source \in Sources
      /\ e.mint \in Mints /\ k \in Keys /\ All(e) \in Seq(Trade)
      /\ Complete(source) => e \in Events(FullCopy(chain[t]))
      /\ ~Complete(source) => \A i \in DOMAIN All(e) : ~All(e)[i].exact
  BY CopyIs
<1>2. /\ Duplicate(k, source) \/ FirstReport(k, source)
      /\ IF out' = Nothing THEN UNCHANGED booked ELSE Record(t, e)
      /\ heard' = IF Complete(source) THEN heard \cup {k} ELSE heard
      /\ UNCHANGED <<chain, decoded, set>>
  BY DEF Report, Arrive
<1>3. /\ Next /\ IInv'
      /\ Complete(source) => k \in passed \/ out' # Nothing
      /\ passed' \subseteq IF Complete(source) THEN passed \cup {k} ELSE passed
  BY <1>1, <1>2, MergeStep
<1>4. Given'
  BY <1>2 DEF Given
<1>5. /\ booked' \in Seq(BookEntry) /\ EachOnce(booked')
      /\ \A l \in DOMAIN booked : l \in DOMAIN booked' /\ booked'[l] = booked[l]
      /\ \A l \in DOMAIN booked' :
           \/ l \in DOMAIN booked
           \/ \E i \in DOMAIN All(e) : /\ Complete(source) /\ All(e)[i].exact
                                       /\ booked'[l] = Entry(t, e.mint, All(e)[i])
  <2>1. CASE booked' = booked
    BY <2>1
  <2>2. CASE Record(t, e)
    <3>1. Fresh(booked, t, e) \subseteq {i \in DOMAIN All(e) : All(e)[i].exact}
      BY FreshIs
    <3>2. LET F == Fresh(booked, t, e) IN
          /\ booked' \in Seq(BookEntry)
          /\ \A l \in DOMAIN booked : l \in DOMAIN booked' /\ booked'[l] = booked[l]
          /\ \A l \in DOMAIN booked' :
               \/ l \in DOMAIN booked
               \/ \E i \in F : booked'[l] = Entry(t, e.mint, All(e)[i])
          /\ EachOnce(booked) => EachOnce(booked')
      BY <2>2, <1>1, Recorded
    <3> QED
      BY <3>1, <3>2, <1>1
  <2> QED
    BY <2>1, <2>2, <1>2
<1>6. \A l \in DOMAIN booked' : FromLogs(chain, booked'[l])
  <2> TAKE l \in DOMAIN booked'
  <2>1. CASE l \in DOMAIN booked
    BY <2>1, <1>5
  <2>2. ASSUME NEW i \in DOMAIN All(e), Complete(source), All(e)[i].exact,
               booked'[l] = Entry(t, e.mint, All(e)[i])
        PROVE  FromLogs(chain, booked'[l])
    <3>1. booked'[l].tx = t
      BY <2>2, EntryIs
    <3> QED
      BY <3>1, <2>2, <1>1, <1>2 DEF FromLogs
  <2> QED
    BY <2>1, <2>2, <1>5
<1>7. ASSUME NEW u \in DOMAIN chain, NEW m \in Mints,
             <<u, m>> \in heard' \cup passed', ~Migrates(u, m),
             NEW a \in Range(Log(chain[u])), Executed(chain[u])[a].mint = m
      PROVE  \E l \in DOMAIN booked' : booked'[l].tx = u /\ booked'[l].at = a
  <2>1. CASE <<u, m>> \in heard \cup passed
    <3>1. InBook(u, a)
      BY <2>1, <1>7 DEF BooksFollow, AllIn
    <3> QED
      BY <3>1, <1>5 DEF InBook
  <2>2. CASE <<u, m>> \notin heard \cup passed
    <3>1. u = t /\ m = e.mint /\ Complete(source) /\ k \notin passed
      BY <2>2, <1>2, <1>3, <1>7
    <3>2. Record(t, e)
      BY <3>1, <1>2, <1>3
    <3>3. ~Mixed(chain[t], e.mint)
      BY <3>1, <1>7 DEF Mixed, Migrates
    <3> QED
      BY <3>1, <3>2, <3>3, <1>1, <1>7, BookedWhole
  <2> QED
    BY <2>1, <2>2
<1>9. \A l \in DOMAIN booked' : FromLogs(chain', booked'[l])
  BY <1>2, <1>6
<1>8. BooksFollow'
  BY <1>2, <1>7 DEF BooksFollow, AllIn, InBook, Migrates
<1> QED
  BY <1>3, <1>4, <1>5, <1>9, <1>8

(***************************************************************************)
(* The invariant of the composition holds.                                 *)
(***************************************************************************)
LEMMA LedgerStarts == SignalsInit => LedgerInv
<1> SUFFICES ASSUME SignalsInit PROVE LedgerInv
  OBVIOUS
<1>1. PICK s \in Scenarios : chain = s.chain /\ set = s.set
  BY DEF SignalsInit
<1>2. Init /\ booked = <<>> /\ heard = {}
      /\ decoded = [t \in DOMAIN chain |->
                  [full \in BOOLEAN |->
                     Events(IF full THEN FullCopy(chain[t]) ELSE ShredCopy(chain[t]))]]
  BY DEF SignalsInit, LedgerInit
<1>3. Given
  BY <1>1, <1>2, SignalsAssumption DEF Given, Valid
<1>4. IInv
  BY <1>2, MergeInit
<1>5. booked \in Seq(BookEntry) /\ DOMAIN booked = {}
  BY <1>2
<1>6. passed = {}
  BY <1>2 DEF Init
<1>7. BooksFollow
  BY <1>2, <1>6 DEF BooksFollow
<1> QED
  BY <1>3, <1>4, <1>5, <1>7 DEF LedgerInv, EachOnce

\* LedgerInv holds of the composition: what was given stays, the merge actor keeps its
\* invariant, and the book has each executed trade it was told of once (journal.rs:352).
THEOREM LedgerInvariant == SignalsSpec => []LedgerInv
<1>1. LedgerInv /\ [SignalsNext]_signalsVars => LedgerInv'
  <2> SUFFICES ASSUME LedgerInv, [SignalsNext]_signalsVars PROVE LedgerInv'
    OBVIOUS
  <2>1. CASE SignalsNext
    BY <2>1, ReportStep DEF SignalsNext
  <2>2. CASE UNCHANGED signalsVars
    <3>1. UNCHANGED <<chain, decoded, set, booked, heard, vars>>
      BY <2>2 DEF signalsVars, ledgerVars
    <3>2. Given'
      BY <3>1 DEF LedgerInv, Given
    <3>3. IInv'
      BY <3>1 DEF LedgerInv, vars, IInv, MergeTypeOK, Window, MemoryIsExact, CompleteGetsThrough
    <3>4. BooksFollow'
      BY <3>1 DEF LedgerInv, vars, BooksFollow, AllIn, InBook, Migrates
    <3>5. \A k \in DOMAIN booked' : FromLogs(chain', booked'[k])
      BY <3>1 DEF LedgerInv
    <3> QED
      BY <3>1, <3>2, <3>3, <3>4, <3>5 DEF LedgerInv
  <2> QED
    BY <2>1, <2>2
<1> QED
  BY <1>1, LedgerStarts, PTL DEF SignalsSpec

(***************************************************************************)
(* What happens in the composition is a behaviour of the merge actor, so   *)
(* that what is proved of it holds there.                                  *)
(***************************************************************************)
THEOREM SignalsImplementsMerge == SignalsSpec => Spec
<1>1. SignalsInit => Init
  BY DEF SignalsInit, LedgerInit
<1>2. LedgerInv /\ [SignalsNext]_signalsVars => [Next]_vars
  <2> SUFFICES ASSUME LedgerInv, [SignalsNext]_signalsVars PROVE [Next]_vars
    OBVIOUS
  <2>1. CASE SignalsNext
    BY <2>1, ReportStep DEF SignalsNext
  <2>2. CASE UNCHANGED signalsVars
    BY <2>2 DEF signalsVars, ledgerVars
  <2> QED
    BY <2>1, <2>2
<1> QED
  BY <1>1, <1>2, LedgerInvariant, PTL DEF SignalsSpec, Spec

\* A booked trade is one that an event of a complete copy told.
LEMMA BookedIs ==
  ASSUME LedgerInv, NEW k \in DOMAIN booked
  PROVE  LET b == booked[k] IN
         /\ b.tx \in DOMAIN chain /\ chain[b.tx] \in Transaction
         /\ \E e, x : Tells(chain[b.tx], e, x) /\ b = Entry(b.tx, e.mint, x)
<1> DEFINE b == booked[k]
<1>1. FromLogs(chain, b)
  BY DEF LedgerInv
<1>2. PICK e \in Events(FullCopy(chain[b.tx])) :
        \E i \in DOMAIN All(e) : All(e)[i].exact /\ b = Entry(b.tx, e.mint, All(e)[i])
  BY <1>1 DEF FromLogs
<1>3. PICK i \in DOMAIN All(e) : All(e)[i].exact /\ b = Entry(b.tx, e.mint, All(e)[i])
  BY <1>2
<1>4. Tells(chain[b.tx], e, All(e)[i])
  BY <1>3 DEF Tells, Range
<1>5. b.tx \in DOMAIN chain /\ chain[b.tx] \in Transaction
  BY <1>1 DEF FromLogs, LedgerInv, Given
<1> HIDE DEF b
<1>6. \E f, x : Tells(chain[b.tx], f, x) /\ b = Entry(b.tx, f.mint, x)
  BY <1>3, <1>4
<1> QED
  BY <1>5, <1>6 DEF b

(***************************************************************************)
(* Only what the chain executed and reported is booked (journal.rs:352).   *)
(***************************************************************************)
THEOREM OnlyExecutedIsBookedHolds == SignalsSpec => []OnlyExecutedIsBooked
<1>1. LedgerInv => OnlyExecutedIsBooked
  <2> SUFFICES ASSUME LedgerInv, NEW k \in DOMAIN booked
               PROVE  LET b == booked[k] IN
                      /\ b.at \in Range(Log(chain[b.tx])) /\ ~chain[b.tx].failed
                      /\ b.call = Executed(chain[b.tx])[b.at] /\ b.call.mint = b.mint
    BY DEF OnlyExecutedIsBooked
  <2> DEFINE b == booked[k]
             tx == chain[b.tx]
  <2>1. tx \in Transaction /\ \E e, x : Tells(tx, e, x) /\ b = Entry(b.tx, e.mint, x)
    BY BookedIs
  <2>2. PICK e, x : Tells(tx, e, x) /\ b = Entry(b.tx, e.mint, x)
    BY <2>1
  <2>3. b.mint = e.mint /\ b.at = x.at /\ b.call = x.call
    BY <2>2, EntryIs
  <2>4. /\ ~tx.failed /\ x.at \in Range(Log(tx)) /\ x.call = Executed(tx)[x.at]
        /\ x.call.mint = e.mint
    BY <2>1, <2>2, ToldIsExecuted
  <2> QED
    BY <2>3, <2>4
<1> QED
  BY <1>1, LedgerInvariant, PTL

(***************************************************************************)
(* A booked trade is put at the instruction that made it (decode.rs:566).  *)
(***************************************************************************)
THEOREM PairedHolds == SignalsSpec => []PairedWithItsInstruction
<1>1. LedgerInv => PairedWithItsInstruction
  <2> SUFFICES ASSUME LedgerInv, NEW k \in DOMAIN booked, Known(booked[k].tx)
               PROVE  booked[k].index = booked[k].at
    BY DEF PairedWithItsInstruction
  <2> DEFINE b == booked[k]
             tx == chain[b.tx]
  <2>1. tx \in Transaction /\ \E e, x : Tells(tx, e, x) /\ b = Entry(b.tx, e.mint, x)
    BY BookedIs
  <2>2. PICK e, x : Tells(tx, e, x) /\ b = Entry(b.tx, e.mint, x)
    BY <2>1
  <2>3. b.at = x.at /\ b.index = x.index
    BY <2>2, EntryIs
  <2>4. AllNamed(tx)
    BY DEF Known, AllNamed
  <2>5. x.index = x.at
    BY <2>1, <2>2, <2>4, ToldIsExecuted
  <2> QED
    BY <2>3, <2>5
<1> QED
  BY <1>1, LedgerInvariant, PTL

(***************************************************************************)
(* A trade is booked once (journal.rs:134).  Two entries of one trade come *)
(* from one list of the decoder, which has each trade in one place; so the *)
(* keys of the entries are equal.                                          *)
(***************************************************************************)
THEOREM NoTradeTwiceHolds == SignalsSpec => []NoTradeTwice
<1>1. LedgerInv => NoTradeTwice
  <2> SUFFICES ASSUME LedgerInv, NEW k \in DOMAIN booked, NEW l \in DOMAIN booked,
                      booked[k].tx = booked[l].tx, booked[k].at = booked[l].at
               PROVE  k = l
    BY DEF NoTradeTwice
  <2> DEFINE b == booked[k]
             c == booked[l]
             tx == chain[b.tx]
  <2>1. tx \in Transaction /\ \E e, x : Tells(tx, e, x) /\ b = Entry(b.tx, e.mint, x)
    BY BookedIs
  <2>2. PICK e, x : Tells(tx, e, x) /\ b = Entry(b.tx, e.mint, x)
    BY <2>1
  <2>3. \E f, y : Tells(chain[c.tx], f, y) /\ c = Entry(c.tx, f.mint, y)
    BY BookedIs
  <2>4. PICK f, y : Tells(chain[c.tx], f, y) /\ c = Entry(c.tx, f.mint, y)
    BY <2>3
  <2>5. b.at = x.at /\ c.at = y.at
    BY <2>2, <2>4, EntryIs
  <2>6. Tells(tx, f, y)
    BY <2>4
  <2>9. x.at = y.at /\ Tells(tx, e, x) /\ tx \in Transaction
    BY <2>1, <2>2, <2>5
  <2> HIDE DEF tx
  <2>7. x = y /\ e.mint = f.mint
    BY <2>6, <2>9, SameAt
  <2>8. b = c
    BY <2>2, <2>4, <2>7
  <2> QED
    BY <2>8 DEF LedgerInv, EachOnce
<1> QED
  BY <1>1, LedgerInvariant, PTL

(***************************************************************************)
(* Every trade in the logs of a transaction whose complete copy came in is *)
(* booked (decode.rs:767-769).                                             *)
(***************************************************************************)
THEOREM TradesAreBookedHolds == SignalsSpec => []TradesAreBooked
<1>1. LedgerInv => TradesAreBooked
  <2> SUFFICES ASSUME LedgerInv, NEW t \in DOMAIN chain, NEW a \in Range(Log(chain[t])),
                      <<t, Executed(chain[t])[a].mint>> \in heard,
                      ~Migrates(t, Executed(chain[t])[a].mint)
               PROVE  InBook(t, a)
    BY DEF TradesAreBooked, InBook
  <2> DEFINE m == Executed(chain[t])[a].mint
  <2>1. chain[t] \in Transaction
    BY DEF LedgerInv, Given
  <2>2. m \in Mints
    <3>1. a \in DOMAIN Executed(chain[t])
      BY <2>1, LogAt DEF Traded
    <3>2. Executed(chain[t]) \in Seq(Call)
      BY <2>1, ExecutedIs
    <3>3. Executed(chain[t])[a] \in Call
      BY <3>1, <3>2
    <3> QED
      BY <3>3 DEF Call
  <2>3. AllIn(t, m)
    BY <2>2 DEF LedgerInv, BooksFollow
  <2> QED
    BY <2>3 DEF AllIn
<1> QED
  BY <1>1, LedgerInvariant, PTL

-----------------------------------------------------------------------------
(***************************************************************************)
(* What the strategy acts on.                                              *)
(***************************************************************************)
LEMMA CurveEventIs ==
  ASSUME NEW copy, NEW e \in Events(copy), e.venue = "curve"
  PROVE  /\ ~copy.failed
         /\ e = CurveEvent(copy, e.mint)
         /\ e.signer = copy.signer /\ e.creator = Creator(copy, e.mint)
         /\ e.create <=> \E c \in Creates(copy) : c.mint = e.mint
         /\ e.native <=> e.mint \notin Foreign \/ All(e) = <<>>
<1>1. ~copy.failed
  BY DEF Events
<1>2. \/ \E m \in CurveMints(copy) : e = CurveEvent(copy, m)
      \/ \E i \in AmmCandidates(copy) : e = AmmEvent(copy, copy.calls[i].mint)
  BY <1>1 DEF Events
<1>3. \A m : AmmEvent(copy, m).venue = "amm"
  BY DEF AmmEvent
<1>4. PICK m : e = CurveEvent(copy, m)
  BY <1>2, <1>3
<1>5. e.mint = m
  BY <1>4 DEF CurveEvent
<1> QED
  BY <1>1, <1>4, <1>5 DEF CurveEvent, All

\* The creator of an event with a create is the wallet that the create names.
LEMMA CreatorIs ==
  ASSUME NEW copy, NEW m, \E c \in Creates(copy) : c.mint = m
  PROVE  \E c \in Range(copy.calls) : /\ c.op = "create" /\ c.mint = m
                                      /\ c.wallet = Creator(copy, m)
<1> DEFINE c == CHOOSE c \in Creates(copy) : c.mint = m
<1>1. c \in Creates(copy) /\ c.mint = m
  OBVIOUS
<1>2. Creator(copy, m) = c.wallet
  BY DEF Creator
<1> HIDE DEF c
<1> QED
  BY <1>1, <1>2 DEF Creates

\* The logs of a transaction told as an event of the curve without trades have
\* no trade of the mint there.
LEMMA NoTradesNoLog ==
  ASSUME NEW tx \in Transaction, NEW e \in Events(FullCopy(tx)), e.venue = "curve",
         All(e) = <<>>, NEW a \in Range(Log(tx)), Executed(tx)[a].mint = e.mint
  PROVE  Executed(tx)[a].op \in AmmOps
<1> DEFINE c == Executed(tx)[a]
<1>1. FullCopy(tx) \in Copy
  BY FullIs
<1>2. Buys(c) \/ Sells(c)
  BY LogAt DEF Traded
<1>3. PICK side \in Sides : c.op \in side
  BY <1>2 DEF Sides, Buys, Sells
<1>4. SUFFICES ASSUME c.op \in CurveOps PROVE FALSE
  BY <1>2 DEF Buys, Sells, BuyOps, SellOps, CurveOps, AmmOps
<1>5. a \in LogOf(tx, e.mint, VenueOps(e.venue) \cap side)
  BY <1>3, <1>4 DEF LogOf, VenueOps
<1>6. Faithful(tx, e.mint, VenueOps(e.venue) \cap side, TradesOf(tx, e, side))
  BY TradesFaithful DEF TradesOf, Venues
<1>7. \E j \in DOMAIN TradesOf(tx, e, side) : TRUE
  BY <1>5, <1>6 DEF Faithful
<1>8. \E i \in DOMAIN All(e) : TRUE
  BY <1>1, <1>7, EventTyped DEF TradesOf
<1> QED
  BY <1>8

(***************************************************************************)
(* A buy is asked for once, of a mint created in the transaction by a      *)
(* wallet that is followed and not on the blacklist (strategy/mod.rs).     *)
(***************************************************************************)
THEOREM ChosenOnceHolds == SignalsSpec => ChosenOnce
<1> DEFINE Chosen ==
      wants' = "buy" =>
       LET k == out'.key
           tx == chain[k[1]]
       IN  /\ since[k] = Capacity
           /\ k[2] \notin set.blackMints
           /\ \E c \in Range(Executed(tx)) :
                /\ c.op = "create" /\ c.mint = k[2]
                /\ c.wallet \notin set.blackCreators
                /\ Direct \/ IsFollow(c.wallet) \/ IsFollow(tx.signer)
           /\ out'.complete =>
                /\ ~tx.failed
                /\ k[2] \in Foreign => \A i \in Range(Log(tx)) :
                     Executed(tx)[i].mint # k[2] \/ Executed(tx)[i].op \in AmmOps
<1>1. ASSUME LedgerInv, NEW t \in DOMAIN chain, NEW source \in set.feeds,
             NEW e \in decoded[t][Complete(source)], Report(t, source, e), wants' = "buy"
      PROVE  Chosen
  <2> DEFINE k == <<t, e.mint>>
             tx == chain[t]
             copy == IF Complete(source) THEN FullCopy(tx) ELSE ShredCopy(tx)
  <2>1. /\ tx \in Transaction /\ k \in Keys /\ source \in Sources
        /\ Complete(source) => e \in Events(FullCopy(tx))
        /\ ~Complete(source) => e \in Events(ShredCopy(tx))
    BY <1>1, CopyIs DEF LedgerInv
  <2>2. /\ Duplicate(k, source) \/ FirstReport(k, source)
        /\ out' # Nothing
        /\ ~out'.replayed /\ WantsBuy(e)
    <3>1. out' # Nothing
      BY <1>1 DEF Report
    <3>2. Intent(e, out'.replayed) = "buy"
      BY <3>1, <1>1 DEF Report
    <3>3. ~out'.replayed /\ WantsBuy(e)
      BY <3>2 DEF Intent, OnEvent
    <3> QED
      BY <1>1, <3>1, <3>3 DEF Report, Arrive
  <2>3. ~Duplicate(k, source)
    BY <2>2 DEF Duplicate
  <2>4. /\ out'.key = k /\ out'.complete = Complete(source) /\ first[k] = "none"
    BY <2>2, <2>3 DEF FirstReport
  <2>5. since[k] = Capacity
    BY <2>1, <2>4, <1>1 DEF LedgerInv, IInv, Window
  <2>6. /\ e.venue = "curve" /\ e.mint \notin set.blackMints
        /\ e.creator \notin set.blackCreators /\ e.create /\ e.native
        /\ Direct \/ IsFollow(e.signer) \/ IsFollow(e.creator)
    BY <2>2 DEF WantsBuy, Allowed, BuyIfSize
  <2>7. e \in Events(copy) /\ copy.signer = tx.signer
        /\ Range(copy.calls) \subseteq Range(Executed(tx))
    BY <2>1, FullIs, ShredIs
  <2> HIDE DEF copy
  <2>8. /\ e.signer = copy.signer /\ e.creator = Creator(copy, e.mint)
        /\ \E c \in Creates(copy) : c.mint = e.mint
        /\ e.mint \notin Foreign \/ All(e) = <<>>
    BY <2>6, <2>7, CurveEventIs
  <2>9. \E c \in Range(Executed(tx)) :
          /\ c.op = "create" /\ c.mint = e.mint /\ c.wallet \notin set.blackCreators
          /\ Direct \/ IsFollow(c.wallet) \/ IsFollow(tx.signer)
    <3>1. PICK c \in Range(copy.calls) : c.op = "create" /\ c.mint = e.mint
                                         /\ c.wallet = Creator(copy, e.mint)
      BY <2>8, CreatorIs
    <3> QED
      BY <3>1, <2>6, <2>7, <2>8
  <2>10. ASSUME Complete(source)
         PROVE  /\ ~tx.failed
                /\ e.mint \in Foreign => \A i \in Range(Log(tx)) :
                     Executed(tx)[i].mint # e.mint \/ Executed(tx)[i].op \in AmmOps
    <3>1. e \in Events(FullCopy(tx))
      BY <2>1, <2>10
    <3>2. ~FullCopy(tx).failed
      BY <3>1, <2>6, CurveEventIs
    <3>3. ~tx.failed
      BY <3>2, <2>1, FullIs
    <3> QED
      BY <3>1, <3>3, <2>1, <2>6, <2>8, NoTradesNoLog
  <2>11. k[1] = t /\ k[2] = e.mint
    OBVIOUS
  <2> HIDE DEF k
  <2> QED
    BY <2>4, <2>5, <2>6, <2>9, <2>10, <2>11
<1>2. LedgerInv /\ [SignalsNext]_signalsVars => [Chosen]_signalsVars
  <2> HIDE DEF Chosen
  <2>1. ASSUME LedgerInv, SignalsNext, wants' = "buy" PROVE Chosen
    BY <1>1, <2>1 DEF SignalsNext
  <2>2. wants' # "buy" => Chosen
    BY DEF Chosen
  <2> QED
    BY <2>1, <2>2
<1> QED
  BY <1>2, LedgerInvariant, PTL DEF SignalsSpec, ChosenOnce

(***************************************************************************)
(* What the merge actor promises of every key it keeps in the composition. *)
(***************************************************************************)
THEOREM SignalsOncePerKey == SignalsSpec => OncePerKey /\ []CompleteGetsThrough
BY SignalsImplementsMerge, OncePerKeyHolds, CompleteGetsThroughHolds, PTL

(***************************************************************************)
(* The first sale that the decoder tells of a transaction is the first     *)
(* that was executed, whether or not the logs have it.                     *)
(***************************************************************************)
Sales(tx, m) ==
  {i \in DOMAIN Executed(tx) : Executed(tx)[i].mint = m /\ Executed(tx)[i].op = "sell"}

\* The first sale told is the first that was executed.
LEMMA FirstSale ==
  ASSUME NEW tx \in Transaction, NEW m, Sales(tx, m) # {}
  PROVE  /\ 1 \in DOMAIN CurveTrades(FullCopy(tx), m, SellOps)
         /\ CurveTrades(FullCopy(tx), m, SellOps)[1].call = Executed(tx)[InOrder(Sales(tx, m))[1]]
<1> DEFINE copy == FullCopy(tx)
           Q == Sales(tx, m)
           T == CurveLogged(copy, m, SellOps)
           A == CurveCandidates(copy, m, SellOps)
           trades == CurveTrades(copy, m, SellOps)
           S == Traded(tx)
           n == Len(Log(tx))
<1>1. /\ copy \in Copy /\ copy.calls = Executed(tx) /\ copy.tables /\ DOMAIN copy.log = 1..n
      /\ \A k \in 1..n : /\ copy.log[k].at = Log(tx)[k]
                         /\ copy.log[k].call = Executed(tx)[Log(tx)[k]]
  BY FullIs
<1>2. /\ S \in SUBSET Nat /\ IsFiniteSet(S) /\ n \in Nat
      /\ Begins(Log(tx), n, S)
      /\ \A k \in 1..n : Log(tx)[k] \in S /\ Log(tx)[k] \in DOMAIN Executed(tx)
  BY LogIs, LogAt, FS_CardinalityType DEF Begins, Traded
<1>3. Q \in SUBSET S
  BY DEF Sales, Traded, Sells, SellOps
<1>4. A = Q
  BY <1>1 DEF CurveCandidates, Recognised, Sales, SellOps
<1>5. Selects(T, Log(tx), n, Q)
  <2>1. T = {k \in 1..n : /\ copy.log[k].call.op \in CurveOps \cap SellOps
                          /\ copy.log[k].call.mint = m}
    BY <1>1 DEF CurveLogged, Logged
  <2>2. \A op : op \in CurveOps \cap SellOps <=> op = "sell"
    BY DEF CurveOps, SellOps
  <2>3. \A k \in 1..n : Log(tx)[k] \in Q <=> /\ copy.log[k].call.op \in CurveOps \cap SellOps
                                             /\ copy.log[k].call.mint = m
    BY <1>1, <1>2, <2>2 DEF Sales
  <2> QED
    BY <2>1, <2>3 DEF Selects
<1> HIDE DEF copy, Q, T, S, n, A
<1>6. Q \in SUBSET Nat /\ IsFiniteSet(Q) /\ Q # {}
  BY <1>2, <1>3, FS_Subset DEF Q
<1>7. Cardinality(Q) \in Nat /\ 1 \in 1..Cardinality(Q)
  <2>1. Cardinality(Q) \in Nat /\ Cardinality(Q) # 0
    BY <1>6, FS_CardinalityType, FS_EmptySet
  <2> QED
    BY <2>1
<1>8. InOrder(Q) \in [1..Cardinality(Q) -> Q]
  BY <1>6, InOrderIs
<1>9. CASE T = {}
  <2>1. trades = [i \in 1..Cardinality(Q) |->
                   [at |-> InOrder(Q)[i], index |-> InOrder(Q)[i], number |-> i, exact |-> FALSE,
                    call |-> copy.calls[InOrder(Q)[i]]]]
    BY <1>4, <1>8, <1>9 DEF CurveTrades, T, A
  <2>2. 1 \in DOMAIN trades /\ trades[1].call = copy.calls[InOrder(Q)[1]]
    BY <2>1, <1>7
  <2> QED
    BY <2>2, <1>1 DEF copy, Q
<1>10. CASE T # {}
  <2>1. FirstOf(T, Log(tx), n, Q)
    BY <1>2, <1>3, <1>5, LoggedPart
  <2>2. T \in SUBSET Nat /\ IsFiniteSet(T)
    <3>1. 1..n \in SUBSET Nat
      BY <1>2
    <3> QED
      BY <3>1, <2>1 DEF FirstOf
  <2>3. Cardinality(T) \in Nat /\ 1 \in 1..Cardinality(T)
    <3>1. Cardinality(T) \in Nat /\ Cardinality(T) # 0
      BY <2>2, <1>10, FS_CardinalityType, FS_EmptySet
    <3> QED
      BY <3>1
  <2>4. InOrder(T) \in [1..Cardinality(T) -> T]
    BY <2>2, InOrderIs
  <2>5. InOrder(T)[1] \in 1..n /\ Log(tx)[InOrder(T)[1]] = InOrder(Q)[1]
    BY <2>1, <2>3 DEF FirstOf
  <2>6. trades = [i \in 1..Cardinality(T) |->
                    [at |-> copy.log[InOrder(T)[i]].at, index |-> Instruction(InOrder(A), i),
                     number |-> i, exact |-> TRUE, call |-> copy.log[InOrder(T)[i]].call]]
    BY <2>4, <1>10 DEF CurveTrades, T, A
  <2>7. 1 \in DOMAIN trades /\ trades[1].call = copy.log[InOrder(T)[1]].call
    BY <2>3, <2>6
  <2> QED
    BY <2>5, <2>7, <1>1 DEF copy, Q
<1> QED
  BY <1>9, <1>10

(***************************************************************************)
(* No mint of the blacklist is in the position book.                       *)
(***************************************************************************)
EntryInv ==
  /\ DOMAIN entry = Mints
  /\ \A m \in Mints : entry[m] # NoEntry => m \notin set.blackMints

\* The strategy asks for no such buy, and the settings stay.
LEMMA EntryHolds == SignalsSpec => []EntryInv
<1>1. SignalsInit => EntryInv
  BY DEF SignalsInit, EntryInv
<1>2. EntryInv /\ [SignalsNext]_signalsVars => EntryInv'
  <2> SUFFICES ASSUME EntryInv, [SignalsNext]_signalsVars PROVE EntryInv'
    OBVIOUS
  <2>1. ASSUME NEW t \in DOMAIN chain, NEW source \in set.feeds,
               NEW e \in decoded[t][Complete(source)], Report(t, source, e)
        PROVE  EntryInv'
    <3>1. set' = set
      BY <2>1 DEF Report
    <3>2. CASE entry' = entry
      BY <3>1, <3>2 DEF EntryInv
    <3>3. CASE entry' # entry
      <4>1. out' # Nothing /\ Handle(t, out'.complete, e, wants') /\ wants' = Intent(e, out'.replayed)
        BY <2>1, <3>3 DEF Report
      <4>2. /\ wants' = "buy"
            /\ entry' = [entry EXCEPT ![e.mint] =
                           [creator |-> e.creator, tx |-> t, full |-> out'.complete,
                            minOut |-> MinTokensOut(LiveReserves(chain[t], e))]]
        BY <4>1, <3>3 DEF Handle
      <4>3. e.mint \notin set.blackMints
        BY <4>1, <4>2 DEF Intent, OnEvent, WantsBuy, Allowed
      <4> QED
        BY <4>2, <4>3, <3>1 DEF EntryInv
    <3> QED
      BY <3>2, <3>3
  <2>2. CASE UNCHANGED signalsVars
    BY <2>2 DEF signalsVars, EntryInv
  <2> QED
    BY <2>1, <2>2 DEF SignalsNext
<1> QED
  BY <1>1, <1>2, PTL DEF SignalsSpec

(***************************************************************************)
(* A later sale by the creator of a mint that was bought is heeded when    *)
(* its complete copy comes first (engine.rs:345).                          *)
(***************************************************************************)
THEOREM CreatorSaleHeededHolds == SignalsSpec => CreatorSaleHeeded
<1> DEFINE Heeded ==
      \A m \in Mints, t \in DOMAIN chain :
       LET sales == Where(Executed(chain[t]), LAMBDA c : c.mint = m /\ c.op = "sell") IN
       /\ out' # Nothing /\ out'.key = <<t, m>> /\ out'.complete /\ ~out'.replayed
       /\ entry[m] # NoEntry /\ ~Migrates(t, m)
       /\ \A c \in Range(Executed(chain[t])) : c.op = "create" => c.mint # m
       /\ sales # <<>> /\ Executed(chain[t])[sales[1]].wallet = entry[m].creator
       /\ chain[t].signer \notin set.blackCreators
       /\ Direct \/ IsFollow(entry[m].creator)
       => <<t, m>> \in heeded'
<1>1. ASSUME LedgerInv, EntryInv, NEW u \in DOMAIN chain, NEW source \in set.feeds,
             NEW e \in decoded[u][Complete(source)], Report(u, source, e),
             NEW t \in DOMAIN chain, NEW m \in Mints,
             out' # Nothing, out'.key = <<t, m>>, out'.complete, ~out'.replayed,
             entry[m] # NoEntry, ~Migrates(t, m),
             \A c \in Range(Executed(chain[t])) : c.op = "create" => c.mint # m,
             Sales(chain[t], m) # {},
             Executed(chain[t])[InOrder(Sales(chain[t], m))[1]].wallet = entry[m].creator,
             chain[t].signer \notin set.blackCreators,
             Direct \/ IsFollow(entry[m].creator)
      PROVE  <<t, m>> \in heeded'
  <2> DEFINE tx == chain[t]
  <2>1. /\ chain[u] \in Transaction /\ source \in Sources
        /\ Complete(source) => e \in Events(FullCopy(chain[u]))
    BY <1>1, CopyIs DEF LedgerInv
  <2>2. /\ Duplicate(<<u, e.mint>>, source) \/ FirstReport(<<u, e.mint>>, source)
        /\ Handle(u, out'.complete, e, wants') /\ wants' = Intent(e, out'.replayed)
    BY <1>1 DEF Report, Arrive
  <2>3. FirstReport(<<u, e.mint>>, source)
    BY <2>2, <1>1 DEF Duplicate
  <2>4. out'.key = <<u, e.mint>> /\ out'.complete = Complete(source)
    BY <2>3 DEF FirstReport
  <2>5. u = t /\ e.mint = m /\ Complete(source)
    BY <2>4, <1>1
  <2>6. tx \in Transaction /\ e \in Events(FullCopy(tx)) /\ FullCopy(tx) \in Copy
        /\ FullCopy(tx).calls = Executed(tx) /\ FullCopy(tx).signer = tx.signer
    BY <2>1, <2>5, FullIs
  <2>7. e.venue = "curve"
    <3>1. PICK i \in DOMAIN Executed(tx) : Executed(tx)[i].mint = m /\ Executed(tx)[i].op = "sell"
      BY <1>1 DEF Sales
    <3>2. Executed(tx)[i] \in Range(Executed(tx)) /\ Executed(tx)[i].op \in CurveOps
      BY <3>1 DEF Range, CurveOps
    <3>3. ~Mixed(tx, e.mint)
      BY <2>5, <1>1 DEF Mixed, Migrates
    <3>4. Executed(tx)[i].op \in VenueOps(e.venue)
      BY <3>1, <3>2, <3>3, <2>5, <2>6, Unmixed
    <3> QED
      BY <3>1, <3>4 DEF VenueOps, AmmOps
  <2>8. /\ e.creator = Creator(FullCopy(tx), m) /\ e.mint = m
        /\ e.create <=> \E c \in Creates(FullCopy(tx)) : c.mint = m
    BY <2>5, <2>6, <2>7, CurveEventIs
  <2>9. ~\E c \in Creates(FullCopy(tx)) : c.mint = m
    BY <2>6, <1>1 DEF Creates
  <2>10. ~e.create /\ e.creator = tx.signer
    BY <2>6, <2>8, <2>9 DEF Creator
  <2>11. Allowed(e)
    BY <2>7, <2>8, <2>10, <1>1 DEF Allowed, EntryInv
  <2>12. e.sells # <<>> /\ Seller(e) = entry[m].creator
    <3>1. e.sells = CurveTrades(FullCopy(tx), m, SellOps)
      BY <2>5, <2>6, <2>7, EventIs DEF Trades
    <3>2. 1 \in DOMAIN e.sells /\ e.sells[1].call = Executed(tx)[InOrder(Sales(tx, m))[1]]
      BY <3>1, <2>6, <1>1, FirstSale
    <3>3. e.sells # <<>>
      BY <3>2
    <3> QED
      BY <3>2, <3>3, <1>1 DEF Seller
  <2>13. ReportsSale(e) /\ ~WantsBuy(e)
    BY <2>10, <2>11, <2>12, <1>1 DEF ReportsSale, WantsBuy
  <2>14. wants' = "sale"
    BY <2>2, <2>13, <1>1 DEF Intent, OnEvent
  <2> QED
    BY <2>2, <2>5, <2>12, <2>14, <1>1 DEF Handle
<1>2. \A t \in DOMAIN chain, m \in Mints :
        Where(Executed(chain[t]), LAMBDA c : c.mint = m /\ c.op = "sell")
          = InOrder(Sales(chain[t], m))
  BY DEF Where, Sales
<1>3. ASSUME LedgerInv, NEW t \in DOMAIN chain, NEW m \in Mints,
             InOrder(Sales(chain[t], m)) # <<>>
      PROVE  Sales(chain[t], m) # {}
  <2>1. InOrder({}) = <<>>
    <3>1. Cardinality({}) = 0
      BY FS_EmptySet
    <3>2. InOrder({}) \in [1..0 -> {}]
      BY <3>1, FS_EmptySet, InOrderIs
    <3> QED
      BY <3>2
  <2> QED
    BY <1>3, <2>1
<1>4. ASSUME LedgerInv, EntryInv, SignalsNext PROVE Heeded
  <2>1. PICK u \in DOMAIN chain, source \in set.feeds :
          \E e \in decoded[u][Complete(source)] : Report(u, source, e)
    BY <1>4 DEF SignalsNext
  <2>2. PICK e \in decoded[u][Complete(source)] : Report(u, source, e)
    BY <2>1
  <2> SUFFICES ASSUME NEW m \in Mints, NEW t \in DOMAIN chain,
             out' # Nothing, out'.key = <<t, m>>, out'.complete, ~out'.replayed,
             entry[m] # NoEntry, ~Migrates(t, m),
             \A c \in Range(Executed(chain[t])) : c.op = "create" => c.mint # m,
             InOrder(Sales(chain[t], m)) # <<>>,
             Executed(chain[t])[InOrder(Sales(chain[t], m))[1]].wallet = entry[m].creator,
             chain[t].signer \notin set.blackCreators,
             Direct \/ IsFollow(entry[m].creator)
               PROVE  <<t, m>> \in heeded'
    BY <1>2
  <2>3. Sales(chain[t], m) # {}
    BY <1>3, <1>4
  <2> QED
    BY <2>2, <2>3, <1>1, <1>4
<1>5. LedgerInv /\ EntryInv /\ [SignalsNext]_signalsVars => [Heeded]_signalsVars
  BY <1>4
<1> QED
  BY <1>5, LedgerInvariant, EntryHolds, PTL DEF SignalsSpec, CreatorSaleHeeded

-----------------------------------------------------------------------------
(***************************************************************************)
(* Sums over a finite set.                                                 *)
(***************************************************************************)

\* What holds of a set when it holds of the set less any member holds of all.
LEMMA SubsetInduction ==
  ASSUME NEW S, IsFiniteSet(S), NEW X,
         \A u \in SUBSET S : (\A x \in u : u \ {x} \in X) => u \in X
  PROVE  SUBSET S \subseteq X
<1> SUFFICES ASSUME NEW u \in SUBSET S, u \notin X
             PROVE  FALSE
  OBVIOUS
<1> DEFINE Bad == {v \in SUBSET S : v \notin X}
           Sizes == {Cardinality(v) : v \in Bad}
<1>1. \A v \in SUBSET S : IsFiniteSet(v) /\ Cardinality(v) \in Nat
  BY FS_Subset, FS_CardinalityType
<1>2. Sizes \in SUBSET Nat /\ Sizes # {}
  BY <1>1
<1>3. PICK n \in Sizes : \A k \in Sizes : n <= k
  BY <1>2, LeastOf
<1>4. PICK v \in Bad : Cardinality(v) = n
  BY <1>3
<1>5. \A x \in v : Cardinality(v \ {x}) = Cardinality(v) - 1 /\ v \ {x} \in SUBSET S
  BY <1>1, FS_RemoveElement
<1>6. \A x \in v : v \ {x} \in X
  <2> SUFFICES ASSUME NEW x \in v, v \ {x} \notin X
               PROVE  FALSE
    OBVIOUS
  <2>1. Cardinality(v \ {x}) \in Sizes
    BY <1>5
  <2>2. n <= n - 1 /\ n \in Nat
    BY <2>1, <1>2, <1>3, <1>4, <1>5
  <2> QED
    BY <2>2
<1> QED
  BY <1>4, <1>6

AnyOf(u) == CHOOSE x \in u : TRUE

\* g has the sum of the values of f over every subset of S.
Tally(f, S, g) ==
  g = [u \in SUBSET S |-> IF u = {} THEN 0 ELSE f[AnyOf(u)] + g[u \ {AnyOf(u)}]]

LEMMA SumIs == 
  ASSUME NEW f
  PROVE SumFunction(f) = (CHOOSE g : Tally(f, DOMAIN f, g))[DOMAIN f]
BY DEF SumFunction, SumFunctionOnSet, FoldFunctionOnSet, MapThenFoldSet, Tally, AnyOf

\* Tallies of the same function agree where both are defined.
LEMMA TalliesAgree ==
  ASSUME NEW f, NEW S, NEW T, NEW g, NEW h, IsFiniteSet(S),
         Tally(f, S, g), Tally(f, T, h)
  PROVE  \A u \in SUBSET S : u \in SUBSET T => g[u] = h[u]
<1> DEFINE X == {u \in SUBSET S : u \in SUBSET T => g[u] = h[u]}
<1>1. ASSUME NEW u \in SUBSET S, \A x \in u : u \ {x} \in X
      PROVE  u \in X
  <2> SUFFICES ASSUME u \in SUBSET T
               PROVE  g[u] = h[u]
    OBVIOUS
  <2>1. CASE u = {}
    BY <2>1 DEF Tally
  <2>2. CASE u # {}
    <3>1. AnyOf(u) \in u
      BY <2>2 DEF AnyOf
    <3>2. g[u \ {AnyOf(u)}] = h[u \ {AnyOf(u)}]
      BY <1>1, <3>1
    <3>3. g[u] = f[AnyOf(u)] + g[u \ {AnyOf(u)}] /\ h[u] = f[AnyOf(u)] + h[u \ {AnyOf(u)}]
      BY <2>2 DEF Tally
    <3> QED
      BY <3>2, <3>3
  <2> QED
    BY <2>1, <2>2
<1> HIDE DEF X
<1>2. SUBSET S \subseteq X
  BY <1>1, SubsetInduction
<1> QED
  BY <1>2 DEF X

TallyOf(f, S) == CHOOSE g : Tally(f, S, g)

\* The sum over u, from the tally of u.
Total(f, u) == TallyOf(f, u)[u]

\* A set whose proper subsets have a tally has one.
LEMMA TallyStep ==
  ASSUME NEW f, NEW u, IsFiniteSet(u),
         \A x \in u : \E g : Tally(f, u \ {x}, g)
  PROVE  \E g : Tally(f, u, g)
<1>1. ASSUME NEW w \in SUBSET u, w # u
      PROVE  /\ Tally(f, w, TallyOf(f, w))
             /\ Total(f, w) = IF w = {} THEN 0 ELSE f[AnyOf(w)] + Total(f, w \ {AnyOf(w)})
  <2>1. PICK x \in u : x \notin w
    BY <1>1
  <2>2. PICK g : Tally(f, u \ {x}, g)
    OBVIOUS
  <2>3. \A v \in SUBSET w : Tally(f, v, [t \in SUBSET v |-> g[t]])
    <3> TAKE v \in SUBSET w
    <3> DEFINE k == [t \in SUBSET v |-> g[t]]
    <3>1. \A t \in SUBSET v : t \in SUBSET (u \ {x})
      BY <2>1
    <3>2. \A t \in SUBSET v : g[t] = IF t = {} THEN 0 ELSE f[AnyOf(t)] + g[t \ {AnyOf(t)}]
      BY <3>1, <2>2 DEF Tally
    <3>3. \A t \in SUBSET v : k[t \ {AnyOf(t)}] = g[t \ {AnyOf(t)}]
      OBVIOUS
    <3>4. k = [t \in SUBSET v |-> IF t = {} THEN 0 ELSE f[AnyOf(t)] + k[t \ {AnyOf(t)}]]
      BY <3>2, <3>3
    <3> QED
      BY <3>4 DEF Tally
  <2>4. \A v \in SUBSET w : Tally(f, v, TallyOf(f, v))
    BY <2>3 DEF TallyOf
  <2>5. \A v \in SUBSET w : Total(f, v) = g[v]
    <3> TAKE v \in SUBSET w
    <3>1. IsFiniteSet(v) /\ v \in SUBSET (u \ {x})
      BY <2>1, FS_Subset
    <3> QED
      BY <3>1, <2>2, <2>4, TalliesAgree DEF Total
  <2>6. g[w] = IF w = {} THEN 0 ELSE f[AnyOf(w)] + g[w \ {AnyOf(w)}]
    BY <2>1, <2>2 DEF Tally
  <2> QED
    BY <2>4, <2>5, <2>6
<1> DEFINE whole == IF u = {} THEN 0 ELSE f[AnyOf(u)] + Total(f, u \ {AnyOf(u)})
           k == [w \in SUBSET u |-> IF w = u THEN whole ELSE Total(f, w)]
<1>2. \A w \in SUBSET u : w # {} => /\ AnyOf(w) \in w
                                    /\ k[w \ {AnyOf(w)}] = Total(f, w \ {AnyOf(w)})
  BY DEF AnyOf
<1>3. \A w \in SUBSET u : k[w] = IF w = {} THEN 0 ELSE f[AnyOf(w)] + k[w \ {AnyOf(w)}]
  <2> TAKE w \in SUBSET u
  <2>1. CASE w = u
    BY <2>1, <1>2
  <2>2. CASE w # u
    BY <2>2, <1>1, <1>2
  <2> QED
    BY <2>1, <2>2
<1>4. k = [w \in SUBSET u |-> IF w = {} THEN 0 ELSE f[AnyOf(w)] + k[w \ {AnyOf(w)}]]
  <2>1. k = [w \in SUBSET u |-> k[w]]
    OBVIOUS
  <2> HIDE DEF k
  <2> QED
    BY <1>3, <2>1
<1> QED
  BY <1>4 DEF Tally

LEMMA TallyExists ==
  ASSUME NEW f, NEW S, IsFiniteSet(S)
  PROVE  \A u \in SUBSET S : Tally(f, u, TallyOf(f, u))
<1> DEFINE X == {u \in SUBSET S : \E g : Tally(f, u, g)}
<1>1. ASSUME NEW u \in SUBSET S, \A x \in u : u \ {x} \in X
      PROVE  u \in X
  <2>1. IsFiniteSet(u) /\ \A x \in u : \E g : Tally(f, u \ {x}, g)
    BY <1>1, FS_Subset
  <2> QED
    BY <2>1, TallyStep
<1> HIDE DEF X
<1>2. SUBSET S \subseteq X
  BY <1>1, SubsetInduction
<1> QED
  BY <1>2 DEF X, TallyOf

\* A sum is that of any member and that of the others.
LEMMA TotalIs ==
  ASSUME NEW S, IsFiniteSet(S), NEW f, \A x \in S : f[x] \in Nat
  PROVE  \A u \in SUBSET S : /\ Total(f, u) \in Nat
                             /\ u = {} => Total(f, u) = 0
                             /\ \A x \in u : Total(f, u) = f[x] + Total(f, u \ {x})
<1>1. \A u \in SUBSET S : IsFiniteSet(u) /\ Tally(f, u, TallyOf(f, u))
  BY TallyExists, FS_Subset
<1>2. \A u \in SUBSET S : Total(f, u) = IF u = {} THEN 0 ELSE f[AnyOf(u)] + Total(f, u \ {AnyOf(u)})
  <2> TAKE u \in SUBSET S
  <2> DEFINE v == u \ {AnyOf(u)}
  <2>1. TallyOf(f, u)[v] = Total(f, v)
    <3>1. v \in SUBSET S /\ v \in SUBSET u /\ v \in SUBSET v
      OBVIOUS
    <3> HIDE DEF v
    <3> QED
      BY <3>1, <1>1, TalliesAgree DEF Total
  <2>2. TallyOf(f, u)[u] = IF u = {} THEN 0 ELSE f[AnyOf(u)] + TallyOf(f, u)[v]
    BY <1>1 DEF Tally
  <2> QED
    BY <2>1, <2>2 DEF Total
<1> DEFINE N == {u \in SUBSET S : Total(f, u) \in Nat}
           X == {u \in SUBSET S : \A x \in u : Total(f, u) = f[x] + Total(f, u \ {x})}
<1>5. \A u \in SUBSET S : Total(f, u) \in Nat
  <2>1. ASSUME NEW u \in SUBSET S, \A x \in u : u \ {x} \in N
        PROVE  u \in N
    <3>1. \A x \in u : f[x] \in Nat /\ Total(f, u \ {x}) \in Nat
      BY <2>1
    <3>2. u # {} => AnyOf(u) \in u
      BY DEF AnyOf
    <3>3. Total(f, u) \in Nat
      <4>1. CASE u = {}
        <5>1. Total(f, u) = 0
          BY <4>1, <1>2
        <5> QED
          BY <5>1
      <4>2. CASE u # {}
        <5> DEFINE v == Total(f, u \ {AnyOf(u)})
        <5>1. Total(f, u) = f[AnyOf(u)] + v
          BY <4>2, <1>2
        <5>2. f[AnyOf(u)] \in Nat /\ v \in Nat
          BY <4>2, <3>1, <3>2
        <5> QED
          BY <5>1, <5>2
      <4> QED
        BY <4>1, <4>2
    <3> QED
      BY <3>3
  <2> HIDE DEF N
  <2>2. SUBSET S \subseteq N
    BY <2>1, SubsetInduction
  <2> QED
    BY <2>2 DEF N
<1>3. ASSUME NEW u \in SUBSET S, \A x \in u : u \ {x} \in X
      PROVE  u \in X
  <2>1. CASE u = {}
    BY <2>1, <1>2
  <2>2. CASE u # {}
    <3> DEFINE c == AnyOf(u)
    <3>1. c \in u /\ Total(f, u) = f[c] + Total(f, u \ {c})
      BY <2>2, <1>2 DEF AnyOf
    <3> HIDE DEF c
    <3>2. \A x \in u : \A y \in u \ {x} :
            Total(f, u \ {x}) = f[y] + Total(f, (u \ {x}) \ {y})
      BY <1>3
    <3>3. ASSUME NEW x \in u
          PROVE  Total(f, u) = f[x] + Total(f, u \ {x})
      <4>1. CASE x = c
        BY <4>1, <3>1
      <4>2. CASE x # c
        <5>1. (u \ {x}) \ {c} = (u \ {c}) \ {x}
          OBVIOUS
        <5>2. /\ Total(f, u \ {c}) = f[x] + Total(f, (u \ {c}) \ {x})
              /\ Total(f, u \ {x}) = f[c] + Total(f, (u \ {c}) \ {x})
          BY <3>1, <3>2, <4>2, <5>1
        <5>3. f[x] \in Nat /\ f[c] \in Nat /\ Total(f, (u \ {c}) \ {x}) \in Nat
          <6>1. c \in S /\ x \in S /\ (u \ {c}) \ {x} \in SUBSET S
            BY <3>1
          <6> HIDE DEF X, N
          <6> QED
            BY <6>1, <1>5
        <5> QED
          BY <5>2, <5>3, <3>1
      <4> QED
        BY <4>1, <4>2
    <3> QED
      BY <3>3
  <2> QED
    BY <2>1, <2>2
<1> HIDE DEF X
<1>4. SUBSET S \subseteq X
  BY <1>3, SubsetInduction
<1> QED
  BY <1>2, <1>4, <1>5 DEF X

LEMMA SumOfNone ==
  ASSUME NEW f, DOMAIN f = {}
  PROVE  SumFunction(f) = 0
<1>1. SumFunction(f) = Total(f, {})
  BY SumIs DEF Total, TallyOf
<1>2. IsFiniteSet({}) /\ \A x \in {} : f[x] \in Nat
  BY FS_EmptySet
<1>3. Total(f, {}) = 0
  BY <1>2, TotalIs
<1> QED
  BY <1>1, <1>3

LEMMA TotalGrows ==
  ASSUME NEW S, IsFiniteSet(S), NEW f, \A x \in S : f[x] \in Nat
  PROVE  \A u \in SUBSET S : Total(f, u) <= Total(f, S)
<1>1. \A u \in SUBSET S : /\ Total(f, u) \in Nat
                          /\ u = {} => Total(f, u) = 0
                          /\ \A x \in u : Total(f, u) = f[x] + Total(f, u \ {x})
  BY TotalIs
<1> DEFINE X == {u \in SUBSET S : \A v \in SUBSET u : Total(f, v) <= Total(f, u)}
<1>2. ASSUME NEW u \in SUBSET S, \A x \in u : u \ {x} \in X
      PROVE  u \in X
  <2> SUFFICES ASSUME NEW v \in SUBSET u
               PROVE  Total(f, v) <= Total(f, u)
    OBVIOUS
  <2>1. CASE v = u
    BY <2>1, <1>1
  <2>2. CASE v # u
    <3>1. PICK x \in u : x \notin v
      BY <2>2
    <3>2. Total(f, v) <= Total(f, u \ {x})
      BY <1>2, <3>1
    <3>3. Total(f, u) = f[x] + Total(f, u \ {x})
      BY <1>1
    <3>4. f[x] \in Nat /\ Total(f, u \ {x}) \in Nat /\ Total(f, v) \in Nat
      <4> HIDE DEF X
      <4> QED
        BY <1>1
    <3> HIDE DEF X
    <3> QED
      BY <3>2, <3>3, <3>4
  <2> QED
    BY <2>1, <2>2
<1> HIDE DEF X
<1>3. SUBSET S \subseteq X
  BY <1>2, SubsetInduction
<1> QED
  BY <1>3 DEF X

\* The sum of values taken each from another member of B.
LEMMA SumThrough ==
  ASSUME NEW A, IsFiniteSet(A), NEW B, IsFiniteSet(B),
         NEW f \in [A -> Nat], NEW k \in [B -> Nat], NEW h \in [A -> B],
         \A a, b \in A : h[a] = h[b] => a = b,
         \A a \in A : f[a] = k[h[a]]
  PROVE  /\ SumFunction(f) \in Nat /\ SumFunction(k) \in Nat
         /\ SumFunction(f) <= SumFunction(k)
         /\ (\A b \in B : \E a \in A : h[a] = b) => SumFunction(f) = SumFunction(k)
         /\ A = {} => SumFunction(f) = 0
<1> DEFINE Image(u) == {h[a] : a \in u}
           X == {u \in SUBSET A : Total(f, u) = Total(k, Image(u))}
<1>1. /\ \A a \in A : f[a] \in Nat /\ h[a] \in B
      /\ \A b \in B : k[b] \in Nat
  OBVIOUS
<1>2. \A u \in SUBSET A : /\ Total(f, u) \in Nat
                          /\ u = {} => Total(f, u) = 0
                          /\ \A x \in u : Total(f, u) = f[x] + Total(f, u \ {x})
  BY <1>1, TotalIs
<1>3. \A u \in SUBSET B : /\ Total(k, u) \in Nat
                          /\ u = {} => Total(k, u) = 0
                          /\ \A x \in u : Total(k, u) = k[x] + Total(k, u \ {x})
  BY <1>1, TotalIs
<1>4. ASSUME NEW u \in SUBSET A, \A x \in u : u \ {x} \in X
      PROVE  u \in X
  <2>1. CASE u = {}
    <3>1. Image(u) = {}
      BY <2>1
    <3> HIDE DEF Image
    <3>2. Total(f, u) = 0 /\ Total(k, Image(u)) = 0
      BY <2>1, <3>1, <1>2, <1>3
    <3> QED
      BY <3>2
  <2>2. CASE u # {}
    <3>1. PICK x \in u : TRUE
      BY <2>2
    <3>2. /\ Image(u) \in SUBSET B /\ h[x] \in Image(u)
          /\ Image(u \ {x}) = Image(u) \ {h[x]}
      BY <1>1
    <3>3. Total(f, u \ {x}) = Total(k, Image(u \ {x}))
      BY <1>4
    <3> HIDE DEF Image
    <3>4. /\ Total(f, u) = f[x] + Total(f, u \ {x})
          /\ Total(k, Image(u)) = k[h[x]] + Total(k, Image(u) \ {h[x]})
      <4> HIDE DEF X
      <4> QED
        BY <1>2, <1>3, <3>1, <3>2
    <3>5. Total(f, u) = Total(k, Image(u))
      BY <3>2, <3>3, <3>4
    <3> QED
      BY <3>5
  <2> QED
    BY <2>1, <2>2
<1> HIDE DEF X
<1>5. SUBSET A \subseteq X
  BY <1>4, SubsetInduction
<1>6. Total(f, A) = Total(k, Image(A)) /\ Image(A) \in SUBSET B
  BY <1>1, <1>5 DEF X
<1>7. SumFunction(f) = Total(f, A) /\ SumFunction(k) = Total(k, B)
  BY SumIs DEF Total, TallyOf
<1>8. Total(k, Image(A)) <= Total(k, B)
  BY <1>1, <1>6, TotalGrows
<1>9. (\A b \in B : \E a \in A : h[a] = b) => Image(A) = B
  BY <1>1
<1> HIDE DEF Image
<1> QED
  BY <1>2, <1>3, <1>6, <1>7, <1>8, <1>9
-----------------------------------------------------------------------------
(***************************************************************************)
(* What is taken for confirmed.                                            *)
(***************************************************************************)
\* The trades of the own wallet on one side of mint m.
OwnTrades(tx, m, side) ==
  {i \in DOMAIN Executed(tx) :
     /\ Executed(tx)[i].wallet = Own /\ Executed(tx)[i].mint = m
     /\ IF side = "buy" THEN Buys(Executed(tx)[i]) ELSE Sells(Executed(tx)[i])}

\* The tokens of these.
OwnTokens(tx, m, side) == SumFunction([i \in OwnTrades(tx, m, side) |-> Executed(tx)[i].tokens])

\* All trades are in the logs.
LogsAll(tx) == Traded(tx) = Range(Log(tx))

\* x was executed in tx, and a buy of x has the amount that was bought.
Real(tx, x) ==
  LET amount == OwnTokens(tx, x.mint, x.side)
  IN  /\ ~tx.failed /\ OwnTrades(tx, x.mint, x.side) # {}
      /\ x.side = "buy" => /\ x.tokens <= amount
                           /\ LogsAll(tx) /\ ~Mixed(tx, x.mint) => x.tokens = amount

\* The exact trades of the own wallet on one side of an event.
ExactOf(e, side) == OwnExact(IF side = "buy" THEN e.buys ELSE e.sells)

\* An exact trade of the own wallet is one it made; all are told if the logs are whole.
OwnReal(tx, m, side, trades) ==
  /\ trades \in Seq(Trade)
  /\ \A i \in OwnExact(trades) : /\ trades[i].at \in OwnTrades(tx, m, side)
                                 /\ trades[i].call = Executed(tx)[trades[i].at]
  /\ \A i, j \in OwnExact(trades) : trades[i].at = trades[j].at => i = j
  /\ LogsAll(tx) /\ ~Mixed(tx, m) =>
       \A a \in OwnTrades(tx, m, side) : \E i \in OwnExact(trades) : trades[i].at = a

LEMMA OwnAreReal ==
  ASSUME NEW tx \in Transaction, NEW e \in Events(FullCopy(tx)), NEW side \in {"buy", "sell"}
  PROVE  OwnReal(tx, e.mint, side, IF side = "buy" THEN e.buys ELSE e.sells)
<1> DEFINE ops == IF side = "buy" THEN BuyOps ELSE SellOps
           trades == IF side = "buy" THEN e.buys ELSE e.sells
           mine == OwnTrades(tx, e.mint, side)
           calls == Executed(tx)
<1>1. FullCopy(tx) \in Copy /\ ops \in Sides
  BY FullIs DEF Sides
<1>2. /\ e.venue \in Venues
      /\ trades = Trades(FullCopy(tx), e.mint, ops, e.venue)
      /\ trades \in Seq(Trade)
  BY <1>1, EventIs, EventTyped
<1>3. Faithful(tx, e.mint, VenueOps(e.venue) \cap ops, trades)
  BY <1>1, <1>2, TradesFaithful
<1>4. \A c : c.op \in ops <=> IF side = "buy" THEN Buys(c) ELSE Sells(c)
  BY DEF Buys, Sells
<1> HIDE DEF ops, trades
<1>5. \A a \in LogOf(tx, e.mint, VenueOps(e.venue) \cap ops) :
        a \in DOMAIN calls /\ calls[a].mint = e.mint /\ calls[a].op \in ops
  BY LogAt DEF LogOf, Traded
<1>6. ASSUME NEW i \in OwnExact(trades)
      PROVE  trades[i].at \in mine /\ trades[i].call = calls[trades[i].at]
  <2>1. i \in DOMAIN trades /\ trades[i].exact /\ trades[i].call.wallet = Own
    BY <1>6 DEF OwnExact
  <2>2. /\ trades[i].at \in LogOf(tx, e.mint, VenueOps(e.venue) \cap ops)
        /\ trades[i].call = calls[trades[i].at]
    BY <2>1, <1>3 DEF Faithful
  <2> QED
    BY <2>1, <2>2, <1>4, <1>5 DEF OwnTrades
<1>7. \A i, j \in OwnExact(trades) : trades[i].at = trades[j].at => i = j
  BY <1>3 DEF Faithful, OwnExact
<1>8. ASSUME LogsAll(tx), ~Mixed(tx, e.mint), NEW a \in mine
      PROVE  \E i \in OwnExact(trades) : trades[i].at = a
  <2>1. a \in DOMAIN calls /\ calls[a].wallet = Own /\ calls[a].mint = e.mint /\ calls[a].op \in ops
    BY <1>8, <1>4 DEF OwnTrades
  <2>2. Buys(calls[a]) \/ Sells(calls[a])
    BY <2>1, <1>1 DEF Sides, Buys, Sells
  <2>3. a \in Range(Log(tx))
    BY <1>8, <2>1, <2>2 DEF LogsAll, Traded
  <2>4. calls[a] \in Range(calls) /\ calls[a].op \in CurveOps \cup AmmOps
    BY <2>1, <2>2 DEF Range, Buys, Sells, BuyOps, SellOps, CurveOps, AmmOps
  <2>5. calls[a].op \in VenueOps(e.venue)
    BY <1>8, <2>1, <2>4, Unmixed
  <2>6. a \in LogOf(tx, e.mint, VenueOps(e.venue) \cap ops)
    BY <2>1, <2>3, <2>5 DEF LogOf
  <2>7. PICK i \in DOMAIN trades : trades[i].exact /\ trades[i].at = a
    BY <2>6, <1>3 DEF Faithful
  <2>8. trades[i].call = calls[a]
    BY <2>7, <1>3 DEF Faithful
  <2> QED
    BY <2>1, <2>7, <2>8 DEF OwnExact
<1> QED
  BY <1>2, <1>6, <1>7, <1>8 DEF trades, OwnReal

\* The sum of a buy is at most what was bought, and all of it if the logs are whole.
LEMMA BoughtIsReal ==
  ASSUME NEW tx \in Transaction, NEW e \in Events(FullCopy(tx))
  PROVE  LET total == SumFunction([i \in OwnExact(e.buys) |-> e.buys[i].call.tokens])
             amount == OwnTokens(tx, e.mint, "buy")
         IN  /\ total <= amount
             /\ LogsAll(tx) /\ ~Mixed(tx, e.mint) => total = amount
             /\ total # 0 => OwnExact(e.buys) # {}
<1> DEFINE trades == e.buys
           calls == Executed(tx)
           A == OwnExact(trades)
           B == OwnTrades(tx, e.mint, "buy")
           f == [i \in A |-> trades[i].call.tokens]
           k == [i \in B |-> calls[i].tokens]
           h == [i \in A |-> trades[i].at]
           whole == LogsAll(tx) /\ ~Mixed(tx, e.mint)
<1>1. /\ trades \in Seq(Trade)
      /\ \A i \in A : trades[i].at \in B /\ trades[i].call = calls[trades[i].at]
      /\ \A i, j \in A : trades[i].at = trades[j].at => i = j
      /\ whole => \A a \in B : \E i \in A : trades[i].at = a
  <2>1. OwnReal(tx, e.mint, "buy", trades)
    BY OwnAreReal
  <2> QED
    BY <2>1 DEF OwnReal
<1>2. calls \in Seq(Call)
  BY ExecutedIs
<1>3. IsFiniteSet(A) /\ IsFiniteSet(B)
  <2>1. A \in SUBSET DOMAIN trades /\ B \in SUBSET DOMAIN calls
    BY DEF OwnExact, OwnTrades
  <2> HIDE DEF A, B, trades, calls
  <2> QED
    BY <2>1, <1>1, <1>2, PositionsIn
<1>4. \A i \in B : calls[i].tokens \in Nat
  <2>1. \A c \in Call : c.tokens \in Nat
    BY DEF Call
  <2>2. B \in SUBSET DOMAIN calls
    BY DEF OwnTrades
  <2> HIDE DEF calls, B
  <2> QED
    BY <2>1, <2>2, <1>2
<1> HIDE DEF A, B, trades, calls, whole
<1>5. f \in [A -> Nat] /\ k \in [B -> Nat] /\ h \in [A -> B]
  BY <1>1, <1>4
<1>6. /\ \A i, j \in A : h[i] = h[j] => i = j
      /\ \A i \in A : f[i] = k[h[i]]
      /\ whole => \A b \in B : \E i \in A : h[i] = b
  BY <1>1
<1>7. DOMAIN f = A
  OBVIOUS
<1> HIDE DEF f, k, h
<1>8. /\ SumFunction(f) <= SumFunction(k)
      /\ whole => SumFunction(f) = SumFunction(k)
      /\ A = {} => SumFunction(f) = 0
  BY <1>3, <1>5, <1>6, SumThrough
<1>9. /\ SumFunction(f) = SumFunction([i \in OwnExact(e.buys) |-> e.buys[i].call.tokens])
      /\ SumFunction(k) = OwnTokens(tx, e.mint, "buy")
      /\ A = OwnExact(e.buys)
      /\ whole <=> LogsAll(tx) /\ ~Mixed(tx, e.mint)
  BY DEF f, k, A, B, trades, calls, whole, OwnTokens
<1> QED
  BY <1>8, <1>9

\* What a complete copy confirms was executed.
LEMMA ConfirmedIsReal ==
  ASSUME NEW tx \in Transaction, NEW e \in Events(FullCopy(tx)), NEW t,
         NEW x \in Confirmations(t, e)
  PROVE  x.tx = t /\ Real(tx, x)
<1> DEFINE total == SumFunction([i \in OwnExact(e.buys) |-> e.buys[i].call.tokens])
<1>1. \/ /\ total # 0
         /\ x = [tx |-> t, mint |-> e.mint, side |-> "buy", tokens |-> total]
      \/ /\ OwnExact(e.sells) # {}
         /\ x = [tx |-> t, mint |-> e.mint, side |-> "sell", tokens |-> 0]
  BY DEF Confirmations
<1>2. /\ total <= OwnTokens(tx, e.mint, "buy")
      /\ LogsAll(tx) /\ ~Mixed(tx, e.mint) => total = OwnTokens(tx, e.mint, "buy")
      /\ total # 0 => OwnExact(e.buys) # {}
  BY BoughtIsReal
<1> HIDE DEF total
<1>3. ~tx.failed
  <2>1. FullCopy(tx) \in Copy /\ FullCopy(tx).failed = tx.failed
    BY FullIs
  <2> QED
    BY <2>1, EventIs
<1>4. /\ OwnExact(e.buys) # {} => OwnTrades(tx, e.mint, "buy") # {}
      /\ OwnExact(e.sells) # {} => OwnTrades(tx, e.mint, "sell") # {}
  <2>1. OwnReal(tx, e.mint, "buy", e.buys) /\ OwnReal(tx, e.mint, "sell", e.sells)
    BY OwnAreReal
  <2> QED
    BY <2>1 DEF OwnReal
<1>5. CASE /\ total # 0
           /\ x = [tx |-> t, mint |-> e.mint, side |-> "buy", tokens |-> total]
  <2>1. x.tx = t /\ x.mint = e.mint /\ x.side = "buy" /\ x.tokens = total
    BY <1>5
  <2> QED
    BY <2>1, <1>2, <1>3, <1>4, <1>5 DEF Real
<1>6. CASE /\ OwnExact(e.sells) # {}
           /\ x = [tx |-> t, mint |-> e.mint, side |-> "sell", tokens |-> 0]
  <2>1. x.tx = t /\ x.mint = e.mint /\ x.side = "sell"
    BY <1>6
  <2> QED
    BY <2>1, <1>3, <1>4, <1>6 DEF Real
<1> QED
  BY <1>1, <1>5, <1>6

\* A Shred copy confirms nothing.
LEMMA ShredConfirmsNothing ==
  ASSUME NEW tx \in Transaction, NEW e \in Events(ShredCopy(tx)), NEW t
  PROVE  Confirmations(t, e) = {}
<1>1. /\ DOMAIN ShredCopy(tx).log = {} /\ ShredCopy(tx) \in Copy
  BY ShredIs
<1>2. /\ e.venue \in Venues
      /\ e.buys = Trades(ShredCopy(tx), e.mint, BuyOps, e.venue)
      /\ e.sells = Trades(ShredCopy(tx), e.mint, SellOps, e.venue)
  BY <1>1, EventIs
<1>3. /\ \A i \in DOMAIN e.buys : ~e.buys[i].exact
      /\ \A i \in DOMAIN e.sells : ~e.sells[i].exact
  BY <1>1, <1>2, TradesTyped
<1>4. OwnExact(e.buys) = {} /\ OwnExact(e.sells) = {}
  BY <1>3 DEF OwnExact
<1> DEFINE f == [i \in OwnExact(e.buys) |-> e.buys[i].call.tokens]
<1>5. DOMAIN f = {}
  BY <1>4
<1>6. SumFunction(f) = 0
  <2> HIDE DEF f
  <2> QED
    BY <1>5, SumOfNone
<1> QED
  BY <1>4, <1>6 DEF Confirmations

\* What the theorem says of one confirmation, in the words of the lemmas.
ConfirmationInv == \A x \in confirmed : x.tx \in DOMAIN chain /\ Real(chain[x.tx], x)

\* Logs that are not cut hold all trades.
LEMMA UncutIs ==
  ASSUME NEW t, chain[t] \in Transaction, Uncut(t)
  PROVE  LogsAll(chain[t])
<1> DEFINE tx == chain[t]
           S == Traded(tx)
<1>1. /\ S \in SUBSET Nat /\ IsFiniteSet(S) /\ Log(tx) \in Seq(S)
      /\ \A k \in 1..Len(Log(tx)) : Log(tx)[k] = InOrder(S)[k]
  BY LogIs
<1>2. Len(Log(tx)) = Len(InOrder(S))
  BY DEF Uncut, Where, Traded
<1> HIDE DEF S, tx
<1>3. /\ Cardinality(S) \in Nat /\ InOrder(S) \in [1..Cardinality(S) -> S]
      /\ \A i \in S : \E k \in 1..Cardinality(S) : InOrder(S)[k] = i
  BY <1>1, InOrderIs
<1>4. Len(InOrder(S)) = Cardinality(S)
  BY <1>3
<1>5. Range(Log(tx)) = S
  <2> DEFINE log == Log(tx)
             n == Cardinality(S)
  <2>1. DOMAIN log = 1..n /\ \A k \in 1..n : log[k] = InOrder(S)[k]
    <3>1. Len(log) = n /\ log \in Seq(S)
      BY <1>1, <1>2, <1>4
    <3>2. DOMAIN log = 1..n
      <4> HIDE DEF log, n
      <4> QED
        BY <3>1
    <3> QED
      BY <3>1, <3>2, <1>1
  <2> HIDE DEF log, n
  <2>2. Range(log) = S
    BY <2>1, <1>3 DEF Range, n
  <2> QED
    BY <2>2 DEF log
<1> QED
  BY <1>5 DEF S, tx, LogsAll

(***************************************************************************)
(* What is taken for confirmed was executed by the own wallet, and the     *)
(* amount of a position is what it bought in that transaction, whichever   *)
(* copies came (engine.rs:703-735).                                        *)
(***************************************************************************)
THEOREM ConfirmationIsRealHolds == SignalsSpec => []ConfirmationIsReal
<1>1. SignalsInit => ConfirmationInv
  BY DEF SignalsInit, ConfirmationInv
<1>2. LedgerInv /\ ConfirmationInv /\ [SignalsNext]_signalsVars => ConfirmationInv'
  <2> SUFFICES ASSUME LedgerInv, ConfirmationInv, [SignalsNext]_signalsVars
               PROVE  ConfirmationInv'
    OBVIOUS
  <2>1. CASE SignalsNext
    <3>1. PICK t \in DOMAIN chain, source \in set.feeds :
            \E e \in decoded[t][Complete(source)] : Report(t, source, e)
      BY <2>1 DEF SignalsNext
    <3>2. PICK e \in decoded[t][Complete(source)] : Report(t, source, e)
      BY <3>1
    <3>3. chain' = chain
      BY <3>2 DEF Report, Arrive
    <3>4. confirmed' = confirmed \/ confirmed' = confirmed \cup Confirmations(t, e)
      BY <3>2 DEF Report, Handle
    <3>5. /\ chain[t] \in Transaction
          /\ Complete(source) => e \in Events(FullCopy(chain[t]))
          /\ ~Complete(source) => e \in Events(ShredCopy(chain[t]))
      BY CopyIs DEF LedgerInv
    <3>6. \A x \in Confirmations(t, e) : x.tx \in DOMAIN chain /\ Real(chain[x.tx], x)
      <4>1. CASE Complete(source)
        BY <4>1, <3>5, ConfirmedIsReal
      <4>2. CASE ~Complete(source)
        BY <4>2, <3>5, ShredConfirmsNothing
      <4> QED
        BY <4>1, <4>2
    <3> QED
      BY <3>3, <3>4, <3>6 DEF ConfirmationInv
  <2>2. CASE UNCHANGED signalsVars
    BY <2>2 DEF signalsVars, ledgerVars, ConfirmationInv
  <2> QED
    BY <2>1, <2>2
<1>3. LedgerInv /\ ConfirmationInv => ConfirmationIsReal
  <2> SUFFICES ASSUME LedgerInv, ConfirmationInv, NEW x \in confirmed
               PROVE  LET mine == OwnTrades(chain[x.tx], x.mint, x.side)
                          amount == OwnTokens(chain[x.tx], x.mint, x.side)
                      IN  /\ ~chain[x.tx].failed /\ mine # {}
                          /\ x.side = "buy" =>
                               /\ x.tokens <= amount
                               /\ Uncut(x.tx) /\ ~Migrates(x.tx, x.mint) => x.tokens = amount
    BY DEF ConfirmationIsReal, OwnTrades, OwnTokens
  <2>1. x.tx \in DOMAIN chain /\ Real(chain[x.tx], x)
    BY DEF ConfirmationInv
  <2>2. chain[x.tx] \in Transaction
    BY <2>1 DEF LedgerInv, Given
  <2>3. Migrates(x.tx, x.mint) <=> Mixed(chain[x.tx], x.mint)
    BY DEF Migrates, Mixed
  <2> QED
    BY <2>1, <2>2, <2>3, UncutIs DEF Real
<1> QED
  BY <1>1, <1>2, <1>3, LedgerInvariant, PTL DEF SignalsSpec

-----------------------------------------------------------------------------
(***************************************************************************)
(* What a buy asks of the curve.                                           *)
(***************************************************************************)
LEMMA MaxIs ==
  ASSUME NEW n \in Nat, NEW S \in SUBSET (1..n), S # {}
  PROVE  Max(S) \in S /\ \A i \in S : i <= Max(S)
<1> DEFINE gaps == {n - i : i \in S}
<1>1. gaps \in SUBSET Nat /\ gaps # {}
  <2>1. \A i \in S : n - i \in Nat
    OBVIOUS
  <2> QED
    BY <2>1
<1>2. PICK d \in gaps : \A g \in gaps : d <= g
  BY <1>1, LeastOf
<1>3. PICK i \in S : d = n - i
  BY <1>2
<1>4. \A j \in S : n - j \in gaps
  OBVIOUS
<1>5. \A j \in S : i >= j
  BY <1>2, <1>3, <1>4
<1>6. Max(S) \in S /\ \A j \in S : Max(S) >= j
  BY <1>5 DEF Max
<1> QED
  BY <1>6

QuoteOf(tx, S) == SumFunction([j \in S |-> Executed(tx)[j].quote])

TokensOf(tx, S) == SumFunction([j \in S |-> Executed(tx)[j].tokens])

\* More instructions move no less.
LEMMA AmountsGrow ==
  ASSUME NEW tx \in Transaction, NEW B \in SUBSET DOMAIN Executed(tx), NEW A \in SUBSET B
  PROVE  /\ QuoteOf(tx, A) \in Nat /\ QuoteOf(tx, B) \in Nat /\ QuoteOf(tx, A) <= QuoteOf(tx, B)
         /\ TokensOf(tx, A) \in Nat /\ TokensOf(tx, B) \in Nat /\ TokensOf(tx, A) <= TokensOf(tx, B)
<1> DEFINE calls == Executed(tx)
           h == [j \in A |-> j]
<1>1. calls \in Seq(Call)
  BY ExecutedIs
<1>2. IsFiniteSet(A) /\ IsFiniteSet(B)
  <2> HIDE DEF calls
  <2>1. B \in SUBSET DOMAIN calls
    BY DEF calls
  <2> QED
    BY <2>1, <1>1, PositionsIn
<1>3. \A i \in B : calls[i].quote \in Nat /\ calls[i].tokens \in Nat
  <2>1. \A c \in Call : c.quote \in Nat /\ c.tokens \in Nat
    BY DEF Call
  <2>2. B \in SUBSET DOMAIN calls
    OBVIOUS
  <2> HIDE DEF calls
  <2> QED
    BY <2>1, <2>2, <1>1
<1>4. h \in [A -> B] /\ \A a, b \in A : h[a] = h[b] => a = b
  OBVIOUS
<1>5. QuoteOf(tx, A) \in Nat /\ QuoteOf(tx, B) \in Nat /\ QuoteOf(tx, A) <= QuoteOf(tx, B)
  <2> DEFINE f == [j \in A |-> calls[j].quote]
             k == [j \in B |-> calls[j].quote]
  <2>1. f \in [A -> Nat] /\ k \in [B -> Nat] /\ \A a \in A : f[a] = k[h[a]]
    BY <1>3
  <2>2. QuoteOf(tx, A) = SumFunction(f) /\ QuoteOf(tx, B) = SumFunction(k)
    BY DEF QuoteOf
  <2> HIDE DEF f, k, h
  <2> QED
    BY <1>2, <1>4, <2>1, <2>2, SumThrough
<1>6. TokensOf(tx, A) \in Nat /\ TokensOf(tx, B) \in Nat /\ TokensOf(tx, A) <= TokensOf(tx, B)
  <2> DEFINE f == [j \in A |-> calls[j].tokens]
             k == [j \in B |-> calls[j].tokens]
  <2>1. f \in [A -> Nat] /\ k \in [B -> Nat] /\ \A a \in A : f[a] = k[h[a]]
    BY <1>3
  <2>2. TokensOf(tx, A) = SumFunction(f) /\ TokensOf(tx, B) = SumFunction(k)
    BY DEF TokensOf
  <2> HIDE DEF f, k, h
  <2> QED
    BY <1>2, <1>4, <2>1, <2>2, SumThrough
<1> QED
  BY <1>5, <1>6

\* The logged trades of the curve are in the order in which they were executed.
LEMMA CurveInOrder ==
  ASSUME NEW tx \in Transaction, NEW m, NEW side \in Sides,
         NEW i \in Exact(CurveTrades(FullCopy(tx), m, side)),
         NEW j \in Exact(CurveTrades(FullCopy(tx), m, side)), i <= j
  PROVE  CurveTrades(FullCopy(tx), m, side)[i].at <= CurveTrades(FullCopy(tx), m, side)[j].at
<1> DEFINE copy == FullCopy(tx)
           T == CurveLogged(copy, m, side)
           trades == CurveTrades(copy, m, side)
           S == Traded(tx)
           n == Len(Log(tx))
<1>1. /\ copy \in Copy /\ DOMAIN copy.log = 1..n
      /\ \A k \in 1..n : copy.log[k].at = Log(tx)[k]
  BY FullIs
<1>2. /\ S \in SUBSET Nat /\ IsFiniteSet(S) /\ n \in 0..Cardinality(S)
      /\ \A k \in 1..n : Log(tx)[k] = InOrder(S)[k]
  BY LogIs
<1>3. Cardinality(S) \in Nat /\ InOrder(S) \in [1..Cardinality(S) -> S]
  BY <1>2, InOrderIs
<1>4. T \in SUBSET (1..n) /\ T # {}
  <2>1. T \in SUBSET (1..n)
    BY <1>1 DEF CurveLogged, Logged
  <2>2. i \in DOMAIN trades /\ trades[i].exact
    BY DEF Exact
  <2> QED
    BY <2>1, <2>2, <1>1, CurveTyped
<1>5. T \in SUBSET Nat /\ IsFiniteSet(T)
  <2>1. IsFiniteSet(1..n) /\ (1..n) \in SUBSET Nat
    BY <1>2, <1>3, FS_Interval
  <2> HIDE DEF T, n
  <2> QED
    BY <2>1, <1>4, FS_Subset
<1>6. Cardinality(T) \in Nat /\ InOrder(T) \in [1..Cardinality(T) -> T]
  BY <1>5, InOrderIs
<1>7. /\ DOMAIN trades = 1..Cardinality(T)
      /\ \A k \in 1..Cardinality(T) : trades[k].at = copy.log[InOrder(T)[k]].at
  <2>1. trades = [k \in DOMAIN InOrder(T) |->
                    [at |-> copy.log[InOrder(T)[k]].at,
                     index |-> Instruction(InOrder(CurveCandidates(copy, m, side)), k),
                     number |-> k, exact |-> TRUE, call |-> copy.log[InOrder(T)[k]].call]]
    BY <1>4 DEF CurveTrades
  <2>2. DOMAIN InOrder(T) = 1..Cardinality(T)
    BY <1>6
  <2> HIDE DEF copy, T
  <2> QED
    BY <2>1, <2>2
<1>8. i \in 1..Cardinality(T) /\ j \in 1..Cardinality(T)
  BY <1>7 DEF Exact
<1> DEFINE p == InOrder(T)[i]
           q == InOrder(T)[j]
<1>9. p \in T /\ q \in T /\ (i < j => p < q) /\ (i = j => p = q)
  BY <1>5, <1>6, <1>8, InOrderGrows
<1> HIDE DEF T, S, n, copy, trades
<1>10. p \in 1..Cardinality(S) /\ q \in 1..Cardinality(S) /\ p \in Nat /\ q \in Nat /\ p <= q
  <2>1. p \in 1..n /\ q \in 1..n
    BY <1>4, <1>9
  <2>2. i \in Nat /\ j \in Nat
    BY <1>6, <1>8
  <2>3. p \in Nat /\ q \in Nat
    BY <1>5, <1>9
  <2> HIDE DEF p, q
  <2> QED
    BY <2>1, <2>2, <2>3, <1>2, <1>3, <1>9
<1>11. InOrder(S)[p] <= InOrder(S)[q]
  <2> HIDE DEF p, q
  <2>1. p < q => InOrder(S)[p] < InOrder(S)[q]
    BY <1>2, <1>10, InOrderGrows
  <2>2. InOrder(S)[p] \in Nat /\ InOrder(S)[q] \in Nat
    BY <1>2, <1>3, <1>10
  <2> QED
    BY <2>1, <2>2, <1>10
<1>12. trades[i].at = InOrder(S)[p] /\ trades[j].at = InOrder(S)[q]
  BY <1>1, <1>2, <1>4, <1>7, <1>8, <1>9
<1> QED
  BY <1>11, <1>12 DEF trades, copy

\* All instructions in ops of mint m.
OnCurve(tx, m, ops) ==
  {i \in DOMAIN Executed(tx) : Executed(tx)[i].mint = m /\ Executed(tx)[i].op \in ops}

\* If the logs are whole, the exact trades are those of the curve, the last one the last.
LEMMA LastExact ==
  ASSUME NEW tx \in Transaction, LogsAll(tx), NEW m, NEW side \in Sides
  PROVE  LET trades == CurveTrades(FullCopy(tx), m, side)
             placed == OnCurve(tx, m, side \cap CurveOps)
             last == trades[Max(Exact(trades))].at
         IN  /\ Exact(trades) = {} => placed = {}
             /\ Exact(trades) # {} => last \in placed /\ \A a \in placed : a <= last
<1> DEFINE trades == CurveTrades(FullCopy(tx), m, side)
           placed == OnCurve(tx, m, side \cap CurveOps)
           last == trades[Max(Exact(trades))].at
<1>1. Faithful(tx, m, CurveOps \cap side, trades)
  BY CurveFaithful DEF Sides
<1>2. LogOf(tx, m, CurveOps \cap side) = placed
  <2>1. \A c : c.op \in side => Buys(c) \/ Sells(c)
    BY DEF Sides, Buys, Sells
  <2>2. \A a : a \in Range(Log(tx)) <=> /\ a \in DOMAIN Executed(tx)
                                        /\ Buys(Executed(tx)[a]) \/ Sells(Executed(tx)[a])
    BY DEF LogsAll, Traded
  <2> QED
    BY <2>1, <2>2 DEF LogOf, OnCurve
<1>3. FullCopy(tx) \in Copy
  BY FullIs
<1>4. trades \in Seq(Trade)
  BY <1>3, CurveTyped
<1>5. Exact(trades) = {} => placed = {}
  BY <1>1, <1>2 DEF Faithful, Exact
<1>6. ASSUME Exact(trades) # {}
      PROVE  last \in placed /\ \A a \in placed : a <= last
  <2>1. Exact(trades) \in SUBSET (1..Len(trades)) /\ Len(trades) \in Nat
    <3>1. Exact(trades) \in SUBSET DOMAIN trades
      BY DEF Exact
    <3> HIDE DEF trades
    <3> QED
      BY <3>1, <1>4
  <2>2. Max(Exact(trades)) \in Exact(trades) /\ \A k \in Exact(trades) : k <= Max(Exact(trades))
    <3> HIDE DEF trades
    <3> QED
      BY <1>6, <2>1, MaxIs
  <2>3. last \in placed
    BY <2>2, <1>1, <1>2 DEF Faithful, Exact
  <2>4. ASSUME NEW a \in placed
        PROVE  a <= last
    <3>1. PICK k \in Exact(trades) : trades[k].at = a
      BY <1>1, <1>2 DEF Faithful, Exact
    <3>2. k <= Max(Exact(trades))
      BY <2>2
    <3>3. trades[k].at <= trades[Max(Exact(trades))].at
      BY <3>2, <2>2, CurveInOrder
    <3> QED
      BY <3>1, <3>3
  <2> QED
    BY <2>3, <2>4
<1> QED
  BY <1>5, <1>6
\* The parts of the reserves.
LEMMA ReservesAre ==
  ASSUME NEW tx, NEW m, NEW i
  PROVE  LET bought == UpToInstruction(tx, m, BuyOps \cap CurveOps, i)
             sold == UpToInstruction(tx, m, SellOps \cap CurveOps, i)
         IN  /\ Reserves(tx, m, i).quote = InitReserves.quote + QuoteOf(tx, bought) - QuoteOf(tx, sold)
             /\ Reserves(tx, m, i).tokens = InitReserves.tokens - TokensOf(tx, bought) + TokensOf(tx, sold)
BY DEF Reserves, QuoteOf, TokensOf

\* Once all buys have been executed the curve only gets cheaper.
LEMMA OnlySalesFollow ==
  ASSUME NEW tx \in Transaction, NEW m, NEW i \in 0..Len(Executed(tx)),
         InitReserves \in Positive,
         \A a \in OnCurve(tx, m, BuyOps \cap CurveOps) : a <= i
  PROVE  LET end == Len(Executed(tx))
         IN  /\ Reserves(tx, m, i).tokens <= Reserves(tx, m, end).tokens
             /\ Reserves(tx, m, end).quote <= Reserves(tx, m, i).quote
             /\ (\A a \in OnCurve(tx, m, SellOps \cap CurveOps) : a <= i) =>
                  /\ Reserves(tx, m, i).tokens = Reserves(tx, m, end).tokens
                  /\ Reserves(tx, m, end).quote = Reserves(tx, m, i).quote
<1> DEFINE end == Len(Executed(tx))
           buy == BuyOps \cap CurveOps
           sell == SellOps \cap CurveOps
           bought == UpToInstruction(tx, m, buy, i)
           sold == UpToInstruction(tx, m, sell, i)
           allBought == UpToInstruction(tx, m, buy, end)
           allSold == UpToInstruction(tx, m, sell, end)
<1>1. DOMAIN Executed(tx) = 1..end /\ end \in Nat
  BY ExecutedIs
<1>2. /\ allBought = OnCurve(tx, m, buy) /\ allSold = OnCurve(tx, m, sell)
      /\ bought = {a \in allBought : a <= i} /\ sold = {a \in allSold : a <= i}
      /\ allBought \in SUBSET DOMAIN Executed(tx) /\ allSold \in SUBSET DOMAIN Executed(tx)
  BY <1>1 DEF UpToInstruction, OnCurve
<1>3. bought = allBought
  BY <1>2
<1>4. sold \in SUBSET allSold /\ ((\A a \in OnCurve(tx, m, sell) : a <= i) => sold = allSold)
  BY <1>2
<1>5. InitReserves.quote \in Nat /\ InitReserves.tokens \in Nat
  BY DEF Positive
<1> HIDE DEF end, buy, sell, bought, sold, allBought, allSold
<1>6. /\ QuoteOf(tx, sold) \in Nat /\ QuoteOf(tx, allSold) \in Nat
      /\ QuoteOf(tx, sold) <= QuoteOf(tx, allSold)
      /\ TokensOf(tx, sold) \in Nat /\ TokensOf(tx, allSold) \in Nat
      /\ TokensOf(tx, sold) <= TokensOf(tx, allSold)
      /\ QuoteOf(tx, allBought) \in Nat /\ TokensOf(tx, allBought) \in Nat
  BY <1>2, <1>4, AmountsGrow
<1>7. /\ Reserves(tx, m, i).quote = InitReserves.quote + QuoteOf(tx, bought) - QuoteOf(tx, sold)
      /\ Reserves(tx, m, i).tokens = InitReserves.tokens - TokensOf(tx, bought) + TokensOf(tx, sold)
      /\ Reserves(tx, m, end).quote =
           InitReserves.quote + QuoteOf(tx, allBought) - QuoteOf(tx, allSold)
      /\ Reserves(tx, m, end).tokens =
           InitReserves.tokens - TokensOf(tx, allBought) + TokensOf(tx, allSold)
  BY ReservesAre DEF buy, sell, bought, sold, allBought, allSold
<1>8. /\ Reserves(tx, m, i).tokens <= Reserves(tx, m, end).tokens
      /\ Reserves(tx, m, end).quote <= Reserves(tx, m, i).quote
  BY <1>3, <1>5, <1>6, <1>7
<1>9. (\A a \in OnCurve(tx, m, sell) : a <= i) =>
        /\ Reserves(tx, m, i).tokens = Reserves(tx, m, end).tokens
        /\ Reserves(tx, m, end).quote = Reserves(tx, m, i).quote
  BY <1>3, <1>4, <1>7
<1> QED
  BY <1>8, <1>9 DEF end, sell

\* Without trades the reserves are the initial ones.
LEMMA NoTrades ==
  ASSUME NEW tx \in Transaction, NEW m, InitReserves \in Positive,
         OnCurve(tx, m, BuyOps \cap CurveOps) = {}, OnCurve(tx, m, SellOps \cap CurveOps) = {}
  PROVE  /\ Reserves(tx, m, Len(Executed(tx))).quote = InitReserves.quote
         /\ Reserves(tx, m, Len(Executed(tx))).tokens = InitReserves.tokens
<1> DEFINE end == Len(Executed(tx))
<1>1. DOMAIN Executed(tx) = 1..end /\ end \in Nat
  BY ExecutedIs
<1>2. /\ UpToInstruction(tx, m, BuyOps \cap CurveOps, end) = {}
      /\ UpToInstruction(tx, m, SellOps \cap CurveOps, end) = {}
  BY <1>1 DEF UpToInstruction, OnCurve
<1>3. QuoteOf(tx, {}) = 0 /\ TokensOf(tx, {}) = 0
  <2> DEFINE f == [j \in {} |-> Executed(tx)[j].quote]
             g == [j \in {} |-> Executed(tx)[j].tokens]
  <2>1. DOMAIN f = {} /\ DOMAIN g = {}
    OBVIOUS
  <2>2. QuoteOf(tx, {}) = SumFunction(f) /\ TokensOf(tx, {}) = SumFunction(g)
    BY DEF QuoteOf, TokensOf
  <2> HIDE DEF f, g
  <2> QED
    BY <2>1, <2>2, SumOfNone
<1>4. InitReserves.quote \in Nat /\ InitReserves.tokens \in Nat
  BY DEF Positive
<1> HIDE DEF end
<1>5. /\ Reserves(tx, m, end).quote = InitReserves.quote + QuoteOf(tx, {}) - QuoteOf(tx, {})
      /\ Reserves(tx, m, end).tokens = InitReserves.tokens - TokensOf(tx, {}) + TokensOf(tx, {})
  BY <1>2, ReservesAre
<1> QED
  BY <1>3, <1>4, <1>5 DEF end

\* All trades of mint m on the curve.
CurveTradesIn(tx, m) == OnCurve(tx, m, CurveOps \ {"create"})

\* The reserves that a buy reckons with are no better than those at the end, and those at
\* the end if a buy comes last.
LEMMA LiveReservesFit ==
  ASSUME NEW tx \in Transaction, LogsAll(tx), NEW e \in Events(FullCopy(tx)), e.venue = "curve",
         InitReserves \in Positive,
         \A i \in 0..Len(Executed(tx)) : Reserves(tx, e.mint, i) \in Positive
  PROVE  LET live == LiveReserves(tx, e)
             end == Reserves(tx, e.mint, Len(Executed(tx)))
             trades == CurveTradesIn(tx, e.mint)
         IN  /\ live \in Positive /\ end \in Positive
             /\ live.tokens <= end.tokens /\ end.quote <= live.quote
             /\ trades # {} /\ Buys(Executed(tx)[Max(trades)]) =>
                  live.tokens = end.tokens /\ end.quote = live.quote
<1> DEFINE m == e.mint
           n == Len(Executed(tx))
           bought == OnCurve(tx, m, BuyOps \cap CurveOps)
           sold == OnCurve(tx, m, SellOps \cap CurveOps)
           trades == CurveTradesIn(tx, m)
           live == LiveReserves(tx, e)
           end == Reserves(tx, m, n)
           lastBuy == e.buys[Max(Exact(e.buys))].at
           lastSale == e.sells[Max(Exact(e.sells))].at
<1>1. DOMAIN Executed(tx) = 1..n /\ n \in Nat
  BY ExecutedIs
<1>2. e.buys = CurveTrades(FullCopy(tx), m, BuyOps) /\ e.sells = CurveTrades(FullCopy(tx), m, SellOps)
  <2>1. FullCopy(tx) \in Copy
    BY FullIs
  <2> QED
    BY <2>1, EventIs DEF Trades
<1>3. /\ Exact(e.buys) = {} => bought = {}
      /\ Exact(e.buys) # {} => lastBuy \in bought /\ \A a \in bought : a <= lastBuy
  BY <1>2, LastExact DEF Sides
<1>4. /\ Exact(e.sells) = {} => sold = {}
      /\ Exact(e.sells) # {} => lastSale \in sold /\ \A a \in sold : a <= lastSale
  BY <1>2, LastExact DEF Sides
<1>5. live = IF Exact(e.buys) # {} THEN Reserves(tx, m, lastBuy)
             ELSE IF Exact(e.sells) # {} THEN Reserves(tx, m, lastSale) ELSE InitReserves
  BY DEF LiveReserves, After
<1>6. /\ bought \in SUBSET (1..n) /\ sold \in SUBSET (1..n) /\ n \in 0..n
      /\ \A a \in bought \cup sold : a \in 0..n /\ a \in Nat
  <2>1. bought \in SUBSET (1..n) /\ sold \in SUBSET (1..n)
    BY <1>1 DEF OnCurve
  <2>2. (1..n) \in SUBSET (0..n) /\ (1..n) \in SUBSET Nat /\ n \in 0..n
    BY <1>1
  <2> HIDE DEF bought, sold, n
  <2> QED
    BY <2>1, <2>2
<1>7. end \in Positive
  BY <1>6
<1>8. trades = bought \cup sold
  BY DEF OnCurve, CurveTradesIn, CurveOps, BuyOps, SellOps
<1>9. \A a \in sold : ~Buys(Executed(tx)[a])
  BY DEF OnCurve, Buys, BuyOps, SellOps
<1> HIDE DEF bought, sold, live, end, n, m, trades, lastBuy, lastSale
<1>10. CASE Exact(e.buys) # {}
  <2>1. lastBuy \in 0..n /\ lastBuy \in bought /\ \A a \in bought : a <= lastBuy
    BY <1>3, <1>6, <1>10
  <2>2. live = Reserves(tx, m, lastBuy) /\ live \in Positive
    BY <2>1, <1>5, <1>10 DEF m, n
  <2>3. /\ live.tokens <= end.tokens /\ end.quote <= live.quote
        /\ (\A a \in sold : a <= lastBuy) => live.tokens = end.tokens /\ end.quote = live.quote
    BY <2>1, <2>2, OnlySalesFollow DEF bought, sold, end, n, m
  <2>4. trades # {} /\ Buys(Executed(tx)[Max(trades)]) => \A a \in sold : a <= lastBuy
    <3> SUFFICES ASSUME trades # {}, Buys(Executed(tx)[Max(trades)])
                 PROVE  \A a \in sold : a <= lastBuy
      OBVIOUS
    <3>1. Max(trades) \in trades /\ \A a \in trades : a <= Max(trades)
      BY <1>1, <1>6, <1>8, MaxIs
    <3>2. Max(trades) \in bought
      BY <3>1, <1>8, <1>9
    <3> DEFINE top == Max(trades)
    <3>3. top <= lastBuy /\ \A a \in sold : a <= top
      BY <3>1, <3>2, <2>1, <1>8
    <3>4. top \in Nat /\ lastBuy \in Nat /\ \A a \in sold : a \in Nat
      BY <3>2, <2>1, <1>6
    <3> HIDE DEF top
    <3> QED
      BY <3>3, <3>4
  <2> QED
    BY <2>2, <2>3, <2>4, <1>7 DEF live, end, trades, m, n
<1>11. CASE Exact(e.buys) = {} /\ Exact(e.sells) # {}
  <2>1. lastSale \in 0..n /\ (\A a \in sold : a <= lastSale) /\ bought = {}
    BY <1>3, <1>4, <1>6, <1>1, <1>11
  <2>2. live = Reserves(tx, m, lastSale) /\ live \in Positive
    BY <2>1, <1>5, <1>11 DEF m, n
  <2>3. live.tokens = end.tokens /\ end.quote = live.quote
    BY <2>1, <2>2, OnlySalesFollow DEF bought, sold, end, n, m
  <2>4. live.tokens <= end.tokens /\ end.quote <= live.quote
    BY <2>2, <2>3, <1>7 DEF Positive
  <2> QED
    BY <2>2, <2>3, <2>4, <1>7 DEF live, end, trades, m, n
<1>12. CASE Exact(e.buys) = {} /\ Exact(e.sells) = {}
  <2>1. live = InitReserves /\ bought = {} /\ sold = {}
    BY <1>3, <1>4, <1>5, <1>12
  <2>2. end.quote = live.quote /\ end.tokens = live.tokens
    BY <2>1, NoTrades DEF bought, sold, end, n, m
  <2>3. live.tokens <= end.tokens /\ end.quote <= live.quote
    BY <2>2, <1>7 DEF Positive
  <2> QED
    BY <2>1, <2>2, <2>3, <1>7 DEF live, end, trades, m, n
<1> QED
  BY <1>10, <1>11, <1>12

\* Quotients.
LEMMA QuotientIs ==
  ASSUME NEW a \in Nat, NEW b \in Nat \ {0}
  PROVE  /\ a \div b \in Nat /\ (a \div b) * b <= a /\ a < (a \div b + 1) * b
         /\ \A q \in Nat : q * b <= a => q <= a \div b
OBVIOUS

\* A product of naturals grows.
LEMMA ProductGrows ==
  ASSUME NEW a \in Nat, NEW b \in Nat, NEW c \in Nat, a <= b
  PROVE  a * c \in Nat /\ c * a \in Nat /\ a * c <= b * c /\ c * a <= c * b
OBVIOUS

\* A better curve gives no less.
LEMMA GivesGrow ==
  ASSUME set.spend \in Nat \ {0}, NEW r \in Positive, NEW s \in Positive,
         r.tokens <= s.tokens, s.quote <= r.quote
  PROVE  /\ Gives(r) \in Nat /\ Gives(s) \in Nat /\ Gives(r) <= Gives(s)
         /\ r.tokens = s.tokens /\ s.quote = r.quote => Gives(r) = Gives(s)
<1> DEFINE k == set.spend
           a == k * r.tokens
           b == r.quote + k
           c == k * s.tokens
           d == s.quote + k
           q == a \div b
<1>1. /\ k \in Nat \ {0} /\ r.tokens \in Nat /\ r.quote \in Nat /\ s.tokens \in Nat /\ s.quote \in Nat
  BY DEF Positive
<1>2. Gives(r) = a \div b /\ Gives(s) = c \div d
  BY DEF Gives
<1>3. a \in Nat /\ c \in Nat /\ a <= c
  BY <1>1, ProductGrows
<1>4. b \in Nat \ {0} /\ d \in Nat \ {0} /\ d <= b
  BY <1>1
<1>5. r.tokens = s.tokens /\ s.quote = r.quote => a = c /\ b = d
  OBVIOUS
<1> HIDE DEF a, b, c, d
<1>6. q \in Nat /\ q * b <= a /\ c \div d \in Nat
  BY <1>3, <1>4, QuotientIs
<1> HIDE DEF q
<1>7. q * d \in Nat /\ q * b \in Nat /\ q * d <= q * b
  BY <1>4, <1>6, ProductGrows
<1>8. q * d <= c
  BY <1>3, <1>6, <1>7
<1>9. q <= c \div d
  BY <1>3, <1>4, <1>6, <1>8, QuotientIs
<1> QED
  BY <1>2, <1>5, <1>6, <1>9 DEF q

\* What a buy asks for, given the reserves it reckons with and those at the end.
LEMMA OrderFits ==
  ASSUME set.spend \in Nat \ {0}, set.slippage \in 0..(Scale - 1),
         NEW r \in Positive, NEW s \in Positive, r.tokens <= s.tokens, s.quote <= r.quote
  PROVE  /\ MinTokensOut(r) <= AtLeastOne(Gives(s))
         /\ r.tokens = s.tokens /\ s.quote = r.quote =>
              Gives(s) * (Scale - set.slippage) < (MinTokensOut(r) + 1) * Scale
<1> DEFINE g == Gives(r)
           h == Gives(s)
           part == Scale - set.slippage
           q == (g * part) \div Scale
<1>1. g \in Nat /\ h \in Nat /\ g <= h /\ (r.tokens = s.tokens /\ s.quote = r.quote => g = h)
  BY GivesGrow
<1>2. part \in Nat /\ part <= 4 /\ Scale = 4
  BY DEF Scale
<1> HIDE DEF g, h, part
<1>3. g * part \in Nat /\ g * part <= 4 * g
  BY <1>1, <1>2, ProductGrows
<1>4. q \in Nat /\ q * 4 <= g * part /\ g * part < (q + 1) * 4
  <2> DEFINE p == g * part
  <2>1. q = p \div 4 /\ p \in Nat
    BY <1>2, <1>3
  <2> HIDE DEF p, q
  <2>2. q \in Nat /\ q * 4 <= p /\ p < (q + 1) * 4
    BY <2>1
  <2> QED
    BY <2>2 DEF p
<1>5. MinTokensOut(r) = AtLeastOne(q)
  BY DEF MinTokensOut, g, part
<1> DEFINE p == g * part
<1> HIDE DEF q
<1>6. q <= g
  <2>1. p \in Nat /\ p <= 4 * g /\ q * 4 <= p
    BY <1>3, <1>4
  <2> HIDE DEF p
  <2> QED
    BY <2>1, <1>1, <1>4
<1>7. AtLeastOne(q) <= AtLeastOne(h) /\ q <= AtLeastOne(q) /\ AtLeastOne(q) \in Nat
  BY <1>1, <1>4, <1>6 DEF AtLeastOne
<1>8. ASSUME g = h
      PROVE  h * part < (AtLeastOne(q) + 1) * 4
  <2>1. p \in Nat /\ p < (q + 1) * 4 /\ p = h * part
    BY <1>3, <1>4, <1>8
  <2> HIDE DEF p
  <2> DEFINE z == AtLeastOne(q)
  <2>2. z \in Nat /\ q <= z /\ q \in Nat
    BY <1>4, <1>7
  <2> HIDE DEF z
  <2>3. p < (z + 1) * 4
    BY <2>1, <2>2
  <2> QED
    BY <2>1, <2>3 DEF z
<1> QED
  BY <1>1, <1>2, <1>5, <1>7, <1>8 DEF h, part

\* The order for m, as begun on a complete copy.
IsReckoned(m, x) ==
  /\ x.tx \in DOMAIN chain
  /\ \E e \in Events(FullCopy(chain[x.tx])) :
       /\ e.venue = "curve" /\ e.mint = m /\ e.create
       /\ x.minOut = MinTokensOut(LiveReserves(chain[x.tx], e))

\* Every order of a complete copy was reckoned from an event of that copy, and one of the
\* scenarios is played.
OrderInv ==
  /\ \E s \in Scenarios : chain = s.chain /\ set = s.set
  /\ \A m \in Mints : entry[m] # NoEntry /\ entry[m].full => IsReckoned(m, entry[m])

\* What comes out complete came in complete.
LEMMA CompleteCameComplete ==
  ASSUME NEW t, NEW source, NEW e, Report(t, source, e), out' # Nothing, out'.complete
  PROVE  Complete(source)
<1> DEFINE k == <<t, e.mint>>
<1>1. Duplicate(k, source) \/ FirstReport(k, source)
  BY DEF Report, Arrive
<1>2. CASE FirstReport(k, source)
  BY <1>2 DEF FirstReport
<1>3. CASE Duplicate(k, source)
  BY <1>3 DEF Duplicate, ShouldForward
<1> QED
  BY <1>1, <1>2, <1>3

(***************************************************************************)
(* A buy on a complete copy asks for no more tokens than the curve gives   *)
(* after that transaction and, unless a sale came last, for no less than   *)
(* the slippage allows (exec/buy.rs:64).                                   *)
(***************************************************************************)
THEOREM OrderFitsCurveHolds == SignalsSpec => []OrderFitsCurve
<1>1. SignalsInit => OrderInv
  BY DEF SignalsInit, OrderInv
<1>2. LedgerInv /\ EntryInv /\ OrderInv /\ [SignalsNext]_signalsVars => OrderInv'
  <2> SUFFICES ASSUME LedgerInv, EntryInv, OrderInv, [SignalsNext]_signalsVars
               PROVE  OrderInv'
    OBVIOUS
  <2>1. ASSUME NEW t \in DOMAIN chain, NEW source \in set.feeds,
               NEW e \in decoded[t][Complete(source)], Report(t, source, e)
        PROVE  OrderInv'
    <3>1. set' = set /\ chain' = chain
      BY <2>1 DEF Report, Arrive
    <3>2. CASE entry' = entry
      BY <3>1, <3>2 DEF OrderInv, IsReckoned, MinTokensOut, Gives
    <3>3. CASE entry' # entry
      <4>1. out' # Nothing /\ Handle(t, out'.complete, e, wants') /\ wants' = Intent(e, out'.replayed)
        BY <2>1, <3>3 DEF Report
      <4> DEFINE x == [creator |-> e.creator, tx |-> t, full |-> out'.complete,
                       minOut |-> MinTokensOut(LiveReserves(chain[t], e))]
      <4>2. wants' = "buy" /\ entry' = [entry EXCEPT ![e.mint] = x]
        BY <4>1, <3>3 DEF Handle
      <4>3. e.venue = "curve" /\ e.create
        BY <4>1, <4>2 DEF Intent, OnEvent, WantsBuy, Allowed
      <4>4. x.full => IsReckoned(e.mint, x)
        <5> SUFFICES ASSUME out'.complete PROVE IsReckoned(e.mint, x)
          OBVIOUS
        <5>1. Complete(source)
          BY <2>1, <4>1, CompleteCameComplete
        <5>2. e \in Events(FullCopy(chain[t]))
          BY <5>1, <2>1, CopyIs DEF LedgerInv
        <5> QED
          BY <4>3, <5>2 DEF IsReckoned
      <4> HIDE DEF x
      <4>5. \A m \in Mints : entry'[m] = IF m = e.mint THEN x ELSE entry[m]
        BY <4>2 DEF EntryInv
      <4>6. \A m \in Mints : entry'[m] # NoEntry /\ entry'[m].full => IsReckoned(m, entry'[m])
        BY <4>4, <4>5 DEF OrderInv
      <4>7. ASSUME NEW m \in Mints, entry'[m] # NoEntry, entry'[m].full
            PROVE  IsReckoned(m, entry[m])'
        <5>1. IsReckoned(m, entry'[m])
          BY <4>6, <4>7
        <5> QED
          BY <5>1, <3>1 DEF IsReckoned, MinTokensOut, Gives
      <4> QED
        BY <4>7, <3>1 DEF OrderInv
    <3> QED
      BY <3>2, <3>3
  <2>2. CASE UNCHANGED signalsVars
    BY <2>2 DEF signalsVars, ledgerVars, OrderInv, IsReckoned, MinTokensOut, Gives
  <2> QED
    BY <2>1, <2>2 DEF SignalsNext
<1>3. LedgerInv /\ OrderInv => OrderFitsCurve
  <2> SUFFICES ASSUME LedgerInv, OrderInv, NEW m \in Mints,
                      entry[m] # NoEntry, entry[m].full, Uncut(entry[m].tx)
               PROVE  LET t == entry[m].tx
                          trades == CurveTradesIn(chain[t], m)
                          gives == Gives(Reserves(chain[t], m, Len(Executed(chain[t]))))
                      IN  /\ entry[m].minOut <= AtLeastOne(gives)
                          /\ trades # {} /\ Buys(Executed(chain[t])[Max(trades)]) =>
                               gives * (Scale - set.slippage) < (entry[m].minOut + 1) * Scale
    BY DEF OrderFitsCurve, CurveTradesOf, CurveTradesIn, OnCurve
  <2> DEFINE t == entry[m].tx
             tx == chain[t]
             end == Reserves(tx, m, Len(Executed(tx)))
             trades == CurveTradesIn(tx, m)
  <2>1. IsReckoned(m, entry[m])
    BY DEF OrderInv
  <2>2. t \in DOMAIN chain /\ tx \in Transaction
    BY <2>1 DEF IsReckoned, LedgerInv, Given
  <2>3. PICK e \in Events(FullCopy(tx)) :
          /\ e.venue = "curve" /\ e.mint = m /\ e.create
          /\ entry[m].minOut = MinTokensOut(LiveReserves(tx, e))
    BY <2>1 DEF IsReckoned
  <2> DEFINE live == LiveReserves(tx, e)
  <2>4. ~tx.failed /\ IsCreated(tx, m)
    <3>1. FullCopy(tx).calls = Executed(tx) /\ FullCopy(tx).failed = tx.failed
      BY <2>2, FullIs
    <3>2. ~FullCopy(tx).failed /\ \E c \in Creates(FullCopy(tx)) : c.mint = m
      BY <2>3, CurveEventIs
    <3> QED
      BY <3>1, <3>2 DEF Creates, IsCreated
  <2>5. PICK s \in Scenarios : chain = s.chain /\ set = s.set
    BY DEF OrderInv
  <2>6. /\ set.spend \in Nat \ {0} /\ set.slippage \in 0..(Scale - 1)
    BY <2>5, SignalsAssumption DEF Valid
  <2>7. /\ InitReserves \in Positive
        /\ \A i \in 0..Len(Executed(tx)) : Reserves(tx, m, i) \in Positive
    BY <2>2, <2>4, <2>5, CurveAssumption
  <2>8. LogsAll(tx)
    BY <2>2, UncutIs
  <2>9. /\ live \in Positive /\ end \in Positive
        /\ live.tokens <= end.tokens /\ end.quote <= live.quote
        /\ trades # {} /\ Buys(Executed(tx)[Max(trades)]) =>
             live.tokens = end.tokens /\ end.quote = live.quote
    BY <2>2, <2>3, <2>7, <2>8, LiveReservesFit
  <2> HIDE DEF live, end, trades
  <2>10. /\ MinTokensOut(live) <= AtLeastOne(Gives(end))
         /\ live.tokens = end.tokens /\ end.quote = live.quote =>
              Gives(end) * (Scale - set.slippage) < (MinTokensOut(live) + 1) * Scale
    BY <2>6, <2>9, OrderFits
  <2> QED
    BY <2>3, <2>9, <2>10 DEF live, end, trades
<1> QED
  BY <1>1, <1>2, <1>3, LedgerInvariant, EntryHolds, PTL DEF SignalsSpec

-----------------------------------------------------------------------------
(***************************************************************************)
(* Enumerations of a finite set in an order given by a set of pairs.       *)
(***************************************************************************)

\* less is a strict total order on S.
Orders(less, S) ==
  /\ \A x \in S : <<x, x>> \notin less
  /\ \A x, y \in S : x # y => <<x, y>> \in less \/ <<y, x>> \in less
  /\ \A x, y, z \in S : <<x, y>> \in less /\ <<y, z>> \in less => <<x, z>> \in less

Before(S, less, x) == {y \in S : <<y, x>> \in less}

\* Ranked enumerates S: each member stands at the number of those before it.
LEMMA RankedIs ==
  ASSUME NEW S, IsFiniteSet(S), NEW less, Orders(less, S)
  PROVE  /\ Cardinality(S) \in Nat
         /\ \A x, y \in S :
              Cardinality(Before(S, less, x)) = Cardinality(Before(S, less, y)) => x = y
         /\ \A k \in 1..Cardinality(S) :
              /\ Ranked(S, less)[k] \in S
              /\ Cardinality(Before(S, less, Ranked(S, less)[k])) = k - 1
<1> DEFINE n == Cardinality(S)
           rank(x) == Cardinality(Before(S, less, x))
           f == Ranked(S, less)
           g == [x \in S |-> rank(x) + 1]
<1>1. ASSUME NEW T \in SUBSET S, NEW R \in SUBSET T, NEW x \in T \ R
      PROVE  /\ Cardinality(R) < Cardinality(T)
             /\ Cardinality(T) \in Nat /\ Cardinality(R) \in Nat
  <2>1. IsFiniteSet(T)
    BY FS_Subset
  <2>2. IsFiniteSet(R) /\ Cardinality(R) <= Cardinality(T) /\ Cardinality(R) # Cardinality(T)
    BY <2>1, <1>1, FS_Subset
  <2> QED
    BY <2>1, <2>2, FS_CardinalityType
<1>2. n \in Nat
  BY FS_CardinalityType
<1>3. \A x \in S : rank(x) \in 0..(n - 1)
  <2> TAKE x \in S
  <2>1. Before(S, less, x) \in SUBSET S /\ x \in S \ Before(S, less, x) /\ S \in SUBSET S
    BY DEF Before, Orders
  <2>2. rank(x) < n /\ n \in Nat /\ rank(x) \in Nat
    BY <2>1, <1>1
  <2> HIDE DEF rank, n
  <2> QED
    BY <2>2
<1>4. ASSUME NEW x \in S, NEW y \in S, <<x, y>> \in less
      PROVE  rank(x) < rank(y)
  <2>1. /\ Before(S, less, y) \in SUBSET S /\ Before(S, less, x) \in SUBSET Before(S, less, y)
        /\ x \in Before(S, less, y) \ Before(S, less, x)
    BY <1>4 DEF Before, Orders
  <2> QED
    BY <2>1, <1>1
<1> HIDE DEF rank
<1>5. \A x, y \in S : rank(x) = rank(y) => x = y
  <2> SUFFICES ASSUME NEW x \in S, NEW y \in S, rank(x) = rank(y), x # y
               PROVE  FALSE
    OBVIOUS
  <2>1. <<x, y>> \in less \/ <<y, x>> \in less
    BY DEF Orders
  <2>2. (rank(x) < rank(y) \/ rank(y) < rank(x)) /\ rank(x) \in 0..(n - 1)
    BY <2>1, <1>3, <1>4
  <2> HIDE DEF n
  <2> QED
    BY <2>2, <1>2
<1>6. \A k \in 1..n : \E x \in S : rank(x) = k - 1
  <2> HIDE DEF n
  <2>1. g \in [S -> 1..n]
    BY <1>2, <1>3
  <2>2. g \in Injection(S, 1..n)
    BY <2>1, <1>2, <1>3, <1>5 DEF Injection, IsInjective
  <2>3. IsFiniteSet(1..n) /\ Cardinality(1..n) = n
    BY <1>2, FS_Interval
  <2> HIDE DEF g
  <2>4. g \in Surjection(S, 1..n)
    BY <2>2, <2>3, FS_Injection DEF n
  <2>5. \A k \in 1..n : \E x \in S : g[x] = k
    BY <2>4 DEF Surjection
  <2> QED
    BY <2>5, <1>2, <1>3 DEF g
<1>7. f = [k \in 1..n |-> CHOOSE x \in S : rank(x) = k - 1]
  BY DEF Ranked, rank, Before
<1>8. \A k \in 1..n : f[k] \in S /\ rank(f[k]) = k - 1
  BY <1>6, <1>7
<1> QED
  BY <1>2, <1>5, <1>8 DEF rank

\* h maps S onto T, and T is ordered by more as S by less.
Carries(h, S, less, T, more) ==
  /\ \A x \in S : h[x] \in T
  /\ \A z \in T : \E x \in S : h[x] = z
  /\ \A x, y \in S : h[x] = h[y] => x = y
  /\ \A x, y \in S : <<x, y>> \in less <=> <<h[x], h[y]>> \in more

\* Sets of one order are enumerated alike.
LEMMA CarriedInOrder ==
  ASSUME NEW S, IsFiniteSet(S), NEW less, NEW T, NEW more, Orders(more, T),
         NEW h, Carries(h, S, less, T, more)
  PROVE  /\ Cardinality(S) \in Nat /\ Cardinality(T) = Cardinality(S)
         /\ \A k \in 1..Cardinality(S) :
              Ranked(S, less)[k] \in S /\ Ranked(T, more)[k] = h[Ranked(S, less)[k]]
<1>1. Orders(less, S)
  <2>1. \A x \in S : <<x, x>> \notin less
    BY DEF Orders, Carries
  <2>2. \A x, y \in S : x # y => <<x, y>> \in less \/ <<y, x>> \in less
    BY DEF Orders, Carries
  <2>3. ASSUME NEW x \in S, NEW y \in S, NEW z \in S, <<x, y>> \in less, <<y, z>> \in less
        PROVE  <<x, z>> \in less
    <3>1. h[x] \in T /\ h[y] \in T /\ h[z] \in T /\ <<h[x], h[y]>> \in more /\ <<h[y], h[z]>> \in more
      BY <2>3 DEF Carries
    <3>2. <<h[x], h[z]>> \in more
      BY <3>1 DEF Orders
    <3> QED
      BY <3>2 DEF Carries
  <2> QED
    BY <2>1, <2>2, <2>3 DEF Orders
<1>2. ASSUME NEW U \in SUBSET S, NEW V \in SUBSET T,
             \A x \in S : x \in U <=> h[x] \in V
      PROVE  IsFiniteSet(V) /\ Cardinality(V) = Cardinality(U)
  <2> DEFINE g == [x \in U |-> h[x]]
  <2>1. IsFiniteSet(U)
    BY FS_Subset
  <2>2. g \in [U -> V]
    BY <1>2
  <2>3. \A x, y \in U : g[x] = g[y] => x = y
    BY DEF Carries
  <2>4. \A z \in V : \E x \in U : g[x] = z
    <3> TAKE z \in V
    <3>1. PICK x \in S : h[x] = z
      BY DEF Carries
    <3>2. x \in U
      BY <3>1, <1>2
    <3> QED
      BY <3>1, <3>2
  <2> HIDE DEF g
  <2>5. ExistsBijection(U, V)
    BY <2>2, <2>3, <2>4
       DEF ExistsBijection, Bijection, Injection, Surjection, IsInjective
  <2> QED
    BY <2>1, <2>5, FS_Bijection
<1>3. IsFiniteSet(T) /\ Cardinality(T) = Cardinality(S)
  <2>1. \A x \in S : x \in S <=> h[x] \in T
    BY DEF Carries
  <2> QED
    BY <2>1, <1>2
<1>4. \A x \in S : Cardinality(Before(T, more, h[x])) = Cardinality(Before(S, less, x))
  <2> TAKE x \in S
  <2>1. /\ Before(S, less, x) \in SUBSET S /\ Before(T, more, h[x]) \in SUBSET T
        /\ \A y \in S : y \in Before(S, less, x) <=> h[y] \in Before(T, more, h[x])
    BY DEF Before, Carries
  <2> QED
    BY <2>1, <1>2
<1>5. /\ Cardinality(S) \in Nat
      /\ \A k \in 1..Cardinality(S) :
           /\ Ranked(S, less)[k] \in S
           /\ Cardinality(Before(S, less, Ranked(S, less)[k])) = k - 1
  BY <1>1, RankedIs
<1>6. /\ \A x, y \in T :
           Cardinality(Before(T, more, x)) = Cardinality(Before(T, more, y)) => x = y
      /\ \A k \in 1..Cardinality(T) :
           /\ Ranked(T, more)[k] \in T
           /\ Cardinality(Before(T, more, Ranked(T, more)[k])) = k - 1
  BY <1>3, RankedIs
<1>7. ASSUME NEW k \in 1..Cardinality(S)
      PROVE  Ranked(T, more)[k] = h[Ranked(S, less)[k]]
  <2> DEFINE x == Ranked(S, less)[k]
             z == Ranked(T, more)[k]
  <2>1. x \in S /\ Cardinality(Before(S, less, x)) = k - 1
    BY <1>5
  <2>2. z \in T /\ Cardinality(Before(T, more, z)) = k - 1
    BY <1>3, <1>6
  <2> HIDE DEF x, z
  <2>3. h[x] \in T /\ Cardinality(Before(T, more, h[x])) = k - 1
    BY <2>1, <1>4 DEF Carries
  <2>4. z = h[x]
    BY <2>2, <2>3, <1>6
  <2> QED
    BY <2>4 DEF x, z
<1> QED
  BY <1>3, <1>5, <1>7

(***************************************************************************)
(* Functions defined by recursion over an interval.                        *)
(***************************************************************************)

\* g starts with base, and each value is that of f for the place and the value before.
Recursion(g, n, base, f) ==
  g = [k \in 0..n |-> IF k = 0 THEN base ELSE f[<<k, g[k - 1]>>]]

LEMMA RecursionExists ==
  ASSUME NEW n \in Nat, NEW A, NEW base \in A, NEW f,
         \A k \in 1..n, a \in A : f[<<k, a>>] \in A
  PROVE  \E g \in [0..n -> A] : Recursion(g, n, base, f)
<1> DEFINE Bad == {m \in 0..n : ~\E g \in [0..m -> A] : Recursion(g, m, base, f)}
<1>1. Bad \in SUBSET Nat
  OBVIOUS
<1>2. SUFFICES ASSUME Bad # {}
               PROVE  FALSE
  BY DEF Bad
<1>3. PICK m \in Bad : \A e \in Bad : m <= e
  <2> HIDE DEF Bad
  <2> QED
    BY <1>1, <1>2, LeastOf
<1>4. m \in 0..n /\ m \in Nat
  BY <1>1
<1>5. \E g \in [0..m -> A] : Recursion(g, m, base, f)
  <2>1. CASE m = 0
    <3> DEFINE g == [k \in 0..m |-> base]
    <3>1. g \in [0..m -> A] /\ g = [k \in 0..m |-> IF k = 0 THEN base ELSE f[<<k, g[k - 1]>>]]
      BY <2>1
    <3> QED
      BY <3>1 DEF Recursion
  <2>2. CASE m # 0
    <3>1. m - 1 \in 0..n /\ m - 1 \notin Bad
      <4>1. m - 1 \in 0..n /\ ~(m <= m - 1)
        BY <1>4, <2>2
      <4> HIDE DEF Bad
      <4> QED
        BY <1>3, <4>1
    <3>2. PICK p \in [0..(m - 1) -> A] : Recursion(p, m - 1, base, f)
      BY <3>1
    <3> DEFINE last == f[<<m, p[m - 1]>>]
               g == [k \in 0..m |-> IF k = m THEN last ELSE p[k]]
    <3>3. m \in 1..n /\ p[m - 1] \in A
      BY <1>4, <2>2
    <3>4. last \in A
      BY <3>3
    <3>5. g \in [0..m -> A]
      <4> HIDE DEF last
      <4>1. \A k \in 0..m : k = m \/ k \in 0..(m - 1)
        BY <1>4
      <4> QED
        BY <3>4, <4>1
    <3>6. \A k \in 0..m : g[k] = IF k = 0 THEN base ELSE f[<<k, g[k - 1]>>]
      <4> TAKE k \in 0..m
      <4>1. CASE k = m
        <5>1. k # 0 /\ k - 1 \in 0..m /\ k - 1 # m
          BY <4>1, <1>4, <2>2
        <5>2. g[k - 1] = p[k - 1]
          BY <5>1
        <5> QED
          BY <4>1, <5>1, <5>2
      <4>2. CASE k # m
        <5>1. k \in 0..(m - 1) /\ (k # 0 => k - 1 \in 0..(m - 1) /\ k - 1 \in 0..m /\ k - 1 # m)
          BY <4>2, <1>4
        <5>2. p[k] = IF k = 0 THEN base ELSE f[<<k, p[k - 1]>>]
          BY <5>1, <3>2 DEF Recursion
        <5>3. k # 0 => g[k - 1] = p[k - 1]
          BY <5>1
        <5>4. g[k] = p[k]
          BY <4>2
        <5> HIDE DEF g
        <5> QED
          BY <5>2, <5>3, <5>4
      <4> QED
        BY <4>1, <4>2
    <3>7. g = [k \in 0..m |-> g[k]]
      OBVIOUS
    <3> HIDE DEF g
    <3>8. Recursion(g, m, base, f)
      BY <3>6, <3>7 DEF Recursion
    <3> QED
      BY <3>5, <3>8
  <2> QED
    BY <2>1, <2>2
<1> QED
  BY <1>4, <1>5

(***************************************************************************)
(* The cost of the tokens that are left, against the moving average.       *)
(***************************************************************************)
LEMMA BuyKeepsAverage ==
  ASSUME NEW c \in Nat, NEW d \in Nat, NEW p \in Nat, NEW q \in Nat, NEW h \in Nat,
         NEW a \in Nat, NEW t \in Nat, c * q = p * h * d
  PROVE  (c + a * d) * (q * (h + t)) = (p * h + a * q) * (h + t) * d
<1>1. (c + a * d) * (q * (h + t)) = (c * q) * (h + t) + (a * d * q) * (h + t)
  OBVIOUS
<1>2. (p * h + a * q) * (h + t) * d = (p * h * d) * (h + t) + (a * d * q) * (h + t)
  OBVIOUS
<1> QED
  BY <1>1, <1>2

\* A part of what is held is sold; its cost goes with it.
LEMMA SellKeepsAverage ==
  ASSUME NEW c \in Nat, NEW d \in Nat, NEW p \in Nat, NEW q \in Nat, NEW h \in Nat,
         NEW r \in Nat, c * q = p * h * d
  PROVE  (c * r) * q = p * r * (d * h)
<1>1. (c * r) * q = (c * q) * r
  OBVIOUS
<1>2. p * r * (d * h) = (p * h * d) * r
  OBVIOUS
<1> QED
  BY <1>1, <1>2

\* Products of numbers.
LEMMA PositiveProduct ==
  ASSUME NEW a \in Nat \ {0}, NEW b \in Nat \ {0}
  PROVE  a * b \in Nat \ {0}
OBVIOUS

LEMMA Products ==
  ASSUME NEW a \in Nat, NEW b \in Nat
  PROVE  a * b \in Nat
OBVIOUS

Spent == [held : Nat, cost : Nat \X (Nat \ {0})]

Holding == [held : Nat, average : Nat \X Nat]

\* The cost is that of what is held, at the average price.
Agrees(s, r) ==
  s.held = r.held /\ s.cost[1] * r.average[2] = r.average[1] * s.held * s.cost[2]

\* Costs stay fractions, and so do average prices.
LEMMA SpendTyped ==
  ASSUME NEW s \in Spent, NEW c \in Call
  PROVE  Spend(s, c) \in Spent
<1> DEFINE sold == IF c.tokens < s.held THEN c.tokens ELSE s.held
<1>1. /\ s.held \in Nat /\ c.tokens \in Nat /\ c.quote \in Nat
      /\ s.cost[1] \in Nat /\ s.cost[2] \in Nat \ {0}
  BY DEF Spent, Call
<1>2. CASE Buys(c)
  <2>1. c.quote * s.cost[2] \in Nat
    BY <1>1, Products
  <2>2. s.cost[1] + c.quote * s.cost[2] \in Nat /\ s.held + c.tokens \in Nat
    BY <1>1, <2>1
  <2>3. Spend(s, c) = [held |-> s.held + c.tokens,
                       cost |-> <<s.cost[1] + c.quote * s.cost[2], s.cost[2]>>]
    BY <1>2 DEF Spend
  <2> QED
    BY <1>1, <2>2, <2>3 DEF Spent
<1>3. CASE ~Buys(c) /\ s.held = 0
  BY <1>3 DEF Spend
<1>4. CASE ~Buys(c) /\ s.held # 0
  <2>1. s.held - sold \in Nat
    BY <1>1
  <2>2. s.cost[1] * (s.held - sold) \in Nat
    <3> HIDE DEF sold
    <3> QED
      BY <1>1, <2>1, Products
  <2>3. s.cost[2] * s.held \in Nat \ {0}
    BY <1>1, <1>4, PositiveProduct
  <2>4. Spend(s, c) = [held |-> s.held - sold,
                       cost |-> <<s.cost[1] * (s.held - sold), s.cost[2] * s.held>>]
    BY <1>4 DEF Spend
  <2> HIDE DEF sold
  <2> QED
    BY <2>1, <2>2, <2>3, <2>4 DEF Spent
<1> QED
  BY <1>2, <1>3, <1>4

LEMMA HoldTyped ==
  ASSUME NEW r \in Holding, NEW c \in Call
  PROVE  Hold(r, c) \in Holding
<1>1. /\ r.held \in Nat /\ c.tokens \in Nat /\ c.quote \in Nat
      /\ r.average[1] \in Nat /\ r.average[2] \in Nat /\ r.average \in Nat \X Nat
  BY DEF Holding, Call
<1>2. CASE Buys(c)
  <2>1. /\ r.held + c.tokens \in Nat /\ r.average[1] * r.held \in Nat
        /\ c.quote * r.average[2] \in Nat
    BY <1>1, Products
  <2>2. r.average[2] * (r.held + c.tokens) \in Nat
    BY <1>1, <2>1, Products
  <2>3. Hold(r, c) = [held |-> r.held + c.tokens,
                      average |-> <<r.average[1] * r.held + c.quote * r.average[2],
                                    r.average[2] * (r.held + c.tokens)>>]
    BY <1>2 DEF Hold
  <2> QED
    BY <2>1, <2>2, <2>3 DEF Holding
<1>3. CASE ~Buys(c)
  <2>1. Hold(r, c) = [held |-> IF c.tokens < r.held THEN r.held - c.tokens ELSE 0,
                      average |-> r.average]
    BY <1>3 DEF Hold
  <2>2. (IF c.tokens < r.held THEN r.held - c.tokens ELSE 0) \in Nat
    BY <1>1
  <2> QED
    BY <1>1, <2>1, <2>2 DEF Holding
<1> QED
  BY <1>2, <1>3

\* A trade leaves the cost at the average price.
LEMMA SpendAgrees ==
  ASSUME NEW s \in Spent, NEW r \in Holding, NEW c \in Call, Agrees(s, r)
  PROVE  Agrees(Spend(s, c), Hold(r, c))
<1> DEFINE sold == IF c.tokens < s.held THEN c.tokens ELSE s.held
           left == s.held - sold
<1>1. /\ s.held \in Nat /\ c.tokens \in Nat /\ c.quote \in Nat
      /\ s.cost[1] \in Nat /\ s.cost[2] \in Nat
      /\ r.average[1] \in Nat /\ r.average[2] \in Nat
  BY DEF Spent, Holding, Call
<1>2. r.held = s.held /\ s.cost[1] * r.average[2] = r.average[1] * s.held * s.cost[2]
  BY DEF Agrees
<1>3. CASE Buys(c)
  <2>1. Spend(s, c) = [held |-> s.held + c.tokens,
                       cost |-> <<s.cost[1] + c.quote * s.cost[2], s.cost[2]>>]
    BY <1>3 DEF Spend
  <2>2. Hold(r, c) = [held |-> s.held + c.tokens,
                      average |-> <<r.average[1] * s.held + c.quote * r.average[2],
                                    r.average[2] * (s.held + c.tokens)>>]
    BY <1>2, <1>3 DEF Hold
  <2>3. (s.cost[1] + c.quote * s.cost[2]) * (r.average[2] * (s.held + c.tokens))
          = (r.average[1] * s.held + c.quote * r.average[2]) * (s.held + c.tokens) * s.cost[2]
    <3> DEFINE co == s.cost[1]
               d == s.cost[2]
               p == r.average[1]
               q == r.average[2]
               h == s.held
               a == c.quote
               t == c.tokens
    <3>1. /\ co \in Nat /\ d \in Nat /\ p \in Nat /\ q \in Nat /\ h \in Nat /\ a \in Nat /\ t \in Nat
          /\ co * q = p * h * d
      BY <1>1, <1>2
    <3> HIDE DEF co, d, p, q, h, a, t
    <3>2. (co + a * d) * (q * (h + t)) = (p * h + a * q) * (h + t) * d
      BY <3>1, BuyKeepsAverage
    <3> QED
      BY <3>2 DEF co, d, p, q, h, a, t
  <2> QED
    BY <2>1, <2>2, <2>3 DEF Agrees
<1>4. CASE ~Buys(c)
  <2>1. left \in Nat /\ left = IF c.tokens < s.held THEN s.held - c.tokens ELSE 0
    BY <1>1
  <2> HIDE DEF left
  <2>2. Hold(r, c) = [held |-> left, average |-> r.average]
    BY <1>2, <1>4, <2>1 DEF Hold
  <2>3. CASE s.held = 0
    <3>1. Spend(s, c) = s /\ left = 0
      BY <1>1, <1>4, <2>1, <2>3 DEF Spend
    <3> QED
      BY <3>1, <2>2, <2>3, <1>2 DEF Agrees
  <2>4. CASE s.held # 0
    <3>1. Spend(s, c) = [held |-> left, cost |-> <<s.cost[1] * left, s.cost[2] * s.held>>]
      BY <1>4, <2>4 DEF Spend, left
    <3>2. (s.cost[1] * left) * r.average[2] = r.average[1] * left * (s.cost[2] * s.held)
      <4> DEFINE co == s.cost[1]
                 d == s.cost[2]
                 p == r.average[1]
                 q == r.average[2]
                 h == s.held
      <4>1. /\ co \in Nat /\ d \in Nat /\ p \in Nat /\ q \in Nat /\ h \in Nat /\ left \in Nat
            /\ co * q = p * h * d
        BY <1>1, <1>2, <2>1
      <4> HIDE DEF co, d, p, q, h
      <4>2. (co * left) * q = p * left * (d * h)
        BY <4>1, SellKeepsAverage
      <4> QED
        BY <4>2 DEF co, d, p, q, h
    <3> QED
      BY <3>1, <3>2, <2>2 DEF Agrees
  <2> QED
    BY <2>3, <2>4
<1> QED
  BY <1>3, <1>4

(***************************************************************************)
(* The lines that count for line k, and the trades they stand for.         *)
(***************************************************************************)
LinesLess(S) == {p \in S \X S : Precedes(booked[p[1]], booked[p[2]])}

PlacesLess(S) == {r \in S \X S : Earlier(r[1], r[2])}

\* Up to where the trades of the transaction of line k count.
Bound(k) ==
  IF booked[k].call.wallet = Own /\ Sells(booked[k].call) THEN booked[k].at - 1 ELSE booked[k].at

PlacesOf(k) == OwnUpTo(booked[k].mint, booked[k].tx, Bound(k))

PlaceOf(k) == [l \in Counted(k) |-> <<booked[l].tx, booked[l].at>>]

\* A trade has one side.
LEMMA OneSideOnly ==
  ASSUME NEW c
  PROVE  ~(Buys(c) /\ Sells(c))
BY DEF Buys, Sells, BuyOps, SellOps

\* A line is of an executed trade of a transaction of the chain.
LEMMA LineIs ==
  ASSUME LedgerInv, OnlyExecutedIsBooked, NEW l \in DOMAIN booked
  PROVE  LET b == booked[l] IN
         /\ b.tx \in Nat /\ b.tx \in DOMAIN chain /\ b.at \in Nat /\ b.number \in Nat
         /\ b.at \in DOMAIN Executed(chain[b.tx]) /\ b.call = Executed(chain[b.tx])[b.at]
         /\ b.call \in Call /\ (Buys(b.call) \/ Sells(b.call)) /\ b.call.mint = b.mint
         /\ ~chain[b.tx].failed /\ 1..b.tx \subseteq DOMAIN chain
<1> DEFINE b == booked[l]
<1>1. b.tx \in DOMAIN chain /\ chain[b.tx] \in Transaction
  BY BookedIs
<1>2. /\ b.at \in Range(Log(chain[b.tx])) /\ ~chain[b.tx].failed
      /\ b.call = Executed(chain[b.tx])[b.at] /\ b.call.mint = b.mint
  BY DEF OnlyExecutedIsBooked
<1>3. b \in BookEntry /\ chain \in Seq(Transaction)
  BY DEF LedgerInv, Given
<1>4. b.tx \in Nat /\ b.at \in Nat /\ b.number \in Nat /\ b.call \in Call
  BY <1>3 DEF BookEntry
<1>5. b.at \in DOMAIN Executed(chain[b.tx]) /\ (Buys(b.call) \/ Sells(b.call))
  <2> HIDE DEF b
  <2> QED
    BY <1>1, <1>2, LogAt DEF Traded
<1>6. 1..b.tx \subseteq DOMAIN chain
  <2> HIDE DEF b
  <2>1. DOMAIN chain = 1..Len(chain) /\ Len(chain) \in Nat
    BY <1>3
  <2> QED
    BY <1>1, <1>4, <2>1
<1> QED
  BY <1>1, <1>2, <1>4, <1>5, <1>6

\* Places in the chain are in one order.
LEMMA PlacesOrdered ==
  ASSUME NEW S, S \subseteq Nat \X Nat
  PROVE  Orders(PlacesLess(S), S)
<1>1. \A p \in S : p[1] \in Nat /\ p[2] \in Nat /\ p = <<p[1], p[2]>>
  OBVIOUS
<1>2. \A p, q \in S : <<p, q>> \in PlacesLess(S) <=> Earlier(p, q)
  BY DEF PlacesLess
<1>3. \A p \in S : ~Earlier(p, p)
  BY <1>1 DEF Earlier
<1>4. \A p, q \in S : p # q => Earlier(p, q) \/ Earlier(q, p)
  <2> TAKE p, q \in S
  <2> SUFFICES ASSUME p # q PROVE Earlier(p, q) \/ Earlier(q, p)
    OBVIOUS
  <2>1. p[1] # q[1] \/ p[2] # q[2]
    BY <1>1
  <2> QED
    BY <1>1, <2>1 DEF Earlier
<1>5. \A p, q, r \in S : Earlier(p, q) /\ Earlier(q, r) => Earlier(p, r)
  BY <1>1 DEF Earlier
<1> QED
  BY <1>2, <1>3, <1>4, <1>5 DEF Orders

\* The lines that count for a line are of different places, and precede one
\* another as the places do.
LEMMA LinesInOrder ==
  ASSUME LedgerInv, OnlyExecutedIsBooked, NoTradeTwice, PairedWithItsInstruction,
         NEW k \in DOMAIN booked, Whole(k)
  PROVE  /\ \A l \in Counted(k) :
              l \in DOMAIN booked /\ booked[l].tx <= booked[k].tx /\ booked[l].index = booked[l].at
         /\ booked[k].index = booked[k].at
         /\ \A l, m \in Counted(k) :
              Precedes(booked[l], booked[m]) <=> Earlier(PlaceOf(k)[l], PlaceOf(k)[m])
<1>1. k \in Nat /\ 1..k \subseteq DOMAIN booked /\ k \in 1..k
  <2>1. booked \in Seq(BookEntry)
    BY DEF LedgerInv
  <2>2. DOMAIN booked = 1..Len(booked) /\ Len(booked) \in Nat
    BY <2>1
  <2> QED
    BY <2>2
<1>2. ASSUME NEW l \in DOMAIN booked, booked[l].tx <= booked[k].tx
      PROVE  booked[l].index = booked[l].at
  <2>1. /\ booked[l].tx \in Nat /\ booked[l].tx \in DOMAIN chain /\ ~chain[booked[l].tx].failed
        /\ booked[k].tx \in Nat
    BY LineIs
  <2>2. booked[l].tx \in 1..booked[k].tx
    <3>1. chain \in Seq(Transaction)
      BY DEF LedgerInv, Given
    <3>2. DOMAIN chain = 1..Len(chain) /\ Len(chain) \in Nat
      BY <3>1
    <3> QED
      BY <1>2, <2>1, <3>2
  <2>3. Known(booked[l].tx)
    BY <2>1, <2>2 DEF Whole
  <2> QED
    BY <2>3 DEF PairedWithItsInstruction
<1>3. booked[k].tx \in Nat /\ booked[k].index = booked[k].at
  <2>1. booked[k].tx \in Nat
    BY LineIs
  <2> QED
    BY <1>2, <2>1
<1>4. ASSUME NEW l \in Counted(k)
      PROVE  l \in DOMAIN booked /\ booked[l].tx <= booked[k].tx /\ booked[l].index = booked[l].at
  <2>1. l \in DOMAIN booked
    BY <1>1 DEF Counted
  <2>2. booked[l].tx \in Nat
    BY <2>1, LineIs
  <2>3. booked[l].tx <= booked[k].tx
    <3>1. SameOrder(booked[k], booked[l]) \/ Precedes(booked[l], booked[k])
      BY DEF Counted
    <3> QED
      BY <3>1, <1>3, <2>2 DEF SameOrder, Precedes
  <2> QED
    BY <1>2, <2>1, <2>3
<1>5. ASSUME NEW l \in Counted(k), NEW m \in Counted(k)
      PROVE  Precedes(booked[l], booked[m]) <=> Earlier(PlaceOf(k)[l], PlaceOf(k)[m])
  <2> DEFINE x == booked[l]
             y == booked[m]
  <2>1. l \in DOMAIN booked /\ m \in DOMAIN booked /\ x.index = x.at /\ y.index = y.at
    BY <1>4
  <2>2. /\ x.tx \in Nat /\ x.at \in Nat /\ x.number \in Nat
        /\ y.tx \in Nat /\ y.at \in Nat /\ y.number \in Nat
    BY <2>1, LineIs
  <2>3. x.tx = y.tx /\ x.at = y.at => x = y
    BY <2>1 DEF NoTradeTwice
  <2>4. Earlier(PlaceOf(k)[l], PlaceOf(k)[m]) <=> x.tx < y.tx \/ (x.tx = y.tx /\ x.at < y.at)
    BY DEF PlaceOf, Earlier
  <2> HIDE DEF x, y
  <2>5. CASE x.tx = y.tx /\ x.at = y.at
    <3>1. ~Precedes(x, y)
      <4>1. x = y /\ ~(Buys(x.call) /\ Sells(x.call))
        BY <2>3, <2>5, OneSideOnly
      <4>2. ~(x.tx < y.tx) /\ ~(x.index < y.index) /\ ~(x.number < y.number)
        BY <4>1, <2>1, <2>2
      <4>3. ~(Buys(x.call) /\ Sells(y.call))
        BY <4>1
      <4> QED
        BY <4>2, <4>3 DEF Precedes
    <3>2. ~(x.tx < y.tx \/ (x.tx = y.tx /\ x.at < y.at))
      BY <2>2, <2>5
    <3> QED
      BY <3>1, <3>2, <2>4 DEF x, y
  <2>6. CASE ~(x.tx = y.tx /\ x.at = y.at)
    <3>1. Precedes(x, y) <=> x.tx < y.tx \/ (x.tx = y.tx /\ x.at < y.at)
      BY <2>1, <2>2, <2>6 DEF Precedes
    <3> QED
      BY <3>1, <2>4 DEF x, y
  <2> QED
    BY <2>5, <2>6
<1> QED
  BY <1>3, <1>4, <1>5

\* The lines that count for a line stand for the own trades up to its place.
LEMMA LinesAreTrades ==
  ASSUME LedgerInv, OnlyExecutedIsBooked, NoTradeTwice, PairedWithItsInstruction,
         NEW k \in DOMAIN booked, Whole(k)
  PROVE  /\ IsFiniteSet(Counted(k))
         /\ Orders(PlacesLess(PlacesOf(k)), PlacesOf(k))
         /\ Carries(PlaceOf(k), Counted(k), LinesLess(Counted(k)),
                    PlacesOf(k), PlacesLess(PlacesOf(k)))
<1> DEFINE x == booked[k]
<1>1. k \in Nat /\ 1..k \subseteq DOMAIN booked /\ k \in 1..k
  <2>1. booked \in Seq(BookEntry)
    BY DEF LedgerInv
  <2>2. DOMAIN booked = 1..Len(booked) /\ Len(booked) \in Nat
    BY <2>1
  <2> QED
    BY <2>2
<1>2. IsFiniteSet(Counted(k))
  <2>1. Counted(k) \subseteq 1..k /\ IsFiniteSet(1..k)
    BY <1>1, FS_Interval DEF Counted
  <2> QED
    BY <2>1, FS_Subset
<1>3. /\ x.tx \in Nat /\ x.at \in Nat /\ x.number \in Nat /\ 1..x.tx \subseteq DOMAIN chain
      /\ x.index = x.at /\ x.tx \in DOMAIN chain
  BY LineIs, LinesInOrder
<1>4. Bound(k) = IF x.call.wallet = Own /\ Sells(x.call) THEN x.at - 1 ELSE x.at
  BY DEF Bound
<1>5. \A u \in 1..x.tx : u \in Nat /\ \A i \in DOMAIN Executed(chain[u]) : i \in Nat
  <2> TAKE u \in 1..x.tx
  <2>1. chain \in Seq(Transaction) /\ u \in DOMAIN chain /\ u \in Nat
    BY <1>3 DEF LedgerInv, Given
  <2>2. chain[u] \in Transaction
    BY <2>1
  <2>3. Executed(chain[u]) \in Seq(Call)
    BY <2>2, ExecutedIs
  <2> DEFINE calls == Executed(chain[u])
  <2> HIDE DEF calls
  <2>4. calls \in Seq(Call)
    BY <2>3 DEF calls
  <2>5. DOMAIN calls = 1..Len(calls) /\ Len(calls) \in Nat
    BY <2>4
  <2>6. \A i \in DOMAIN calls : i \in Nat
    BY <2>5
  <2> QED
    BY <2>1, <2>6 DEF calls
<1>6. \A p : p \in PlacesOf(k) <=>
        /\ p = <<p[1], p[2]>> /\ p[1] \in 1..x.tx /\ p[2] \in DOMAIN Executed(chain[p[1]])
        /\ ~chain[p[1]].failed
        /\ LET c == Executed(chain[p[1]])[p[2]] IN
           (Buys(c) \/ Sells(c)) /\ c.wallet = Own /\ c.mint = x.mint
        /\ p[1] < x.tx \/ p[2] <= Bound(k)
  BY DEF PlacesOf, OwnUpTo
<1>7. ASSUME NEW l \in Counted(k)
      PROVE  PlaceOf(k)[l] \in PlacesOf(k)
  <2> DEFINE y == booked[l]
  <2>1. /\ l \in DOMAIN booked /\ y.tx <= x.tx /\ y.index = y.at
    BY LinesInOrder
  <2>2. /\ y.tx \in Nat /\ y.tx \in DOMAIN chain /\ y.at \in Nat /\ y.number \in Nat
        /\ y.at \in DOMAIN Executed(chain[y.tx]) /\ y.call = Executed(chain[y.tx])[y.at]
        /\ (Buys(y.call) \/ Sells(y.call)) /\ ~chain[y.tx].failed /\ y.call.mint = y.mint
    BY <2>1, LineIs
  <2>3. /\ y.mint = x.mint /\ y.call.wallet = Own
        /\ IF SameOrder(x, y) THEN ~(x.call.wallet = Own /\ Sells(x.call)) ELSE Precedes(y, x)
    BY DEF Counted
  <2>4. x.tx = y.tx /\ x.at = y.at => x = y
    BY <2>1 DEF NoTradeTwice
  <2>5. PlaceOf(k)[l] = <<y.tx, y.at>>
    BY DEF PlaceOf
  <2>6. y.tx \in 1..x.tx
    <3>1. chain \in Seq(Transaction)
      BY DEF LedgerInv, Given
    <3>2. DOMAIN chain = 1..Len(chain) /\ Len(chain) \in Nat
      BY <3>1
    <3> QED
      BY <1>3, <2>1, <2>2, <3>2
  <2> HIDE DEF x, y
  <2>7. y.tx < x.tx \/ y.at <= Bound(k)
    <3>1. CASE SameOrder(x, y)
      <4>1. Bound(k) = x.at
        BY <3>1, <1>4, <2>3
      <4>2. y.at = x.at
        BY <3>1, <1>3, <2>1 DEF SameOrder
      <4> QED
        BY <4>1, <4>2, <2>2
    <3>2. CASE ~SameOrder(x, y)
      <4>1. ~(x.tx = y.tx /\ x.at = y.at)
        BY <3>2, <2>4 DEF SameOrder
      <4>2. y.tx < x.tx \/ (y.tx = x.tx /\ y.at < x.at)
        BY <3>2, <4>1, <1>3, <2>1, <2>2, <2>3 DEF Precedes
      <4>3. Bound(k) \in Int /\ x.at <= Bound(k) + 1
        BY <1>3, <1>4
      <4> QED
        BY <4>2, <4>3, <1>3, <2>2
    <3> QED
      BY <3>1, <3>2
  <2>8. /\ Buys(y.call) \/ Sells(y.call)
        /\ y.call.wallet = Own /\ y.call.mint = x.mint
    BY <2>2, <2>3
  <2> QED
    BY <1>6, <2>2, <2>5, <2>6, <2>7, <2>8
<1>8. ASSUME NEW p \in PlacesOf(k)
      PROVE  \E l \in Counted(k) : PlaceOf(k)[l] = p
  <2> DEFINE c == Executed(chain[p[1]])[p[2]]
  <2>1. /\ p = <<p[1], p[2]>> /\ p[1] \in 1..x.tx /\ p[2] \in DOMAIN Executed(chain[p[1]])
        /\ ~chain[p[1]].failed
        /\ (Buys(c) \/ Sells(c)) /\ c.wallet = Own /\ c.mint = x.mint
        /\ p[1] < x.tx \/ p[2] <= Bound(k)
    BY <1>6
  <2>2. p[1] \in Nat /\ p[2] \in Nat
    BY <1>5, <2>1
  <2>3. p[1] < x.tx \/ p[2] <= x.at
    BY <1>3, <1>4, <2>1, <2>2
  <2>4. PICK l \in 1..k : booked[l].tx = p[1] /\ booked[l].at = p[2]
    BY <2>1, <2>3 DEF Whole
  <2> DEFINE y == booked[l]
  <2>5. l \in DOMAIN booked
    BY <1>1
  <2>6. /\ y.tx \in Nat /\ y.at \in Nat /\ y.number \in Nat
        /\ y.call = c /\ y.call.mint = y.mint
    BY <2>4, <2>5, LineIs
  <2>7. y.index = y.at
    <3>1. Known(y.tx)
      BY <2>1, <2>4 DEF Whole
    <3> QED
      BY <3>1, <2>5 DEF PairedWithItsInstruction
  <2>8. x.tx = y.tx /\ x.at = y.at => x = y
    BY <2>5 DEF NoTradeTwice
  <2>9. IF SameOrder(x, y) THEN ~(x.call.wallet = Own /\ Sells(x.call)) ELSE Precedes(y, x)
    <3>1. y.tx = p[1] /\ y.at = p[2]
      BY <2>4
    <3> HIDE DEF x, y, c
    <3>2. CASE SameOrder(x, y)
      <4>1. p[1] = x.tx /\ p[2] = x.at
        BY <3>1, <3>2, <1>3, <2>7 DEF SameOrder
      <4>2. x.at <= Bound(k)
        BY <4>1, <2>1, <1>3
      <4> QED
        BY <3>2, <4>2, <1>3, <1>4
    <3>3. CASE ~SameOrder(x, y)
      <4>1. ~(x.tx = y.tx /\ x.at = y.at)
        BY <3>3, <2>8 DEF SameOrder
      <4>2. y.tx < x.tx \/ (y.tx = x.tx /\ y.at < x.at)
        BY <4>1, <3>1, <2>1, <2>3, <1>3, <2>6
      <4> QED
        BY <3>3, <4>2, <1>3, <2>7 DEF Precedes
    <3> QED
      BY <3>2, <3>3
  <2>10. y.mint = x.mint /\ y.call.wallet = Own
    BY <2>1, <2>6
  <2>11. l \in Counted(k)
    BY <2>9, <2>10 DEF Counted
  <2>12. PlaceOf(k)[l] = p
    BY <2>1, <2>4, <2>11 DEF PlaceOf
  <2> QED
    BY <2>11, <2>12
<1>9. ASSUME NEW l \in Counted(k), NEW m \in Counted(k), PlaceOf(k)[l] = PlaceOf(k)[m]
      PROVE  l = m
  <2>1. l \in DOMAIN booked /\ m \in DOMAIN booked
    BY LinesInOrder
  <2>2. booked[l].tx = booked[m].tx /\ booked[l].at = booked[m].at
    BY <1>9 DEF PlaceOf
  <2> QED
    BY <2>1, <2>2 DEF NoTradeTwice
<1>10. PlacesOf(k) \subseteq Nat \X Nat
  <2> HIDE DEF x
  <2> SUFFICES ASSUME NEW p \in PlacesOf(k)
               PROVE  p \in Nat \X Nat
    OBVIOUS
  <2>1. p = <<p[1], p[2]>> /\ p[1] \in 1..x.tx /\ p[2] \in DOMAIN Executed(chain[p[1]])
    BY <1>6
  <2>2. p[1] \in Nat /\ p[2] \in Nat
    BY <1>5, <2>1
  <2> QED
    BY <2>1, <2>2
<1>11. ASSUME NEW l \in Counted(k), NEW m \in Counted(k)
       PROVE  <<l, m>> \in LinesLess(Counted(k)) <=>
                <<PlaceOf(k)[l], PlaceOf(k)[m]>> \in PlacesLess(PlacesOf(k))
  <2>1. <<l, m>> \in LinesLess(Counted(k)) <=> Precedes(booked[l], booked[m])
    BY DEF LinesLess
  <2>2. <<PlaceOf(k)[l], PlaceOf(k)[m]>> \in PlacesLess(PlacesOf(k)) <=>
          Earlier(PlaceOf(k)[l], PlaceOf(k)[m])
    BY <1>7 DEF PlacesLess
  <2> QED
    BY <2>1, <2>2, LinesInOrder
<1> QED
  BY <1>2, <1>7, <1>8, <1>9, <1>10, <1>11, PlacesOrdered DEF Carries

CostsOf(lines) ==
  LET inOrder == Ranked(lines, LinesLess(lines))
      after[n \in 0..Cardinality(lines)] ==
        IF n = 0 THEN Flat ELSE Spend(after[n - 1], booked[inOrder[n]].call)
  IN  after

HoldingsOf(places) ==
  LET inOrder == Ranked(places, PlacesLess(places))
      after[n \in 0..Cardinality(places)] ==
        IF n = 0 THEN [held |-> 0, average |-> <<0, 1>>]
        ELSE Hold(after[n - 1], Executed(chain[inOrder[n][1]])[inOrder[n][2]])
  IN  after

\* The cost of a line is the last of the costs along its lines.
LEMMA CostIs ==
  ASSUME NEW k
  PROVE  RemainingCost(k) = CostsOf(Counted(k))[Cardinality(Counted(k))]
BY DEF RemainingCost, CostsOf, LinesLess

\* ... and the reference the last of the holdings along its trades.
LEMMA HoldingsAre ==
  ASSUME NEW m, NEW t, NEW i
  PROVE  RefHoldings(m, t, i) = HoldingsOf(OwnUpTo(m, t, i))[Cardinality(OwnUpTo(m, t, i))]
BY DEF RefHoldings, HoldingsOf, PlacesLess

\* The costs along lines obey their equation.
LEMMA CostsStep ==
  ASSUME NEW lines, Cardinality(lines) \in Nat,
         \A n \in 1..Cardinality(lines) :
           booked[Ranked(lines, LinesLess(lines))[n]].call \in Call
  PROVE  \A n \in 0..Cardinality(lines) :
           CostsOf(lines)[n] =
             IF n = 0 THEN Flat
             ELSE Spend(CostsOf(lines)[n - 1], booked[Ranked(lines, LinesLess(lines))[n]].call)
<1> DEFINE size == Cardinality(lines)
           call(n) == booked[Ranked(lines, LinesLess(lines))[n]].call
           f == [p \in (1..size) \X Spent |-> Spend(p[2], call(p[1]))]
           Is(g) == g = [n \in 0..size |-> IF n = 0 THEN Flat ELSE Spend(g[n - 1], call(n))]
<1>1. CostsOf(lines) = CHOOSE g : Is(g)
  BY DEF CostsOf
<1>2. \A n \in 1..size : call(n) \in Call
  OBVIOUS
<1> HIDE DEF call
<1>3. \A n \in 1..size, s \in Spent : f[<<n, s>>] = Spend(s, call(n)) /\ f[<<n, s>>] \in Spent
  BY <1>2, SpendTyped
<1>4. Flat \in Spent
  BY DEF Flat, Spent
<1> HIDE DEF f
<1>5. size \in Nat
  OBVIOUS
<1> HIDE DEF size
<1>6. PICK g \in [0..size -> Spent] : Recursion(g, size, Flat, f)
  BY <1>3, <1>4, <1>5, RecursionExists
<1>7. Is(g)
  <2>1. \A n \in 0..size : g[n] = IF n = 0 THEN Flat ELSE Spend(g[n - 1], call(n))
    <3> TAKE n \in 0..size
    <3>1. g[n] = IF n = 0 THEN Flat ELSE f[<<n, g[n - 1]>>]
      BY <1>6 DEF Recursion
    <3>2. CASE n = 0
      BY <3>1, <3>2
    <3>3. CASE n # 0
      <4>1. n \in 1..size /\ n - 1 \in 0..size
        BY <3>3, <1>5
      <4>2. f[<<n, g[n - 1]>>] = Spend(g[n - 1], call(n))
        BY <4>1, <1>3
      <4> QED
        BY <3>1, <3>3, <4>2
    <3> QED
      BY <3>2, <3>3
  <2>2. g = [n \in 0..size |-> g[n]]
    OBVIOUS
  <2> QED
    BY <2>1, <2>2
<1>8. Is(CostsOf(lines))
  <2> HIDE DEF Is
  <2> QED
    BY <1>1, <1>7
<1>9. \A n \in 0..size :
        CostsOf(lines)[n] = IF n = 0 THEN Flat ELSE Spend(CostsOf(lines)[n - 1], call(n))
  BY <1>8
<1> QED
  BY <1>9 DEF size, call

\* ... and so do the holdings along trades.
LEMMA HoldingsStep ==
  ASSUME NEW places, Cardinality(places) \in Nat,
         \A n \in 1..Cardinality(places) :
           Executed(chain[Ranked(places, PlacesLess(places))[n][1]])
             [Ranked(places, PlacesLess(places))[n][2]] \in Call
  PROVE  \A n \in 0..Cardinality(places) :
           HoldingsOf(places)[n] =
             IF n = 0 THEN [held |-> 0, average |-> <<0, 1>>]
             ELSE Hold(HoldingsOf(places)[n - 1],
                       Executed(chain[Ranked(places, PlacesLess(places))[n][1]])
                         [Ranked(places, PlacesLess(places))[n][2]])
<1> DEFINE size == Cardinality(places)
           call(n) == Executed(chain[Ranked(places, PlacesLess(places))[n][1]])
                        [Ranked(places, PlacesLess(places))[n][2]]
           none == [held |-> 0, average |-> <<0, 1>>]
           f == [p \in (1..size) \X Holding |-> Hold(p[2], call(p[1]))]
           Is(g) == g = [n \in 0..size |-> IF n = 0 THEN none ELSE Hold(g[n - 1], call(n))]
<1>1. HoldingsOf(places) = CHOOSE g : Is(g)
  BY DEF HoldingsOf
<1>2. \A n \in 1..size : call(n) \in Call
  OBVIOUS
<1> HIDE DEF call
<1>3. \A n \in 1..size, s \in Holding : f[<<n, s>>] = Hold(s, call(n)) /\ f[<<n, s>>] \in Holding
  BY <1>2, HoldTyped
<1>4. none \in Holding
  BY DEF Holding
<1> HIDE DEF f
<1>5. size \in Nat
  OBVIOUS
<1> HIDE DEF size, none
<1>6. PICK g \in [0..size -> Holding] : Recursion(g, size, none, f)
  BY <1>3, <1>4, <1>5, RecursionExists
<1>7. Is(g)
  <2>1. \A n \in 0..size : g[n] = IF n = 0 THEN none ELSE Hold(g[n - 1], call(n))
    <3> TAKE n \in 0..size
    <3>1. g[n] = IF n = 0 THEN none ELSE f[<<n, g[n - 1]>>]
      BY <1>6 DEF Recursion
    <3>2. CASE n = 0
      BY <3>1, <3>2
    <3>3. CASE n # 0
      <4>1. n \in 1..size /\ n - 1 \in 0..size
        BY <3>3, <1>5
      <4>2. f[<<n, g[n - 1]>>] = Hold(g[n - 1], call(n))
        BY <4>1, <1>3
      <4> QED
        BY <3>1, <3>3, <4>2
    <3> QED
      BY <3>2, <3>3
  <2>2. g = [n \in 0..size |-> g[n]]
    OBVIOUS
  <2> QED
    BY <2>1, <2>2
<1>8. Is(HoldingsOf(places))
  <2> HIDE DEF Is
  <2> QED
    BY <1>1, <1>7
<1>9. \A n \in 0..size :
        HoldingsOf(places)[n] = IF n = 0 THEN none ELSE Hold(HoldingsOf(places)[n - 1], call(n))
  BY <1>8
<1> QED
  BY <1>9 DEF size, call, none

\* The cost in the line of a trade is that of the holdings at the average price.
LEMMA CostAgrees ==
  ASSUME LedgerInv, OnlyExecutedIsBooked, NoTradeTwice, PairedWithItsInstruction,
         NEW k \in DOMAIN booked, Whole(k)
  PROVE  Agrees(RemainingCost(k), RefHoldings(booked[k].mint, booked[k].tx, Bound(k)))
<1> DEFINE lines == Counted(k)
           places == PlacesOf(k)
           size == Cardinality(lines)
           line == Ranked(lines, LinesLess(lines))
           place == Ranked(places, PlacesLess(places))
           s == CostsOf(lines)
           r == HoldingsOf(places)
           call(n) == booked[line[n]].call
           none == [held |-> 0, average |-> <<0, 1>>]
<1>1. /\ size \in Nat /\ Cardinality(places) = size
      /\ \A n \in 1..size : line[n] \in lines /\ place[n] = PlaceOf(k)[line[n]]
  BY LinesAreTrades, CarriedInOrder
<1>2. \A n \in 1..size : call(n) \in Call /\ Executed(chain[place[n][1]])[place[n][2]] = call(n)
  <2> TAKE n \in 1..size
  <2>1. line[n] \in lines
    BY <1>1
  <2> DEFINE l == line[n]
  <2>2. l \in DOMAIN booked
    BY <2>1, LinesInOrder
  <2>3. place[n] = <<booked[l].tx, booked[l].at>>
    BY <2>1, <1>1 DEF PlaceOf
  <2> HIDE DEF l, place
  <2>4. booked[l].call \in Call /\ booked[l].call = Executed(chain[booked[l].tx])[booked[l].at]
    BY <2>2, LineIs
  <2> QED
    BY <2>3, <2>4 DEF l
<1>3. \A n \in 0..size : s[n] = IF n = 0 THEN Flat ELSE Spend(s[n - 1], call(n))
  <2>1. size \in Nat /\ \A n \in 1..size : call(n) \in Call
    BY <1>1, <1>2
  <2> QED
    BY <2>1, CostsStep
<1>4. \A n \in 0..size : r[n] = IF n = 0 THEN none ELSE Hold(r[n - 1], call(n))
  <2>1. /\ Cardinality(places) \in Nat /\ Cardinality(places) = size
        /\ \A n \in 1..Cardinality(places) : Executed(chain[place[n][1]])[place[n][2]] \in Call
    BY <1>1, <1>2
  <2>2. \A n \in 0..Cardinality(places) :
          r[n] = IF n = 0 THEN none ELSE Hold(r[n - 1], Executed(chain[place[n][1]])[place[n][2]])
    <3> HIDE DEF places
    <3> QED
      BY <2>1, HoldingsStep
  <2>3. \A n \in 0..size : n # 0 => n \in 1..size
    BY <2>1
  <2> HIDE DEF place, r, size, call, none
  <2> QED
    BY <2>1, <2>2, <2>3, <1>2
<1> HIDE DEF s, r, call, size, line, place, lines, places
<1> DEFINE Bad == {n \in 0..size : ~(s[n] \in Spent /\ r[n] \in Holding /\ Agrees(s[n], r[n]))}
<1>5. Bad = {}
  <2> SUFFICES ASSUME Bad # {}
               PROVE  FALSE
    OBVIOUS
  <2>1. Bad \in SUBSET Nat
    OBVIOUS
  <2>2. PICK n \in Bad : \A e \in Bad : n <= e
    <3> HIDE DEF Bad
    <3> QED
      BY <2>1, LeastOf
  <2>3. n \in 0..size /\ n \in Nat
    OBVIOUS
  <2>4. CASE n = 0
    <3>1. s[n] = Flat /\ r[n] = none
      BY <2>3, <2>4, <1>3, <1>4
    <3>2. Flat \in Spent /\ none \in Holding /\ Agrees(Flat, none)
      BY DEF Flat, Spent, Holding, Agrees
    <3> QED
      BY <3>1, <3>2
  <2>5. CASE n # 0
    <3>1. n - 1 \in 0..size /\ n \in 1..size /\ ~(n <= n - 1)
      BY <2>3, <2>5, <1>1
    <3>2. s[n - 1] \in Spent /\ r[n - 1] \in Holding /\ Agrees(s[n - 1], r[n - 1])
      BY <2>2, <3>1
    <3>3. s[n] = Spend(s[n - 1], call(n)) /\ r[n] = Hold(r[n - 1], call(n)) /\ call(n) \in Call
      BY <2>3, <2>5, <3>1, <1>2, <1>3, <1>4
    <3>4. s[n] \in Spent /\ r[n] \in Holding /\ Agrees(s[n], r[n])
      BY <3>2, <3>3, SpendTyped, HoldTyped, SpendAgrees
    <3> QED
      BY <3>4
  <2> QED
    BY <2>4, <2>5
<1>6. Agrees(s[size], r[size])
  <2>1. size \in 0..size
    BY <1>1
  <2> QED
    BY <2>1, <1>5
<1>7. RemainingCost(k) = s[size]
  BY CostIs DEF s, size, lines
<1>8. RefHoldings(booked[k].mint, booked[k].tx, Bound(k)) = r[size]
  <2>1. RefHoldings(booked[k].mint, booked[k].tx, Bound(k)) = r[Cardinality(places)]
    BY HoldingsAre DEF r, places, PlacesOf
  <2> QED
    BY <2>1, <1>1
<1> QED
  BY <1>6, <1>7, <1>8

(***************************************************************************)
(* The cost in the line of a trade is the moving average of what the       *)
(* wallet holds, in whatever order the trades before it were heard of      *)
(* (journal.rs:863).                                                       *)
(***************************************************************************)
THEOREM CostIsAverageHolds == SignalsSpec => []CostIsAverage
<1>1. LedgerInv /\ OnlyExecutedIsBooked /\ NoTradeTwice /\ PairedWithItsInstruction => CostIsAverage
  <2> SUFFICES ASSUME LedgerInv, OnlyExecutedIsBooked, NoTradeTwice, PairedWithItsInstruction,
                      NEW k \in DOMAIN booked, Whole(k)
               PROVE  Agrees(RemainingCost(k), RefHoldings(booked[k].mint, booked[k].tx, Bound(k)))
    BY DEF CostIsAverage, Agrees, Bound
  <2> QED
    BY CostAgrees
<1> QED
  BY <1>1, LedgerInvariant, OnlyExecutedIsBookedHolds, NoTradeTwiceHolds, PairedHolds, PTL

=============================================================================
