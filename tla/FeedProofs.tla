----------------------------- MODULE FeedProofs -----------------------------
(***************************************************************************)
(* Theorems about Feed, for a chain of any length and every overlap, gap   *)
(* size and slack.                                                         *)
(***************************************************************************)
EXTENDS Feed, FiniteSetTheorems, TLAPS

LEMMA ChainBegins ==
  MaxSlot \in Nat /\ MaxSlot >= 1 /\ Overlap \in Nat /\ MaxGap \in Nat /\ MaxGap >= 1
BY FeedAssumption

(***************************************************************************)
(* Types.                                                                  *)
(***************************************************************************)
StreamTyped ==
  /\ tip \in Slots
  /\ pos \in 1..(MaxSlot + 1)
  /\ part \in {"none", "slot", "tx"}
  /\ cursor \in 0..MaxSlot
  /\ replayTo \in 0..MaxSlot
  /\ sampled \in 0..MaxSlot
  /\ opened \in 0..MaxSlot
  /\ since \in 0..MaxSlot
  /\ have \subseteq Slots

GapsTyped ==
  /\ stored \subseteq GapRange
  /\ flying \in [GapRange -> Nat]
  /\ pending \in Nat

DiskTyped == disk \in [cursor : 0..MaxSlot, gaps : SUBSET GapRange]

FlagsTyped == up \in BOOLEAN /\ skip \in BOOLEAN /\ intact \in BOOLEAN /\ saver \in BOOLEAN

FeedTyped == FlagsTyped /\ StreamTyped /\ GapsTyped /\ DiskTyped

LEMMA GapsAreFinite == IsFiniteSet(GapRange)
<1> DEFINE
  S == Slots \X Slots
  P == {<<g.start, g.end>> : g \in GapRange}
  h == [p \in P |-> [start |-> p[1], end |-> p[2]]]
<1>1. IsFiniteSet(Slots)
  BY FS_Interval, FeedAssumption DEF Slots
<1>2. IsFiniteSet(S)
  BY <1>1, FS_Product
<1>3. P \in SUBSET S
  BY DEF GapRange
<1>4. IsFiniteSet(P)
  BY <1>2, <1>3, FS_Subset
<1>5. h \in Surjection(P, GapRange)
  <2>1. \A g \in GapRange : <<g.start, g.end>> \in P /\ h[<<g.start, g.end>>] = g
    BY DEF GapRange
  <2>2. \A p \in P : h[p] \in GapRange
    BY DEF GapRange
  <2> QED
    BY <2>1, <2>2 DEF Surjection
<1> QED
  BY <1>4, <1>5, FS_Surjection

(***************************************************************************)
(* What is queued anew lies in the chain and is not stored yet.            *)
(***************************************************************************)
LEMMA EnqueueTyped ==
  ASSUME GapsTyped, DiskTyped, NEW a, NEW b, Enqueue(a, b)
  PROVE  GapsTyped' /\ DiskTyped'
<1>1. Added(a, b) \subseteq GapRange
  BY DEF Added, Chunks
<1>2. IsFiniteSet(Added(a, b))
  BY <1>1, GapsAreFinite, FS_Subset
<1>3. Cardinality(Added(a, b)) \in Nat
  BY <1>2, FS_CardinalityType
<1>4. stored' = stored \cup Added(a, b)
  BY DEF Enqueue
<1>5. CASE /\ flying' = [g \in GapRange |-> flying[g] + (IF g \in Added(a, b) THEN 1 ELSE 0)]
           /\ pending' = pending + Cardinality(Added(a, b))
           /\ disk' = IF Added(a, b) = {} THEN disk ELSE [disk EXCEPT !.gaps = stored']
           /\ UNCHANGED intact
  <2>1. GapsTyped'
    BY <1>1, <1>3, <1>4, <1>5 DEF GapsTyped
  <2>2. stored' \subseteq GapRange
    BY <1>1, <1>4 DEF GapsTyped
  <2> QED
    BY <1>5, <2>1, <2>2 DEF DiskTyped
<1>6. CASE intact' = FALSE /\ UNCHANGED <<flying, pending, disk>>
  BY <1>1, <1>4, <1>6 DEF GapsTyped, DiskTyped
<1> QED
  BY <1>5, <1>6 DEF Enqueue

LEMMA StartTyped ==
  ASSUME NEW read, read \subseteq GapRange, Start(read)
  PROVE  GapsTyped'
<1>1. IsFiniteSet(read)
  BY GapsAreFinite, FS_Subset
<1>2. Cardinality(read) \in Nat
  BY <1>1, FS_CardinalityType
<1> QED
  BY <1>2 DEF GapsTyped, Start

(***************************************************************************)
(* Most actions leave the gaps and the files alone.                        *)
(***************************************************************************)
LEMMA GapsKept ==
  ASSUME GapsTyped, DiskTyped, UNCHANGED <<gaps, disk>>
  PROVE  GapsTyped' /\ DiskTyped'
BY DEF GapsTyped, DiskTyped, gaps

LEMMA FlagsStep ==
  ASSUME FlagsTyped, [Next]_vars
  PROVE  FlagsTyped'
<1> USE DEF FlagsTyped, stream, gaps, files
<1>1. CASE ChainGrows \/ SampleTip \/ UNCHANGED vars
  BY <1>1 DEF ChainGrows, SampleTip, vars
<1>2. CASE ConnectLive \/ ConnectReplay \/ ConnectScan \/ Disconnect
  BY <1>2 DEF ConnectLive, ConnectReplay, ConnectScan, Disconnect
<1>3. ASSUME NEW s \in Slots, ReplayRefused(s) \/ Skip(s)
      PROVE  FlagsTyped'
  BY <1>3 DEF ReplayRefused, Skip, Enqueue
<1>4. CASE SlotUpdate \/ Transactions
  BY <1>4 DEF SlotUpdate, Transactions, Enqueue
<1>5. ASSUME NEW g \in GapRange,
             RepairSucceeds(g) \/ \E done \in SUBSET Within(g) : RepairFails(g, done)
      PROVE  FlagsTyped'
  BY <1>5 DEF RepairSucceeds, RepairFails
<1>6. CASE PersistCursor
  BY <1>6 DEF PersistCursor
<1>7. CASE Restart
  BY <1>7 DEF Restart, StartAfresh, Resume
<1> QED
  BY <1>1, <1>2, <1>3, <1>4, <1>5, <1>6, <1>7 DEF Next

LEMMA StreamStep ==
  ASSUME StreamTyped, DiskTyped, [Next]_vars
  PROVE  StreamTyped'
<1> USE ChainBegins DEF StreamTyped, Slots
<1>1. CASE ChainGrows
  BY <1>1 DEF ChainGrows, env, stream, history
<1>2. CASE ConnectLive
  BY <1>2 DEF ConnectLive, env, history
<1>3. CASE ConnectReplay
  BY <1>3 DEF ConnectReplay, Replayable, ReplayFrom, RpcTip, env, history
<1>4. CASE ConnectScan
  BY <1>4 DEF ConnectScan, env, stream, history
<1>5. CASE Disconnect
  BY <1>5 DEF Disconnect, env, history
<1>6. CASE SampleTip
  BY <1>6 DEF SampleTip, RpcTip, stream, history
<1>7. ASSUME NEW s \in Slots, ReplayRefused(s) \/ Skip(s)
      PROVE  StreamTyped'
  <2>1. CASE Skip(s)
    BY <2>1 DEF Skip, env, history
  <2>2. CASE ReplayRefused(s)
    <3>1. cursor' \in 0..MaxSlot /\ UNCHANGED <<tip, pos, part, replayTo, sampled, opened, since, have>>
      BY <2>2 DEF ReplayRefused, env, stream, history
    <3> QED
      BY <3>1
  <2> QED
    BY <1>7, <2>1, <2>2
<1>8. CASE SlotUpdate
  BY <1>8 DEF SlotUpdate, Received, SawSlot, env
<1>9. CASE Transactions
  <2>1. pos \in Slots /\ have' \in {have, have \cup {pos}}
    BY <1>9 DEF Transactions, history
  <2> QED
    BY <1>9, <2>1 DEF Transactions, Received, SawSlot, env, history
<1>10. ASSUME NEW g \in GapRange, RepairSucceeds(g)
       PROVE  StreamTyped'
  <2>1. have' \subseteq Slots
    BY <1>10 DEF RepairSucceeds, Within, GapRange
  <2> QED
    BY <1>10, <2>1 DEF RepairSucceeds, env, stream
<1>11. ASSUME NEW g \in GapRange, NEW done \in SUBSET Within(g), RepairFails(g, done)
       PROVE  StreamTyped'
  <2>1. have' \subseteq Slots
    BY <1>11 DEF RepairFails, Within, GapRange
  <2> QED
    BY <1>11, <2>1 DEF RepairFails, env, stream
<1>12. CASE PersistCursor
  BY <1>12 DEF PersistCursor, env, stream, history
<1>13. CASE Restart
  <2>1. cursor' \in 0..MaxSlot
    BY <1>13 DEF Restart, StartAfresh, Resume, CursorRead, DiskTyped
  <2>2. /\ UNCHANGED <<tip, pos, replayTo, opened, since, have>>
        /\ up' = FALSE /\ part' = "none" /\ skip' = FALSE /\ sampled' = 0
    BY <1>13 DEF Restart, history
  <2> QED
    BY <2>1, <2>2
<1>14. CASE UNCHANGED vars
  BY <1>14 DEF vars
<1> QED
  BY <1>1, <1>2, <1>3, <1>4, <1>5, <1>6, <1>7, <1>8, <1>9, <1>10, <1>11, <1>12, <1>13, <1>14
  DEF Next

LEMMA GapsStep ==
  ASSUME GapsTyped, DiskTyped, StreamTyped, [Next]_vars
  PROVE  GapsTyped' /\ DiskTyped'
<1> USE ChainBegins
<1>1. CASE UNCHANGED <<gaps, disk>>
  BY <1>1, GapsKept
<1>2. CASE ChainGrows \/ ConnectLive \/ ConnectReplay \/ ConnectScan \/ Disconnect \/ SampleTip
  BY <1>1, <1>2
  DEF ChainGrows, ConnectLive, ConnectReplay, ConnectScan, Disconnect, SampleTip, files
<1>3. ASSUME NEW s \in Slots, ReplayRefused(s) \/ Skip(s)
      PROVE  GapsTyped' /\ DiskTyped'
  BY <1>1, <1>3, EnqueueTyped DEF ReplayRefused, Skip, files
<1>4. CASE SlotUpdate \/ Transactions
  BY <1>1, <1>4, EnqueueTyped DEF SlotUpdate, Transactions, files
<1>5. ASSUME NEW g \in GapRange, RepairSucceeds(g)
      PROVE  GapsTyped' /\ DiskTyped'
  <2>1. stored' \subseteq GapRange
    BY <1>5 DEF RepairSucceeds, GapsTyped
  <2>2. flying[g] \in Nat \ {0}
    BY <1>5 DEF RepairSucceeds, GapsTyped
  <2>3. CASE /\ disk' = [disk EXCEPT !.gaps = stored']
             /\ flying' = [flying EXCEPT ![g] = @ - 1]
             /\ pending' = IF pending > 0 THEN pending - 1 ELSE 0
             /\ UNCHANGED intact
    <3>1. GapsTyped'
      BY <2>1, <2>2, <2>3 DEF GapsTyped
    <3> QED
      BY <3>1, <2>1, <2>3 DEF DiskTyped
  <2>4. CASE intact' = FALSE /\ UNCHANGED <<flying, pending, disk>>
    BY <2>1, <2>4 DEF GapsTyped, DiskTyped
  <2> QED
    BY <1>5, <2>3, <2>4 DEF RepairSucceeds
<1>6. ASSUME NEW g \in GapRange, NEW done \in SUBSET Within(g), RepairFails(g, done)
      PROVE  GapsTyped' /\ DiskTyped'
  BY <1>6 DEF RepairFails, GapsTyped, DiskTyped, files
<1>7. CASE PersistCursor
  BY <1>7 DEF PersistCursor, GapsTyped, DiskTyped, StreamTyped, gaps
<1>8. CASE Restart
  <2>1. CASE StartAfresh
    <3>1. GapsTyped'
      BY <2>1, StartTyped DEF StartAfresh
    <3> QED
      BY <2>1, <3>1 DEF StartAfresh, DiskTyped
  <2>2. CASE Resume
    <3>1. PICK c \in CursorRead, g \in GapsRead :
            cursor' = c.found /\ Start(g.found) /\ intact' = (c.intact /\ g.intact)
      BY <2>2 DEF Resume
    <3>2. g.found \subseteq GapRange
      BY DEF GapsRead, DiskTyped
    <3>3. GapsTyped'
      BY <3>1, <3>2, StartTyped DEF CursorRead, GapsRead
    <3> QED
      BY <2>2, <3>3 DEF Resume, DiskTyped
  <2> QED
    BY <1>8, <2>1, <2>2 DEF Restart
<1>9. CASE UNCHANGED vars
  BY <1>1, <1>9 DEF vars, gaps
<1> QED
  BY <1>2, <1>3, <1>4, <1>5, <1>6, <1>7, <1>8, <1>9 DEF Next

LEMMA FeedTypes == Spec => []FeedTyped
<1>1. Init => FeedTyped
  <2> SUFFICES ASSUME Init PROVE FeedTyped
    OBVIOUS
  <2>0. FlagsTyped
    BY DEF Init, FlagsTyped
  <2>1. StreamTyped
    BY ChainBegins DEF Init, StreamTyped, Slots
  <2>2. GapsTyped
    BY DEF Init, GapsTyped
  <2>3. DiskTyped
    BY ChainBegins DEF Init, DiskTyped
  <2> QED
    BY <2>0, <2>1, <2>2, <2>3 DEF FeedTyped
<1>2. FeedTyped /\ [Next]_vars => FeedTyped'
  BY FlagsStep, StreamStep, GapsStep DEF FeedTyped
<1> QED
  BY <1>1, <1>2, PTL DEF Spec

-----------------------------------------------------------------------------
(***************************************************************************)
(* The gate.  The counter PENDING_GAPS is the number of copies of gaps     *)
(* that are worked on: <<g, k>> stands for the k-th copy of the gap g.     *)
(***************************************************************************)
Copies(f) == {p \in GapRange \X Nat : 1 <= p[2] /\ p[2] <= f[p[1]]}

Counted(f, n) == IsFiniteSet(Copies(f)) /\ n = Cardinality(Copies(f))

LEMMA CopiesAdded ==
  ASSUME NEW f \in [GapRange -> Nat], NEW n \in Nat, Counted(f, n),
         NEW new \in SUBSET GapRange
  PROVE  Counted([g \in GapRange |-> f[g] + (IF g \in new THEN 1 ELSE 0)],
                 n + Cardinality(new))
<1> DEFINE
  f2 == [g \in GapRange |-> f[g] + (IF g \in new THEN 1 ELSE 0)]
  N == {<<g, f[g] + 1>> : g \in new}
  h == [g \in new |-> <<g, f[g] + 1>>]
<1>1. IsFiniteSet(new)
  BY GapsAreFinite, FS_Subset
<1>2. h \in Bijection(new, N)
  <2>1. \A g \in new : h[g] \in N /\ h[g][1] = g
    OBVIOUS
  <2>2. \A q \in N : q[1] \in new /\ h[q[1]] = q
    OBVIOUS
  <2>3. h \in [new -> N]
    OBVIOUS
  <2> HIDE DEF N, h
  <2>4. \A a, b \in new : h[a] = h[b] => a = b
    BY <2>1
  <2>5. h \in Injection(new, N)
    BY <2>3, <2>4 DEF Injection, IsInjective
  <2>6. h \in Surjection(new, N)
    BY <2>2, <2>3 DEF Surjection
  <2> QED
    BY <2>5, <2>6 DEF Bijection
<1>3. IsFiniteSet(N) /\ Cardinality(N) = Cardinality(new)
  BY <1>1, <1>2, FS_Bijection DEF ExistsBijection
<1>4. Copies(f2) = Copies(f) \cup N
  <2>1. ASSUME NEW p \in Copies(f2) PROVE p \in Copies(f) \cup N
    <3>1. PICK g \in GapRange, k \in Nat : p = <<g, k>> /\ 1 <= k /\ k <= f2[g]
      BY DEF Copies
    <3>2. CASE k <= f[g]
      BY <3>1, <3>2 DEF Copies
    <3>3. CASE ~(k <= f[g])
      BY <3>1, <3>3
    <3> QED
      BY <3>2, <3>3
  <2>2. ASSUME NEW g \in GapRange, NEW k \in Nat, <<g, k>> \in Copies(f)
        PROVE  <<g, k>> \in Copies(f2)
    BY <2>2 DEF Copies
  <2>3. ASSUME NEW g \in new PROVE <<g, f[g] + 1>> \in Copies(f2)
    BY DEF Copies
  <2> QED
    BY <2>1, <2>2, <2>3 DEF Copies
<1>5. Copies(f) \cap N = {}
  BY DEF Copies
<1> HIDE DEF N, f2
<1>6. /\ IsFiniteSet(Copies(f) \cup N)
      /\ Cardinality(Copies(f) \cup N) =
           Cardinality(Copies(f)) + Cardinality(N) - Cardinality({})
  BY <1>3, <1>5, FS_Union DEF Counted
<1>7. Cardinality({}) = 0 /\ Cardinality(new) \in Nat
  BY <1>1, FS_EmptySet, FS_CardinalityType
<1>8. Counted(f2, n + Cardinality(new))
  BY <1>3, <1>4, <1>6, <1>7 DEF Counted
<1> QED
  BY <1>8 DEF f2

LEMMA CopyRemoved ==
  ASSUME NEW f \in [GapRange -> Nat], NEW n \in Nat, Counted(f, n),
         NEW g \in GapRange, f[g] > 0
  PROVE  n > 0 /\ Counted([f EXCEPT ![g] = @ - 1], n - 1)
<1> DEFINE
  f2 == [f EXCEPT ![g] = @ - 1]
  last == <<g, f[g]>>
<1>1. last \in Copies(f)
  BY DEF Copies
<1>2. Copies(f2) = Copies(f) \ {last}
  BY DEF Copies
<1>3. /\ IsFiniteSet(Copies(f) \ {last})
      /\ Cardinality(Copies(f) \ {last}) = n - 1
  BY <1>1, FS_RemoveElement DEF Counted
<1>4. n - 1 \in Nat
  BY <1>3, FS_CardinalityType
<1>5. n > 0
  BY <1>4
<1> HIDE DEF f2
<1>6. Counted(f2, n - 1)
  BY <1>2, <1>3 DEF Counted
<1> QED
  BY <1>5, <1>6 DEF f2

LEMMA NothingCounted == Counted([g \in GapRange |-> 0], 0)
<1>1. Copies([g \in GapRange |-> 0]) = {}
  BY DEF Copies
<1> QED
  BY <1>1, FS_EmptySet DEF Counted

LEMMA StartCounted ==
  ASSUME NEW read \in SUBSET GapRange
  PROVE  Counted([g \in GapRange |-> IF g \in read THEN 1 ELSE 0], Cardinality(read))
<1> DEFINE
  zero == [g \in GapRange |-> 0]
  f == [g \in GapRange |-> zero[g] + (IF g \in read THEN 1 ELSE 0)]
<1>1. Counted(f, 0 + Cardinality(read))
  BY NothingCounted, CopiesAdded
<1>2. f = [g \in GapRange |-> IF g \in read THEN 1 ELSE 0]
  OBVIOUS
<1>3. 0 + Cardinality(read) = Cardinality(read)
  BY GapsAreFinite, FS_Subset, FS_CardinalityType
<1> QED
  BY <1>1, <1>2, <1>3

LEMMA CountedZero ==
  ASSUME NEW f \in [GapRange -> Nat], NEW n \in Nat, Counted(f, n)
  PROVE  (n = 0) = (\A g \in GapRange : f[g] = 0)
<1>1. (n = 0) = (Copies(f) = {})
  BY FS_EmptySet DEF Counted
<1>2. ASSUME NEW g \in GapRange, f[g] # 0
      PROVE  <<g, f[g]>> \in Copies(f)
  BY <1>2 DEF Copies
<1>3. ASSUME NEW p \in Copies(f)
      PROVE  p[1] \in GapRange /\ f[p[1]] # 0
  BY DEF Copies
<1> QED
  BY <1>1, <1>2, <1>3

(***************************************************************************)
(* Until it is shut, the gate counts every copy, and every stored gap has  *)
(* one.                                                                    *)
(***************************************************************************)
StoredIsFlying == \A g \in stored : flying[g] > 0 \/ ~intact

WorkInv == Counted(flying, pending) /\ StoredIsFlying

LEMMA EnqueueWorks ==
  ASSUME GapsTyped, WorkInv, NEW a, NEW b, Enqueue(a, b)
  PROVE  WorkInv'
<1>1. Added(a, b) \in SUBSET GapRange /\ stored' = stored \cup Added(a, b)
  BY DEF Added, Chunks, Enqueue
<1>2. CASE /\ flying' = [g \in GapRange |-> flying[g] + (IF g \in Added(a, b) THEN 1 ELSE 0)]
           /\ pending' = pending + Cardinality(Added(a, b))
           /\ UNCHANGED intact
  <2>1. Counted(flying, pending)'
    <3>1. Counted([g \in GapRange |-> flying[g] + (IF g \in Added(a, b) THEN 1 ELSE 0)],
                  pending + Cardinality(Added(a, b)))
      BY <1>1, CopiesAdded DEF GapsTyped, WorkInv
    <3> QED
      BY <1>2, <3>1 DEF Counted, Copies
  <2>2. StoredIsFlying'
    BY <1>1, <1>2 DEF WorkInv, StoredIsFlying, GapsTyped
  <2> QED
    BY <2>1, <2>2 DEF WorkInv
<1>3. CASE intact' = FALSE /\ UNCHANGED <<flying, pending>>
  BY <1>3 DEF WorkInv, StoredIsFlying, Counted, Copies
<1> QED
  BY <1>2, <1>3 DEF Enqueue

LEMMA StartWorks ==
  ASSUME NEW read \in SUBSET GapRange, Start(read)
  PROVE  WorkInv'
<1>1. Counted(flying, pending)'
  BY StartCounted DEF Start, Counted, Copies
<1>2. StoredIsFlying'
  BY DEF Start, StoredIsFlying
<1> QED
  BY <1>1, <1>2 DEF WorkInv

LEMMA WorkStep ==
  ASSUME FeedTyped, WorkInv, [Next]_vars
  PROVE  WorkInv'
<1> USE DEF FeedTyped
<1>1. ASSUME UNCHANGED <<stored, flying, pending>>, intact' = intact \/ intact' = FALSE
      PROVE  WorkInv'
  BY <1>1 DEF WorkInv, StoredIsFlying, Counted, Copies
<1>2. CASE \/ ChainGrows \/ ConnectLive \/ ConnectReplay \/ ConnectScan \/ Disconnect
           \/ SampleTip \/ Transactions \/ PersistCursor \/ UNCHANGED vars
  BY <1>1, <1>2
  DEF ChainGrows, ConnectLive, ConnectReplay, ConnectScan, Disconnect, SampleTip,
      Transactions, PersistCursor, gaps, vars
<1>3. ASSUME NEW s \in Slots, ReplayRefused(s) \/ Skip(s)
      PROVE  WorkInv'
  BY <1>1, <1>3, EnqueueWorks DEF ReplayRefused, Skip, gaps
<1>4. CASE SlotUpdate
  BY <1>1, <1>4, EnqueueWorks DEF SlotUpdate, gaps
<1>5. ASSUME NEW g \in GapRange, RepairSucceeds(g)
      PROVE  WorkInv'
  <2>1. stored' = stored \ {g} /\ flying[g] > 0
    BY <1>5 DEF RepairSucceeds
  <2>2. CASE /\ flying' = [flying EXCEPT ![g] = @ - 1]
             /\ pending' = (IF pending > 0 THEN pending - 1 ELSE 0)
             /\ UNCHANGED intact
    <3>1. pending > 0 /\ Counted([flying EXCEPT ![g] = @ - 1], pending - 1)
      BY <2>1, CopyRemoved DEF WorkInv, GapsTyped
    <3>2. Counted(flying, pending)'
      BY <2>2, <3>1 DEF Counted, Copies
    <3>3. StoredIsFlying'
      BY <2>1, <2>2 DEF WorkInv, StoredIsFlying, GapsTyped
    <3> QED
      BY <3>2, <3>3 DEF WorkInv
  <2>3. CASE intact' = FALSE /\ UNCHANGED <<flying, pending>>
    BY <2>3 DEF WorkInv, StoredIsFlying, Counted, Copies
  <2> QED
    BY <1>5, <2>2, <2>3 DEF RepairSucceeds
<1>6. ASSUME NEW g \in GapRange, NEW done \in SUBSET Within(g), RepairFails(g, done)
      PROVE  WorkInv'
  BY <1>1, <1>6 DEF RepairFails
<1>7. CASE Restart
  <2>1. CASE StartAfresh
    BY <2>1, StartWorks DEF StartAfresh
  <2>2. CASE Resume
    BY <2>2, StartWorks DEF Resume, GapsRead, DiskTyped
  <2> QED
    BY <1>7, <2>1, <2>2 DEF Restart
<1> QED
  BY <1>2, <1>3, <1>4, <1>5, <1>6, <1>7 DEF Next

LEMMA GateInvariant == Spec => [](FeedTyped /\ WorkInv)
<1>1. Init => WorkInv
  BY NothingCounted DEF Init, WorkInv, StoredIsFlying
<1> QED
  BY <1>1, WorkStep, FeedTypes, PTL DEF Spec

(***************************************************************************)
(* Whatever fails, a gap that is stored is worked on or the gate is shut,  *)
(* and the gate's counter is zero exactly when no gap is worked on         *)
(* (listen/repair.rs, listen/mod.rs).                                      *)
(***************************************************************************)
THEOREM GapsAreWorkedOnHolds == Spec => []GapsAreWorkedOn
<1>1. FeedTyped /\ WorkInv => GapsAreWorkedOn
  BY CountedZero DEF FeedTyped, GapsTyped, WorkInv, StoredIsFlying, GapsAreWorkedOn
<1> QED
  BY <1>1, GateInvariant, PTL

-----------------------------------------------------------------------------
(***************************************************************************)
(* Live transactions.  A connection starts after the tip, or it replays,   *)
(* and then what it replays is marked up to the tip the RPC node told.     *)
(***************************************************************************)
LiveInv ==
  up => \/ pos > opened
        \/ mode = "standard" /\ (replayTo = opened \/ "rpc_lags" \in faults)

LEMMA LiveStep ==
  ASSUME FeedTyped, LiveInv, [Next]_vars
  PROVE  LiveInv'
<1> USE DEF LiveInv, env, stream
<1>1. tip \in Int /\ pos \in Int /\ opened \in Int
  BY DEF FeedTyped, StreamTyped, Slots
<1>2. CASE UNCHANGED <<up, pos, opened, replayTo, mode, faults>>
  BY <1>2
<1>3. CASE \/ ChainGrows \/ SampleTip \/ PersistCursor \/ UNCHANGED vars
           \/ \E g \in GapRange : \/ RepairSucceeds(g)
                                  \/ \E done \in SUBSET Within(g) : RepairFails(g, done)
  BY <1>2, <1>3 DEF ChainGrows, SampleTip, PersistCursor, RepairSucceeds, RepairFails, vars
<1>4. CASE ConnectLive \/ ConnectScan
  <2>1. CASE pos' = tip + 1 /\ opened' = tip
    BY <1>1, <2>1
  <2>2. CASE ~up /\ UNCHANGED up
    BY <2>2
  <2> QED
    BY <1>4, <2>1, <2>2 DEF ConnectLive, ConnectScan
<1>5. CASE ConnectReplay
  BY <1>5 DEF ConnectReplay, Replayable, RpcTip
<1>6. CASE Disconnect \/ Restart
  BY <1>6 DEF Disconnect, Restart
<1>7. ASSUME NEW s \in Slots, ReplayRefused(s) \/ Skip(s)
      PROVE  LiveInv'
  <2>1. CASE Skip(s)
    BY <1>1, <2>1 DEF Skip, Slots
  <2>2. CASE ReplayRefused(s)
    BY <1>2, <2>2 DEF ReplayRefused
  <2> QED
    BY <1>7, <2>1, <2>2
<1>8. CASE SlotUpdate \/ Transactions
  <2>1. UNCHANGED <<up, opened, replayTo, mode, faults>> /\ pos' \in {pos, pos + 1}
    BY <1>8 DEF SlotUpdate, Transactions, Received
  <2> QED
    BY <1>1, <2>1
<1> QED
  BY <1>3, <1>4, <1>5, <1>6, <1>7, <1>8 DEF Next

(***************************************************************************)
(* A transaction that is not marked as replayed is of a slot the chain     *)
(* reached after the stream was opened, unless standard mode was told an   *)
(* old tip; scan hands on what is near the tip only (geyser.rs:314-335).   *)
(***************************************************************************)
THEOREM OnlyNewIsLiveAlways == Spec => OnlyNewIsLive
<1> DEFINE
  New(s) == /\ s > opened \/ (mode = "standard" /\ "rpc_lags" \in faults)
            /\ mode = "scan" => s + Slack >= sampled
  Step == \A s \in live' \ live : New(s)
<1>1. Init => LiveInv
  BY DEF Init, LiveInv
<1>2. ASSUME FeedTyped, LiveInv, Next
      PROVE  Step
  <2>1. CASE Transactions
    <3>1. up /\ (live' = live \/ (live' = live \cup {pos} /\ HandsOn(pos) /\ pos > replayTo))
      BY <2>1, <1>2
      DEF Transactions, Replaying, history, FeedTyped, StreamTyped, Slots
    <3>2. CASE HandsOn(pos) /\ pos > replayTo
      <4>1. mode = "scan" => pos + Slack >= sampled
        BY <3>2, <1>2, FeedAssumption DEF HandsOn, FeedTyped, StreamTyped
      <4>2. pos > opened \/ (mode = "standard" /\ "rpc_lags" \in faults)
        BY <3>1, <3>2, <1>2 DEF LiveInv
      <4> QED
        BY <3>1, <4>1, <4>2
    <3> QED
      BY <3>1, <3>2
  <2>2. CASE live' = live
    BY <2>2
  <2>3. CASE \/ ChainGrows \/ SampleTip \/ PersistCursor \/ ConnectLive \/ ConnectReplay
             \/ ConnectScan \/ Disconnect \/ SlotUpdate \/ Restart
    BY <2>2, <2>3
    DEF ChainGrows, SampleTip, PersistCursor, ConnectLive, ConnectReplay, ConnectScan,
        Disconnect, SlotUpdate, Restart, history
  <2>4. CASE \/ \E s \in Slots : ReplayRefused(s) \/ Skip(s)
             \/ \E g \in GapRange : \/ RepairSucceeds(g)
                                    \/ \E done \in SUBSET Within(g) : RepairFails(g, done)
    BY <2>2, <2>4 DEF ReplayRefused, Skip, RepairSucceeds, RepairFails, history
  <2> QED
    BY <1>2, <2>1, <2>3, <2>4 DEF Next
<1>3. FeedTyped /\ LiveInv /\ [Next]_vars => [Step]_vars
  BY <1>2
<1>4. Spec => []LiveInv
  BY <1>1, LiveStep, FeedTypes, PTL DEF Spec
<1> QED
  BY <1>3, <1>4, FeedTypes, PTL DEF Spec, OnlyNewIsLive

-----------------------------------------------------------------------------
(***************************************************************************)
(* An orderly environment.  What is missing up to the cursor, and was not  *)
(* cut off, is in a stored gap; the files say what the memory says, but    *)
(* for a cursor that may be older; and a stored gap is worked on once and  *)
(* lies in the past, so that its repair finds every block of it.           *)
(***************************************************************************)
FilesAgree == disk.gaps = stored /\ disk.cursor <= cursor

OneCopy == \A g \in GapRange : flying[g] = IF g \in stored THEN 1 ELSE 0

GapsArePast == \A g \in stored : g.end <= tip

SlotFirst == part # "tx" /\ (part = "slot" => up /\ pos <= cursor)

GapsCover == \A s \in Missing : s <= cursor => \E g \in stored : s \in Within(g)

Whole == FilesAgree /\ OneCopy /\ GapsArePast /\ SlotFirst /\ GapsCover

OrderlyInv == Orderly => Whole

(***************************************************************************)
(* The chunks of a range leave out no slot of it.                          *)
(***************************************************************************)
LEMMA ChunksCover ==
  ASSUME NEW from \in Slots, NEW to \in Slots, NEW s \in from..to
  PROVE  \E g \in Chunks(from, to) : s \in Within(g)
<1> DEFINE
  off == (s - from) % MaxGap
  first == s - off
  last == IF first + MaxGap - 1 < to THEN first + MaxGap - 1 ELSE to
  g == [start |-> first, end |-> last]
<1>1. MaxGap \in Nat \ {0} /\ MaxSlot \in Nat
  BY FeedAssumption
<1>2. s - from \in Nat /\ from \in Nat /\ to \in Nat /\ from >= 1 /\ to <= MaxSlot
  BY DEF Slots
<1>3. off \in 0..(MaxGap - 1)
  BY <1>1, <1>2
<1>4. first \in Int /\ last \in Int /\ first >= from /\ first - from = MaxGap * ((s - from) \div MaxGap)
      /\ (s - from) \div MaxGap \in Nat
  <2>1. ASSUME NEW a \in Nat
        PROVE  a = MaxGap * (a \div MaxGap) + (a % MaxGap) /\ a \div MaxGap \in Nat
    BY <1>1
  <2>2. s - from = MaxGap * ((s - from) \div MaxGap) + off /\ (s - from) \div MaxGap \in Nat
    BY <1>2, <2>1
  <2>3. \A q \in Nat : MaxGap * q >= 0 /\ MaxGap * q \in Nat
    BY <1>1
  <2> QED
    BY <1>1, <1>2, <1>3, <2>2, <2>3
<1>5. (first - from) % MaxGap = 0
  <2>1. ASSUME NEW q \in Nat PROVE (MaxGap * q) % MaxGap = 0
    BY <1>1
  <2> QED
    BY <1>4, <2>1
<1> HIDE DEF first
<1>6. first \in Slots /\ first <= s /\ s <= first + MaxGap - 1
  BY <1>1, <1>2, <1>3, <1>4 DEF first, Slots
<1>7. last \in Slots /\ s <= last /\ last - first < MaxGap
  BY <1>1, <1>2, <1>4, <1>6 DEF Slots
<1> HIDE DEF last
<1>8. first <= last
  BY <1>1, <1>2, <1>4, <1>6, <1>7 DEF Slots
<1>9. g \in GapRange
  BY <1>6, <1>7, <1>8 DEF GapRange
<1>10. g \in Chunks(from, to)
  BY <1>4, <1>5, <1>9 DEF Chunks, last
<1>11. s \in Within(g)
  BY <1>2, <1>4, <1>6, <1>7 DEF Within
<1> QED
  BY <1>10, <1>11

(***************************************************************************)
(* A disk that does not fail takes every new gap.                          *)
(***************************************************************************)
LEMMA EnqueueWhole ==
  ASSUME FeedTyped, Orderly, Whole, NEW a \in Slots, NEW b \in Slots, b <= tip,
         Enqueue(a, b), UNCHANGED tip
  PROVE  /\ disk'.gaps = stored' /\ disk'.cursor = disk.cursor
         /\ OneCopy' /\ GapsArePast'
         /\ stored \subseteq stored'
         /\ \A s \in a..b : \E g \in stored' : s \in Within(g)
<1> DEFINE new == Added(a, b)
<1>1. /\ stored' = stored \cup new
      /\ flying' = [g \in GapRange |-> flying[g] + (IF g \in new THEN 1 ELSE 0)]
      /\ disk' = IF new = {} THEN disk ELSE [disk EXCEPT !.gaps = stored']
  BY DEF Enqueue, Orderly
<1>2. new \subseteq GapRange /\ new \cap stored = {} /\ Chunks(a, b) \subseteq stored'
  BY <1>1 DEF Added, Chunks
<1>3. \A g \in new : g.end <= b
  <2>1. \A g \in Chunks(a, b) : g.end <= b
    BY FeedAssumption DEF Chunks, GapRange, Slots
  <2> QED
    BY <2>1 DEF Added
<1> HIDE DEF new
<1>4. disk'.gaps = stored' /\ disk'.cursor = disk.cursor
  BY <1>1 DEF Whole, FilesAgree, FeedTyped, DiskTyped
<1>5. OneCopy'
  BY <1>1, <1>2 DEF OneCopy, Whole, FeedTyped, GapsTyped
<1>6. GapsArePast'
  <2>1. ASSUME NEW g \in new PROVE g.end <= tip
    <3>1. g.end \in Slots
      BY <1>2 DEF GapRange
    <3> QED
      BY <1>3, <3>1 DEF Slots, FeedTyped, StreamTyped
  <2> QED
    BY <1>1, <2>1 DEF GapsArePast, Whole
<1>7. \A s \in a..b : \E g \in stored' : s \in Within(g)
  BY <1>2, ChunksCover
<1> QED
  BY <1>1, <1>4, <1>5, <1>6, <1>7

(***************************************************************************)
(* A slot update before the cursor is nothing new, the one after it is     *)
(* arriving, and what a later one leaves out becomes a gap.                *)
(***************************************************************************)
LEMMA SlotUpdateWhole ==
  ASSUME FeedTyped, Orderly, Whole, SlotUpdate
  PROVE  Whole'
<1>1. part = "none" /\ part' = "slot"
  BY DEF SlotUpdate, Received, FeedTyped, StreamTyped, Whole, SlotFirst
<1>2. pos' = pos /\ UNCHANGED <<tip, have, torn>> /\ up /\ up' /\ pos <= tip
  BY <1>1 DEF SlotUpdate, Received
<1>3. /\ cursor' = IF pos > cursor THEN pos ELSE cursor
      /\ since' = IF cursor = 0 THEN pos ELSE since
  BY DEF SlotUpdate, SawSlot
<1>4. /\ pos \in Slots /\ tip \in Slots /\ cursor \in 0..MaxSlot /\ since \in 0..MaxSlot
      /\ MaxSlot \in Nat /\ disk.cursor \in 0..MaxSlot
  BY <1>2, ChainBegins DEF FeedTyped, StreamTyped, DiskTyped, Slots
<1>5. SlotFirst'
  <2>1. pos' <= cursor'
    BY <1>2, <1>3, <1>4 DEF Slots
  <2> QED
    BY <1>1, <1>2, <2>1 DEF SlotFirst
<1>6. ASSUME NEW s \in Slots, s \in Missing', s <= cursor'
      PROVE  /\ s # pos /\ cursor # 0
             /\ s <= cursor => s \in Missing
             /\ s > cursor => s \in (cursor + 1)..(pos - 1)
  <2>1. s # pos /\ since' # 0 /\ s >= since' /\ s \notin have \cup torn
    BY <1>1, <1>2, <1>6 DEF Missing, Arriving
  <2>2. cursor # 0
    BY <1>3, <1>4, <1>6, <2>1 DEF Slots
  <2>3. s <= cursor => s \in Missing
    BY <1>1, <1>3, <2>1, <2>2 DEF Missing, Arriving
  <2> QED
    BY <1>3, <1>4, <1>6, <2>1, <2>2, <2>3 DEF Slots
<1>7. disk.cursor <= cursor'
  BY <1>3, <1>4 DEF Whole, FilesAgree, Slots
<1>8. CASE cursor # 0 /\ pos > cursor + 1
  <2>1. Enqueue(cursor + 1, pos - 1)
    BY <1>8 DEF SlotUpdate, Orderly
  <2>2. cursor + 1 \in Slots /\ pos - 1 \in Slots /\ pos - 1 <= tip
    BY <1>2, <1>4, <1>8 DEF Slots
  <2>3. /\ disk'.gaps = stored' /\ disk'.cursor = disk.cursor
        /\ OneCopy' /\ GapsArePast' /\ stored \subseteq stored'
        /\ \A s \in (cursor + 1)..(pos - 1) : \E g \in stored' : s \in Within(g)
    BY <1>2, <2>1, <2>2, EnqueueWhole
  <2>4. GapsCover'
    <3> SUFFICES ASSUME NEW s \in Missing', s <= cursor'
                 PROVE  \E g \in stored' : s \in Within(g)
      BY DEF GapsCover
    <3>1. s \in Slots
      BY DEF Missing
    <3>2. CASE s <= cursor
      BY <1>6, <2>3, <3>1, <3>2 DEF Whole, GapsCover
    <3>3. CASE s > cursor
      BY <1>6, <2>3, <3>1, <3>3
    <3> QED
      BY <1>4, <3>1, <3>2, <3>3 DEF Slots
  <2> QED
    BY <1>5, <1>7, <2>3, <2>4 DEF Whole, FilesAgree
<1>9. CASE ~(cursor # 0 /\ pos > cursor + 1)
  <2>1. UNCHANGED <<stored, flying, disk>>
    BY <1>9 DEF SlotUpdate, gaps
  <2>2. GapsCover'
    <3> SUFFICES ASSUME NEW s \in Missing', s <= cursor'
                 PROVE  \E g \in stored : s \in Within(g)
      BY <2>1 DEF GapsCover
    <3>1. s \in Slots
      BY DEF Missing
    <3>2. s <= cursor
      BY <1>4, <1>6, <1>9, <3>1 DEF Slots
    <3> QED
      BY <1>6, <3>1, <3>2 DEF Whole, GapsCover
  <2> QED
    BY <1>2, <1>5, <1>7, <2>1, <2>2 DEF Whole, FilesAgree, OneCopy, GapsArePast
<1> QED
  BY <1>8, <1>9

(***************************************************************************)
(* The transactions of a slot come after its update, so that the cursor is *)
(* there already.                                                          *)
(***************************************************************************)
LEMMA TransactionsWhole ==
  ASSUME FeedTyped, Orderly, Whole, Transactions
  PROVE  Whole'
<1>1. part = "slot" /\ pos <= cursor
  BY DEF Transactions, Orderly, FeedTyped, StreamTyped, Whole, SlotFirst
<1>2. part' = "none" /\ have' = have \cup {pos} /\ UNCHANGED <<tip, stored, flying, disk>>
  <2>1. part' = "none" /\ UNCHANGED <<tip, stored, flying, disk>>
    BY <1>1 DEF Transactions, Received, gaps, files
  <2>2. have' = have \cup {pos}
    BY DEF Transactions, Orderly
  <2> QED
    BY <2>1, <2>2
<1>3. cursor' = cursor /\ since' = since
  <2>1. cursor' = (IF pos > cursor THEN pos ELSE cursor)
        /\ since' = IF cursor = 0 THEN pos ELSE since
    BY DEF Transactions, SawSlot, Orderly
  <2>2. cursor \in Nat /\ pos \in Nat \ {0}
    BY ChainBegins DEF FeedTyped, StreamTyped
  <2> QED
    BY <1>1, <2>1, <2>2
<1>4. torn' = torn \ {pos}
  BY DEF Transactions, Orderly
<1>5. Missing' \subseteq Missing
  BY <1>1, <1>2, <1>3, <1>4 DEF Missing, Arriving
<1> QED
  BY <1>2, <1>3, <1>5
  DEF Whole, FilesAgree, OneCopy, GapsArePast, SlotFirst, GapsCover

(***************************************************************************)
(* What the server cannot replay becomes a gap before the cursor passes it.*)
(***************************************************************************)
LEMMA ReplayRefusedWhole ==
  ASSUME FeedTyped, Orderly, Whole, NEW floor \in Slots, ReplayRefused(floor)
  PROVE  Whole'
<1>1. /\ part = "none" /\ UNCHANGED <<up, pos, part, tip, since, have, torn>>
      /\ floor <= tip /\ cursor # 0
  BY DEF ReplayRefused, Replayable, Whole, SlotFirst, FeedTyped, StreamTyped, stream, history
<1>2. cursor' = IF floor - 1 > cursor THEN floor - 1 ELSE cursor
  BY DEF ReplayRefused
<1>3. /\ tip \in Slots /\ cursor \in 0..MaxSlot /\ MaxSlot \in Nat
      /\ disk.cursor \in 0..MaxSlot
  BY ChainBegins DEF FeedTyped, StreamTyped, DiskTyped
<1>4. Missing' = Missing
  BY <1>1 DEF Missing, Arriving
<1>5. SlotFirst' /\ disk.cursor <= cursor'
  BY <1>1, <1>2, <1>3 DEF SlotFirst, Whole, FilesAgree, Slots
<1>6. CASE floor > cursor + 1
  <2>1. Enqueue(cursor + 1, floor - 1)
    BY <1>6 DEF ReplayRefused
  <2>2. cursor + 1 \in Slots /\ floor - 1 \in Slots /\ floor - 1 <= tip
    BY <1>1, <1>3, <1>6 DEF Slots
  <2>3. /\ disk'.gaps = stored' /\ disk'.cursor = disk.cursor
        /\ OneCopy' /\ GapsArePast' /\ stored \subseteq stored'
        /\ \A s \in (cursor + 1)..(floor - 1) : \E g \in stored' : s \in Within(g)
    BY <1>1, <2>1, <2>2, EnqueueWhole
  <2>4. GapsCover'
    <3> SUFFICES ASSUME NEW s \in Missing, s <= cursor'
                 PROVE  \E g \in stored' : s \in Within(g)
      BY <1>4 DEF GapsCover
    <3>1. s \in Slots
      BY DEF Missing
    <3>2. CASE s <= cursor
      BY <2>3, <3>2 DEF Whole, GapsCover
    <3>3. CASE s > cursor
      <4>1. s \in (cursor + 1)..(floor - 1)
        BY <1>2, <1>3, <3>1, <3>3 DEF Slots
      <4> QED
        BY <2>3, <4>1
    <3> QED
      BY <1>3, <3>1, <3>2, <3>3 DEF Slots
  <2> QED
    BY <1>5, <2>3, <2>4 DEF Whole, FilesAgree
<1>7. CASE ~(floor > cursor + 1)
  <2>1. UNCHANGED <<stored, flying, disk>>
    BY <1>7 DEF ReplayRefused, gaps
  <2>2. cursor' = cursor
    BY <1>2, <1>3, <1>7 DEF Slots
  <2> QED
    BY <1>1, <1>4, <1>5, <2>1, <2>2
    DEF Whole, FilesAgree, OneCopy, GapsArePast, GapsCover
<1> QED
  BY <1>6, <1>7

(***************************************************************************)
(* A repaired gap is repaired wholly: the RPC node knows all its blocks.   *)
(***************************************************************************)
LEMMA RepairWhole ==
  ASSUME FeedTyped, Orderly, Whole, NEW g \in GapRange, RepairSucceeds(g)
  PROVE  Whole'
<1>1. /\ stored' = stored \ {g} /\ disk' = [disk EXCEPT !.gaps = stored']
      /\ flying' = [flying EXCEPT ![g] = @ - 1] /\ flying[g] > 0
      /\ UNCHANGED <<up, pos, part, tip, cursor, since, torn>>
      /\ have' = have \cup {s \in Within(g) : s <= tip}
  BY DEF RepairSucceeds, Orderly, RpcTip, stream
<1>2. g \in stored /\ flying[g] = 1
  BY <1>1 DEF Whole, OneCopy
<1>3. Within(g) \subseteq have'
  <2>1. g.end <= tip /\ g.end \in Slots /\ g.start \in Slots /\ tip \in Slots
    BY <1>2 DEF Whole, GapsArePast, GapRange, FeedTyped, StreamTyped
  <2> QED
    BY <1>1, <2>1 DEF Within, Slots
<1>4. Missing' \subseteq Missing \ Within(g)
  BY <1>1, <1>3 DEF Missing, Arriving
<1>5. GapsCover'
  BY <1>1, <1>4 DEF Whole, GapsCover
<1>6. OneCopy'
  BY <1>1, <1>2 DEF Whole, OneCopy, FeedTyped, GapsTyped
<1>7. FilesAgree'
  BY <1>1 DEF Whole, FilesAgree, FeedTyped, DiskTyped
<1>8. GapsArePast' /\ SlotFirst'
  BY <1>1 DEF Whole, GapsArePast, SlotFirst
<1> QED
  BY <1>5, <1>6, <1>7, <1>8 DEF Whole

(***************************************************************************)
(* When the stream ends, the slot that had begun to arrive is cut off and  *)
(* nothing else is missing that was not before.                            *)
(***************************************************************************)
LEMMA DisconnectWhole ==
  ASSUME Orderly, Whole, Disconnect
  PROVE  Whole'
<1>1. /\ part' = "none" /\ torn' = torn \cup Cut
      /\ UNCHANGED <<tip, pos, cursor, since, have, stored, flying, disk>>
  BY DEF Disconnect, gaps, files
<1>2. \A s : Arriving(s) => s \in have \cup Cut
  BY DEF Arriving, Cut
<1>3. Missing' \subseteq Missing
  BY <1>1, <1>2 DEF Missing
<1> QED
  BY <1>1, <1>3 DEF Whole, FilesAgree, OneCopy, GapsArePast, SlotFirst, GapsCover

(***************************************************************************)
(* A crash goes back to an older cursor at most; the gaps come back whole. *)
(* A slot that began to arrive is cut off, or it is after the cursor again.*)
(***************************************************************************)
LEMMA RestartWhole ==
  ASSUME FeedTyped, Orderly, Whole, Restart
  PROVE  Whole'
<1>1. /\ part' = "none" /\ torn' = {s \in torn \cup Cut : s <= cursor'}
      /\ UNCHANGED <<tip, since, have>>
  BY DEF Restart
<1>2. /\ cursor' = disk.cursor /\ stored' = disk.gaps /\ disk' = disk
      /\ flying' = [h \in GapRange |-> IF h \in disk.gaps THEN 1 ELSE 0]
  BY DEF Restart, Resume, Start, CursorRead, GapsRead, Orderly
<1>3. disk.cursor \in Nat /\ cursor \in Nat /\ disk.cursor <= cursor /\ disk.gaps = stored
  BY DEF Whole, FilesAgree, FeedTyped, StreamTyped, DiskTyped
<1>4. \A s : Arriving(s) => s \in have \cup Cut
  BY DEF Arriving, Cut
<1>5. ASSUME NEW s \in Missing', s <= cursor'
      PROVE  s \in Missing
  BY <1>1, <1>4, <1>5 DEF Missing
<1>6. GapsCover'
  <2> SUFFICES ASSUME NEW s \in Missing, s <= disk.cursor
               PROVE  \E h \in stored : s \in Within(h)
    BY <1>2, <1>3, <1>5 DEF GapsCover
  <2>1. s \in Nat
    BY DEF Missing, Slots
  <2> QED
    BY <1>3, <2>1 DEF Whole, GapsCover
<1> QED
  BY <1>1, <1>2, <1>3, <1>6 DEF Whole, FilesAgree, OneCopy, GapsArePast, SlotFirst

LEMMA OrderlyStep ==
  ASSUME FeedTyped, OrderlyInv, [Next]_vars
  PROVE  OrderlyInv'
<1>1. UNCHANGED <<faults, mode>>
  BY DEF Next, ChainGrows, ConnectLive, ConnectReplay, ConnectScan, Disconnect, SampleTip,
         ReplayRefused, Skip, SlotUpdate, Transactions, RepairSucceeds, RepairFails,
         PersistCursor, Restart, env, vars
<1> SUFFICES ASSUME Orderly, Whole PROVE Whole'
  BY <1>1 DEF OrderlyInv, Orderly
<1>2. ASSUME UNCHANGED <<tip, cursor, since, torn, stored, flying, disk>>, have \subseteq have',
             part = "none", part' = "none"
      PROVE  Whole'
  <2>1. Missing' \subseteq Missing
    BY <1>2 DEF Missing, Arriving
  <2> QED
    BY <1>2, <2>1 DEF Whole, FilesAgree, OneCopy, GapsArePast, SlotFirst, GapsCover
<1>3. ~up => part = "none"
  BY DEF Whole, SlotFirst, FeedTyped, StreamTyped
<1>4. CASE ConnectLive \/ ConnectReplay
  BY <1>2, <1>3, <1>4
  DEF ConnectLive, ConnectReplay, Replayable, Orderly, gaps, files, history
<1>5. ASSUME NEW s \in Slots, Skip(s)
      PROVE  Whole'
  BY <1>2, <1>5 DEF Skip, gaps, files, history
<1>6. CASE ChainGrows
  <2>1. Missing' = Missing
    BY <1>6 DEF ChainGrows, Missing, Arriving, stream, history
  <2>2. GapsArePast'
    <3>1. ASSUME NEW g \in stored PROVE g.end <= tip + 1
      <4>1. g.end \in Slots /\ tip \in Slots
        BY DEF FeedTyped, GapsTyped, StreamTyped, GapRange
      <4> QED
        BY <4>1 DEF Slots, Whole, GapsArePast
    <3> QED
      BY <1>6, <3>1 DEF ChainGrows, GapsArePast, gaps
  <2> QED
    BY <1>6, <2>1, <2>2
    DEF ChainGrows, Whole, FilesAgree, OneCopy, SlotFirst, GapsCover, stream, gaps, files
<1>7. ASSUME NEW g \in GapRange, NEW done \in SUBSET Within(g), RepairFails(g, done)
      PROVE  Whole'
  <2>1. Missing' \subseteq Missing
    BY <1>7 DEF RepairFails, Missing, Arriving, stream
  <2> QED
    BY <1>7, <2>1
    DEF RepairFails, Whole, FilesAgree, OneCopy, GapsArePast, SlotFirst, GapsCover, stream, files
<1>8. CASE PersistCursor
  <2>1. disk' = [disk EXCEPT !.cursor = cursor]
    BY <1>8 DEF PersistCursor, Orderly
  <2>2. disk'.gaps = disk.gaps /\ disk'.cursor = cursor /\ cursor \in Nat
    BY <2>1 DEF FeedTyped, DiskTyped, StreamTyped
  <2>3. UNCHANGED <<tip, up, pos, part, cursor, since, have, torn, stored, flying>>
    BY <1>8 DEF PersistCursor, Orderly, stream, gaps, history
  <2>4. Missing' = Missing
    BY <2>3 DEF Missing, Arriving
  <2> QED
    BY <2>2, <2>3, <2>4 DEF Whole, FilesAgree, OneCopy, GapsArePast, SlotFirst, GapsCover
<1>9. CASE UNCHANGED vars
  <2>1. Missing' = Missing
    BY <1>9 DEF vars, Missing, Arriving
  <2> QED
    BY <1>9, <2>1 DEF vars, Whole, FilesAgree, OneCopy, GapsArePast, SlotFirst, GapsCover
<1>10. ~ConnectScan /\ ~SampleTip
  BY DEF ConnectScan, SampleTip, Orderly
<1> QED
  BY <1>4, <1>5, <1>6, <1>7, <1>8, <1>9, <1>10, SlotUpdateWhole, TransactionsWhole,
     ReplayRefusedWhole, RepairWhole, DisconnectWhole, RestartWhole
  DEF Next

THEOREM OrderlyInvariant == Spec => []OrderlyInv
<1>1. Init => OrderlyInv
  <2> SUFFICES ASSUME Init PROVE Whole
    BY DEF OrderlyInv
  <2>1. Missing = {}
    BY DEF Init, Missing
  <2> QED
    BY <2>1 DEF Init, Whole, FilesAgree, OneCopy, GapsArePast, SlotFirst, GapsCover
<1> QED
  BY <1>1, OrderlyStep, FeedTypes, PTL DEF Spec

(***************************************************************************)
(* In an orderly environment, over crashes and broken connections at any   *)
(* point, new positions are opened only by a program that has seen or      *)
(* repaired every slot up to its cursor, but for slots that were cut off   *)
(* (README.md:171).                                                        *)
(***************************************************************************)
THEOREM OrderlyOpensWholeHolds == Spec => []OrderlyOpensWhole
<1>1. FeedTyped /\ WorkInv /\ OrderlyInv => OrderlyOpensWhole
  <2> SUFFICES ASSUME FeedTyped, WorkInv, Whole, AllowsNewOrders, NEW s \in Missing
               PROVE  s > cursor
    BY DEF OrderlyInv, OrderlyOpensWhole, OpenOnlyWhole
  <2>1. \A g \in GapRange : flying[g] = 0
    BY CountedZero DEF AllowsNewOrders, WorkInv, FeedTyped, GapsTyped
  <2>2. stored = {}
    BY <2>1 DEF Whole, OneCopy, FeedTyped, GapsTyped
  <2>3. ~(s <= cursor) /\ s \in Nat /\ cursor \in Nat
    BY <2>2 DEF Whole, GapsCover, Missing, Slots, FeedTyped, StreamTyped
  <2> QED
    BY <2>3
<1> QED
  BY <1>1, OrderlyInvariant, GateInvariant, PTL

(***************************************************************************)
(* In an orderly environment a crash at any point leaves behind no slot but*)
(* one that was cut off: what else is missing up to the cursor on disk is  *)
(* in a gap on disk (README.md:28-29).                                     *)
(***************************************************************************)
THEOREM OrderlyLosesNothingHolds == Spec => []OrderlyLosesNothing
<1>1. FeedTyped /\ OrderlyInv => OrderlyLosesNothing
  <2> SUFFICES ASSUME FeedTyped, Whole, NEW s \in Missing, s <= disk.cursor
               PROVE  \E g \in disk.gaps : s \in Within(g)
    BY DEF OrderlyInv, OrderlyLosesNothing, MissingIsOnDisk
  <2>1. s \in Nat /\ disk.cursor \in Nat /\ cursor \in Nat
    BY DEF Missing, Slots, FeedTyped, StreamTyped, DiskTyped
  <2> QED
    BY <2>1 DEF Whole, FilesAgree, GapsCover
<1> QED
  BY <1>1, OrderlyInvariant, FeedTypes, PTL

=============================================================================
