---------------------------- MODULE LanderProofs ----------------------------
(***************************************************************************)
(* Theorems about Lander, for every set of routes, every configuration and *)
(* every budget.                                                           *)
(***************************************************************************)
EXTENDS Lander, FiniteSetTheorems, WellFoundedInduction, TLAPS

(***************************************************************************)
(* The routes whose answer waits in the channel q.                         *)
(***************************************************************************)
Unread(q) == {q[i] : i \in DOMAIN q}

LEMMA UnreadEnds ==
  ASSUME NEW q \in Seq(Routes)
  PROVE  /\ \A r \in Routes : Append(q, r) \in Seq(Routes)
                              /\ Unread(Append(q, r)) = Unread(q) \cup {r}
         /\ q # <<>> => /\ Head(q) \in Routes
                        /\ Tail(q) \in Seq(Routes)
                        /\ Unread(q) = {Head(q)} \cup Unread(Tail(q))
<1>1. ASSUME NEW r \in Routes
      PROVE  Append(q, r) \in Seq(Routes) /\ Unread(Append(q, r)) = Unread(q) \cup {r}
  <2> DEFINE a == Append(q, r)
  <2>1. /\ a \in Seq(Routes) /\ DOMAIN q = 1..Len(q) /\ DOMAIN a = 1..(Len(q) + 1)
        /\ Len(q) \in Nat /\ a[Len(q) + 1] = r
        /\ \A i \in 1..Len(q) : a[i] = q[i]
    OBVIOUS
  <2>2. \A i \in DOMAIN a : a[i] \in Unread(q) \cup {r}
    BY <2>1 DEF Unread
  <2>3. r \in Unread(a) /\ \A i \in DOMAIN q : q[i] \in Unread(a)
    BY <2>1 DEF Unread
  <2> QED
    BY <2>1, <2>2, <2>3 DEF Unread
<1>2. ASSUME q # <<>>
      PROVE  /\ Head(q) \in Routes /\ Tail(q) \in Seq(Routes)
             /\ Unread(q) = {Head(q)} \cup Unread(Tail(q))
  <2> DEFINE w == Tail(q)
  <2>1. /\ Head(q) \in Routes /\ Head(q) = q[1] /\ w \in Seq(Routes)
        /\ Len(q) \in Nat \ {0}
        /\ DOMAIN q = 1..Len(q) /\ DOMAIN w = 1..(Len(q) - 1)
        /\ \A i \in 1..(Len(q) - 1) : w[i] = q[i + 1]
    BY <1>2
  <2>2. q[1] \in Unread(q) /\ \A i \in DOMAIN w : w[i] \in Unread(q)
    BY <2>1 DEF Unread
  <2>3. ASSUME NEW i \in DOMAIN q, i # 1
        PROVE  q[i] \in Unread(w)
    <3>1. i - 1 \in DOMAIN w /\ w[i - 1] = q[i]
      BY <2>1, <2>3
    <3> QED
      BY <3>1 DEF Unread
  <2> QED
    BY <2>1, <2>2, <2>3 DEF Unread
<1> QED
  BY <1>1, <1>2

(***************************************************************************)
(* The inductive invariant.  While the loop waits, a route that accepted   *)
(* or dispatched is in the channel or, if it dispatched, some dispatched   *)
(* route is remembered; when the order has failed no sender is left that   *)
(* could still succeed.                                                    *)
(***************************************************************************)
RouteStates == {"new", "idle", "sending", "accepted", "dispatched", "error"}

RoutesTyped ==
  /\ route \in [Routes -> RouteStates]
  /\ answers \in Seq(Routes)
  /\ dispatched \in Routes \cup {NoRoute}

NotBegun ==
  phase = "new" =>
    answers = <<>> /\ dispatched = NoRoute /\ \A r \in Routes : route[r] = "new"

NothingOverlooked ==
  phase = "waiting" => \A r \in Routes :
    /\ route[r] = "accepted" => r \in Unread(answers)
    /\ route[r] = "dispatched" => r \in Unread(answers) \/ dispatched # NoRoute
    /\ route[r] # "new"

LInv == RoutesTyped /\ NotBegun /\ NothingOverlooked /\ FailureIsUnanimous

(***************************************************************************)
(* An answer is in the channel as soon as its route has a result.          *)
(***************************************************************************)
LEMMA AnswerStep ==
  ASSUME LInv, NEW r \in Routes, Answer(r)
  PROVE  LInv'
<1>1. PICK status \in {"accepted", "dispatched", "error"} :
        route' = [route EXCEPT ![r] = status]
  BY DEF Answer, AnswersOf, ServerAnswers, UdpAnswers
<1>2. answers' \in Seq(Routes) /\ Unread(answers') = Unread(answers) \cup {r}
  BY UnreadEnds DEF LInv, RoutesTyped, Answer
<1>3. route[r] = "sending" /\ UNCHANGED <<phase, dispatched>>
  BY DEF Answer
<1>4. RoutesTyped'
  BY <1>1, <1>2, <1>3 DEF LInv, RoutesTyped, RouteStates
<1>5. phase # "new" /\ phase # "failed"
  BY <1>3 DEF LInv, NotBegun, FailureIsUnanimous
<1>6. NothingOverlooked'
  BY <1>1, <1>2, <1>3 DEF LInv, NothingOverlooked, RoutesTyped
<1> QED
  BY <1>3, <1>4, <1>5, <1>6 DEF LInv, NotBegun, FailureIsUnanimous

(***************************************************************************)
(* The answer that is taken from the channel ends the wait or is noted.    *)
(***************************************************************************)
LEMMA ReadStep ==
  ASSUME LInv, Read
  PROVE  LInv'
<1> DEFINE h == Head(answers)
<1>1. /\ answers' \in Seq(Routes) /\ h \in Routes
      /\ Unread(answers) = {h} \cup Unread(answers')
  BY UnreadEnds DEF LInv, RoutesTyped, Read
<1>2. /\ phase = "waiting" /\ route' = route
      /\ route[h] = "accepted" => phase' = "sent"
      /\ route[h] # "accepted" => phase' = "waiting"
      /\ route[h] = "dispatched" /\ dispatched = NoRoute => dispatched' = h
      /\ ~(route[h] = "dispatched" /\ dispatched = NoRoute) => dispatched' = dispatched
  BY DEF Read, Finish
<1>3. RoutesTyped'
  BY <1>1, <1>2 DEF LInv, RoutesTyped
<1>4. phase' \in {"sent", "waiting"}
  BY <1>2
<1>5. h # NoRoute
  BY <1>1, LanderAssumption
<1>6. NothingOverlooked'
  BY <1>1, <1>2, <1>5 DEF LInv, NothingOverlooked
<1> QED
  BY <1>3, <1>4, <1>6 DEF LInv, NotBegun, FailureIsUnanimous

(***************************************************************************)
(* Without a sender and without an answer left, what is remembered decides.*)
(***************************************************************************)
LEMMA CloseStep ==
  ASSUME LInv, Close
  PROVE  LInv'
<1>1. Unread(<<>>) = {}
  BY DEF Unread
<1>2. /\ phase = "waiting" /\ answers = <<>>
      /\ \A r \in Routes : route[r] # "sending"
      /\ UNCHANGED <<route, answers, dispatched>>
      /\ phase' = "sent" \/ (phase' = "failed" /\ dispatched = NoRoute)
  BY DEF Close, AllRead, Finish
<1>3. dispatched = NoRoute => \A r \in Routes : route[r] \in {"idle", "error"}
  BY <1>1, <1>2 DEF LInv, NothingOverlooked, RoutesTyped, RouteStates
<1> QED
  BY <1>2, <1>3 DEF LInv, RoutesTyped, NotBegun, NothingOverlooked, FailureIsUnanimous

LEMMA LanderStep ==
  ASSUME LInv, [Next]_vars
  PROVE  LInv'
<1> USE DEF LInv, RoutesTyped, NotBegun, NothingOverlooked, FailureIsUnanimous
<1>1. CASE Refuse
  BY <1>1 DEF Refuse
<1>2. CASE Send
  BY <1>2 DEF Send, RouteStates
<1>3. ASSUME NEW r \in Routes, Answer(r) PROVE LInv'
  BY <1>3, AnswerStep
<1>4. CASE Read
  BY <1>4, ReadStep
<1>5. CASE GraceEnds
  BY <1>5 DEF GraceEnds, Finish
<1>6. CASE Close
  BY <1>6, CloseStep
<1>7. ASSUME NEW v \in SUBSET Routes, Execute(v) PROVE LInv'
  BY <1>7 DEF Execute
<1>8. CASE Sold \/ Over \/ UNCHANGED vars
  BY <1>8 DEF Sold, Over, vars
<1> QED
  BY <1>1, <1>2, <1>3, <1>4, <1>5, <1>6, <1>7, <1>8 DEF Next

THEOREM LanderInvariant == Spec => []LInv
<1>1. Init => LInv
  BY DEF Init, LInv, RoutesTyped, RouteStates, NotBegun, NothingOverlooked,
         FailureIsUnanimous
<1> QED
  BY <1>1, LanderStep, PTL DEF Spec

(***************************************************************************)
(* send_any fails only when every route that was handed the order has      *)
(* reported an error, a timeout included: no answer is outstanding and no  *)
(* route accepted or dispatched it (exec/land.rs:304-371).                 *)
(***************************************************************************)
THEOREM FailureIsUnanimousHolds == Spec => []FailureIsUnanimous
<1>1. LInv => FailureIsUnanimous
  BY DEF LInv
<1> QED
  BY <1>1, LanderInvariant, PTL

(***************************************************************************)
(* A receipt of a route that only dispatched is given when no server has   *)
(* accepted: an acceptance would still be in the channel, which is empty.  *)
(***************************************************************************)
THEOREM AcceptedWinsAlways == Spec => AcceptedWins
<1> DEFINE Step == phase' = "sent" /\ phase = "waiting" /\ route[receipt'] = "dispatched"
                     => \A r \in Routes : route[r] # "accepted"
<1>1. Unread(<<>>) = {}
  BY DEF Unread
<1>2. ASSUME LInv, phase = "waiting", answers = <<>>
      PROVE  \A r \in Routes : route[r] # "accepted"
  BY <1>1, <1>2 DEF LInv, NothingOverlooked
<1>3. ASSUME LInv, Next PROVE Step
  <2>1. CASE Read
    BY <2>1 DEF Read, Finish
  <2>2. CASE GraceEnds \/ Close
    BY <2>2, <1>2, <1>3 DEF GraceEnds, Close, AllRead
  <2>3. CASE Refuse \/ Send
    BY <2>3 DEF Refuse, Send
  <2>4. ASSUME \/ \E r \in Routes : Answer(r)
               \/ \E v \in SUBSET Routes : Execute(v)
               \/ Sold \/ Over
        PROVE  Step
    BY <2>4 DEF Answer, Execute, Sold, Over, vars
  <2> QED
    BY <1>3, <2>1, <2>2, <2>3, <2>4 DEF Next
<1>4. LInv /\ [Next]_vars => [Step]_vars
  BY <1>3
<1> QED
  BY <1>4, LanderInvariant, PTL DEF Spec, AcceptedWins

-----------------------------------------------------------------------------
(***************************************************************************)
(* Tips.                                                                   *)
(***************************************************************************)

(***************************************************************************)
(* A bounded set of tips has a largest one: the tip whose distance to the  *)
(* bound is the smallest.                                                  *)
(***************************************************************************)
LEMMA LargestTip ==
  ASSUME NEW n \in Nat, NEW X, X \subseteq 0..n, X # {}
  PROVE  Max(X) \in X /\ \A y \in X : y <= Max(X)
<1> DEFINE D == {n - y : y \in X}
<1>1. D \subseteq Nat /\ D # {}
  <2>1. ASSUME NEW y \in X PROVE n - y \in Nat
    <3>1. y \in 0..n
      OBVIOUS
    <3> QED
      BY <3>1
  <2>2. \A d \in D : \E y \in X : d = n - y
    BY Zenon
  <2>3. D \subseteq Nat
    BY <2>1, <2>2, Zenon
  <2>4. \A y \in X : n - y \in D
    BY Zenon
  <2>5. PICK y : y \in X
    BY Zenon
  <2> QED
    BY <2>3, <2>4, <2>5, Zenon
<1>2. PICK d \in D : \A e \in D : ~(<<e, d>> \in OpToRel(<, Nat))
  <2> HIDE DEF D
  <2> QED
    BY <1>1, NatLessThanWellFounded, WFMin
<1>3. PICK x \in X : d = n - x
  OBVIOUS
<1>4. \A y \in X : x >= y
  <2> SUFFICES ASSUME NEW y \in X PROVE x >= y
    OBVIOUS
  <2>1. n - y \in D /\ n - y \in Nat /\ d \in Nat
    BY <1>1
  <2>2. ~(n - y < d)
    BY <1>2, <2>1 DEF OpToRel
  <2> QED
    BY <1>3, <2>2
<1> QED
  BY <1>4 DEF Max

(***************************************************************************)
(* The tip of a plan is paid for by validation: for routes with a tip it   *)
(* is the amount validation counts, and no route of the plan wants more.   *)
(***************************************************************************)
LEMMA PlanPays ==
  ASSUME NEW c \in Config, NEW R \in SUBSET Routes
  PROVE  /\ \A r \in R : c.tip[r] <= PlanTip(c, R)
         /\ \A r \in R : c.tip[r] > 0 => PlanTip(c, R) = Max({c.tip[s] : s \in R})
         /\ (\A r \in R : c.tip[r] = 0) => PlanTip(c, R) = 0
<1> DEFINE X == {c.tip[s] : s \in R}
<1>1. X \subseteq 0..MaxTip /\ X \cup {0} \subseteq 0..MaxTip /\ MaxTip \in Nat
  BY LanderAssumption DEF Config
<1>2. PlanTip(c, R) \in X \cup {0} /\ \A y \in X \cup {0} : y <= PlanTip(c, R)
  BY <1>1, LargestTip DEF PlanTip
<1>3. ASSUME NEW r \in R, c.tip[r] > 0
      PROVE  PlanTip(c, R) = Max(X)
  <2>1. c.tip[r] \in X /\ c.tip[r] \in Nat
    BY <1>1
  <2>2. Max(X) \in X /\ \A y \in X : y <= Max(X)
    BY <1>1, <2>1, LargestTip
  <2>3. PlanTip(c, R) \in X
    BY <1>1, <1>2, <1>3, <2>1
  <2>4. Max(X) <= PlanTip(c, R) /\ PlanTip(c, R) <= Max(X)
    BY <1>2, <2>2, <2>3
  <2>5. Max(X) \in Nat /\ PlanTip(c, R) \in Nat
    BY <1>1, <2>2, <2>3
  <2> QED
    BY <2>4, <2>5
<1> QED
  BY <1>1, <1>2, <1>3

(***************************************************************************)
(* The variants of an order cost what validation added up: with a tip they *)
(* are the pools, and without one there is a single variant that pays none.*)
(***************************************************************************)
LEMMA VariantsCost ==
  ASSUME NEW c \in Config
  PROVE  Cost(c) = TotalTip(c) \/ Cost(c) = 0
<1> DEFINE
  V == Variants(c)
  pick(s) == CHOOSE v \in s : TRUE
  Paid(g) == [s \in SUBSET V |-> IF s = {} THEN 0 ELSE TipOf(c, pick(s)) + g[s \ {pick(s)}]]
  Counted(g) ==
    [s \in SUBSET V |-> IF s = {} THEN 0
                        ELSE Max({c.tip[r] : r \in pick(s)}) + g[s \ {pick(s)}]]
  paid == CHOOSE g : g = Paid(g)
<1>1. Cost(c) = paid[V]
  BY DEF Cost, MapThenSumSet, MapThenFoldSet
<1>2. CASE Tipped(c) # {}
  <2>1. TotalTip(c) = (CHOOSE g : g = Counted(g))[V]
    BY <1>2 DEF TotalTip, MapThenSumSet, MapThenFoldSet, Variants
  <2>2. ASSUME NEW v \in V
        PROVE  TipOf(c, v) = Max({c.tip[r] : r \in v})
    <3>1. v \in SUBSET Routes /\ \E r \in v : c.tip[r] > 0
      BY <1>2 DEF Variants, PoolRoutes, Tipped
    <3> QED
      BY <3>1, PlanPays DEF TipOf
  <2>3. ASSUME NEW g PROVE Paid(g) = Counted(g)
    <3>1. \A s \in SUBSET V : s # {} => pick(s) \in V
      OBVIOUS
    <3> HIDE DEF pick, V
    <3> QED
      BY <2>2, <3>1
  <2> HIDE DEF Paid, Counted
  <2>4. (CHOOSE g : g = Paid(g)) = (CHOOSE g : g = Counted(g))
    BY <2>3, Zenon
  <2> QED
    BY <1>1, <2>1, <2>4
<1>3. CASE Tipped(c) = {}
  <2>1. V = {Routes}
    BY <1>3 DEF Variants
  <2>2. TipOf(c, Routes) = 0
    <3>1. \A r \in Routes : c.tip[r] = 0
      BY <1>3, LanderAssumption DEF Tipped, Config
    <3> QED
      BY <3>1, PlanPays DEF TipOf
  <2> DEFINE none == [s \in SUBSET V |-> 0]
  <2>3. none = Paid(none)
    <3>1. \A s \in SUBSET V : s # {} => pick(s) = Routes
      BY <2>1
    <3> HIDE DEF pick
    <3>2. \A s \in SUBSET V : Paid(none)[s] = 0
      BY <2>2, <3>1
    <3> QED
      BY <3>2
  <2> HIDE DEF Paid
  <2>4. paid = Paid(paid)
    BY <2>3, Zenon
  <2>5. pick(V) = Routes
    BY <2>1
  <2> HIDE DEF paid
  <2>6. paid[V] = 0 + paid[{}] /\ paid[{}] = 0
    BY <2>1, <2>2, <2>4, <2>5 DEF Paid
  <2> QED
    BY <1>1, <2>6
<1> QED
  BY <1>2, <1>3

(***************************************************************************)
(* The configuration that was validated stays.  With several routes it     *)
(* wants the shared token account: every variant that executes creates it  *)
(* and every sale closes it, so the two alternate and their counts differ  *)
(* by the account that is there.                                           *)
(***************************************************************************)
SpendTyped ==
  /\ config \in Config /\ Valid(config)
  /\ executed \in SUBSET Variants(config)
  /\ account \in BOOLEAN /\ sold \in Nat

Alternate ==
  config.seed => Cardinality(executed) = IF account THEN sold + 1 ELSE sold

SpendInv == SpendTyped /\ Alternate

(***************************************************************************)
(* An order has finitely many variants, and they are sets of routes.       *)
(***************************************************************************)
LEMMA FewVariants ==
  ASSUME NEW c
  PROVE  IsFiniteSet(Variants(c)) /\ Variants(c) \subseteq SUBSET Routes
<1>1. IsFiniteSet(SUBSET Routes)
  BY LanderAssumption, FS_SUBSET
<1>2. Variants(c) \subseteq SUBSET Routes
  BY DEF Variants, PoolRoutes, Tipped
<1> QED
  BY <1>1, <1>2, FS_Subset

LEMMA SpendStep ==
  ASSUME SpendInv, [Next]_vars
  PROVE  SpendInv'
<1>1. CASE UNCHANGED <<config, chain>>
  BY <1>1 DEF SpendInv, SpendTyped, Alternate, chain
<1>2. ASSUME NEW v \in SUBSET Routes, Execute(v)
      PROVE  SpendInv'
  <2>1. IsFiniteSet(executed)
    BY FewVariants, FS_Subset DEF SpendInv, SpendTyped
  <2>2. Cardinality(executed \cup {v}) = Cardinality(executed) + 1
    BY <1>2, <2>1, FS_AddElement DEF Execute
  <2>3. SpendTyped'
    BY <1>2 DEF SpendInv, SpendTyped, Execute
  <2>4. Alternate'
    BY <1>2, <2>2 DEF SpendInv, Alternate, SpendTyped, Execute
  <2> QED
    BY <2>3, <2>4 DEF SpendInv
<1>3. CASE Sold
  <2>1. sold' = sold + 1 /\ UNCHANGED <<config, executed>>
    BY <1>3 DEF Sold
  <2>2. account /\ ~account' /\ account' \in BOOLEAN
    BY <1>3, Zenon DEF Sold
  <2>3. SpendTyped'
    BY <2>1, <2>2 DEF SpendInv, SpendTyped
  <2>4. config.seed => Cardinality(executed) = sold + 1
    BY <2>2 DEF SpendInv, Alternate
  <2>5. Alternate'
    BY <2>1, <2>2, <2>4 DEF Alternate
  <2> QED
    BY <2>3, <2>5 DEF SpendInv
<1>4. ASSUME NEW r \in Routes, Answer(r)
      PROVE  SpendInv'
  BY <1>1, <1>4 DEF Answer
<1>5. CASE Refuse \/ Send \/ Read \/ GraceEnds \/ Close \/ Over \/ UNCHANGED vars
  BY <1>1, <1>5 DEF Refuse, Send, Read, GraceEnds, Close, Over, Finish, vars
<1> QED
  BY <1>2, <1>3, <1>4, <1>5 DEF Next

THEOREM SpendInvariant == Spec => []SpendInv
<1>1. Init => SpendInv
  <2> SUFFICES ASSUME Init PROVE SpendInv
    OBVIOUS
  <2>1. SpendTyped
    BY DEF Init, SpendTyped
  <2>2. ~account /\ sold = 0 /\ Cardinality(executed) = 0
    BY FS_EmptySet DEF Init
  <2> QED
    BY <2>1, <2>2 DEF SpendInv, Alternate
<1> QED
  BY <1>1, SpendStep, PTL DEF Spec

(***************************************************************************)
(* However many variants of a buy reach the chain, one executes, and after *)
(* that one more for every sale: validation allows several routes only     *)
(* with the shared token account (config.rs:472-477), which a variant      *)
(* creates and only a sale closes (exec/sell.rs:62-64).                    *)
(***************************************************************************)
THEOREM OneExecutesUntilSoldHolds == Spec => []OneExecutesUntilSold
<1>1. SpendInv => OneExecutesUntilSold
  <2> SUFFICES ASSUME SpendInv PROVE OneExecutesUntilSold
    OBVIOUS
  <2>1. CASE config.seed
    BY <2>1 DEF SpendInv, SpendTyped, Alternate, OneExecutesUntilSold
  <2>2. CASE ~config.seed
    <3>1. Cardinality(Routes) <= 1
      BY <2>2, LanderAssumption, FS_CardinalityType DEF SpendInv, SpendTyped, Valid
    <3>2. PICK r : Routes = {r}
      BY <3>1, LanderAssumption, FS_EmptySet, FS_CardinalityType, FS_Singleton
    <3>3. \A v \in Variants(config) : v = {r}
      BY <3>2 DEF Variants, PoolRoutes, Tipped
    <3>4. executed = {} \/ executed = {{r}}
      BY <3>3 DEF SpendInv, SpendTyped
    <3>5. Cardinality(executed) = 0 \/ Cardinality(executed) = 1
      BY <3>4, FS_EmptySet, FS_Singleton
    <3> QED
      BY <3>5 DEF SpendInv, SpendTyped, OneExecutesUntilSold
  <2> QED
    BY <2>1, <2>2
<1> QED
  BY <1>1, SpendInvariant, PTL

(***************************************************************************)
(* Every variant pays each of its routes what that route wants, and all    *)
(* variants of an order stay within the budget (config.rs:457-471,         *)
(* exec/land.rs:121-142).                                                  *)
(***************************************************************************)
THEOREM TipsCoveredHolds == Spec => []TipsCovered
<1>1. SpendInv => TipsCovered
  <2> SUFFICES ASSUME SpendInv PROVE TipsCovered
    OBVIOUS
  <2>1. config \in Config /\ TotalTip(config) <= MaxTotal
    BY DEF SpendInv, SpendTyped, Valid
  <2>2. ASSUME NEW r \in Eligible(config), NEW v \in VariantOf(config, r)
        PROVE  TipOf(config, v) >= config.tip[r]
    <3>1. v \in SUBSET Routes /\ r \in v
      BY DEF VariantOf, Variants, PoolRoutes, Tipped
    <3>2. config.tip[r] \in Nat /\ config.tip[r] <= PlanTip(config, v)
      BY <2>1, <3>1, PlanPays, LanderAssumption DEF Config
    <3> QED
      BY <3>2 DEF TipOf
  <2>3. Cost(config) <= MaxTotal
    BY <2>1, VariantsCost, LanderAssumption
  <2> QED
    BY <2>2, <2>3 DEF TipsCovered
<1> QED
  BY <1>1, SpendInvariant, PTL

=============================================================================
