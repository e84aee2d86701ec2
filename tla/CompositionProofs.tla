-------------------------- MODULE CompositionProofs --------------------------
(***************************************************************************)
(* Theorems that relate Engine to what surrounds it: the order actor       *)
(* implements the custody of lots (EngineCustody), and with the router and *)
(* the frame channel before it (Sniper) it is still that order actor.      *)
(***************************************************************************)
EXTENDS EngineCustody, Sniper, EngineProofs, SequenceTheorems

-----------------------------------------------------------------------------
(***************************************************************************)
(* The lots.  LotGood relates the entry s of a mint to its order tasks t:  *)
(* every sell in execution, and the one that was submitted, sells the lot  *)
(* the entry is about, and what is held or sold is named by a buy.  Only   *)
(* the last part is not said by SaleIsOfTheLot; it is needed because a     *)
(* sell settles the lot that its task names.                               *)
(***************************************************************************)
Bought(t, l) == {i \in l : t[i].kind = "buy"}

Offered(t) == LotsSold(t, Orders(t, "sell"))

LotGood(s, t) ==
  /\ \A i \in Sells(t) : t[i].buy = s.buy
  /\ s.st = "submitted_sell" => t[s.sell].buy = s.buy
  /\ s.st \in Held => t[s.buy].kind = "buy"
  /\ \A i \in Ids : t[i].kind = "sell" => t[t[i].buy].kind = "buy"

AllLots == \A m \in Mints : LotGood(book[m], task[m])

(***************************************************************************)
(* What a change of the entry from s to r may be, in the terms of Custody, *)
(* while the orders l of the tasks t are on the chain.                     *)
(***************************************************************************)
PlanStays(s, r) ==
  /\ s.st = r.st \/ (s.st \in Unconfirmed /\ r.st \in Unconfirmed)
  /\ s.st \in Unconfirmed => r.exit = s.exit
  /\ s.st \in Held => r.buy = s.buy
  /\ s.st = "submitted_sell" => r.sell = s.sell /\ (s.aged => r.aged)

Unwanted(s, r) == s.st \in Unconfirmed /\ ~s.exit /\ r.st \in Unconfirmed /\ r.exit

BecomesHeld(s, r, t, l) ==
  s.st \in Unconfirmed /\ ~s.exit /\ r.st = "open" /\ r.buy \in Bought(t, l)

Offers(s, r, t, l) ==
  /\ s.st \in {"none", "open"} \/ (s.st \in Unconfirmed /\ s.exit)
  /\ r.st = "selling" /\ r.buy \in Bought(t, l)

Answered(s, r) ==
  /\ s.st = "selling" /\ r.buy = s.buy
  /\ r.st = "open" \/ (r.st = "submitted_sell" /\ ~r.aged)

Forgets(s, r, t, l) ==
  /\ r.st = "none"
  /\ \/ s.st \in Unconfirmed
     \/ s.st \in {"selling", "submitted_sell"} /\ s.buy \in LotsSold(t, l)
     \/ s.st = "submitted_sell" /\ s.aged

Alters(s, r, t, l) ==
  \/ PlanStays(s, r) \/ Unwanted(s, r) \/ BecomesHeld(s, r, t, l) \/ Offers(s, r, t, l)
  \/ Answered(s, r) \/ Forgets(s, r, t, l)

\* The tasks t became u: what was ordered, delivered and sold is the same.
LotsKept(t, u, l) ==
  /\ Orders(u, "buy") = Orders(t, "buy")
  /\ Bought(u, l) = Bought(t, l)
  /\ LotsSold(u, l) = LotsSold(t, l)

\* Mint m takes a step of Custody, and its lots stay in order.
Follows(m) ==
  /\ LotGood(book'[m], task'[m])
  /\ Custody!Plan(m) \/ Custody!Chain(m) \/ Custody!Same(m)

LEMMA PlanCases ==
  ASSUME NEW s \in PositionState
  PROVE  /\ s.st = "none" => PlanOf(s) = "idle" /\ LotOf(s) = NoId /\ ~LateOf(s)
         /\ s.st \in Unconfirmed =>
              /\ PlanOf(s) = IF s.exit THEN "unwanting" ELSE "wanting"
              /\ LotOf(s) = NoId /\ ~LateOf(s)
         /\ s.st = "open" => PlanOf(s) = "holding" /\ LotOf(s) = s.buy /\ ~LateOf(s)
         /\ s.st = "selling" => PlanOf(s) = "parting" /\ LotOf(s) = s.buy /\ ~LateOf(s)
         /\ s.st = "submitted_sell" =>
              PlanOf(s) = "parted" /\ LotOf(s) = s.buy /\ (LateOf(s) <=> s.aged)
BY DEF PlanOf, LotOf, LateOf, Unconfirmed, Held, PositionState, States

LEMMA PlanFollows ==
  ASSUME NEW m \in Mints, landed'[m] = landed[m],
         book[m] \in PositionState, book'[m] \in PositionState,
         Alters(book[m], book'[m], task[m], landed[m]),
         LotsKept(task[m], task'[m], landed[m]),
         Offered(task'[m]) = IF Spawns(book[m], book'[m])
                             THEN Offered(task[m]) \cup {book'[m].buy} ELSE Offered(task[m])
  PROVE  Custody!Plan(m) \/ Custody!Same(m)
<1> DEFINE s == book[m]
           r == book'[m]
           t == task[m]
           u == task'[m]
           l == landed[m]
<1> USE DEF Custody!Becomes, Custody!SameLots, Custody!Offer
<1>0. /\ s \in PositionState /\ r \in PositionState
      /\ s.st \in States /\ r.st \in States /\ s.aged \in BOOLEAN /\ r.aged \in BOOLEAN
  BY DEF PositionState
<1>1. /\ LotsSold(u, landed'[m]) = LotsSold(t, l)
      /\ {i \in landed'[m] : u[i].kind = "buy"} = {i \in l : t[i].kind = "buy"}
      /\ Orders(u, "buy") = Orders(t, "buy")
  BY DEF LotsKept, Bought
<1>2. ~Spawns(s, r) => LotsSold(u, Orders(u, "sell")) = LotsSold(t, Orders(t, "sell"))
  BY DEF Offered
<1>3. CASE PlanStays(s, r)
  <2>1. ~Spawns(s, r)
    BY <1>3 DEF PlanStays, Spawns, Unconfirmed
  <2>2. PlanOf(r) = PlanOf(s) /\ LotOf(r) = LotOf(s)
    BY <1>0, <1>3, PlanCases DEF PlanStays, States, Unconfirmed, Held
  <2>3. CASE LateOf(r) = LateOf(s)
    BY <1>1, <1>2, <2>1, <2>2, <2>3 DEF Custody!Same
  <2>4. CASE LateOf(r) # LateOf(s)
    <3>1. PlanOf(s) = "parted" /\ LateOf(r)
      BY <1>0, <1>3, <2>4, PlanCases DEF PlanStays, States, Unconfirmed, LateOf
    <3> QED
      BY <1>1, <1>2, <2>1, <2>2, <3>1 DEF Custody!Plan, Custody!Overdue
  <2> QED
    BY <2>3, <2>4
<1>4. CASE Unwanted(s, r)
  <2>1. /\ ~Spawns(s, r) /\ PlanOf(s) = "wanting" /\ PlanOf(r) = "unwanting"
        /\ LotOf(r) = NoId /\ ~LateOf(r)
    BY <1>0, <1>4, PlanCases DEF Unwanted, Spawns, Unconfirmed
  <2> QED
    BY <1>1, <1>2, <2>1 DEF Custody!Plan, Custody!Unwant
<1>5. CASE BecomesHeld(s, r, t, l)
  <2>1. /\ ~Spawns(s, r) /\ PlanOf(s) = "wanting"
        /\ PlanOf(r) = "holding" /\ LotOf(r) \in Bought(t, l) /\ ~LateOf(r)
    BY <1>0, <1>5, PlanCases DEF BecomesHeld, Spawns, Unconfirmed
  <2> QED
    BY <1>1, <1>2, <2>1 DEF Custody!Plan, Custody!Hold, Bought
<1>6. CASE Offers(s, r, t, l)
  <2>1. /\ Spawns(s, r) /\ PlanOf(s) \in {"idle", "unwanting", "holding"}
        /\ PlanOf(r) = "parting" /\ LotOf(r) = r.buy /\ r.buy \in Bought(t, l) /\ ~LateOf(r)
    BY <1>0, <1>6, PlanCases DEF Offers, Spawns, Unconfirmed
  <2>2. LotsSold(u, Orders(u, "sell")) = LotsSold(t, Orders(t, "sell")) \cup {r.buy}
    BY <2>1 DEF Offered
  <2> QED
    BY <1>1, <2>1, <2>2 DEF Custody!Plan, Custody!Part, Bought
<1>7. CASE Answered(s, r)
  <2>1. /\ ~Spawns(s, r) /\ PlanOf(s) = "parting"
        /\ PlanOf(r) = "holding" \/ PlanOf(r) = "parted"
        /\ LotOf(r) = LotOf(s) /\ ~LateOf(r)
    BY <1>0, <1>7, PlanCases DEF Answered, Spawns
  <2> QED
    BY <1>1, <1>2, <2>1 DEF Custody!Plan, Custody!Keep, Custody!HandOver
<1>8. CASE Forgets(s, r, t, l)
  <2>1. /\ ~Spawns(s, r) /\ PlanOf(r) = "idle" /\ LotOf(r) = NoId /\ ~LateOf(r)
        /\ \/ PlanOf(s) \in {"wanting", "unwanting"}
           \/ PlanOf(s) \in {"parting", "parted"} /\ LotOf(s) \in LotsSold(t, l)
           \/ PlanOf(s) = "parted" /\ LateOf(s)
    BY <1>0, <1>8, PlanCases DEF Forgets, Spawns, Unconfirmed
  <2> QED
    BY <1>1, <1>2, <2>1 DEF Custody!Plan, Custody!Forget
<1> QED
  BY <1>3, <1>4, <1>5, <1>6, <1>7, <1>8 DEF Alters

LEMMA OtherMintFollows ==
  ASSUME NEW m \in Mints, AllLots,
         book'[m] = book[m], task'[m] = task[m], landed'[m] = landed[m]
  PROVE  Follows(m)
<1>1. LotGood(book'[m], task'[m])
  BY DEF AllLots
<1>2. Custody!Same(m)
  BY DEF Custody!Same, Custody!SameLots
<1> QED
  BY <1>1, <1>2 DEF Follows

(***************************************************************************)
(* What the tasks of a mint may do to its lots.                            *)
(***************************************************************************)
Advanced(t, u, i, stage) ==
  /\ t[i].stage \in Live /\ stage \in {"running", "ok", "err", "done"}
  /\ u = [t EXCEPT ![i].stage = stage]

LEMMA LotsOfStage ==
  ASSUME NEW t \in [Ids -> Task], NEW i \in Ids, NEW stage,
         NEW u, Advanced(t, u, i, stage)
  PROVE  /\ u \in [Ids -> Task]
         /\ \A l \in SUBSET Ids : LotsKept(t, u, l)
         /\ Offered(u) = Offered(t)
         /\ \A j \in Ids : u[j].kind = t[j].kind /\ u[j].buy = t[j].buy
         /\ Sells(u) \subseteq Sells(t)
<1>1. /\ \A j \in Ids : u[j].kind = t[j].kind /\ u[j].buy = t[j].buy
      /\ \A j \in Ids : u[j].stage = "free" <=> t[j].stage = "free"
      /\ \A j \in Ids \ {i} : u[j] = t[j]
      /\ u \in [Ids -> Task]
  BY DEF Task, Live, Advanced
<1>2. \A kind : Orders(u, kind) = Orders(t, kind)
  BY <1>1 DEF Orders
<1>3. \A ids \in SUBSET Ids : LotsSold(u, ids) = LotsSold(t, ids)
  <2> SUFFICES ASSUME NEW ids \in SUBSET Ids
               PROVE  LotsSold(u, ids) = LotsSold(t, ids)
    OBVIOUS
  <2>1. {j \in ids : u[j].kind = "sell"} = {j \in ids : t[j].kind = "sell"}
    BY <1>1
  <2> QED
    BY <1>1, <2>1 DEF LotsSold
<1>4. \A l \in SUBSET Ids : Bought(u, l) = Bought(t, l)
  BY <1>1 DEF Bought
<1>5. Orders(t, "sell") \in SUBSET Ids
  BY DEF Orders
<1>6. Offered(u) = Offered(t)
  BY <1>2, <1>3, <1>5 DEF Offered
<1>7. Sells(u) \subseteq Sells(t)
  BY <1>1 DEF Sells, Live, Advanced
<1> QED
  BY <1>1, <1>2, <1>3, <1>4, <1>6, <1>7 DEF LotsKept

\* A new order: a buy orders its lot, a sell offers the lot it is given.
Placed(t, u, i, new) == t[i].stage = "free" /\ new.stage # "free" /\ u = [t EXCEPT ![i] = new]

LEMMA LotsOfOrder ==
  ASSUME NEW t \in [Ids -> Task], NEW i \in Ids, NEW l \in SUBSET Ids, i \notin l,
         NEW new \in Task, NEW u, Placed(t, u, i, new)
  PROVE  /\ Bought(u, l) = Bought(t, l) /\ LotsSold(u, l) = LotsSold(t, l)
         /\ new.kind = "sell" => /\ Orders(u, "buy") = Orders(t, "buy")
                                 /\ Offered(u) = Offered(t) \cup {new.buy}
         /\ new.kind = "buy" => /\ Orders(u, "buy") = Orders(t, "buy") \cup {i}
                                /\ Offered(u) = Offered(t)
<1>1. /\ u[i] = new /\ \A j \in Ids \ {i} : u[j] = t[j]
      /\ t[i].stage = "free" /\ new.stage # "free"
  BY DEF Placed
<1>2. Bought(u, l) = Bought(t, l)
  BY <1>1 DEF Bought
<1>3. LotsSold(u, l) = LotsSold(t, l)
  <2>1. {j \in l : u[j].kind = "sell"} = {j \in l : t[j].kind = "sell"}
    BY <1>1
  <2>2. \A j \in l : u[j] = t[j]
    BY <1>1
  <2> QED
    BY <2>1, <2>2 DEF LotsSold
<1>4. new.kind = "buy" => Orders(u, "buy") = Orders(t, "buy") \cup {i}
  BY <1>1 DEF Orders
<1>5. new.kind = "sell" => Orders(u, "buy") = Orders(t, "buy")
  BY <1>1 DEF Orders
<1>6. ASSUME NEW v \in [Ids -> Task], NEW x
      PROVE  x \in Offered(v) <=>
               \E j \in Ids : v[j].kind = "sell" /\ v[j].stage # "free" /\ x = v[j].buy
  BY DEF Offered, Orders, LotsSold
<1>7. u \in [Ids -> Task]
  BY DEF Placed
<1>8. new.kind = "buy" => Offered(u) = Offered(t)
  <2> SUFFICES ASSUME new.kind = "buy", NEW x PROVE x \in Offered(u) <=> x \in Offered(t)
    OBVIOUS
  <2>1. x \in Offered(u) <=>
          \E j \in Ids : u[j].kind = "sell" /\ u[j].stage # "free" /\ x = u[j].buy
    BY <1>6, <1>7
  <2>2. x \in Offered(t) <=>
          \E j \in Ids : t[j].kind = "sell" /\ t[j].stage # "free" /\ x = t[j].buy
    BY <1>6
  <2> QED
    BY <1>1, <2>1, <2>2
<1>9. new.kind = "sell" => Offered(u) = Offered(t) \cup {new.buy}
  <2> SUFFICES ASSUME new.kind = "sell", NEW x
               PROVE  x \in Offered(u) <=> x \in Offered(t) \/ x = new.buy
    OBVIOUS
  <2>1. x \in Offered(u) <=>
          \E j \in Ids : u[j].kind = "sell" /\ u[j].stage # "free" /\ x = u[j].buy
    BY <1>6, <1>7
  <2>2. x \in Offered(t) <=>
          \E j \in Ids : t[j].kind = "sell" /\ t[j].stage # "free" /\ x = t[j].buy
    BY <1>6
  <2> QED
    BY <1>1, <2>1, <2>2
<1> QED
  BY <1>2, <1>3, <1>4, <1>5, <1>8, <1>9

(***************************************************************************)
(* A handler leaves the entry r and the tasks t, to which Commit adds the  *)
(* sell of an entry that becomes Selling.                                  *)
(***************************************************************************)
LEMMA CommitFollows ==
  ASSUME TypeOK, NEW m \in Mints, landed'[m] = landed[m],
         book'[m] \in PositionState, task'[m] \in [Ids -> Task],
         NEW t \in [Ids -> Task],
         LotsKept(task[m], t, landed[m]), Offered(t) = Offered(task[m]),
         \A i \in Ids : i \in landed[m] => t[i].stage # "free",
         \A i \in Ids : t[i].kind = "sell" => t[i].buy \in landed[m],
         Committed(book[m], book'[m], t, task'[m]),
         Spawns(book[m], book'[m]) => Sells(t) = {} /\ book'[m].buy \in landed[m],
         LotGood(book'[m], t),
         Alters(book[m], book'[m], task[m], landed[m])
  PROVE  Follows(m)
<1> DEFINE s == book[m]
           r == book'[m]
           u == task'[m]
           l == landed[m]
<1>0. s \in PositionState /\ l \in SUBSET Ids
  BY DEF TypeOK
<1>1. CASE ~Spawns(s, r)
  <2>1. u = t
    BY <1>1 DEF Committed
  <2> QED
    BY <1>0, <1>1, <2>1, PlanFollows DEF Follows
<1>2. CASE Spawns(s, r)
  <2>1. PICK i \in Ids : t[i].stage = "free" /\ u = [t EXCEPT ![i] = SellTask(r)]
    BY <1>2 DEF Committed, Extended
  <2>2. /\ SellTask(r) \in Task /\ SellTask(r).kind = "sell"
        /\ SellTask(r).stage = "queued" /\ SellTask(r).buy = r.buy
    BY SellTaskType DEF SellTask
  <2>3. i \notin l
    BY <2>1
  <2>4. /\ Bought(u, l) = Bought(t, l) /\ LotsSold(u, l) = LotsSold(t, l)
        /\ Orders(u, "buy") = Orders(t, "buy") /\ Offered(u) = Offered(t) \cup {r.buy}
    <3> DEFINE new == SellTask(r)
    <3>1. new \in Task /\ new.kind = "sell" /\ new.buy = r.buy /\ Placed(t, u, i, new)
      BY <2>1, <2>2 DEF Placed
    <3> HIDE DEF new, u, r, l
    <3>2. l \in SUBSET Ids /\ i \notin l
      BY <1>0, <2>3
    <3> QED
      BY <3>1, <3>2, LotsOfOrder
  <2>5. LotsKept(task[m], u, l) /\ Offered(u) = Offered(task[m]) \cup {r.buy}
    BY <2>4 DEF LotsKept
  <2>6. Custody!Plan(m) \/ Custody!Same(m)
    BY <1>0, <1>2, <2>5, PlanFollows
  <2>7. LotGood(r, u)
    <3>1. /\ u[i] = SellTask(r) /\ \A j \in Ids \ {i} : u[j] = t[j]
          /\ r.st = "selling" /\ r.buy \in l /\ t[r.buy].kind = "buy" /\ Sells(t) = {}
      BY <1>2, <2>1 DEF Spawns, LotGood, Held
    <3>2. \A j \in Sells(u) : u[j].buy = r.buy
      BY <2>2, <3>1 DEF Sells
    <3>3. \A j \in Ids : u[j].kind = "sell" => u[j].buy \in l \ {i} /\ t[u[j].buy].kind = "buy"
      BY <2>2, <2>3, <3>1 DEF LotGood
    <3>4. \A j \in Ids : u[j].kind = "sell" => u[u[j].buy].kind = "buy"
      BY <1>0, <3>1, <3>3
    <3>5. u[r.buy].kind = "buy"
      BY <1>0, <2>3, <3>1
    <3> QED
      BY <3>1, <3>2, <3>4, <3>5 DEF LotGood
  <2> QED
    BY <2>6, <2>7 DEF Follows
<1> QED
  BY <1>1, <1>2

(***************************************************************************)
(* The changes that involve no order result (Quiet) and what they do to    *)
(* the lot.                                                                *)
(***************************************************************************)
SameLot(s, r, t) ==
  /\ s.st = "selling" => r.buy = s.buy
  /\ r.st = "submitted_sell" => r.buy = s.buy
  /\ r.st \in Held => t[r.buy].kind = "buy"

Moves(s, r, t, l) == SameLot(s, r, t) /\ Alters(s, r, t, l)

LEMMA QuietFollows ==
  ASSUME TypeOK, AllGood, AllLots, NEW m \in Mints, landed'[m] = landed[m],
         book'[m] \in PositionState, task'[m] \in [Ids -> Task],
         Committed(book[m], book'[m], task[m], task'[m]),
         Quiet(book[m], book'[m], landed[m]),
         Moves(book[m], book'[m], task[m], landed[m])
  PROVE  Follows(m)
<1> DEFINE s == book[m]
           r == book'[m]
           t == task[m]
           l == landed[m]
<1>1. /\ Good(s, t, l, boughtSeen[m], soldSeen[m], told[m]) /\ LotGood(s, t)
      /\ t \in [Ids -> Task]
  BY DEF AllGood, AllLots, TypeOK
<1>2. LotsKept(t, t, l)
  BY DEF LotsKept
<1>3. LotGood(r, t)
  <2>1. \A i \in Sells(t) : t[i].buy = r.buy
    BY <1>1 DEF Good, LotGood, Moves, SameLot
  <2> QED
    BY <1>1, <2>1 DEF LotGood, Moves, SameLot, Quiet
<1>4. Spawns(s, r) => Sells(t) = {} /\ r.buy \in l
  BY <1>1 DEF Spawns, Good, Quiet, Held
<1>5. /\ \A i \in Ids : i \in l => t[i].stage # "free"
      /\ \A i \in Ids : t[i].kind = "sell" => t[i].buy \in l
  BY <1>1 DEF Good, GoodTasks
<1> QED
  BY <1>1, <1>2, <1>3, <1>4, <1>5, CommitFollows DEF Moves

LEMMA MovesOfMethods ==
  ASSUME NEW s \in PositionState, NEW t, NEW l,
         s.st \in Held => s.buy \in l /\ t[s.buy].kind = "buy"
  PROVE  /\ Moves(s, s, t, l)
         /\ Moves(s, [s EXCEPT !.aged = TRUE], t, l)
         /\ Moves(s, RequestSell(s), t, l)
         /\ Moves(s, ForgetUnresolved(s), t, l)
         /\ s.st = "none" => Moves(s, FailBuy(BeginBuy(s)), t, l)
         /\ \A id \in Bought(t, l) : /\ Moves(s, RequestSell(ImportOpen(s, id)), t, l)
                                     /\ Moves(s, ConfirmBuy(s, id), t, l)
         /\ \A id \in l : t[id].kind = "sell" /\ (s.st = "submitted_sell" => t[s.sell].buy = s.buy)
                            => Moves(s, ConfirmSell(s, id), t, l)
<1> USE DEF Moves, SameLot, Alters, PositionState, States, Unconfirmed, Held, Absent
<1>1. Moves(s, s, t, l) /\ Moves(s, [s EXCEPT !.aged = TRUE], t, l)
  BY DEF PlanStays
<1>2. Moves(s, RequestSell(s), t, l)
  BY DEF RequestSell, PlanStays, Unwanted, Offers, Bought
<1>3. Moves(s, ForgetUnresolved(s), t, l)
  BY DEF ForgetUnresolved, AbandonUnconfirmedBuy, AbandonStaleSubmittedSell, PlanStays, Forgets
<1>4. s.st = "none" => Moves(s, FailBuy(BeginBuy(s)), t, l)
  BY DEF FailBuy, BeginBuy, PlanStays
<1>5. ASSUME NEW id \in Bought(t, l)
      PROVE  Moves(s, RequestSell(ImportOpen(s, id)), t, l)
  BY <1>5 DEF RequestSell, ImportOpen, PlanStays, Unwanted, Offers, Bought
<1>6. ASSUME NEW id \in Bought(t, l)
      PROVE  Moves(s, ConfirmBuy(s, id), t, l)
  BY <1>6 DEF ConfirmBuy, PlanStays, BecomesHeld, Offers, Bought
<1>7. ASSUME NEW id \in l, t[id].kind = "sell", s.st = "submitted_sell" => t[s.sell].buy = s.buy
      PROVE  Moves(s, ConfirmSell(s, id), t, l)
  <2>1. s.st = "submitted_sell" /\ s.sell = id => s.buy \in LotsSold(t, l)
    BY <1>7 DEF LotsSold
  <2> QED
    BY <2>1 DEF ConfirmSell, PlanStays, Forgets
<1> QED
  BY <1>1, <1>2, <1>3, <1>4, <1>5, <1>6, <1>7

LEMMA MovesOfTick ==
  ASSUME TypeOK, NEW m \in Mints, NEW t, NEW l,
         book[m].st \in Held => book[m].buy \in l /\ t[book[m].buy].kind = "buy"
  PROVE  Moves(book[m], Ticked[m], t, l)
<1> DEFINE s == book[m]
<1>1. s \in PositionState
  BY DEF TypeOK
<1>2. /\ ClaimTimeout(s) \in PositionState
      /\ s.st # "open" => ClaimTimeout(s) = s
      /\ s.st = "open" => ClaimTimeout(s) = s \/ ClaimTimeout(s) = RequestSell(s)
  BY <1>1, TimeoutOperatorTypes DEF ClaimTimeout
<1>3. Moves(s, s, t, l) /\ Moves(s, RequestSell(s), t, l)
  BY <1>1, MovesOfMethods
<1>4. CASE s.st = "open"
  <2>1. ClaimTimeout(s).st \in {"open", "selling"}
    BY <1>1, <1>2, <1>4 DEF RequestSell, PositionState, Unconfirmed
  <2>2. Reported(m) = ClaimTimeout(s)
    BY <2>1 DEF Reported, StaleSubmission
  <2>3. Ticked[m] = ClaimTimeout(s)
    BY <2>1, <2>2 DEF Ticked, ForgetUnresolved, AbandonUnconfirmedBuy,
       AbandonStaleSubmittedSell, Unconfirmed
  <2> QED
    BY <1>2, <1>3, <1>4, <2>3
<1>5. CASE s.st # "open"
  <2> DEFINE c == ClaimStaleSubmission(s)
  <2>1. /\ c \in PositionState /\ c.st = s.st /\ c.exit = s.exit /\ c.buy = s.buy
        /\ c.sell = s.sell /\ c.aged = s.aged
    BY <1>1 DEF ClaimStaleSubmission, PositionState
  <2> HIDE DEF c
  <2>2. Reported(m) = s \/ Reported(m) = AbandonUnconfirmedBuy(c)
    BY <1>2, <1>5 DEF Reported, c
  <2>3. Ticked[m] \in {s, c, Absent, ForgetUnresolved(s)}
    BY <1>1, <2>1, <2>2 DEF Ticked, ForgetUnresolved, AbandonUnconfirmedBuy,
       AbandonStaleSubmittedSell, Absent, Unconfirmed
  <2>4. Ticked[m] = Absent =>
          s.st \in Unconfirmed \cup {"none"} \/ (s.st = "submitted_sell" /\ s.aged)
    BY <1>1, <2>1, <2>2 DEF Ticked, ForgetUnresolved, AbandonUnconfirmedBuy,
       AbandonStaleSubmittedSell, Absent, Unconfirmed, PositionState
  <2>5. Moves(s, c, t, l)
    BY <1>1, <2>1 DEF Moves, SameLot, Alters, PlanStays, Held
  <2>6. Moves(s, ForgetUnresolved(s), t, l)
    BY <1>1, MovesOfMethods
  <2>7. ASSUME Ticked[m] = Absent PROVE Moves(s, Absent, t, l)
    <3>1. /\ Absent.st = "none" /\ Absent.st \notin Held
          /\ s.st = "none" => PlanStays(s, Absent)
          /\ s.st # "none" => Forgets(s, Absent, t, l)
      BY <1>1, <2>4, <2>7 DEF Absent, Held, Unconfirmed, PlanStays, Forgets
    <3>2. s.st # "selling"
      BY <2>4, <2>7 DEF Unconfirmed
    <3> QED
      BY <3>1, <3>2 DEF Moves, SameLot, Alters
  <2> QED
    BY <1>3, <2>3, <2>5, <2>6, <2>7
<1> QED
  BY <1>4, <1>5

(***************************************************************************)
(* Every step of the engine is a step of Custody for each of the mints.    *)
(***************************************************************************)
LEMMA MintFacts ==
  ASSUME TypeOK, AllGood, AllLots, NEW m \in Mints
  PROVE  /\ book[m] \in PositionState /\ task[m] \in [Ids -> Task]
         /\ landed[m] \in SUBSET Ids
         /\ Good(book[m], task[m], landed[m], boughtSeen[m], soldSeen[m], told[m])
         /\ LotGood(book[m], task[m])
         /\ book[m].st \in Held => book[m].buy \in landed[m] /\ task[m][book[m].buy].kind = "buy"
         /\ \A i \in landed[m] : task[m][i].stage # "free"
         /\ \A i \in Ids : task[m][i].kind = "sell" =>
              task[m][i].buy \in landed[m] /\ task[m][task[m][i].buy].kind = "buy"
BY DEF AllGood, AllLots, TypeOK, Good, GoodTasks, LotGood

LEMMA OneMintFollows ==
  ASSUME AllLots, NEW m \in Mints, Follows(m),
         \A n \in Mints \ {m} :
           book'[n] = book[n] /\ task'[n] = task[n] /\ landed'[n] = landed[n]
  PROVE  \A n \in Mints : Follows(n)
<1>1. ASSUME NEW n \in Mints \ {m} PROVE Follows(n)
  BY OtherMintFollows
<1> QED
  BY <1>1

LEMMA WorldFollows ==
  ASSUME TypeOK, AllGood, AllLots, NEW m \in Mints, NEW i \in Ids,
         Land(m, i) \/ SellStarts(m, i) \/ SendAccepted(m, i) \/ SendFails(m, i)
  PROVE  \A n \in Mints : Follows(n)
<1> DEFINE s == book[m]
           t == task[m]
           l == landed[m]
<1>0. /\ s \in PositionState /\ t \in [Ids -> Task] /\ l \in SUBSET Ids /\ LotGood(s, t)
      /\ \A j \in Ids : t[j].kind = "sell" => t[j].buy \in l /\ t[t[j].buy].kind = "buy"
  BY MintFacts
<1>1. CASE Land(m, i)
  <2>1. /\ i \notin l /\ t[i].stage # "free" /\ landed'[m] = l \cup {i}
        /\ t[i].kind = "sell" => \A j \in l : t[j].kind = "sell" => t[j].buy # t[i].buy
        /\ book' = book /\ task' = task /\ \A n \in Mints \ {m} : landed'[n] = landed[n]
    BY <1>1 DEF Land, TypeOK
  <2>2. LotGood(book'[m], task'[m])
    BY <1>0, <2>1
  <2>3. ASSUME NEW ids \in SUBSET Ids, NEW x
        PROVE  x \in LotsSold(t, ids) <=> \E j \in ids : t[j].kind = "sell" /\ x = t[j].buy
    BY DEF LotsSold
  <2>4. l \cup {i} \in SUBSET Ids
    BY <1>0
  <2>5. CASE t[i].kind = "buy"
    <3>1. Bought(t, l \cup {i}) = Bought(t, l) \cup {i} /\ i \in Orders(t, "buy") \ Bought(t, l)
      BY <2>1, <2>5 DEF Bought, Orders
    <3>2. \A x : x \in LotsSold(t, l \cup {i}) <=> x \in LotsSold(t, l)
      BY <1>0, <2>3, <2>4, <2>5
    <3>3. LotsSold(t, l \cup {i}) = LotsSold(t, l)
      BY <3>2
    <3>4. Custody!Chain(m)
      BY <2>1, <3>1, <3>3 DEF Custody!Chain, Custody!Deliver, Custody!SameLots, Bought
    <3> QED
      BY <2>1, <2>2, <3>4, OneMintFollows DEF Follows
  <2>6. CASE t[i].kind = "sell"
    <3> DEFINE x == t[i].buy
    <3>1. Bought(t, l \cup {i}) = Bought(t, l)
      BY <2>1, <2>6 DEF Bought
    <3>2. x \in Bought(t, l)
      BY <1>0, <2>6 DEF Bought
    <3>3. i \in Orders(t, "sell") /\ Orders(t, "sell") \in SUBSET Ids
      BY <2>1, <2>6 DEF Orders
    <3>4. x \in LotsSold(t, Orders(t, "sell"))
      BY <2>3, <2>6, <3>3
    <3>5. x \notin LotsSold(t, l)
      BY <1>0, <2>1, <2>3, <2>6
    <3>6. \A y : y \in LotsSold(t, l \cup {i}) <=> y \in LotsSold(t, l) \/ y = x
      BY <1>0, <2>3, <2>4, <2>6
    <3> HIDE DEF x
    <3>7. LotsSold(t, l \cup {i}) = LotsSold(t, l) \cup {x}
      BY <3>6
    <3>8. Custody!Chain(m)
      BY <2>1, <3>1, <3>2, <3>4, <3>5, <3>7
      DEF Custody!Chain, Custody!Sell, Custody!SameLots, Bought
    <3> QED
      BY <2>1, <2>2, <3>8, OneMintFollows DEF Follows
  <2> QED
    BY <1>0, <2>5, <2>6 DEF Task
<1>2. ASSUME NEW stage \in {"running", "ok", "err"}, t[i].stage \in Live,
             task' = [task EXCEPT ![m][i].stage = stage], UNCHANGED <<book, landed>>
      PROVE  \A n \in Mints : Follows(n)
  <2>1. task'[m] = [t EXCEPT ![i].stage = stage] /\ \A n \in Mints \ {m} : task'[n] = task[n]
    BY <1>2 DEF TypeOK
  <2>2. /\ LotsKept(t, task'[m], l) /\ Offered(task'[m]) = Offered(t)
        /\ \A j \in Ids : task'[m][j].kind = t[j].kind /\ task'[m][j].buy = t[j].buy
        /\ Sells(task'[m]) \subseteq Sells(t)
    <3> DEFINE u == task'[m]
    <3>1. Advanced(t, u, i, stage)
      BY <1>2, <2>1 DEF Advanced
    <3>2. t \in [Ids -> Task] /\ l \in SUBSET Ids
      BY <1>0
    <3> HIDE DEF u, t, l
    <3>3. LotsKept(t, u, l) /\ Offered(u) = Offered(t) /\ Sells(u) \subseteq Sells(t)
      BY <3>1, <3>2, LotsOfStage
    <3>4. \A j \in Ids : u[j].kind = t[j].kind /\ u[j].buy = t[j].buy
      BY <3>1, <3>2 DEF Advanced, Task
    <3> QED
      BY <3>3, <3>4 DEF u
  <2>3. LotGood(s, task'[m])
    <3>1. \A j \in Ids : t[j].kind = "sell" => t[j].buy \in Ids
      BY <1>0
    <3>2. s.st \in Held => s.buy \in Ids
      BY MintFacts
    <3>3. s.st = "submitted_sell" => s.sell \in Ids
      BY MintFacts DEF Good, Sent
    <3> DEFINE u == task'[m]
    <3>4. /\ \A j \in Ids : u[j].kind = t[j].kind /\ u[j].buy = t[j].buy
          /\ Sells(u) \subseteq Sells(t) /\ Sells(t) \subseteq Ids
      BY <2>2 DEF Sells
    <3> HIDE DEF u, t, s
    <3>5. \A j \in Sells(u) : u[j].buy = s.buy
      BY <1>0, <3>4 DEF LotGood
    <3>6. s.st = "submitted_sell" => u[s.sell].buy = s.buy
      BY <1>0, <3>3, <3>4 DEF LotGood
    <3>7. s.st \in Held => u[s.buy].kind = "buy"
      BY <1>0, <3>2, <3>4 DEF LotGood
    <3>8. \A j \in Ids : u[j].kind = "sell" => u[u[j].buy].kind = "buy"
      BY <1>0, <3>1, <3>4
    <3>9. LotGood(s, u)
      BY <3>5, <3>6, <3>7, <3>8 DEF LotGood
    <3> QED
      BY <3>9 DEF u
  <2>4. Alters(s, s, t, l) /\ ~Spawns(s, s)
    BY DEF Alters, PlanStays, Spawns
  <2>5. Follows(m)
    BY <1>0, <1>2, <2>2, <2>3, <2>4, PlanFollows DEF Follows
  <2> QED
    BY <1>2, <2>1, <2>5, OneMintFollows
<1>3. CASE SellStarts(m, i)
  BY <1>2, <1>3 DEF SellStarts, HasStage, Live
<1>4. CASE SendAccepted(m, i)
  BY <1>2, <1>4 DEF SendAccepted, Live
<1>5. CASE SendFails(m, i)
  BY <1>2, <1>5 DEF SendFails, Live
<1> QED
  BY <1>1, <1>3, <1>4, <1>5

LEMMA ConfirmationsFollow ==
  ASSUME TypeOK, AllGood, AllLots, NEW m \in Mints, NEW i \in Ids,
         OwnBuySeen(m, i) \/ OwnSellSeen(m, i)
  PROVE  \A n \in Mints : Follows(n)
<1> USE DEF seen, flags, fuses, outbox
<1>0. /\ book[m] \in PositionState /\ task[m] \in [Ids -> Task]
      /\ LotGood(book[m], task[m])
      /\ book[m].st \in Held => book[m].exact /\ book[m].buy \in landed[m]
                                /\ task[m][book[m].buy].kind = "buy"
  BY MintFacts DEF Good
<1>1. CASE OwnBuySeen(m, i)
  <2> DEFINE r == ConfirmBuy(book[m], i)
  <2>1. i \in landed[m] /\ i \in Bought(task[m], landed[m]) /\ landed' = landed
    BY <1>1 DEF OwnBuySeen, Bought
  <2>2. r \in PositionState /\ Quiet(book[m], r, landed[m]) /\ Moves(book[m], r, task[m], landed[m])
    BY <1>0, <2>1, PositionOperatorTypes, QuietOperators, MovesOfMethods
  <2>3. Commit([book EXCEPT ![m] = r], task)
    BY <1>1 DEF OwnBuySeen
  <2> HIDE DEF r
  <2>4. /\ book'[m] = r /\ task'[m] \in [Ids -> Task]
        /\ Committed(book[m], r, task[m], task'[m])
        /\ \A n \in Mints \ {m} : book'[n] = book[n] /\ task'[n] = task[n]
    BY <2>2, <2>3, CommitAt DEF TypeOK
  <2>5. Follows(m)
    BY <2>1, <2>2, <2>4, QuietFollows
  <2> QED
    BY <2>1, <2>4, <2>5, OneMintFollows
<1>2. CASE OwnSellSeen(m, i)
  <2> DEFINE r == ConfirmSell(book[m], i)
  <2>1. /\ i \in landed[m] /\ task[m][i].kind = "sell"
        /\ book' = [book EXCEPT ![m] = r] /\ UNCHANGED <<task, landed>>
    BY <1>2 DEF OwnSellSeen
  <2>2. book[m].st = "submitted_sell" => task[m][book[m].sell].buy = book[m].buy
    BY <1>0 DEF LotGood
  <2>3. r \in PositionState /\ Quiet(book[m], r, landed[m]) /\ Moves(book[m], r, task[m], landed[m])
    BY <1>0, <2>1, <2>2, PositionOperatorTypes, QuietOperators, MovesOfMethods
  <2>4. ~Spawns(book[m], r)
    BY DEF ConfirmSell, Absent, Spawns
  <2> HIDE DEF r
  <2>5. book'[m] = r /\ \A n \in Mints \ {m} : book'[n] = book[n]
    BY <2>1 DEF TypeOK
  <2>6. Committed(book[m], r, task[m], task'[m])
    BY <2>1, <2>4 DEF Committed
  <2>7. Follows(m)
    BY <1>0, <2>1, <2>3, <2>5, <2>6, QuietFollows
  <2> QED
    BY <2>1, <2>5, <2>7, OneMintFollows
<1> QED
  BY <1>1, <1>2

\* What handling the result of order i does to the mint's lots: nothing.
Settled(m, i, t) == task[m][i].stage \in {"ok", "err"} /\ t = Handled(m, i)[m]

LEMMA HandledLots ==
  ASSUME TypeOK, AllGood, AllLots, NEW m \in Mints, NEW i \in Ids,
         NEW t, Settled(m, i, t)
  PROVE  /\ t \in [Ids -> Task] /\ Handled(m, i) \in [Mints -> [Ids -> Task]]
         /\ \A n \in Mints \ {m} : Handled(m, i)[n] = task[n]
         /\ Sells(t) = Sells(task[m]) \ {i}
         /\ LotsKept(task[m], t, landed[m]) /\ Offered(t) = Offered(task[m])
         /\ \A j \in Ids : t[j].kind = task[m][j].kind /\ t[j].buy = task[m][j].buy
         /\ \A j \in Ids : j \in landed[m] => t[j].stage # "free"
         /\ \A j \in Ids : t[j].kind = "sell" =>
              t[j].buy \in landed[m] /\ t[t[j].buy].kind = "buy"
<1>0. /\ task[m] \in [Ids -> Task] /\ landed[m] \in SUBSET Ids
      /\ \A j \in landed[m] : task[m][j].stage # "free"
      /\ \A j \in Ids : task[m][j].kind = "sell" =>
           task[m][j].buy \in landed[m] /\ task[m][task[m][j].buy].kind = "buy"
  BY MintFacts
<1>1. /\ t \in [Ids -> Task] /\ Handled(m, i) \in [Mints -> [Ids -> Task]]
      /\ \A n \in Mints \ {m} : Handled(m, i)[n] = task[n]
      /\ Sells(t) = Sells(task[m]) \ {i}
  BY HandledTasks, HandledType DEF Settled
<1>2. Advanced(task[m], t, i, "done")
  BY DEF Handled, TypeOK, Advanced, Live, Settled
<1>3. LotsKept(task[m], t, landed[m]) /\ Offered(t) = Offered(task[m])
  <2> DEFINE v == task[m]
             l == landed[m]
             stage == "done"
  <2>1. v \in [Ids -> Task] /\ l \in SUBSET Ids
    BY <1>0
  <2>2. Advanced(v, t, i, stage)
    BY <1>2
  <2> HIDE DEF v, l, stage
  <2>3. LotsKept(v, t, l) /\ Offered(t) = Offered(v)
    BY <2>1, <2>2, LotsOfStage
  <2> QED
    BY <2>3 DEF v, l
<1>4. \A j \in Ids : t[j].kind = task[m][j].kind /\ t[j].buy = task[m][j].buy
  BY <1>0, <1>2 DEF Advanced, Task
<1>5. \A j \in Ids : j \in landed[m] => t[j].stage # "free"
  BY <1>0, <1>2 DEF Advanced, Task
<1>6. \A j \in Ids : t[j].kind = "sell" =>
        t[j].buy \in landed[m] /\ t[t[j].buy].kind = "buy"
  BY <1>0, <1>4
<1> QED
  BY <1>1, <1>3, <1>4, <1>5, <1>6

LEMMA ResultFollows ==
  ASSUME TypeOK, AllGood, AllLots, NEW m \in Mints, NEW i \in Ids,
         landed' = landed, NEW t, Settled(m, i, t),
         NEW r \in PositionState, Commit([book EXCEPT ![m] = r], Handled(m, i)),
         LotGood(r, t), Alters(book[m], r, task[m], landed[m]),
         Spawns(book[m], r) => Sells(t) = {} /\ r.buy \in landed[m]
  PROVE  \A n \in Mints : Follows(n)
<1>1. /\ t \in [Ids -> Task] /\ Handled(m, i) \in [Mints -> [Ids -> Task]]
      /\ \A n \in Mints \ {m} : Handled(m, i)[n] = task[n]
      /\ LotsKept(task[m], t, landed[m]) /\ Offered(t) = Offered(task[m])
      /\ \A j \in Ids : j \in landed[m] => t[j].stage # "free"
      /\ \A j \in Ids : t[j].kind = "sell" => t[j].buy \in landed[m]
  BY HandledLots
<1>2. /\ book'[m] = r /\ task'[m] \in [Ids -> Task]
      /\ Committed(book[m], r, t, task'[m])
      /\ \A n \in Mints \ {m} : book'[n] = book[n] /\ task'[n] = task[n]
  BY <1>1, CommitAt DEF Settled
<1>3. Follows(m)
  BY <1>1, <1>2, CommitFollows
<1> QED
  BY <1>2, <1>3, OneMintFollows

LEMMA BuyResultFollows ==
  ASSUME TypeOK, AllGood, AllLots, NEW m \in Mints, NEW i \in Ids,
         BuyAccepted(m, i) \/ BuyFailed(m, i)
  PROVE  \A n \in Mints : Follows(n)
<1> USE DEF seen, flags, fuses, outbox
<1> DEFINE s == book[m]
           t == Handled(m, i)[m]
           l == landed[m]
<1>0. /\ s \in PositionState /\ l \in SUBSET Ids /\ LotGood(s, task[m])
      /\ s.st = "selling" <=> Sells(task[m]) # {}
      /\ s.st \in Held => s.buy \in Ids
      /\ s.st = "submitted_sell" => s.sell \in Ids
      /\ boughtSeen[m] \subseteq l
  BY MintFacts DEF Good, Sent
<1>1. task[m][i].kind = "buy" /\ Settled(m, i, t) /\ landed' = landed
  BY DEF BuyAccepted, BuyFailed, HasStage, Settled
<1> HIDE DEF t
<1>2. /\ Sells(t) = Sells(task[m]) \ {i}
      /\ \A j \in Ids : t[j].kind = task[m][j].kind /\ t[j].buy = task[m][j].buy
      /\ \A j \in Ids : t[j].kind = "sell" => t[j].buy \in l /\ t[t[j].buy].kind = "buy"
  BY <1>1, HandledLots
\* An entry that keeps its lot, or that has none and no sell.
<1>3. LotGood(s, t)
  BY <1>0, <1>2 DEF LotGood, Sells
<1>4. ASSUME NEW r, s.st # "selling", r.st \in Held => r.buy = i, r.st # "submitted_sell"
      PROVE  LotGood(r, t)
  BY <1>0, <1>1, <1>2, <1>4 DEF LotGood
<1>5. CASE BuyFailed(m, i)
  <2> DEFINE r == FailBuy(s)
  <2>1. r \in PositionState /\ Commit([book EXCEPT ![m] = r], Handled(m, i))
    BY <1>0, <1>5, PositionOperatorTypes DEF BuyFailed
  <2>2. r = s \/ (s.st = "buying" /\ r.st = "none")
    BY DEF FailBuy, Absent
  <2>3. LotGood(r, t)
    BY <1>3, <1>4, <2>2 DEF Held
  <2>4. Alters(s, r, task[m], l) /\ ~Spawns(s, r)
    BY <2>2 DEF Alters, PlanStays, Forgets, Spawns, Unconfirmed
  <2> HIDE DEF r
  <2> QED
    BY <1>1, <2>1, <2>3, <2>4, ResultFollows
<1>6. CASE BuyAccepted(m, i)
  <2> DEFINE cached == s.st = "buying" /\ i \in boughtSeen[m]
             q == BuySubmitted(s, i)
             r == IF cached THEN ConfirmBuy(q, i) ELSE q
  <2>1. r \in PositionState /\ Commit([book EXCEPT ![m] = r], Handled(m, i))
    BY <1>0, <1>6, PositionOperatorTypes DEF BuyAccepted
  <2>2. CASE s.st # "buying"
    <3>1. r = s
      BY <2>2 DEF BuySubmitted
    <3>2. Alters(s, s, task[m], l) /\ ~Spawns(s, s)
      BY DEF Alters, PlanStays, Spawns
    <3> HIDE DEF r
    <3> QED
      BY <1>1, <1>3, <2>1, <3>1, <3>2, ResultFollows
  <2>3. CASE s.st = "buying" /\ ~cached
    <3>1. r.st = "submitted_buy" /\ r.exit = s.exit
      BY <1>0, <2>3 DEF BuySubmitted, Absent
    <3>2. Alters(s, r, task[m], l) /\ ~Spawns(s, r)
      BY <2>3, <3>1 DEF Alters, PlanStays, Spawns, Unconfirmed, Held
    <3>3. LotGood(r, t)
      BY <1>4, <2>3, <3>1 DEF Held
    <3> HIDE DEF r
    <3> QED
      BY <1>1, <2>1, <3>2, <3>3, ResultFollows
  <2>4. CASE cached
    <3>1. r.st = (IF s.exit THEN "selling" ELSE "open") /\ r.buy = i
      BY <1>0, <2>4 DEF BuySubmitted, ConfirmBuy, Absent
    <3>2. i \in l /\ i \in Bought(task[m], l)
      BY <1>0, <1>1, <2>4 DEF Bought
    <3>3. Alters(s, r, task[m], l)
      BY <1>0, <2>4, <3>1, <3>2 DEF Alters, BecomesHeld, Offers, Unconfirmed, PositionState
    <3>4. LotGood(r, t)
      <4>1. s.st # "selling" /\ r.st # "submitted_sell" /\ (r.st \in Held => r.buy = i)
        BY <2>4, <3>1
      <4> HIDE DEF r
      <4> QED
        BY <1>4, <4>1
    <3>5. Sells(t) = {}
      BY <1>0, <1>2, <2>4
    <3> HIDE DEF r
    <3> QED
      BY <1>1, <2>1, <3>1, <3>2, <3>3, <3>4, <3>5, ResultFollows
  <2> QED
    BY <2>2, <2>3, <2>4
<1> QED
  BY <1>5, <1>6

\* Among the tasks t the number i of a sell is given back; the sell did not
\* execute and will not.
GivenBack(t, u, i, l) ==
  /\ t[i].kind = "sell" /\ t[i].stage # "free" /\ i \notin l
  /\ u = [t EXCEPT ![i] = FreeTask]

\* Its lot is offered no longer, unless an earlier sell of the lot still may
\* execute or did; nothing else changes.
LEMMA LotsOfGivenBack ==
  ASSUME NEW t \in [Ids -> Task], NEW l \in SUBSET Ids, NEW i \in Ids,
         NEW u, GivenBack(t, u, i, l), \A j \in l : t[j].stage # "free"
  PROVE  /\ LotsKept(t, u, l)
         /\ \/ Offered(u) = Offered(t)
            \/ Offered(u) = Offered(t) \ {t[i].buy} /\ t[i].buy \notin LotsSold(t, l)
<1>1. /\ t[i].kind = "sell" /\ t[i].stage # "free" /\ i \notin l
      /\ u[i].kind = "buy" /\ u[i].stage = "free"
      /\ \A j \in Ids \ {i} : u[j] = t[j]
  BY DEF GivenBack, FreeTask
<1>2. Orders(u, "buy") = Orders(t, "buy") /\ Orders(u, "sell") = Orders(t, "sell") \ {i}
  BY <1>1 DEF Orders
<1>3. Bought(u, l) = Bought(t, l)
  BY <1>1 DEF Bought
<1>4. LotsSold(u, l) = LotsSold(t, l)
  BY <1>1 DEF LotsSold
<1>5. \A x : x \in Offered(t) <=> \E j \in Ids : t[j].kind = "sell" /\ t[j].stage # "free" /\ x = t[j].buy
  BY DEF Offered, LotsSold, Orders
<1>6. \A x : x \in Offered(u) <=>
        \E j \in Ids \ {i} : t[j].kind = "sell" /\ t[j].stage # "free" /\ x = t[j].buy
  BY <1>1 DEF Offered, LotsSold, Orders
<1>7. CASE \E j \in Ids \ {i} : t[j].kind = "sell" /\ t[j].stage # "free" /\ t[j].buy = t[i].buy
  <2>1. PICK j \in Ids \ {i} :
          t[j].kind = "sell" /\ t[j].stage # "free" /\ t[j].buy = t[i].buy
    BY <1>7
  <2>2. \A x : x \in Offered(u) <=> x \in Offered(t)
    BY <1>5, <1>6, <2>1
  <2>3. Offered(u) = Offered(t)
    BY <2>2
  <2> QED
    BY <1>2, <1>3, <1>4, <2>3 DEF LotsKept
<1>8. CASE ~\E j \in Ids \ {i} : t[j].kind = "sell" /\ t[j].stage # "free" /\ t[j].buy = t[i].buy
  <2>1. Offered(u) = Offered(t) \ {t[i].buy}
    BY <1>1, <1>5, <1>6, <1>8
  <2>2. t[i].buy \notin LotsSold(t, l)
    BY <1>1, <1>8 DEF LotsSold
  <2> QED
    BY <1>2, <1>3, <1>4, <2>1, <2>2 DEF LotsKept
<1> QED
  BY <1>7, <1>8

\* The sale failed for good: Custody keeps the lot, and withdraws the offer.
LEMMA GivenBackFollows ==
  ASSUME TypeOK, AllGood, AllLots, NEW m \in Mints, NEW i \in Ids, landed' = landed,
         book[m].st = "selling", Sells(task[m]) = {i},
         book'[m] \in PositionState, book'[m].st = "open", book'[m].buy = book[m].buy,
         GivenBack(task[m], task'[m], i, landed[m])
  PROVE  Follows(m)
<1> DEFINE s == book[m]
           r == book'[m]
           t == task[m]
           u == task'[m]
           l == landed[m]
<1>0. /\ s \in PositionState /\ r \in PositionState /\ t \in [Ids -> Task] /\ l \in SUBSET Ids
      /\ \A j \in l : t[j].stage # "free"
      /\ t[i].buy = s.buy /\ t[s.buy].kind = "buy" /\ s.buy \in l
      /\ \A j \in Ids : t[j].kind = "sell" => t[t[j].buy].kind = "buy"
  BY MintFacts DEF LotGood, Held
<1>1. /\ LotsKept(t, u, l)
      /\ \/ Offered(u) = Offered(t)
         \/ Offered(u) = Offered(t) \ {t[i].buy} /\ t[i].buy \notin LotsSold(t, l)
  BY <1>0, LotsOfGivenBack
<1>2. /\ LotsSold(u, landed'[m]) = LotsSold(t, l)
      /\ {j \in landed'[m] : u[j].kind = "buy"} = {j \in l : t[j].kind = "buy"}
      /\ Orders(u, "buy") = Orders(t, "buy")
  BY <1>1 DEF LotsKept, Bought
<1>3. /\ PlanOf(s) = "parting" /\ PlanOf(r) = "holding"
      /\ LotOf(s) = s.buy /\ LotOf(r) = s.buy /\ ~LateOf(r)
  BY <1>0, PlanCases
<1>4. Custody!Plan(m)
  <2>1. CASE Offered(u) = Offered(t)
    BY <1>2, <1>3, <2>1
       DEF Custody!Plan, Custody!Keep, Custody!Becomes, Custody!SameLots, Offered
  <2>2. CASE Offered(u) = Offered(t) \ {t[i].buy} /\ t[i].buy \notin LotsSold(t, l)
    BY <1>0, <1>2, <1>3, <2>2
       DEF Custody!Plan, Custody!Keep, Custody!Becomes, Custody!Withdraw, Offered
  <2> QED
    BY <1>1, <2>1, <2>2
<1>5. LotGood(r, u)
  <2>1. /\ u[i].kind = "buy" /\ u[i].stage = "free"
        /\ \A j \in Ids \ {i} : u[j] = t[j]
    BY <1>0 DEF GivenBack, FreeTask
  <2>2. Sells(u) = {}
    BY <2>1 DEF Sells, Live
  <2>3. u[s.buy].kind = "buy"
    BY <1>0, <2>1
  <2>4. \A j \in Ids : u[j].kind = "sell" => u[u[j].buy].kind = "buy"
    <3> SUFFICES ASSUME NEW j \in Ids, u[j].kind = "sell"
                 PROVE  u[u[j].buy].kind = "buy"
      OBVIOUS
    <3>1. j # i /\ u[j] = t[j] /\ t[j].buy \in Ids
      BY <2>1, MintFacts
    <3> QED
      BY <1>0, <2>1, <3>1
  <2> QED
    BY <2>2, <2>3, <2>4 DEF LotGood
<1> QED
  BY <1>4, <1>5 DEF Follows

LEMMA SellResultFollows ==
  ASSUME TypeOK, AllGood, AllLots, NEW m \in Mints, NEW i \in Ids,
         SellAccepted(m, i) \/ SellFailed(m, i)
  PROVE  \A n \in Mints : Follows(n)
<1> USE DEF seen, flags, fuses, outbox
<1> DEFINE s == book[m]
           t == Handled(m, i)[m]
           l == landed[m]
<1>1. task[m][i].kind = "sell" /\ Settled(m, i, t) /\ landed' = landed
  BY DEF SellAccepted, SellFailed, HasStage, Settled
<1> HIDE DEF t
<1>2. i \in Sells(task[m])
  BY <1>1 DEF Sells, Live, Settled
<1>3. /\ s \in PositionState /\ s.st = "selling" /\ Sells(task[m]) = {i}
      /\ s.buy \in l /\ s.buy \in Ids /\ task[m][s.buy].kind = "buy" /\ task[m][i].buy = s.buy
      /\ soldSeen[m] \subseteq l
  BY <1>2, MintFacts DEF Good, LotGood, Held
<1>4. /\ Sells(t) = {}
      /\ \A j \in Ids : t[j].kind = task[m][j].kind /\ t[j].buy = task[m][j].buy
      /\ \A j \in Ids : t[j].kind = "sell" => t[j].buy \in l /\ t[t[j].buy].kind = "buy"
  BY <1>1, <1>3, HandledLots
<1>5. ASSUME NEW r \in PositionState, Commit([book EXCEPT ![m] = r], Handled(m, i)),
             \/ r.st = "open" /\ r.buy = s.buy
             \/ r.st = "submitted_sell" /\ r.buy = s.buy /\ r.sell = i /\ ~r.aged
             \/ r.st = "none" /\ i \in l
      PROVE  \A n \in Mints : Follows(n)
  <2>1. LotGood(r, t)
    BY <1>3, <1>4, <1>5 DEF LotGood, Held
  <2>2. i \in l => s.buy \in LotsSold(task[m], l)
    BY <1>1, <1>3 DEF LotsSold
  <2>3. Alters(s, r, task[m], l) /\ ~Spawns(s, r)
    BY <1>3, <1>5, <2>2 DEF Alters, Answered, Forgets, Spawns
  <2> QED
    BY <1>1, <1>5, <2>1, <2>3, ResultFollows
<1>6. CASE SellFailed(m, i)
  <2> DEFINE r == FailSell(s)
             b == [book EXCEPT ![m] = r]
  <2>1. /\ r \in PositionState /\ HasStage(m, i, "sell", "err")
        /\ Commit(b, Handled(m, i)) \/ (i \notin l /\ Commit(b, Recycled(m, i)))
    BY <1>3, <1>6, PositionOperatorTypes DEF SellFailed
  <2>2. r.st = "open" /\ r.buy = s.buy
    BY <1>3 DEF FailSell, PositionState
  <2> HIDE DEF r
  <2>3. CASE Commit(b, Handled(m, i))
    BY <1>5, <2>1, <2>2, <2>3
  <2>4. CASE i \notin l /\ Commit(b, Recycled(m, i))
    <3> DEFINE w == Recycled(m, i)
    <3>1. w \in [Mints -> [Ids -> Task]] /\ w[m] = [task[m] EXCEPT ![i] = FreeTask]
          /\ \A n \in Mints \ {m} : w[n] = task[n]
      BY RecycledType DEF Recycled, TypeOK
    <3> HIDE DEF w
    <3>2. Commit([book EXCEPT ![m] = r], w) /\ ~Spawns(s, r)
      BY <2>2, <2>4 DEF Spawns, w
    <3>3. /\ book'[m] = r /\ Committed(s, r, w[m], task'[m])
          /\ \A n \in Mints \ {m} : book'[n] = book[n] /\ task'[n] = task[n]
      BY <2>1, <3>1, <3>2, CommitAt
    <3>4. task'[m] = w[m]
      BY <3>2, <3>3 DEF Committed
    <3>5. GivenBack(task[m], task'[m], i, l)
      BY <2>1, <2>4, <3>1, <3>4 DEF GivenBack, HasStage
    <3>6. Follows(m)
      BY <1>1, <1>3, <2>1, <2>2, <3>3, <3>5, GivenBackFollows
    <3> QED
      BY <1>1, <3>3, <3>6, OneMintFollows
  <2> QED
    BY <2>1, <2>3, <2>4
<1>7. CASE SellAccepted(m, i)
  <2> DEFINE cached == s.st = "selling" /\ i \in soldSeen[m]
             q == SellSubmitted(s, i)
             r == IF cached THEN ConfirmSell(q, i) ELSE q
  <2>1. r \in PositionState /\ Commit([book EXCEPT ![m] = r], Handled(m, i))
    BY <1>3, <1>7, PositionOperatorTypes DEF SellAccepted
  <2>2. q.st = "submitted_sell" /\ q.sell = i /\ q.buy = s.buy /\ ~q.aged
    BY <1>3 DEF SellSubmitted, PositionState
  <2>3. cached => r.st = "none" /\ i \in l
    BY <1>3, <2>2 DEF ConfirmSell, Absent
  <2>4. ~cached => r = q
    OBVIOUS
  <2> HIDE DEF r, q, cached
  <2> QED
    BY <1>5, <2>1, <2>2, <2>3, <2>4
<1> QED
  BY <1>6, <1>7

\* A mint whose entry changes in none of the ways that concern an order result.
LEMMA QuietStepFollows ==
  ASSUME TypeOK, AllGood, AllLots, NEW m \in Mints, UNCHANGED landed,
         NEW r \in PositionState, book'[m] = r, task'[m] \in [Ids -> Task],
         Committed(book[m], r, task[m], task'[m]),
         Quiet(book[m], r, landed[m]), Moves(book[m], r, task[m], landed[m])
  PROVE  Follows(m)
BY QuietFollows

LEMMA MintStepFollows ==
  ASSUME TypeOK, AllGood, AllLots, NEW m \in Mints, MintStep(m)
  PROVE  \A n \in Mints : Follows(n)
<1> USE DEF seen, flags, fuses, outbox
<1> DEFINE s == book[m]
           t == task[m]
           l == landed[m]
<1>0. /\ s \in PositionState /\ t \in [Ids -> Task] /\ l \in SUBSET Ids /\ LotGood(s, t)
      /\ s.st = "selling" <=> Sells(t) # {}
      /\ s.st \in Held => s.exact /\ s.buy \in l /\ t[s.buy].kind = "buy"
      /\ \A i \in Ids : t[i].kind = "sell" => t[i].buy \in l /\ t[t[i].buy].kind = "buy"
      /\ \A i \in l : t[i].stage # "free"
  BY MintFacts DEF Good
\* A quiet change of the entry alone, which does not enter Selling.
<1>1. ASSUME NEW r \in PositionState, Quiet(s, r, l), Moves(s, r, t, l), ~Spawns(s, r),
             book' = [book EXCEPT ![m] = r], UNCHANGED <<task, landed>>
      PROVE  \A n \in Mints : Follows(n)
  <2>1. Committed(s, r, t, task'[m])
    BY <1>1 DEF Committed
  <2>2. book'[m] = r /\ \A n \in Mints \ {m} : book'[n] = book[n]
    BY <1>1 DEF TypeOK
  <2>3. Follows(m)
    BY <1>0, <1>1, <2>1, <2>2, QuietStepFollows
  <2> QED
    BY <1>1, <2>2, <2>3, OneMintFollows
<1>2. CASE Age(m)
  <2> DEFINE r == [s EXCEPT !.aged = TRUE]
  <2>1. r \in PositionState /\ r.st = s.st
    BY <1>0 DEF PositionState
  <2>2. Quiet(s, r, l) /\ Moves(s, r, t, l)
    BY <1>0, QuietOperators, MovesOfMethods
  <2>3. ~Spawns(s, r)
    BY <2>1 DEF Spawns
  <2>4. book' = [book EXCEPT ![m] = r] /\ UNCHANGED <<task, landed>>
    BY <1>2 DEF Age, TypeOK
  <2> HIDE DEF r
  <2> QED
    BY <1>1, <2>1, <2>2, <2>3, <2>4
<1>3. CASE TimerFires(m) \/ ReleaseTaken(m) \/ CreateRefused(m)
  BY <1>3, OtherMintFollows DEF TimerFires, ReleaseTaken, CreateRefused
<1>4. CASE CreateNotAudited(m) \/ CreateCongested(m)
  <2> DEFINE r == FailBuy(BeginBuy(s))
  <2>1. /\ r \in PositionState /\ r.st = "none"
        /\ book' = [book EXCEPT ![m] = r] /\ UNCHANGED <<task, landed>> /\ s.st = "none"
    BY <1>0, <1>4 DEF FailBuy, BeginBuy, Absent, PositionState, States,
       CreateNotAudited, CreateCongested
  <2>2. Quiet(s, r, l) /\ Moves(s, r, t, l) /\ ~Spawns(s, r)
    BY <1>0, <2>1, QuietOperators, MovesOfMethods DEF Spawns
  <2> HIDE DEF r
  <2> QED
    BY <1>1, <2>1, <2>2
<1>5. CASE CreatorSellSeen(m)
  <2> DEFINE r == RequestSell(s)
  <2>1. r \in PositionState /\ Quiet(s, r, l) /\ Moves(s, r, t, l)
    BY <1>0, QuietOperators, MovesOfMethods DEF RequestSell, Unconfirmed, PositionState, States
  <2>2. Commit([book EXCEPT ![m] = r], task) /\ landed' = landed
    BY <1>5 DEF CreatorSellSeen
  <2> HIDE DEF r
  <2>3. /\ book'[m] = r /\ task'[m] \in [Ids -> Task]
        /\ Committed(book[m], r, task[m], task'[m])
        /\ \A n \in Mints \ {m} : book'[n] = book[n] /\ task'[n] = task[n]
    BY <2>1, <2>2, CommitAt DEF TypeOK
  <2>4. Follows(m)
    BY <2>1, <2>2, <2>3, QuietStepFollows
  <2> QED
    BY <2>2, <2>3, <2>4, OneMintFollows
<1>6. CASE CreateBought(m)
  <2>1. s.st = "none" /\ book' = [book EXCEPT ![m] = BeginBuy(@)] /\ landed' = landed
    BY <1>6 DEF CreateBought
  <2>2. PICK i \in Ids : /\ t[i].stage = "free"
                         /\ Started(t, BuyTask) = [t EXCEPT ![i] = BuyTask]
    BY <1>0, <1>6, BuyTaskStarted, StartedTask
  <2>3. /\ task'[m] = [t EXCEPT ![i] = BuyTask]
        /\ \A n \in Mints \ {m} : task'[n] = task[n]
    <3>1. task' = [task EXCEPT ![m] = Started(t, BuyTask)]
      BY <1>6 DEF CreateBought
    <3>2. task \in [Mints -> [Ids -> Task]]
      BY DEF TypeOK
    <3>3. task'[m] = Started(t, BuyTask) /\ \A n \in Mints \ {m} : task'[n] = task[n]
      BY <3>1, <3>2
    <3> QED
      BY <2>2, <3>3
  <2>4. /\ book'[m].st = "buying" /\ ~book'[m].exit /\ book'[m] \in PositionState
        /\ \A n \in Mints \ {m} : book'[n] = book[n]
    BY <1>0, <2>1 DEF BeginBuy, Absent, TypeOK, PositionState, States
  <2> DEFINE u == task'[m]
             new == BuyTask
  <2>5. new \in Task /\ new.kind = "buy" /\ Placed(t, u, i, new)
    BY <2>2, <2>3 DEF Placed, BuyTask, FreeTask, Task
  <2>6. i \notin l
    BY <1>0, <2>2
  <2>7. i \notin Orders(t, "buy") /\ i \notin LotsSold(t, Orders(t, "sell"))
    <3>1. \A j \in Ids : t[j].kind = "sell" => t[j].buy # i
      BY <1>0, <2>6
    <3> QED
      BY <2>2, <3>1 DEF Orders, LotsSold
  <2> HIDE DEF u, new, t, l
  <2>8. /\ Bought(u, l) = Bought(t, l) /\ LotsSold(u, l) = LotsSold(t, l)
        /\ Orders(u, "buy") = Orders(t, "buy") \cup {i} /\ Offered(u) = Offered(t)
    BY <1>0, <2>5, <2>6, LotsOfOrder
  <2>9. Custody!Want(m)
    <3>1. PlanOf(s) = "idle"
      BY <1>0, <2>1, PlanCases
    <3>2. PlanOf(book'[m]) = "wanting" /\ LotOf(book'[m]) = NoId /\ ~LateOf(book'[m])
      BY <2>4, PlanCases DEF Unconfirmed
    <3> QED
      BY <2>7, <2>8, <3>1, <3>2
         DEF Custody!Want, Custody!Becomes, Offered, u, t
  <2>10. Custody!Plan(m)
    BY <2>1, <2>8, <2>9 DEF Custody!Plan, Bought, u, t, l
  <2>11. LotGood(book'[m], u)
    <3>1. /\ u[i] = new /\ new.kind = "buy" /\ \A j \in Ids \ {i} : u[j] = t[j]
      BY <1>0, <2>5 DEF Placed
    <3>2. Sells(t) = {} /\ i \notin Sells(u)
      BY <1>0, <2>1, <3>1 DEF Sells
    <3>3. Sells(u) = {}
      BY <3>1, <3>2 DEF Sells
    <3>4. \A j \in Ids : u[j].kind = "sell" => u[j].buy \in l \ {i} /\ t[u[j].buy].kind = "buy"
      BY <1>0, <2>6, <3>1
    <3>5. \A j \in Ids : u[j].kind = "sell" => u[u[j].buy].kind = "buy"
      BY <1>0, <3>1, <3>4
    <3> QED
      BY <2>4, <3>3, <3>5 DEF LotGood, Held
  <2> QED
    BY <2>1, <2>3, <2>4, <2>10, <2>11, OneMintFollows DEF Follows, u
<1> QED
  BY <1>2, <1>3, <1>4, <1>5, <1>6 DEF MintStep

LEMMA ActorStepFollows ==
  ASSUME TypeOK, AllGood, AllLots, ActorStep
  PROVE  \A m \in Mints : Follows(m)
<1> USE DEF seen, flags, fuses, outbox
<1>0. ASSUME NEW m \in Mints
      PROVE  /\ book[m] \in PositionState /\ task[m] \in [Ids -> Task]
             /\ book[m].st \in Held => /\ book[m].exact /\ book[m].buy \in landed[m]
                                       /\ task[m][book[m].buy].kind = "buy"
  BY MintFacts DEF Good
\* A book all of whose entries change quietly.
<1>1. ASSUME NEW b \in [Mints -> PositionState],
             \A m \in Mints : Quiet(book[m], b[m], landed[m]),
             \A m \in Mints : Moves(book[m], b[m], task[m], landed[m]),
             Commit(b, task), landed' = landed
      PROVE  \A m \in Mints : Follows(m)
  <2> TAKE m \in Mints
  <2>1. /\ book'[m] = b[m] /\ task'[m] \in [Ids -> Task]
        /\ Committed(book[m], b[m], task[m], task'[m])
    BY <1>1, CommitOne DEF Committed, TypeOK
  <2> QED
    BY <1>1, <2>1, QuietStepFollows
<1>2. CASE Start
  <2>1. /\ book' = Forgotten /\ UNCHANGED <<task, landed>>
        /\ Forgotten \in [Mints -> PositionState]
    BY <1>2, ActorStepShape, CommandBooks
  <2> TAKE m \in Mints
  <2>2. Forgotten[m] = ForgetUnresolved(book[m])
    BY DEF Forgotten
  <2>3. /\ Quiet(book[m], Forgotten[m], landed[m])
        /\ Moves(book[m], Forgotten[m], task[m], landed[m])
    BY <1>0, <2>2, QuietOperators, MovesOfMethods
  <2>4. ~Spawns(book[m], Forgotten[m])
    BY <2>2 DEF ForgetUnresolved, AbandonUnconfirmedBuy, AbandonStaleSubmittedSell, Absent, Spawns
  <2>5. Committed(book[m], Forgotten[m], task[m], task'[m])
    BY <2>1, <2>4 DEF Committed
  <2> QED
    BY <1>0, <2>1, <2>3, <2>5, QuietStepFollows
<1>3. CASE StopGracefully
  <2>1. \A m \in Mints : /\ Quiet(book[m], SellRequested[m], landed[m])
                         /\ Moves(book[m], SellRequested[m], task[m], landed[m])
    BY <1>0, QuietOperators, MovesOfMethods DEF SellRequested
  <2> QED
    BY <1>1, <1>3, <2>1, ActorStepShape, CommandBooks
<1>4. CASE ForceStop \/ JournalDrops \/ IntegrityChanges
  BY <1>4, OtherMintFollows DEF ForceStop, JournalDrops, IntegrityChanges
<1>5. CASE Tick
  <2>1. \A m \in Mints : /\ Quiet(book[m], Ticked[m], landed[m])
                         /\ Moves(book[m], Ticked[m], task[m], landed[m])
    BY <1>0, QuietTick, MovesOfTick
  <2> QED
    BY <1>1, <1>5, <2>1, ActorStepShape, CommandBooks
<1>6. ASSUME NEW holding \in [Mints -> Ids \cup {NoId}], SellAll(holding)
      PROVE  \A m \in Mints : Follows(m)
  <2>1. /\ Commit(ImportedAndSold(holding), task) /\ landed' = landed
        /\ ImportedAndSold(holding) \in [Mints -> PositionState]
        /\ \A m \in Mints : holding[m] # NoId =>
             holding[m] \in landed[m] /\ task[m][holding[m]].kind = "buy"
    BY <1>6, ActorStepShape, CommandBooks
  <2>2. ASSUME NEW m \in Mints
        PROVE  /\ Quiet(book[m], ImportedAndSold(holding)[m], landed[m])
               /\ Moves(book[m], ImportedAndSold(holding)[m], task[m], landed[m])
    <3>1. CASE holding[m] = NoId
      <4>1. ImportedAndSold(holding)[m] = RequestSell(book[m])
        BY <3>1 DEF ImportedAndSold, Imported
      <4> QED
        BY <1>0, <4>1, QuietOperators, MovesOfMethods
    <3>2. CASE holding[m] # NoId
      <4>1. ImportedAndSold(holding)[m] = RequestSell(ImportOpen(book[m], holding[m]))
        BY <3>2 DEF ImportedAndSold, Imported
      <4>2. holding[m] \in landed[m] /\ holding[m] \in Bought(task[m], landed[m])
        BY <2>1, <3>2 DEF Bought
      <4> QED
        BY <1>0, <4>1, <4>2, QuietOperators, MovesOfMethods
    <3> QED
      BY <3>1, <3>2
  <2> QED
    BY <1>1, <2>1, <2>2
<1> QED
  BY <1>2, <1>3, <1>4, <1>5, <1>6 DEF ActorStep

LEMMA StepFollows ==
  ASSUME TypeOK, AllGood, AllLots, [Next]_vars
  PROVE  AllLots' /\ [Custody!Next]_Custody!vars
<1>1. \A m \in Mints : Follows(m)
  <2>1. CASE UNCHANGED vars
    BY <2>1, OtherMintFollows DEF vars
  <2>2. CASE \E m \in Mints, i \in Ids : OrderStep(m, i)
    BY <2>2, WorldFollows, ConfirmationsFollow, BuyResultFollows, SellResultFollows DEF OrderStep
  <2>3. CASE \E m \in Mints : MintStep(m)
    BY <2>3, MintStepFollows
  <2>4. CASE ActorStep
    BY <2>4, ActorStepFollows
  <2> QED
    BY <2>1, <2>2, <2>3, <2>4 DEF Next
<1>2. AllLots'
  BY <1>1 DEF AllLots, Follows
<1>3. Custody!Next
  BY <1>1 DEF Custody!Next, Follows
<1> QED
  BY <1>2, <1>3

LEMMA InitLots ==
  ASSUME Init
  PROVE  AllLots /\ Custody!Init
<1>1. /\ book = [m \in Mints |-> Absent]
      /\ task = [m \in Mints |-> [i \in Ids |-> FreeTask]]
      /\ landed = [m \in Mints |-> {}]
  BY DEF Init
<1>2. Absent.st = "none" /\ FreeTask.kind = "buy" /\ FreeTask.stage = "free"
  BY DEF Absent, FreeTask
<1>3. AllLots
  BY <1>1, <1>2 DEF AllLots, LotGood, Sells, Held
<1>4. PlanOf(Absent) = "idle" /\ LotOf(Absent) = NoId /\ LateOf(Absent) = FALSE
  <2>1. Absent \in PositionState
    BY DEF Absent, PositionState, States
  <2>2. LateOf(Absent) = FALSE
    BY <1>2 DEF LateOf
  <2> QED
    BY <1>2, <2>1, <2>2, PlanCases
<1>5. ASSUME NEW m \in Mints
      PROVE  /\ \A kind : Orders(task[m], kind) = {}
             /\ {i \in landed[m] : task[m][i].kind = "buy"} = {}
             /\ LotsSold(task[m], {}) = {}
  BY <1>1, <1>2 DEF Orders, LotsSold
<1>6. Custody!Init
  BY <1>1, <1>4, <1>5 DEF Custody!Init
<1> QED
  BY <1>3, <1>6

(***************************************************************************)
(* Over every interleaving of orders, results, events, commands and        *)
(* timeouts, the sells of a mint sell the lot its entry is about.          *)
(***************************************************************************)
LEMMA LotsStayGood == Spec => [](TypeOK /\ AllGood /\ AllLots)
<1>1. Init => AllLots
  BY InitLots
<1>2. TypeOK /\ AllGood /\ AllLots /\ [Next]_vars => AllLots'
  BY StepFollows
<1>3. IInv => TypeOK /\ AllGood
  BY IInvIsGood
<1> QED
  BY <1>1, <1>2, <1>3, EngineInvariant, PTL DEF Spec

\* The sale in execution, and the one that was submitted, are of the very lot
\* the entry is about, in every reachable state (engine.rs:354-489).
THEOREM SaleIsOfTheLotHolds == Spec => []SaleIsOfTheLot
<1>1. TypeOK /\ AllGood /\ AllLots => SaleIsOfTheLot
  BY DEF AllLots, LotGood, SaleIsOfTheLot, LiveSells, Sells
<1> QED
  BY <1>1, LotsStayGood, PTL

\* The order actor implements Custody: delivered lots only are held and sold, a
\* lot is sold only while the program plans to, and it is put out of mind only
\* when it was sold or is overdue (engine.rs:254-280, 354-489, 511-615).
THEOREM EngineImplementsCustody == Spec => ImplementsCustody
<1>1. Init => Custody!Init
  BY InitLots
<1>2. TypeOK /\ AllGood /\ AllLots /\ [Next]_vars => [Custody!Next]_Custody!vars
  BY StepFollows
<1> QED
  BY <1>1, <1>2, LotsStayGood, PTL DEF Spec, ImplementsCustody, Custody!Spec

-----------------------------------------------------------------------------
(***************************************************************************)
(* The router and the frame channel only restrict the order actor: what is *)
(* proved of Engine holds of the composition.                              *)
(***************************************************************************)
LEMMA SniperStepIsEngineStep == SniperNext \/ UNCHANGED sniperVars => Next \/ UNCHANGED vars
<1>1. ASSUME NEW m \in Mints, RouteCreate(m) \/ RouteCreatorSell(m) \/ ReleaseTarget(m)
      PROVE  Next \/ UNCHANGED vars
  BY <1>1 DEF RouteCreate, RouteCreatorSell, ReleaseTarget, engineVars, Next, MintStep
<1>2. ASSUME NEW m \in Mints, NEW i \in Ids, RouteOwnTrade(m, i) \/ HandleFrame(m, i)
      PROVE  Next \/ UNCHANGED vars
  BY <1>2 DEF RouteOwnTrade, HandleFrame, CreatorSellIgnored, CreateIgnored, engineVars,
     Next, OrderStep, MintStep
<1>3. ASSUME NEW holding \in [Mints -> Ids \cup {NoId}], RecoverAndSell(holding)
      PROVE  Next
  BY <1>3 DEF RecoverAndSell, Next, ActorStep
<1>4. ASSUME EngineStep PROVE Next
  BY <1>4 DEF EngineStep, OrderAdvances, Next, OrderStep, MintStep, ActorStep
<1>5. UNCHANGED sniperVars => UNCHANGED vars
  BY DEF sniperVars
<1> QED
  BY <1>1, <1>2, <1>3, <1>4, <1>5 DEF SniperNext

\* Every behaviour of router and order actor together is one of the order actor
\* among the events Engine leaves open: its theorems hold of the composition.
THEOREM SniperImplementsEngine == SniperSpec => Spec
<1>1. SniperInit => Init
  BY DEF SniperInit
<1>2. [SniperNext]_sniperVars => [Next]_vars
  BY SniperStepIsEngineStep
<1> QED
  BY <1>1, <1>2, PTL DEF SniperSpec, Spec

-----------------------------------------------------------------------------
(***************************************************************************)
(* The creates in the frame channel.                                       *)
(***************************************************************************)
IsCreate(f, m) == f.kind = "create" /\ f.mint = m

CreatesIn(fr, m) == {k \in 1..Len(fr) : IsCreate(fr[k], m)}

LEMMA AppendCreates ==
  ASSUME NEW fr \in Seq(Frame), NEW f \in Frame, NEW m
  PROVE  /\ Append(fr, f) \in Seq(Frame)
         /\ ~IsCreate(f, m) => CreatesIn(Append(fr, f), m) = CreatesIn(fr, m)
         /\ IsCreate(f, m) => CreatesIn(Append(fr, f), m) = CreatesIn(fr, m) \cup {Len(fr) + 1}
<1> DEFINE g == Append(fr, f)
<1>1. /\ g \in Seq(Frame) /\ Len(g) = Len(fr) + 1 /\ Len(fr) \in Nat
      /\ \A k \in 1..Len(fr) : g[k] = fr[k]
      /\ g[Len(fr) + 1] = f
  BY AppendProperties
<1> HIDE DEF g
<1>2. 1..Len(g) = (1..Len(fr)) \cup {Len(fr) + 1}
  BY <1>1
<1>3. Len(fr) + 1 \notin 1..Len(fr)
  BY <1>1
<1>4. ~IsCreate(f, m) => CreatesIn(g, m) = CreatesIn(fr, m)
  BY <1>1, <1>2, <1>3 DEF CreatesIn
<1>5. IsCreate(f, m) => CreatesIn(g, m) = CreatesIn(fr, m) \cup {Len(fr) + 1}
  BY <1>1, <1>2, <1>3 DEF CreatesIn
<1> QED
  BY <1>1, <1>4, <1>5 DEF g

LEMMA TailCreates ==
  ASSUME NEW fr \in Seq(Frame), fr # <<>>, NEW m
  PROVE  /\ Tail(fr) \in Seq(Frame)
         /\ \A k \in CreatesIn(Tail(fr), m) :
              k + 1 \in CreatesIn(fr, m) /\ k \in Int /\ k + 1 # 1
         /\ IsCreate(Head(fr), m) => 1 \in CreatesIn(fr, m)
<1>1. /\ Tail(fr) \in Seq(Frame) /\ Len(Tail(fr)) = Len(fr) - 1
      /\ Len(fr) \in Nat /\ Len(fr) # 0 /\ Head(fr) = fr[1]
      /\ \A k \in 1..Len(Tail(fr)) : Tail(fr)[k] = fr[k + 1]
  BY HeadTailProperties, EmptySeq
<1>2. \A k \in 1..Len(Tail(fr)) : k + 1 \in 1..Len(fr) /\ k \in Int /\ k + 1 # 1
  BY <1>1
<1>3. \A k \in CreatesIn(Tail(fr), m) :
        k + 1 \in CreatesIn(fr, m) /\ k \in Int /\ k + 1 # 1
  BY <1>1, <1>2 DEF CreatesIn
<1>4. 1 \in 1..Len(fr)
  BY <1>1
<1> QED
  BY <1>1, <1>3, <1>4 DEF CreatesIn

-----------------------------------------------------------------------------
(***************************************************************************)
(* The inductive invariant, for a mint nothing was recovered of.  While a  *)
(* create of it waits or it has an entry, it is watched (and the target of *)
(* a scan) and no release of it is under way; and nothing of it is under   *)
(* way before its create was seen, which happens once.                     *)
(***************************************************************************)
Guarded(m) ==
  /\ mode # "direct" => m \in watched
  /\ mode = "scan" => target = m

Undisturbed(m) == m \in created /\ releases[m] = 0 /\ timers[m] = 0 /\ Guarded(m)

Minded(m) ==
  /\ \A j, k \in CreatesIn(frames, m) : j = k
  /\ CreatesIn(frames, m) # {} => book[m].st = "none" /\ Undisturbed(m)
  /\ book[m].st # "none" => Undisturbed(m)
  /\ releases[m] # 0 \/ timers[m] # 0 => m \in created

WatchInv ==
  /\ frames \in Seq(Frame)
  /\ \A m \in Mints \ imported : Minded(m)

\* The order actor opens no entry, and releases the target only of an entry it
\* removes.
Calm(m) ==
  /\ book[m].st = "none" => book'[m].st = "none"
  /\ releases'[m] # releases[m] \/ timers'[m] # timers[m] =>
       \/ book[m].st # "none" /\ book'[m].st = "none"
       \/ releases[m] # 0 \/ timers[m] # 0

LEMMA MethodsOpenNothing ==
  ASSUME NEW s, s.st = "none"
  PROVE  /\ RequestSell(s) = s /\ ForgetUnresolved(s) = s /\ ClaimTimeout(s) = s
         /\ FailBuy(s) = s /\ FailSell(s) = s
         /\ \A i : /\ ConfirmBuy(s, i) = s /\ ConfirmSell(s, i) = s
                   /\ BuySubmitted(s, i) = s /\ SellSubmitted(s, i) = s
BY DEF RequestSell, ForgetUnresolved, AbandonUnconfirmedBuy, AbandonStaleSubmittedSell,
       ClaimTimeout, FailBuy, FailSell, ConfirmBuy, ConfirmSell, BuySubmitted,
       SellSubmitted, Unconfirmed

LEMMA CalmAt ==
  ASSUME TypeOK, NEW m \in Mints, NEW r, book' = [book EXCEPT ![m] = r],
         book[m].st = "none" => r = book[m], NEW n \in Mints,
         \/ releases'[n] = releases[n] /\ timers'[n] = timers[n]
         \/ n = m /\ book[m].st # "none" /\ r.st = "none"
  PROVE  Calm(n)
BY DEF Calm, TypeOK

LEMMA OrderStepCalm ==
  ASSUME TypeOK, NEW m \in Mints, NEW i \in Ids, OrderStep(m, i), NEW n \in Mints
  PROVE  Calm(n)
<1> USE DEF flags, fuses, seen, outbox
<1>0. book[m] \in PositionState
  BY DEF TypeOK
<1>1. CASE Land(m, i) \/ SellStarts(m, i) \/ SendAccepted(m, i) \/ SendFails(m, i)
  BY <1>1 DEF Land, SellStarts, SendAccepted, SendFails, Calm
<1>2. ASSUME NEW r, book' = [book EXCEPT ![m] = r], book[m].st = "none" => r = book[m],
             UNCHANGED outbox
      PROVE  Calm(n)
  BY <1>2, CalmAt
<1>3. ASSUME NEW r, book' = [book EXCEPT ![m] = r], book[m].st # "none", r.st = "none",
             ReleaseLater(m)
      PROVE  Calm(n)
  <2>1. n = m \/ (releases'[n] = releases[n] /\ timers'[n] = timers[n])
    BY <1>3 DEF ReleaseLater, TypeOK
  <2> QED
    BY <1>3, <2>1, CalmAt
<1>4. CASE OwnBuySeen(m, i)
  <2> DEFINE r == ConfirmBuy(book[m], i)
  <2>1. book' = [book EXCEPT ![m] = r] /\ (book[m].st = "none" => r = book[m]) /\ UNCHANGED outbox
    BY <1>4, MethodsOpenNothing DEF OwnBuySeen, Commit
  <2> QED
    BY <1>2, <2>1
<1>5. CASE OwnSellSeen(m, i)
  <2> DEFINE r == ConfirmSell(book[m], i)
  <2>1. /\ book' = [book EXCEPT ![m] = r] /\ (book[m].st = "none" => r = book[m])
        /\ IF r # book[m] THEN ReleaseLater(m) ELSE UNCHANGED outbox
    BY <1>5, MethodsOpenNothing DEF OwnSellSeen
  <2>2. r # book[m] => book[m].st # "none" /\ r.st = "none"
    BY DEF ConfirmSell, Absent
  <2> HIDE DEF r
  <2> QED
    BY <1>2, <1>3, <2>1, <2>2
<1>6. CASE BuyAccepted(m, i)
  <2> DEFINE s == BuySubmitted(book[m], i)
             r == IF book[m].st = "buying" /\ i \in boughtSeen[m] THEN ConfirmBuy(s, i) ELSE s
  <2>1. book' = [book EXCEPT ![m] = r] /\ UNCHANGED outbox
    BY <1>6 DEF BuyAccepted, Commit
  <2>2. book[m].st = "none" => r = book[m]
    BY MethodsOpenNothing
  <2> HIDE DEF r
  <2> QED
    BY <1>2, <2>1, <2>2
<1>7. CASE BuyFailed(m, i)
  BY <1>2, <1>7, MethodsOpenNothing DEF BuyFailed, Commit
<1>8. CASE SellFailed(m, i)
  BY <1>2, <1>8, MethodsOpenNothing DEF SellFailed, Commit
<1>9. CASE SellAccepted(m, i)
  <2> DEFINE cached == book[m].st = "selling" /\ i \in soldSeen[m]
             s == SellSubmitted(book[m], i)
             r == IF cached THEN ConfirmSell(s, i) ELSE s
  <2>1. /\ book' = [book EXCEPT ![m] = r]
        /\ IF cached THEN ReleaseLater(m) ELSE UNCHANGED outbox
    BY <1>9 DEF SellAccepted, Commit
  <2>2. cached => book[m].st # "none" /\ r.st = "none"
    BY <1>0 DEF SellSubmitted, ConfirmSell, Absent, PositionState
  <2>3. book[m].st = "none" => r = book[m]
    BY MethodsOpenNothing
  <2> HIDE DEF r, cached
  <2> QED
    BY <1>2, <1>3, <2>1, <2>2, <2>3
<1> QED
  BY <1>1, <1>4, <1>5, <1>6, <1>7, <1>8, <1>9 DEF OrderStep

\* ReleaseNow puts the targets ms into the channel, and no other.
LEMMA ReleasesOnly ==
  ASSUME TypeOK, NEW ms, ReleaseNow(ms), NEW n \in Mints, n \notin ms
  PROVE  releases'[n] = releases[n] /\ timers'[n] = timers[n]
BY DEF ReleaseNow, TypeOK

LEMMA WorldStepCalm ==
  ASSUME TypeOK, EngineStep, NEW n \in Mints
  PROVE  Calm(n)
<1> USE DEF flags, fuses, seen, outbox
<1>0. \A m \in Mints : book[m] \in PositionState
  BY DEF TypeOK
<1>1. ASSUME NEW m \in Mints, NEW i \in Ids, Land(m, i) \/ OrderAdvances(m, i)
      PROVE  Calm(n)
  BY <1>1, OrderStepCalm DEF OrderAdvances, OrderStep
<1>2. ASSUME NEW m \in Mints, Age(m)
      PROVE  Calm(n)
  <2> DEFINE r == [book[m] EXCEPT !.aged = TRUE]
  <2>1. /\ book' = [book EXCEPT ![m] = r] /\ book[m].st # "none" /\ UNCHANGED outbox
    BY <1>2 DEF Age, Held, TypeOK
  <2> HIDE DEF r
  <2> QED
    BY <2>1, CalmAt
<1>3. ASSUME NEW m \in Mints, TimerFires(m)
      PROVE  Calm(n)
  <2>1. /\ book' = book /\ timers[m] # 0
        /\ n # m => releases'[n] = releases[n] /\ timers'[n] = timers[n]
    BY <1>3 DEF TimerFires, TypeOK
  <2> QED
    BY <2>1 DEF Calm
<1>4. CASE ForceStop \/ JournalDrops \/ IntegrityChanges
  BY <1>4 DEF ForceStop, JournalDrops, IntegrityChanges, Calm
<1>5. CASE StopGracefully
  <2>1. book' = SellRequested /\ UNCHANGED outbox
    BY <1>5, ActorStepShape DEF Commit
  <2> QED
    BY <2>1, MethodsOpenNothing DEF Calm, SellRequested
<1>6. CASE Start
  <2> DEFINE b == [m \in Mints |-> ForgetUnresolved(book[m])]
             ms == {m \in Mints : b[m] # book[m]}
  <2>1. book' = b /\ ReleaseNow(ms)
    BY <1>6 DEF Start
  <2>2. b[n] = ForgetUnresolved(book[n])
    OBVIOUS
  <2>3. n \in ms => book[n].st # "none" /\ b[n].st = "none"
    BY <2>2 DEF ForgetUnresolved, AbandonUnconfirmedBuy, AbandonStaleSubmittedSell,
       Absent, Unconfirmed
  <2>4. book[n].st = "none" => b[n] = book[n]
    BY <2>2, MethodsOpenNothing
  <2> HIDE DEF b, ms
  <2> QED
    BY <2>1, <2>3, <2>4, ReleasesOnly DEF Calm
<1>7. CASE Tick
  <2>1. \E ms : ReleaseNow(ms) /\ (n \in ms => book[n].st # "none" /\ book'[n].st = "none")
    <3> DEFINE claimed == [m \in Mints |-> ClaimTimeout(book[m])]
               stale == {m \in Mints : StaleSubmission(claimed[m])}
               reported == [m \in Mints |->
                              IF m \in stale
                              THEN AbandonUnconfirmedBuy(ClaimStaleSubmission(claimed[m]))
                              ELSE claimed[m]]
               b == [m \in Mints |->
                       IF stopping THEN ForgetUnresolved(reported[m]) ELSE reported[m]]
               ms == {m \in Mints : b[m].st = "none" /\ book[m].st # "none"}
    <3>1. book' = b /\ ReleaseNow(ms)
      BY <1>7 DEF Tick, Commit
    <3> HIDE DEF b
    <3> QED
      BY <3>1
  <2>2. book' = Ticked
    BY <1>7, ActorStepShape DEF Commit
  <2>3. book[n].st = "none" => Ticked[n] = book[n]
    BY MethodsOpenNothing DEF Ticked, Reported, StaleSubmission
  <2> QED
    BY <2>1, <2>2, <2>3, ReleasesOnly DEF Calm
<1> QED
  BY <1>1, <1>2, <1>3, <1>4, <1>5, <1>6, <1>7 DEF EngineStep

(***************************************************************************)
(* A mint stays minded in every step that opens no entry of it, adds no    *)
(* create of it and does not take its guard away while it needs one.       *)
(***************************************************************************)
LEMMA MindedStays ==
  ASSUME NEW m \in Mints, Minded(m), Calm(m), mode' = mode, created \subseteq created',
         Undisturbed(m) => Guarded(m)',
         \A j, k \in CreatesIn(frames', m) : j = k,
         CreatesIn(frames', m) # {} => CreatesIn(frames, m) # {}
  PROVE  Minded(m)'
<1>1. CreatesIn(frames', m) # {} => book'[m].st = "none" /\ Undisturbed(m)'
  BY DEF Minded, Calm, Undisturbed
<1>2. book'[m].st # "none" => Undisturbed(m)'
  BY DEF Minded, Calm, Undisturbed
<1>3. releases'[m] # 0 \/ timers'[m] # 0 => m \in created'
  BY DEF Minded, Calm, Undisturbed
<1> QED
  BY <1>1, <1>2, <1>3 DEF Minded

\* The router and the frames stay as they are.
LEMMA MindedWithoutRouter ==
  ASSUME NEW m \in Mints, Minded(m), Calm(m), UNCHANGED <<frames, mode, target, watched, created>>
  PROVE  Minded(m)'
<1>1. Undisturbed(m) => Guarded(m)'
  BY DEF Undisturbed, Guarded
<1>2. \A j, k \in CreatesIn(frames', m) : j = k
  BY DEF Minded
<1> QED
  BY <1>1, <1>2, MindedStays

LEMMA SameEngineIsCalm ==
  ASSUME UNCHANGED vars, NEW m
  PROVE  Calm(m)
BY DEF vars, Calm

LEMMA RouterKeepsWatch ==
  ASSUME TypeOK, WatchInv, NEW n \in Mints,
         RouteCreate(n) \/ RouteCreatorSell(n) \/ ReleaseTarget(n)
  PROVE  WatchInv'
<1> USE DEF router, history, engineVars
<1>0. frames \in Seq(Frame) /\ NoId \in Ids \cup {NoId}
  BY DEF WatchInv
<1>1. CASE RouteCreate(n) /\ ScanFree
  <2> DEFINE f == [kind |-> "create", mint |-> n, order |-> NoId]
  <2>1. /\ n \notin created /\ created' = created \cup {n} /\ UNCHANGED <<vars, mode, imported>>
        /\ frames' = Append(frames, f)
        /\ watched' = (IF mode = "direct" THEN watched ELSE watched \cup {n})
        /\ target' = IF mode = "scan" THEN n ELSE target
        /\ mode = "scan" => target = NoMint
    BY <1>1 DEF RouteCreate, Forward, Publish, ScanFree
  <2>2. f \in Frame /\ IsCreate(f, n) /\ \A m : m # n => ~IsCreate(f, m)
    BY DEF Frame, IsCreate
  <2> HIDE DEF f
  <2>3. frames' \in Seq(Frame)
    BY <1>0, <2>1, <2>2, AppendCreates
  <2>4. ASSUME NEW m \in Mints \ imported, m # n
        PROVE  Minded(m)'
    <3>1. CreatesIn(frames', m) = CreatesIn(frames, m)
      BY <1>0, <2>1, <2>2, <2>4, AppendCreates
    <3>2. Undisturbed(m) => Guarded(m)'
      BY <2>1, SniperAssumption DEF Undisturbed, Guarded
    <3>3. Minded(m) /\ Calm(m)
      BY <2>1, SameEngineIsCalm DEF WatchInv
    <3> QED
      BY <2>1, <3>1, <3>2, <3>3, MindedStays DEF Minded
  <2>5. ASSUME n \notin imported
        PROVE  Minded(n)'
    <3>1. Minded(n)
      BY <2>5 DEF WatchInv
    <3>2. CreatesIn(frames, n) = {} /\ book[n].st = "none" /\ releases[n] = 0 /\ timers[n] = 0
      BY <2>1, <3>1 DEF Minded, Undisturbed
    <3>3. CreatesIn(frames', n) = {Len(frames) + 1}
      BY <1>0, <2>1, <2>2, <3>2, AppendCreates
    <3>4. Guarded(n)'
      BY <2>1 DEF Guarded
    <3>5. book'[n].st = "none" /\ Undisturbed(n)'
      BY <2>1, <3>2, <3>4 DEF Undisturbed, vars
    <3> QED
      BY <3>3, <3>5 DEF Minded, Undisturbed
  <2>6. \A m \in Mints \ imported' : Minded(m)'
    BY <2>1, <2>4, <2>5
  <2> QED
    BY <2>3, <2>6 DEF WatchInv
<1>2. CASE RouteCreate(n) /\ ~ScanFree
  <2>1. /\ created' = created \cup {n}
        /\ UNCHANGED <<vars, frames, mode, target, watched, imported>>
    BY <1>2 DEF RouteCreate
  <2>2. ASSUME NEW m \in Mints \ imported
        PROVE  Minded(m)'
    <3>1. Minded(m) /\ Calm(m)
      BY <2>1, SameEngineIsCalm DEF WatchInv
    <3>2. Undisturbed(m) => Guarded(m)'
      BY <2>1 DEF Undisturbed, Guarded
    <3> QED
      BY <2>1, <3>1, <3>2, MindedStays DEF Minded
  <2> QED
    BY <1>0, <2>1, <2>2 DEF WatchInv
<1>3. CASE RouteCreatorSell(n)
  <2> DEFINE f == [kind |-> "creator_sell", mint |-> n, order |-> NoId]
  <2>1. UNCHANGED <<vars, mode, target, watched, created, imported>> /\ frames' = Append(frames, f)
    BY <1>3 DEF RouteCreatorSell, Forward
  <2>2. f \in Frame /\ \A m : ~IsCreate(f, m)
    BY DEF Frame, IsCreate
  <2> HIDE DEF f
  <2>3. frames' \in Seq(Frame) /\ \A m : CreatesIn(frames', m) = CreatesIn(frames, m)
    BY <1>0, <2>1, <2>2, AppendCreates
  <2>4. ASSUME NEW m \in Mints \ imported
        PROVE  Minded(m)'
    <3>1. Minded(m) /\ Calm(m)
      BY <2>1, SameEngineIsCalm DEF WatchInv
    <3>2. Undisturbed(m) => Guarded(m)'
      BY <2>1 DEF Undisturbed, Guarded
    <3> QED
      BY <2>1, <2>3, <3>1, <3>2, MindedStays DEF Minded
  <2> QED
    BY <2>1, <2>3, <2>4 DEF WatchInv
<1>4. CASE ReleaseTarget(n)
  <2>1. /\ releases[n] > 0 /\ releases' = [releases EXCEPT ![n] = @ - 1]
        /\ UNCHANGED <<book, timers, mode, frames, created, imported>>
        /\ target' = (IF target = n THEN NoMint ELSE target)
        /\ watched' = watched \ {n}
    BY <1>4 DEF ReleaseTarget, ReleaseTaken, Unlock, outbox
  <2>2. releases[n] # 0 /\ \A m \in Mints : m # n => releases'[m] = releases[m]
    BY <2>1 DEF TypeOK
  <2>3. ASSUME NEW m \in Mints \ imported
        PROVE  Minded(m)'
    <3>1. Minded(m)
      BY DEF WatchInv
    <3>2. Calm(m)
      BY <2>1, <2>2 DEF Calm
    <3>3. Undisturbed(m) => Guarded(m)'
      BY <2>1, <2>2 DEF Undisturbed, Guarded
    <3> QED
      BY <2>1, <3>1, <3>2, <3>3, MindedStays DEF Minded
  <2> QED
    BY <1>0, <2>1, <2>3 DEF WatchInv
<1> QED
  BY <1>1, <1>2, <1>3, <1>4

LEMMA OwnTradeKeepsWatch ==
  ASSUME TypeOK, WatchInv, NEW n \in Mints, NEW i \in Ids, RouteOwnTrade(n, i)
  PROVE  WatchInv'
<1> DEFINE f == [kind |-> IF task[n][i].kind = "buy" THEN "own_buy" ELSE "own_sell",
                 mint |-> n, order |-> i]
<1>1. UNCHANGED <<vars, mode, target, watched, created, imported>> /\ frames' = Append(frames, f)
  BY DEF RouteOwnTrade, Forward, router, history, engineVars
<1>2. f \in Frame /\ \A m : ~IsCreate(f, m)
  BY DEF Frame, IsCreate
<1> HIDE DEF f
<1>3. frames' \in Seq(Frame) /\ \A m : CreatesIn(frames', m) = CreatesIn(frames, m)
  BY <1>1, <1>2, AppendCreates DEF WatchInv
<1>4. ASSUME NEW m \in Mints \ imported
      PROVE  Minded(m)'
  <2>1. Minded(m) /\ Calm(m)
    BY <1>1, SameEngineIsCalm DEF WatchInv
  <2>2. Undisturbed(m) => Guarded(m)'
    BY <1>1 DEF Undisturbed, Guarded
  <2> QED
    BY <1>1, <1>3, <2>1, <2>2, MindedStays DEF Minded
<1> QED
  BY <1>1, <1>3, <1>4 DEF WatchInv

LEMMA FrameKeepsWatch ==
  ASSUME TypeOK, WatchInv, NEW n \in Mints, NEW i \in Ids, HandleFrame(n, i)
  PROVE  WatchInv'
<1> USE DEF router, history, engineVars
<1>1. /\ frames \in Seq(Frame) /\ frames # <<>> /\ frames' = Tail(frames)
      /\ UNCHANGED <<mode, target, watched, created, imported>>
  BY DEF WatchInv, HandleFrame, IsNext
<1>2. frames' \in Seq(Frame)
  BY <1>1, TailCreates
<1>3. ASSUME NEW m \in Mints \ imported
      PROVE  /\ \A j, k \in CreatesIn(frames', m) : j = k
             /\ CreatesIn(frames', m) # {} => CreatesIn(frames, m) # {}
             /\ IsCreate(Head(frames), m) => CreatesIn(frames, m) # {} /\ CreatesIn(frames', m) = {}
  <2>1. /\ \A k \in CreatesIn(frames', m) : k + 1 \in CreatesIn(frames, m) /\ k \in Int /\ k + 1 # 1
        /\ IsCreate(Head(frames), m) => 1 \in CreatesIn(frames, m)
    BY <1>1, TailCreates
  <2>2. \A j, k \in CreatesIn(frames, m) : j = k
    BY DEF WatchInv, Minded
  <2>3. \A j, k \in CreatesIn(frames', m) : j = k
    <3> TAKE j, k \in CreatesIn(frames', m)
    <3>1. j + 1 = k + 1 /\ j \in Int /\ k \in Int
      BY <2>1, <2>2
    <3> QED
      BY <3>1
  <2>4. IsCreate(Head(frames), m) => CreatesIn(frames', m) = {}
    BY <2>1, <2>2
  <2> QED
    BY <2>1, <2>3, <2>4
\* Whatever the frame does that is not the create of m.
<1>4. ASSUME NEW m \in Mints \ imported, Calm(m)
      PROVE  Minded(m)'
  <2>1. Minded(m)
    BY DEF WatchInv
  <2>2. Undisturbed(m) => Guarded(m)'
    BY <1>1 DEF Undisturbed, Guarded
  <2> QED
    BY <1>1, <1>3, <1>4, <2>1, <2>2, MindedStays
<1>5. ASSUME \A m \in Mints : Calm(m)
      PROVE  WatchInv'
  BY <1>1, <1>2, <1>4, <1>5 DEF WatchInv
<1>6. CASE OwnBuySeen(n, i) \/ OwnSellSeen(n, i)
  BY <1>5, <1>6, OrderStepCalm DEF OrderStep
<1>7. CASE CreatorSellSeen(n)
  <2> DEFINE r == RequestSell(book[n])
  <2>1. book' = [book EXCEPT ![n] = r] /\ UNCHANGED outbox
    BY <1>7 DEF CreatorSellSeen, Commit
  <2>2. book[n].st = "none" => r = book[n]
    BY MethodsOpenNothing
  <2> HIDE DEF r
  <2> QED
    BY <1>5, <2>1, <2>2, CalmAt DEF outbox
<1>8. CASE CreatorSellIgnored(n)
  BY <1>5, <1>8, SameEngineIsCalm DEF CreatorSellIgnored
<1>9. CASE /\ IsNext("create", n, NoId)
           /\ CreateRefused(n) \/ CreateBought(n) \/ CreateNotAudited(n) \/ CreateCongested(n)
              \/ CreateIgnored(n)
  <2>1. IsCreate(Head(frames), n)
    BY <1>9 DEF IsNext, IsCreate
  <2>2. ASSUME NEW m \in Mints, m # n
        PROVE  book'[m] = book[m] /\ releases'[m] = releases[m] /\ timers'[m] = timers[m]
    <3>1. CASE CreateRefused(n)
      BY <2>2, <3>1, ReleasesOnly DEF CreateRefused
    <3>2. CASE CreateBought(n) \/ CreateNotAudited(n) \/ CreateCongested(n) \/ CreateIgnored(n)
      BY <2>2, <3>2 DEF CreateBought, CreateNotAudited, CreateCongested, CreateIgnored, outbox,
         vars, TypeOK
    <3> QED
      BY <1>9, <3>1, <3>2
  <2>3. ASSUME NEW m \in Mints \ imported, m # n
        PROVE  Minded(m)'
    BY <1>4, <2>2, <2>3 DEF Calm
  <2>4. ASSUME n \notin imported
        PROVE  Minded(n)'
    <3>1. book[n].st = "none" /\ Undisturbed(n) /\ CreatesIn(frames', n) = {}
      BY <1>3, <2>1, <2>4 DEF WatchInv, Minded
    <3>2. CASE CreateRefused(n) \/ CreateNotAudited(n) \/ CreateCongested(n)
      <4>1. book'[n].st = "none"
        BY <3>1, <3>2 DEF CreateRefused, CreateNotAudited, CreateCongested, FailBuy, BeginBuy,
           Absent, TypeOK
      <4> QED
        BY <1>1, <3>1, <4>1 DEF Minded, Undisturbed
    <3>3. CASE CreateBought(n) \/ CreateIgnored(n)
      <4>1. UNCHANGED outbox
        BY <3>3 DEF CreateBought, CreateIgnored, vars, outbox
      <4>2. Undisturbed(n)'
        BY <1>1, <3>1, <4>1 DEF Undisturbed, Guarded, outbox
      <4> QED
        BY <3>1, <4>2 DEF Minded, Undisturbed
    <3> QED
      BY <1>9, <3>2, <3>3
  <2> QED
    BY <1>1, <1>2, <2>3, <2>4 DEF WatchInv
<1> QED
  BY <1>6, <1>7, <1>8, <1>9 DEF HandleFrame

LEMMA RecoveryKeepsWatch ==
  ASSUME TypeOK, WatchInv, NEW holding \in [Mints -> Ids \cup {NoId}], RecoverAndSell(holding)
  PROVE  WatchInv'
<1>1. /\ UNCHANGED <<frames, mode, target, watched, created, outbox>>
      /\ imported' = imported \cup {m \in Mints : holding[m] # NoId}
      /\ book' = ImportedAndSold(holding)
  BY ActorStepShape DEF RecoverAndSell, router, Commit
<1>2. ASSUME NEW m \in Mints \ imported'
      PROVE  Minded(m)'
  <2>1. m \notin imported /\ holding[m] = NoId
    BY <1>1, <1>2
  <2>2. book'[m] = RequestSell(book[m])
    BY <1>1, <2>1 DEF ImportedAndSold, Imported
  <2>3. Calm(m)
    BY <1>1, <2>2, MethodsOpenNothing DEF Calm, outbox
  <2> QED
    BY <1>1, <2>1, <2>3, MindedWithoutRouter DEF WatchInv
<1> QED
  BY <1>1, <1>2 DEF WatchInv

\* A position the program opened is listened to for as long as it is in the
\* book: no release, however late or repeated, takes its target away, and scan
\* never trades two mints at once (strategy/mod.rs, engine.rs:300-352).
THEOREM PositionIsWatchedHolds == SniperSpec => []PositionIsWatched
<1>1. SniperInit => WatchInv
  <2> SUFFICES ASSUME SniperInit PROVE WatchInv
    OBVIOUS
  <2>1. frames = <<>> /\ frames \in Seq(Frame) /\ \A m : CreatesIn(frames, m) = {}
    BY DEF SniperInit, CreatesIn
  <2>2. \A m \in Mints : book[m].st = "none" /\ releases[m] = 0 /\ timers[m] = 0
    BY DEF SniperInit, Init, Absent
  <2> QED
    BY <2>1, <2>2 DEF WatchInv, Minded
<1>2. TypeOK /\ WatchInv /\ [SniperNext]_sniperVars => WatchInv'
  <2> SUFFICES ASSUME TypeOK, WatchInv, [SniperNext]_sniperVars PROVE WatchInv'
    OBVIOUS
  <2>1. CASE \E m \in Mints : RouteCreate(m) \/ RouteCreatorSell(m) \/ ReleaseTarget(m)
    BY <2>1, RouterKeepsWatch
  <2>2. CASE \E m \in Mints, i \in Ids : RouteOwnTrade(m, i) \/ HandleFrame(m, i)
    BY <2>2, OwnTradeKeepsWatch, FrameKeepsWatch
  <2>3. CASE \E holding \in [Mints -> Ids \cup {NoId}] : RecoverAndSell(holding)
    BY <2>3, RecoveryKeepsWatch
  <2>4. CASE EngineStep
    <3>1. UNCHANGED <<frames, mode, target, watched, created, imported>>
      BY <2>4 DEF EngineStep, router, history
    <3>2. \A m \in Mints : Calm(m)
      BY <2>4, WorldStepCalm
    <3> QED
      BY <3>1, <3>2, MindedWithoutRouter DEF WatchInv
  <2>5. CASE UNCHANGED sniperVars
    BY <2>5, SameEngineIsCalm, MindedWithoutRouter DEF sniperVars, WatchInv
  <2> QED
    BY <2>1, <2>2, <2>3, <2>4, <2>5 DEF SniperNext
<1>3. WatchInv => PositionIsWatched
  BY DEF WatchInv, Minded, Undisturbed, Guarded, PositionIsWatched
<1> QED
  BY <1>1, <1>2, <1>3, SniperImplementsEngine, TypeCorrect, PTL DEF SniperSpec

(***************************************************************************)
(* So the composition of router and order actor takes custody of the lots  *)
(* as well.                                                                *)
(***************************************************************************)
THEOREM SniperImplementsCustody == SniperSpec => ImplementsCustody
BY SniperImplementsEngine, EngineImplementsCustody

=============================================================================
