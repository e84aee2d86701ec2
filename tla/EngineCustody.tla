--------------------------- MODULE EngineCustody ---------------------------
(***************************************************************************)
(* The order actor implements Custody.  A lot is named by the buy order    *)
(* that brings it.                                                         *)
(***************************************************************************)
EXTENDS Engine

PlanOf(s) ==
  CASE s.st = "none"           -> "idle"
    [] s.st \in Unconfirmed    -> IF s.exit THEN "unwanting" ELSE "wanting"
    [] s.st = "open"           -> "holding"
    [] s.st = "selling"        -> "parting"
    [] OTHER                   -> "parted"

\* Until a buy is confirmed the actor may be told of another one that it gave
\* up before: no lot is promised yet.
LotOf(s) == IF s.st \in Held THEN s.buy ELSE NoId

LateOf(s) == s.st = "submitted_sell" /\ s.aged

Orders(t, kind) == {i \in Ids : t[i].kind = kind /\ t[i].stage # "free"}

LotsSold(t, ids) == {t[i].buy : i \in {j \in ids : t[j].kind = "sell"}}

Custody == INSTANCE Custody WITH
  Lots    <- Ids,
  NoLot   <- NoId,
  plan    <- [m \in Mints |-> PlanOf(book[m])],
  lot     <- [m \in Mints |-> LotOf(book[m])],
  late    <- [m \in Mints |-> LateOf(book[m])],
  ordered <- [m \in Mints |-> Orders(task[m], "buy")],
  bought  <- [m \in Mints |-> {i \in landed[m] : task[m][i].kind = "buy"}],
  offered <- [m \in Mints |-> LotsSold(task[m], Orders(task[m], "sell"))],
  spent   <- [m \in Mints |-> LotsSold(task[m], landed[m])]

\* Over every interleaving of orders, results, events, commands and timeouts
\* the actor holds and sells delivered lots only, sells a lot only while it
\* plans to, and stops minding one only when it was sold or is overdue
\* (engine.rs:254-280, 354-489, 511-615).
ImplementsCustody == Custody!Spec

\* The sale in execution, and the one that was submitted, are of the very lot
\* the entry is about: a late confirmation settles no other lot.
SaleIsOfTheLot ==
  \A m \in Mints :
    /\ \A i \in LiveSells(m) : task[m][i].buy = book[m].buy
    /\ book[m].st = "submitted_sell" => task[m][book[m].sell].buy = book[m].buy

=============================================================================
