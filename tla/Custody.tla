------------------------------ MODULE Custody ------------------------------
(***************************************************************************)
(* What the order actor promises about the tokens it buys, nothing of how. *)
(* A lot is what one buy order brings.  The program plans for each mint    *)
(* what to do with at most one lot; the chain moves lots by the orders it  *)
(* was given, at any time and in any order.                                *)
(***************************************************************************)
CONSTANTS Mints,  \* token mints
          Lots,   \* names of the lots of a mint
          NoLot   \* the plan concerns no lot

VARIABLES
  plan,     \* what the program intends for the mint
  lot,      \* the lot it holds or sells
  late,     \* the sale is not confirmed and its time is up
  ordered,  \* lots for which a buy was sent
  bought,   \* lots the chain delivered
  offered,  \* lots for which a sale was sent
  spent     \* lots the chain sold

vars == <<plan, lot, late, ordered, bought, offered, spent>>

\* wanting: a buy is out; unwanting: it is, and the lot shall be sold at once;
\* parting: one sale may execute; parted: it was accepted for sending.
Plans == {"idle", "wanting", "unwanting", "holding", "parting", "parted"}

-----------------------------------------------------------------------------
Becomes(m, p, l) ==
  /\ plan'[m] = p
  /\ lot'[m] = l
  /\ ~late'[m]

SameLots(m) ==
  /\ ordered'[m] = ordered[m]
  /\ offered'[m] = offered[m]

Offer(m, l) ==
  /\ ordered'[m] = ordered[m]
  /\ offered'[m] = offered[m] \cup {l}

Want(m) ==
  /\ plan[m] = "idle"
  /\ Becomes(m, "wanting", NoLot)
  /\ \E l \in Lots \ (ordered[m] \cup offered[m]) : ordered'[m] = ordered[m] \cup {l}
  /\ offered'[m] = offered[m]

Unwant(m) ==
  /\ plan[m] = "wanting"
  /\ Becomes(m, "unwanting", NoLot)
  /\ SameLots(m)

\* Only a delivered lot is held, and only if nobody asked to sell it meanwhile.
Hold(m) ==
  /\ plan[m] = "wanting"
  /\ \E l \in bought[m] : Becomes(m, "holding", l)
  /\ SameLots(m)

\* Only a delivered lot is offered: the one held, the one whose sale was asked
\* for before it came, or one the operator found in the wallet.
Part(m) ==
  /\ plan[m] \in {"idle", "unwanting", "holding"}
  /\ \E l \in bought[m] : Becomes(m, "parting", l) /\ Offer(m, l)

\* The order to sell the lot can execute no more; nor did an earlier one.
Withdraw(m, l) ==
  /\ l \notin spent[m]
  /\ ordered'[m] = ordered[m]
  /\ offered'[m] = offered[m] \ {l}

\* The sale is reported to have failed: the lot is held again.
Keep(m) ==
  /\ plan[m] = "parting"
  /\ Becomes(m, "holding", lot[m])
  /\ SameLots(m) \/ Withdraw(m, lot[m])

HandOver(m) ==
  /\ plan[m] = "parting"
  /\ Becomes(m, "parted", lot[m])
  /\ SameLots(m)

Overdue(m) ==
  /\ plan[m] = "parted"
  /\ plan'[m] = plan[m] /\ lot'[m] = lot[m] /\ late'[m]
  /\ SameLots(m)

\* A wanted lot may be given up at any time; a lot that was offered is put out
\* of mind only when it was sold, or when its sale is overdue.
Forget(m) ==
  /\ \/ plan[m] \in {"wanting", "unwanting"}
     \/ plan[m] \in {"parting", "parted"} /\ lot[m] \in spent[m]
     \/ plan[m] = "parted" /\ late[m]
  /\ Becomes(m, "idle", NoLot)
  /\ SameLots(m)

Plan(m) ==
  /\ \/ Want(m) \/ Unwant(m) \/ Hold(m) \/ Part(m) \/ Keep(m) \/ HandOver(m)
     \/ Overdue(m) \/ Forget(m)
  /\ bought'[m] = bought[m]
  /\ spent'[m] = spent[m]

\* The chain.  Tokens are sold only by an order the program gave, and once.
Deliver(m) ==
  /\ \E l \in ordered[m] \ bought[m] : bought'[m] = bought[m] \cup {l}
  /\ spent'[m] = spent[m]

Sell(m) ==
  /\ \E l \in (offered[m] \cap bought[m]) \ spent[m] : spent'[m] = spent[m] \cup {l}
  /\ bought'[m] = bought[m]

Chain(m) ==
  /\ Deliver(m) \/ Sell(m)
  /\ plan'[m] = plan[m] /\ lot'[m] = lot[m] /\ late'[m] = late[m]
  /\ SameLots(m)

Same(m) ==
  /\ plan'[m] = plan[m] /\ lot'[m] = lot[m] /\ late'[m] = late[m]
  /\ SameLots(m)
  /\ bought'[m] = bought[m] /\ spent'[m] = spent[m]

-----------------------------------------------------------------------------
Init ==
  /\ plan = [m \in Mints |-> "idle"]
  /\ lot = [m \in Mints |-> NoLot]
  /\ late = [m \in Mints |-> FALSE]
  /\ ordered = [m \in Mints |-> {}]
  /\ bought = [m \in Mints |-> {}]
  /\ offered = [m \in Mints |-> {}]
  /\ spent = [m \in Mints |-> {}]

\* A command or a tick concerns every mint in one step.
Next == \A m \in Mints : Plan(m) \/ Chain(m) \/ Same(m)

Spec == Init /\ [][Next]_vars

=============================================================================
