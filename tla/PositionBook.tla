---------------------------- MODULE PositionBook ----------------------------
(***************************************************************************)
(* The position state machine of position.rs: what each method of          *)
(* PositionBook does to the state of one mint.  A method that visits every *)
(* mint (claim_all_for_shutdown, abandon_unconfirmed_buys, ...) applies    *)
(* one of these operators pointwise to the whole book.                     *)
(*                                                                         *)
(* An order is named by a number in Ids, local to its mint, which stands   *)
(* for its signature list: of the variants that several routes sign one    *)
(* executes (one seed account).  That another one may execute after the    *)
(* sale has closed the account is left to Lander.                          *)
(* Of a Position the model keeps the order that bought it (buy_sig,        *)
(* buy_sigs and the token account) and whether token_amount is the amount  *)
(* the chain reported (exact) or the estimate (position.rs:14).  Elapsed   *)
(* time is the flag aged: the age in question has reached its limit        *)
(* (max_hold for opened, confirmation_timeout for submitted).              *)
(***************************************************************************)
EXTENDS Naturals, FiniteSets

CONSTANTS Mints,     \* token mints the program may hold a position in
          MaxOrders, \* bound on the orders ever started for one mint
          NoId       \* stands for "no order"

ASSUME OrdersAssumption ==
  /\ MaxOrders \in Nat
  /\ NoId \notin 1..MaxOrders

Ids == 1..MaxOrders

States == {"none", "buying", "submitted_buy", "open", "selling", "submitted_sell"}

Unconfirmed == {"buying", "submitted_buy"}

Held == {"open", "selling", "submitted_sell"}

\* exit: pending_exit; reported: reconciliation_reported.
PositionState ==
  [st : States, exit : BOOLEAN, buy : Ids \cup {NoId}, sell : Ids \cup {NoId},
   exact : BOOLEAN, aged : BOOLEAN, reported : BOOLEAN]

Absent ==
  [st |-> "none", exit |-> FALSE, buy |-> NoId, sell |-> NoId,
   exact |-> FALSE, aged |-> FALSE, reported |-> FALSE]

-----------------------------------------------------------------------------
(* Entering a position.                                                    *)

\* Mutant: the import wins over a sell in execution.
ImportOverSell(s, id) ==
  IF s.st \in {"none", "open", "selling"}
  THEN [Absent EXCEPT !.st = "open", !.buy = id, !.exact = TRUE]
  ELSE s

\* A position recovered from the wallet: local buying, selling or submitted
\* state wins over the import, an Open entry is replaced.
ImportOpen(s, id) ==
  IF s.st \in {"none", "open"}
  THEN [Absent EXCEPT !.st = "open", !.buy = id, !.exact = TRUE]
  ELSE s

BeginBuy(s) == IF s.st = "none" THEN [Absent EXCEPT !.st = "buying"] ELSE s

BuySubmitted(s, id) ==
  IF s.st = "buying"
  THEN [Absent EXCEPT !.st = "submitted_buy", !.exit = s.exit, !.buy = id]
  ELSE s

FailBuy(s) == IF s.st = "buying" THEN Absent ELSE s

\* The chain reported the buy: the amount becomes exact, the holding time
\* starts, and an exit requested meanwhile starts the sell at once.
ConfirmBuy(s, id) ==
  IF s.st = "submitted_buy" /\ s.buy = id
  THEN [Absent EXCEPT !.st = IF s.exit THEN "selling" ELSE "open",
                      !.buy = id, !.exact = TRUE]
  ELSE s

-----------------------------------------------------------------------------
(* Leaving it.                                                             *)

\* Mutant: an unconfirmed buy is sold at its estimated amount.
RequestSellUnconfirmed(s) ==
  IF s.st \in {"submitted_buy", "open"} THEN [s EXCEPT !.st = "selling"] ELSE s

RequestSell(s) ==
  CASE s.st \in Unconfirmed -> [s EXCEPT !.exit = TRUE]
    [] s.st = "open"        -> [s EXCEPT !.st = "selling"]
    [] OTHER                -> s

SellSubmitted(s, id) ==
  IF s.st = "selling"
  THEN [s EXCEPT !.st = "submitted_sell", !.sell = id,
                 !.aged = FALSE, !.reported = FALSE]
  ELSE s

\* Mutant: a sell that could not be sent is taken for sold.
FailSellForgets(s) == IF s.st = "selling" THEN Absent ELSE s

FailSell(s) == IF s.st = "selling" THEN [s EXCEPT !.st = "open"] ELSE s

ConfirmSell(s, id) ==
  IF s.st = "submitted_sell" /\ s.sell = id THEN Absent ELSE s

-----------------------------------------------------------------------------
(* Timeouts and reconciliation.                                            *)

\* Mutant: the scan for expired holding times overlooks open positions.
ClaimTimeoutNever(s) == s

ClaimTimeout(s) == IF s.st = "open" /\ s.aged THEN RequestSell(s) ELSE s

StaleSubmission(s) ==
  s.st \in {"submitted_buy", "submitted_sell"} /\ ~s.reported /\ s.aged

ClaimStaleSubmission(s) ==
  IF StaleSubmission(s) THEN [s EXCEPT !.reported = TRUE] ELSE s

\* Mutant: giving up unconfirmed buys also forgets a sell in execution.
AbandonUnconfirmedBuyOrSell(s) ==
  IF s.st \in Unconfirmed \cup {"selling"} THEN Absent ELSE s

AbandonUnconfirmedBuy(s) == IF s.st \in Unconfirmed THEN Absent ELSE s

AbandonStaleSubmittedSell(s) ==
  IF s.st = "submitted_sell" /\ s.aged THEN Absent ELSE s

=============================================================================
