-------------------------------- MODULE Decode --------------------------------
(***************************************************************************)
(* The decoder of pump/decode.rs: from a transaction to at most one event  *)
(* of the bonding curve and one of the AMM for each mint.  Amounts come    *)
(* from the logs, which say what executed; which instruction a logged      *)
(* trade belongs to must be worked out, and differently for the two.       *)
(*                                                                         *)
(* A transaction is a sequence of outer instructions, each with those it   *)
(* called; a copy has them in execution order, and may hold less.  A trade *)
(* is named by the position of its instruction (from 1, in that order);    *)
(* byte layouts and all that is copied through are left out.               *)
(***************************************************************************)
EXTENDS Naturals, Sequences, SequencesExt

CONSTANTS Mints,
          Foreign,  \* mints that are not traded for SOL
          Wallets,
          Unpaired  \* u32::MAX: no instruction belongs to the trade

\* "new_buy" is a buy by an instruction the decoder has no name for, "other" an
\* instruction of another program.
CurveOps == {"create", "buy", "sell", "new_buy"}
AmmOps == {"amm_buy", "amm_sell"}

\* An instruction as executed.  wallet: who trades, or whom a create names as
\* creator; limit: the amount a buy states, its most or its exact input; tabled:
\* its accounts are in a lookup table.
Call == [op : CurveOps \cup AmmOps \cup {"other"}, mint : Mints, wallet : Wallets,
         tokens : Nat, quote : Nat, limit : Nat, tabled : BOOLEAN]

\* logged: how many trades fit into the logs.
Transaction ==
  [signer : Wallets, outer : Seq([call : Call, inner : Seq(Call)]), logged : Nat,
   failed : BOOLEAN]

BuyOps == {"buy", "new_buy", "amm_buy"}
SellOps == {"sell", "amm_sell"}

Buys(c) == c.op \in BuyOps

Sells(c) == c.op \in SellOps

\* The members of a finite set of numbers, in increasing order.
InOrder(S) ==
  [k \in 1..Cardinality(S) |-> CHOOSE i \in S : Cardinality({j \in S : j < i}) = k - 1]

Where(s, Test(_)) == InOrder({i \in DOMAIN s : Test(s[i])})

\* execution_order_instructions
Executed(tx) ==
  FlattenSeq([i \in DOMAIN tx.outer |-> <<tx.outer[i].call>> \o tx.outer[i].inner])

\* The trades in the logs: those of a long transaction are cut off.
Log(tx) ==
  LET trades == Where(Executed(tx), LAMBDA c : Buys(c) \/ Sells(c))
  IN  SubSeq(trades, 1, Min({tx.logged, Len(trades)}))

\* versioned_transaction_to_update: what was packed into an entry, before it ran:
\* no inner instructions, no logs, no lookup tables and no result.
ShredCopy(tx) ==
  [signer |-> tx.signer, calls |-> [i \in DOMAIN tx.outer |-> tx.outer[i].call],
   tables |-> FALSE, log |-> <<>>, failed |-> FALSE]

\* rpc_transaction_to_update; Geyser sends the same.
FullCopy(tx) ==
  LET calls == Executed(tx)
      log == Log(tx)
  IN  [signer |-> tx.signer, calls |-> calls, tables |-> TRUE,
       log |-> [i \in DOMAIN log |-> [at |-> log[i], call |-> calls[log[i]]]],
       failed |-> tx.failed]

\* parse_trade_events and parse_amm_trade_events
Logged(copy, ops) == {i \in DOMAIN copy.log : copy.log[i].call.op \in ops}

-----------------------------------------------------------------------------
(* decode_transaction_for_mint: the bonding curve.                         *)

\* An instruction is recognised when its mint can be read.
Recognised(copy, c) ==
  c.op \in {"create", "buy", "sell"} /\ (copy.tables \/ ~c.tabled)

\* Mutant: a trade counts from the end.
InstructionFromEnd(candidates, i) ==
  IF i \in DOMAIN candidates THEN Reverse(candidates)[i] ELSE Unpaired

Instruction(candidates, i) == IF i \in DOMAIN candidates THEN candidates[i] ELSE Unpaired

CurveCandidates(copy, m, side) ==
  {i \in DOMAIN copy.calls :
     LET c == copy.calls[i] IN Recognised(copy, c) /\ c.op \in side /\ c.mint = m}

CurveLogged(copy, m, side) ==
  {i \in Logged(copy, CurveOps \cap side) : copy.log[i].call.mint = m}

\* The trades of one side, with the number of each among them.  Logged ones
\* are taken to be those of the recognised instructions, in order; without any,
\* the instructions stand for themselves.
CurveTrades(copy, m, side) ==
  LET candidates == InOrder(CurveCandidates(copy, m, side))
      exact == InOrder(CurveLogged(copy, m, side))
  IN  IF CurveLogged(copy, m, side) = {}
      THEN [i \in DOMAIN candidates |->
              [at |-> candidates[i], index |-> candidates[i], number |-> i, exact |-> FALSE,
               call |-> copy.calls[candidates[i]]]]
      ELSE [i \in DOMAIN exact |->
              [at |-> copy.log[exact[i]].at, index |-> Instruction(candidates, i), number |-> i,
               exact |-> TRUE, call |-> copy.log[exact[i]].call]]

CurveMints(copy) ==
  {c.mint : c \in {d \in Range(copy.calls) : Recognised(copy, d)}}
    \cup {copy.log[i].call.mint : i \in Logged(copy, CurveOps)}

Creates(copy) == {c \in Range(copy.calls) : c.op = "create" /\ Recognised(copy, c)}

\* Mutant: the creator is that of any mint created in the transaction.
CreatorOfAny(copy, m) ==
  IF Creates(copy) = {} THEN copy.signer ELSE (CHOOSE c \in Creates(copy) : TRUE).wallet

\* The wallet the create names; in any other transaction whoever signed it.
Creator(copy, m) ==
  IF \E c \in Creates(copy) : c.mint = m
  THEN (CHOOSE c \in Creates(copy) : c.mint = m).wallet
  ELSE copy.signer

\* What the buys cost: as logged, or as their instructions say.
Paid(buys) ==
  FoldLeft(LAMBDA sum, b : sum + (IF b.exact THEN b.call.quote ELSE b.call.limit), 0, buys)

\* native: the currency is SOL, or no trade of the mint tells it.
CurveEvent(copy, m) ==
  LET buys == CurveTrades(copy, m, BuyOps)
      sells == CurveTrades(copy, m, SellOps)
  IN  [venue |-> "curve", mint |-> m, signer |-> copy.signer, creator |-> Creator(copy, m),
       create |-> \E c \in Creates(copy) : c.mint = m,
       native |-> m \notin Foreign \/ buys \o sells = <<>>,
       paid |-> Paid(buys), buys |-> buys, sells |-> sells]

-----------------------------------------------------------------------------
(* decode_amm_transactions: each instruction takes the first logged trade  *)
(* of its side, pool and wallet that no earlier one has taken, so the n-th *)
(* of them takes the n-th.  A mint has one pool.                           *)

AmmCandidates(copy) ==
  {i \in DOMAIN copy.calls :
     copy.calls[i].op \in AmmOps /\ (copy.tables \/ ~copy.calls[i].tabled)}

SameTrade(c, d) == (Buys(c) <=> Buys(d)) /\ c.mint = d.mint /\ c.wallet = d.wallet

\* Mutant: a logged trade is not taken away.
TurnKept(copy, i) == 1

\* The number of instruction i among those of its side, pool and wallet.
Turn(copy, i) ==
  Cardinality({j \in AmmCandidates(copy) : j <= i /\ SameTrade(copy.calls[j], copy.calls[i])})

AmmLogged(copy, i) ==
  {k \in Logged(copy, AmmOps) : SameTrade(copy.log[k].call, copy.calls[i])}

AmmTrades(copy, m, side) ==
  LET mine == InOrder({i \in AmmCandidates(copy) :
                         copy.calls[i].mint = m /\ copy.calls[i].op \in side})
      exact(i) == Turn(copy, i) <= Cardinality(AmmLogged(copy, i))
      logged(i) == copy.log[InOrder(AmmLogged(copy, i))[Turn(copy, i)]]
  IN  [n \in DOMAIN mine |->
         LET i == mine[n]
         IN  [at |-> IF exact(i) THEN logged(i).at ELSE i, index |-> i, number |-> n,
              exact |-> exact(i),
              call |-> IF exact(i) THEN logged(i).call ELSE copy.calls[i]]]

\* No order depends on the currency and the cost of a trade on the AMM.
AmmEvent(copy, m) ==
  [venue |-> "amm", mint |-> m, signer |-> copy.signer, creator |-> copy.signer, create |-> FALSE,
   native |-> m \notin Foreign, paid |-> 0,
   buys |-> AmmTrades(copy, m, BuyOps), sells |-> AmmTrades(copy, m, SellOps)]

-----------------------------------------------------------------------------
\* decode_transactions
Events(copy) ==
  IF copy.failed THEN {}
  ELSE {CurveEvent(copy, m) : m \in CurveMints(copy)}
         \cup {AmmEvent(copy, copy.calls[i].mint) : i \in AmmCandidates(copy)}

=============================================================================
