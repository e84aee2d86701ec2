------------------------------ MODULE MCSignals ------------------------------
(* Instances of Signals for TLC.                                           *)
EXTENDS Signals

CONSTANTS m1, m2, own, dev, deployer, other

MCKeys == (1..3) \X Mints

C(op, m, wallet, tokens, quote) ==
  [op |-> op, mint |-> m, wallet |-> wallet, tokens |-> tokens, quote |-> quote,
   limit |-> quote + 1, tabled |-> FALSE]

Tx(signer, outer, logged) ==
  [signer |-> signer, outer |-> outer, logged |-> logged, failed |-> FALSE]

Outer(c) == [call |-> c, inner |-> <<>>]

Via(inner) == [call |-> C("other", m1, other, 0, 0), inner |-> inner]

Tabled(c) == [c EXCEPT !.tabled = TRUE]

Failed(tx) == [tx EXCEPT !.failed = TRUE]

MCInit == [quote |-> 6, tokens |-> 60]

Free == [follow |-> <<>>, blackMints |-> {}, blackCreators |-> {}, spend |-> 3, slippage |-> 1,
         feeds |-> {"shred", "live"}]

-----------------------------------------------------------------------------
(* For the books.                                                          *)

Buy1 == C("buy", m1, own, 1, 1)
Buy3 == C("buy", m1, own, 3, 8)
Sell1 == C("sell", m1, own, 1, 2)
Sell2 == C("sell", m1, own, 2, 1)

\* Transactions of one mint, for histories of three: create and first buy, own
\* trades alone, together, by another program and after the move to the AMM.
Shapes == {
  Tx(other, <<Outer(C("create", m1, other, 0, 0)), Outer(C("buy", m1, other, 5, 5)), Outer(Buy1)>>, 2),
  Failed(Tx(own, <<Outer(Buy3)>>, 0)),
  Tx(own, <<Via(<<Buy1, Sell2>>)>>, 2),
  Tx(other, <<Outer(C("amm_sell", m1, other, 1, 1)), Via(<<C("amm_sell", m1, own, 2, 3)>>)>>, 2),
  Tx(other, <<Via(<<C("sell", m1, other, 1, 1)>>), Outer(Sell2)>>, 2)}

\* Single transactions of up to three instructions of two mints and two wallets,
\* with every way to call them and to cut the logs.
Parts == {Buy1, Sell1, C("buy", m1, other, 2, 2), C("new_buy", m1, own, 1, 1),
          Tabled(C("buy", m2, own, 2, 1)), C("create", m2, other, 0, 0),
          C("amm_buy", m2, own, 1, 1), C("amm_sell", m2, own, 1, 1),
          C("amm_buy", m2, other, 1, 1), C("amm_buy", m1, own, 2, 2)}

\* A mint is created once, before it is traded.
Orderly(tx) ==
  \A i \in DOMAIN Executed(tx), j \in DOMAIN Executed(tx) :
    j > i /\ Executed(tx)[j].op = "create" => Executed(tx)[i].mint # Executed(tx)[j].mint

Singles ==
  {tx \in UNION {{Tx(own, <<Outer(a), Outer(b), Outer(c)>>, n), Tx(own, <<Via(<<a, b>>), Outer(c)>>, n)} :
                   a \in Parts, b \in Parts, c \in Parts, n \in {1, 3}} : Orderly(tx)}

\* The strategy is idle, and every transaction of a history is another.
Books ==
  [chain : {<<a>> : a \in Singles}
             \cup {h \in {<<a, b, c>> : a, b, c \in Shapes} : IsInjective(h)},
   set : {[Free EXCEPT !.blackMints = Mints]}]

-----------------------------------------------------------------------------
(* For the orders: a create with what comes with it, then a transaction    *)
(* that sells or buys.                                                     *)

Create == C("create", m1, dev, 0, 0)

With2(c, rest) == {<<Outer(c)>> \o rest, <<Via(<<c>>)>> \o rest, <<Outer(Tabled(c))>> \o rest}

DevBuys == Outer(C("buy", m1, dev, 20, 3))
OtherBuys == Outer(C("buy", m1, other, 10, 6))
DevSells == Outer(C("sell", m1, dev, 10, 2))
AnotherCreate == Outer(C("create", m2, other, 0, 0))
ForeignBuy == Outer(C("buy", m2, dev, 5, 2))

Creations(rests) ==
  {Tx(s, outer, n) : s \in {dev, deployer}, n \in {1, 3}, outer \in UNION {With2(Create, r) : r \in rests}}

OneMint ==
  Creations({<<>>, <<DevBuys, OtherBuys>>, <<OtherBuys, DevSells>>})
    \cup {Failed(Tx(dev, <<Outer(Create), DevBuys>>, 0))}

TwoMints == Creations({<<x, y>> : x, y \in {DevBuys, DevSells, AnotherCreate, ForeignBuy}})

Seconds == {
  Tx(dev, <<Outer(C("sell", m1, dev, 5, 1))>>, 1),
  Tx(deployer, <<Via(<<C("sell", m1, dev, 5, 1), C("sell", m1, other, 5, 1)>>)>>, 2),
  Tx(other, <<Outer(C("sell", m1, other, 5, 1)), Via(<<C("sell", m1, dev, 5, 1)>>)>>, 2),
  Tx(own, <<Outer(C("buy", m1, own, 4, 2)), Via(<<C("buy", m1, own, 3, 2)>>)>>, 2)}

Rules == {
  [Free EXCEPT !.feeds = Sources],
  [Free EXCEPT !.feeds = {"live"}, !.blackMints = {m2}, !.blackCreators = {deployer},
               !.slippage = 0, !.spend = 1],
  [Free EXCEPT !.feeds = Sources, !.blackCreators = {other},
               !.follow = [w \in {dev, deployer} |-> IF w = dev THEN <<3, 5>> ELSE <<0, 9>>]],
  [Free EXCEPT !.feeds = Sources, !.follow = [w \in {deployer} |-> <<2, 9>>]]}

Trading ==
  [chain : {<<a>> : a \in TwoMints} \cup {<<a, b>> : a \in OneMint, b \in Seconds}, set : Rules]

MCScenarios == Books \cup Trading

=============================================================================
