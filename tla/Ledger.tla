-------------------------------- MODULE Ledger --------------------------------
(***************************************************************************)
(* From transactions to the trades of one wallet: the copies of every      *)
(* transaction are decoded (Decode), deduplicated (Merge) and booked by    *)
(* the journal, which shows beside every trade what the tokens that are    *)
(* left have cost (journal.rs, TokenHistory and remaining_cost_price).     *)
(* Copies come in any order and any number of times; an event passes the   *)
(* strategy and the queue of the journal unchanged, or is lost there, like *)
(* one whose copy never comes.                                             *)
(***************************************************************************)
EXTENDS Decode, Merge

CONSTANT Own  \* the wallet of the program

VARIABLES
  chain,  \* the transactions, in the order of slot and index
  decoded,\* the events of the Shred copy and of the complete copy of each
  booked, \* TokenHistory of every mint: the trades, as they were booked
  heard   \* history: keys of which a complete copy came in

ledgerVars == <<vars, chain, decoded, booked, heard>>

-----------------------------------------------------------------------------
(* Booking.                                                                *)

\* Mutant: trades of one wallet in a transaction are not told apart.
SeenKeyOfWallet(x) == <<x.tx, x.mint, x.call.wallet, Buys(x.call)>>

\* TokenHistory.seen
SeenKey(x) == <<x.tx, x.mint, x.index, x.number, x.call.wallet, Buys(x.call)>>

Entry(t, m, trade) ==
  [tx |-> t, mint |-> m, at |-> trade.at, index |-> trade.index, number |-> trade.number,
   call |-> trade.call]

\* Mutant: estimates from a Shred copy are booked.
FreshEstimates(history, t, e) ==
  LET trades == e.buys \o e.sells
      key(i) == SeenKey(Entry(t, e.mint, trades[i]))
  IN  {i \in DOMAIN trades :
         /\ \A k \in DOMAIN history : SeenKey(history[k]) # key(i)
         /\ \A j \in 1..(i - 1) : key(j) # key(i)}

\* The trades of an event, buys first, that are booked: those that executed and
\* are not known from an earlier event or from an earlier trade of this one.
Fresh(history, t, e) ==
  LET trades == e.buys \o e.sells
      key(i) == SeenKey(Entry(t, e.mint, trades[i]))
  IN  {i \in DOMAIN trades :
         /\ trades[i].exact
         /\ \A k \in DOMAIN history : SeenKey(history[k]) # key(i)
         /\ \A j \in 1..(i - 1) : trades[j].exact => key(j) # key(i)}

Record(t, e) ==
  LET new == InOrder(Fresh(booked, t, e))
  IN  booked' = booked \o [n \in DOMAIN new |-> Entry(t, e.mint, (e.buys \o e.sells)[new[n]])]

\* An event of a copy of transaction t comes in.
Arrive(t, source, e) ==
  LET k == <<t, e.mint>> IN
  /\ Duplicate(k, source) \/ FirstReport(k, source)
  /\ IF out' = Nothing THEN UNCHANGED booked ELSE Record(t, e)
  /\ heard' = IF Complete(source) THEN heard \cup {k} ELSE heard
  /\ UNCHANGED <<chain, decoded>>

LedgerInit ==
  /\ Init
  /\ decoded = [t \in DOMAIN chain |->
                  [full \in BOOLEAN |->
                     Events(IF full THEN FullCopy(chain[t]) ELSE ShredCopy(chain[t]))]]
  /\ booked = <<>> /\ heard = {}

-----------------------------------------------------------------------------
(* The cost of the tokens that are left.  A price is a fraction.  Trades   *)
(* whose cost the code calls unknown are left out: a currency of unknown   *)
(* decimals, a buy of no tokens.                                           *)

\* Mutant: the place in the transaction goes before the transaction.
PrecedesByIndex(x, y) ==
  \/ x.index < y.index
  \/ x.index = y.index /\ x.tx < y.tx
  \/ x.index = y.index /\ x.tx = y.tx /\ x.number < y.number
  \/ /\ x.index = y.index /\ x.tx = y.tx /\ x.number = y.number
     /\ Buys(x.call) /\ Sells(y.call)

\* order_key and sell_order_key; a buy before a sell of the same key.
Precedes(x, y) ==
  \/ x.tx < y.tx
  \/ x.tx = y.tx /\ x.index < y.index
  \/ x.tx = y.tx /\ x.index = y.index /\ x.number < y.number
  \/ /\ x.tx = y.tx /\ x.index = y.index /\ x.number = y.number
     /\ Buys(x.call) /\ Sells(y.call)

SameOrder(x, y) == x.tx = y.tx /\ x.index = y.index /\ x.number = y.number

Flat == [held |-> 0, cost |-> <<0, 1>>]

Spend(acc, c) ==
  LET sold == IF c.tokens < acc.held THEN c.tokens ELSE acc.held IN
  IF Buys(c)
  THEN [held |-> acc.held + c.tokens,
        cost |-> <<acc.cost[1] + c.quote * acc.cost[2], acc.cost[2]>>]
  ELSE IF acc.held = 0 THEN acc
  ELSE [held |-> acc.held - sold,
        cost |-> <<acc.cost[1] * (acc.held - sold), acc.cost[2] * acc.held>>]

\* The members of S in the order that less, a set of pairs, gives them.
Ranked(S, less) ==
  [n \in 1..Cardinality(S) |->
     CHOOSE x \in S : Cardinality({y \in S : <<y, x>> \in less}) = n - 1]

\* What counts in the line of trade k, which is written when the trade is booked:
\* the own trades before it, and k itself unless it is an own sell.
Counted(k) ==
  LET x == booked[k] IN
  {l \in 1..k :
     LET y == booked[l] IN
     /\ y.mint = x.mint /\ y.call.wallet = Own
     /\ IF SameOrder(x, y) THEN ~(x.call.wallet = Own /\ Sells(x.call)) ELSE Precedes(y, x)}

\* remaining_cost_price
RemainingCost(k) ==
  LET lines == Counted(k)
      inOrder == Ranked(lines, {p \in lines \X lines : Precedes(booked[p[1]], booked[p[2]])})
      after[n \in 0..Cardinality(lines)] ==
        IF n = 0 THEN Flat ELSE Spend(after[n - 1], booked[inOrder[n]].call)
  IN  after[Cardinality(lines)]

-----------------------------------------------------------------------------
(* Properties.                                                             *)

\* A mint moves from the curve to the AMM inside transaction t: its two events
\* have one key, and the merge takes the second for a copy.
Migrates(t, m) ==
  \E c, d \in Range(Executed(chain[t])) :
    c.mint = m /\ d.mint = m /\ c.op \in CurveOps /\ d.op \in AmmOps

Known(t) == \A c \in Range(Executed(chain[t])) : c.op # "new_buy"

\* Only what the chain executed and reported is booked: no estimate of a Shred
\* copy, no trade of a failed transaction, none under another mint.
OnlyExecutedIsBooked ==
  \A k \in DOMAIN booked :
    LET x == booked[k] IN
    /\ x.at \in Range(Log(chain[x.tx])) /\ ~chain[x.tx].failed
    /\ x.call = Executed(chain[x.tx])[x.at] /\ x.call.mint = x.mint

\* Whatever the order and the number of copies, a trade is booked once: the
\* holdings and costs in the reports do not count it twice.
NoTradeTwice ==
  \A k, l \in DOMAIN booked :
    booked[k].tx = booked[l].tx /\ booked[k].at = booked[l].at => k = l

\* Every trade in the logs of a transaction whose complete copy came in is
\* booked, although a Shred copy came first or the same wallet traded again
\* in the transaction (decode.rs:767-769, journal.rs:134).
TradesAreBooked ==
  \A t \in DOMAIN chain : \A i \in Range(Log(chain[t])) :
    LET m == Executed(chain[t])[i].mint IN
    <<t, m>> \in heard /\ ~Migrates(t, m) =>
      \E k \in DOMAIN booked : booked[k].tx = t /\ booked[k].at = i

\* A booked trade is put at the instruction that made it: neither cut logs nor
\* trades of other mints, sides, wallets and of the AMM between shift it.
PairedWithItsInstruction ==
  \A k \in DOMAIN booked : Known(booked[k].tx) => booked[k].index = booked[k].at

\* The own trades of m that executed, up to instruction i of transaction t.
OwnUpTo(m, t, i) ==
  {p \in UNION {{u} \X DOMAIN Executed(chain[u]) : u \in 1..t} :
     LET c == Executed(chain[p[1]])[p[2]] IN
     /\ ~chain[p[1]].failed /\ (Buys(c) \/ Sells(c)) /\ c.wallet = Own /\ c.mint = m
     /\ p[1] < t \/ p[2] <= i}

Earlier(p, q) == p[1] < q[1] \/ (p[1] = q[1] /\ p[2] < q[2])

\* A buy moves the average price, a sell leaves it.
Hold(acc, c) ==
  IF Buys(c)
  THEN [held |-> acc.held + c.tokens,
        average |-> <<acc.average[1] * acc.held + c.quote * acc.average[2],
                      acc.average[2] * (acc.held + c.tokens)>>]
  ELSE [held |-> IF c.tokens < acc.held THEN acc.held - c.tokens ELSE 0,
        average |-> acc.average]

\* Reference: the holdings of the own wallet, by the order of the chain.
RefHoldings(m, t, i) ==
  LET places == OwnUpTo(m, t, i)
      inOrder == Ranked(places, {r \in places \X places : Earlier(r[1], r[2])})
      after[n \in 0..Cardinality(places)] ==
        IF n = 0 THEN [held |-> 0, average |-> <<0, 1>>]
        ELSE Hold(after[n - 1], Executed(chain[inOrder[n][1]])[inOrder[n][2]])
  IN  after[Cardinality(places)]

\* The own trades up to k were booked when the line of k was written.  They are
\* not when k is a buy after a sell of its own transaction, whose buys are
\* booked first.
Whole(k) ==
  LET x == booked[k] IN
  \A t \in 1..x.tx : chain[t].failed \/
    /\ Known(t)
    /\ \A i \in DOMAIN Executed(chain[t]) :
         LET c == Executed(chain[t])[i] IN
         (Buys(c) \/ Sells(c)) /\ c.wallet = Own /\ c.mint = x.mint
           /\ (t < x.tx \/ i <= x.at) =>
             \E l \in 1..k : booked[l].tx = t /\ booked[l].at = i

\* The cost in the line of a trade is the moving average of what the wallet
\* holds, nothing when it holds nothing (journal.rs:863), in whatever order the
\* trades before it were heard of.
CostIsAverage ==
  \A k \in DOMAIN booked :
    LET x == booked[k]
        shown == RemainingCost(k)
        ref == RefHoldings(x.mint, x.tx,
                           IF x.call.wallet = Own /\ Sells(x.call) THEN x.at - 1 ELSE x.at)
    IN  Whole(k) =>
          /\ shown.held = ref.held
          /\ shown.held # 0 =>
               shown.cost[1] * ref.average[2] = ref.average[1] * shown.held * shown.cost[2]

=============================================================================
