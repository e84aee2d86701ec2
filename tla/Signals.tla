------------------------------- MODULE Signals -------------------------------
(***************************************************************************)
(* From transactions to orders: what the strategy (strategy/mod.rs,        *)
(* FollowDev) makes of the copies of transactions, what a buy asks of the  *)
(* curve (exec/buy.rs), which sales by the creator the order actor heeds   *)
(* and which amounts it takes for confirmed.  Copies come through Ledger.  *)
(* Fuses, permits, the scan lock and how a position ends are in Engine and *)
(* Sniper: here a position that was begun stays.                           *)
(***************************************************************************)
EXTENDS Ledger

CONSTANTS Scenarios,     \* what happens on the chain, with the settings
          InitReserves,  \* the virtual reserves of a new curve
          NoEntry        \* the mint is not in the position book

\* max_slippage_bps is out of 10,000 in the code.
Scale == 4

\* follow: the range of every wallet followed; spend: buy_lamports; feeds: the
\* sources that report.  What AppConfig::validate lets pass, where it matters.
Valid(s) ==
  /\ DOMAIN s.follow \subseteq Wallets
  /\ \A w \in DOMAIN s.follow : s.follow[w] \in Nat \X Nat /\ s.follow[w][1] <= s.follow[w][2]
  /\ s.blackMints \subseteq Mints /\ s.blackCreators \subseteq Wallets
  /\ s.spend \in Nat \ {0} /\ s.slippage \in 0..(Scale - 1)
  /\ s.feeds \subseteq Sources

ASSUME SignalsAssumption ==
  /\ Own \in Wallets /\ Foreign \subseteq Mints
  /\ \A s \in Scenarios :
       /\ Valid(s.set)
       /\ s.chain \in Seq(Transaction)
       /\ (DOMAIN s.chain) \X Mints \subseteq Keys

VARIABLES
  set,       \* the settings
  entry,     \* what the position book keeps of the event a mint was bought on
  wants,     \* what the strategy asks for on the event put out last
  heeded,    \* history: transactions whose sale by the creator made it sell
  confirmed  \* history: what it took for confirmed

signalsVars == <<ledgerVars, set, entry, wants, heeded, confirmed>>

-----------------------------------------------------------------------------
(* The strategy.  It has no memory: the settings and the event decide.     *)

Direct == DOMAIN set.follow = {}

IsFollow(w) == w \in DOMAIN set.follow

RangeFor(e) == IF IsFollow(e.signer) THEN set.follow[e.signer] ELSE set.follow[e.creator]

\* What the buys of all wallets cost, if any are seen, must be in range.
BuyIfSize(e) ==
  /\ e.native
  /\ e.buys # <<>> => RangeFor(e)[1] <= e.paid /\ e.paid <= RangeFor(e)[2]

Allowed(e) ==
  e.venue = "curve" /\ e.mint \notin set.blackMints /\ e.creator \notin set.blackCreators

WantsBuy(e) ==
  /\ Allowed(e) /\ e.create
  /\ IF Direct THEN e.native
     ELSE e.sells = <<>> /\ (IsFollow(e.signer) \/ IsFollow(e.creator)) /\ BuyIfSize(e)

\* Mutant: only the last sale of an event is looked at.
LastSeller(e) == e.sells[Len(e.sells)].call.wallet

\* Only the first sale of an event is looked at.
Seller(e) == e.sells[1].call.wallet

ReportsSale(e) ==
  /\ Allowed(e) /\ e.sells # <<>>
  /\ IF Direct THEN ~e.create ELSE IsFollow(Seller(e))

OnEvent(e) == IF WantsBuy(e) THEN "buy" ELSE IF ReportsSale(e) THEN "sale" ELSE "nothing"

\* Mutant: a copy for the books is acted upon.
IntentAlways(e, replayed) == OnEvent(e)

\* StrategyRouter::route
Intent(e, replayed) == IF replayed THEN "nothing" ELSE OnEvent(e)

-----------------------------------------------------------------------------
(* The order.                                                              *)

\* The instructions in ops of mint m up to instruction i of tx.
UpToInstruction(tx, m, ops, i) ==
  {j \in 1..i : Executed(tx)[j].mint = m /\ Executed(tx)[j].op \in ops}

\* The reserves of the curve of m, created in tx, after instruction i of tx.
Reserves(tx, m, i) ==
  LET bought == UpToInstruction(tx, m, BuyOps \cap CurveOps, i)
      sold == UpToInstruction(tx, m, SellOps \cap CurveOps, i)
      quote(S) == SumFunction([j \in S |-> Executed(tx)[j].quote])
      tokens(S) == SumFunction([j \in S |-> Executed(tx)[j].tokens])
  IN  [quote |-> InitReserves.quote + quote(bought) - quote(sold),
       tokens |-> InitReserves.tokens - tokens(bought) + tokens(sold)]

Positive == [quote : Nat \ {0}, tokens : Nat \ {0}]

IsCreated(tx, m) == \E c \in Range(Executed(tx)) : c.op = "create" /\ c.mint = m

\* Virtual reserves are positive: a curve has virtual SOL that nobody can take out.
ASSUME CurveAssumption ==
  /\ InitReserves \in Positive
  /\ \A s \in Scenarios : \A t \in DOMAIN s.chain : \A m \in Mints :
       LET tx == s.chain[t]
       IN  ~tx.failed /\ IsCreated(tx, m) =>
             \A i \in 0..Len(Executed(tx)) : Reserves(tx, m, i) \in Positive

Exact(trades) == {i \in DOMAIN trades : trades[i].exact}

After(tx, e, trade) == Reserves(tx, e.mint, trade.at)

\* Mutant: those of the first buy.
FirstReserves(tx, e) ==
  IF Exact(e.buys) # {} THEN After(tx, e, e.buys[Min(Exact(e.buys))])
  ELSE IF Exact(e.sells) # {} THEN After(tx, e, e.sells[Max(Exact(e.sells))])
  ELSE InitReserves

\* live_reserves: those the last logged buy left, without one the last sale.
LiveReserves(tx, e) ==
  IF Exact(e.buys) # {} THEN After(tx, e, e.buys[Max(Exact(e.buys))])
  ELSE IF Exact(e.sells) # {} THEN After(tx, e, e.sells[Max(Exact(e.sells))])
  ELSE InitReserves

Gives(r) == (set.spend * r.tokens) \div (r.quote + set.spend)

AtLeastOne(n) == IF n = 0 THEN 1 ELSE n

MinTokensOut(r) == AtLeastOne((Gives(r) * (Scale - set.slippage)) \div Scale)

-----------------------------------------------------------------------------
(* The order actor.                                                        *)

\* Mutant: instructions of a Shred copy confirm too.
OwnEstimates(trades) == {i \in DOMAIN trades : trades[i].call.wallet = Own}

OwnExact(trades) == {i \in DOMAIN trades : trades[i].call.wallet = Own /\ trades[i].exact}

\* confirmed_buy_tokens and confirmed_sell
Confirmations(t, e) ==
  LET total == SumFunction([i \in OwnExact(e.buys) |-> e.buys[i].call.tokens]) IN
  {[tx |-> t, mint |-> e.mint, side |-> "buy", tokens |-> total] : n \in {total} \ {0}}
    \cup {[tx |-> t, mint |-> e.mint, side |-> "sell", tokens |-> 0] : i \in OwnExact(e.sells)}

Handle(t, full, e, intent) ==
  LET m == e.mint IN
  /\ confirmed' = confirmed \cup Confirmations(t, e)
  /\ entry' = IF intent = "buy" /\ entry[m] = NoEntry
              THEN [entry EXCEPT ![m] = [creator |-> e.creator, tx |-> t, full |-> full,
                                         minOut |-> MinTokensOut(LiveReserves(chain[t], e))]]
              ELSE entry
  /\ heeded' = IF intent = "sale" /\ entry[m] # NoEntry /\ entry[m].creator = Seller(e)
               THEN heeded \cup {<<t, m>>}
               ELSE heeded

\* A copy is merged, booked, judged and handled.
Report(t, source, e) ==
  /\ Arrive(t, source, e)
  /\ IF out' = Nothing
     THEN wants' = "nothing" /\ UNCHANGED <<entry, heeded, confirmed>>
     ELSE /\ wants' = Intent(e, out'.replayed)
          /\ Handle(t, out'.complete, e, wants')
  /\ UNCHANGED set

SignalsInit ==
  /\ \E s \in Scenarios : chain = s.chain /\ set = s.set
  /\ LedgerInit
  /\ entry = [m \in Mints |-> NoEntry]
  /\ wants = "nothing" /\ heeded = {} /\ confirmed = {}

SignalsNext ==
  \E t \in DOMAIN chain, source \in set.feeds :
    \E e \in decoded[t][Complete(source)] : Report(t, source, e)

SignalsSpec == SignalsInit /\ [][SignalsNext]_signalsVars

-----------------------------------------------------------------------------
(* Properties.                                                             *)

\* A buy is asked for once however many sources report the create and in
\* whatever order, and only of a mint that is created there, by a wallet that
\* is followed and none of the blacklist; a mint known not to trade for SOL and
\* a create that failed are bought only when the copy cannot tell.
ChosenOnce ==
  [][wants' = "buy" =>
       LET k == out'.key
           tx == chain[k[1]]
       IN  /\ since[k] = Capacity
           /\ k[2] \notin set.blackMints
           /\ \E c \in Range(Executed(tx)) :
                /\ c.op = "create" /\ c.mint = k[2]
                /\ c.wallet \notin set.blackCreators
                /\ Direct \/ IsFollow(c.wallet) \/ IsFollow(tx.signer)
           /\ out'.complete =>
                /\ ~tx.failed
                /\ k[2] \in Foreign => \A i \in Range(Log(tx)) :
                     Executed(tx)[i].mint # k[2] \/ Executed(tx)[i].op \in AmmOps
    ]_signalsVars

\* The logs of transaction t hold all its trades.
Uncut(t) == Len(Log(chain[t])) = Len(Where(Executed(chain[t]), LAMBDA c : Buys(c) \/ Sells(c)))

CurveTradesOf(t, m) ==
  {i \in DOMAIN Executed(chain[t]) :
     Executed(chain[t])[i].mint = m /\ Executed(chain[t])[i].op \in CurveOps \ {"create"}}

\* A buy on a complete copy asks for no more tokens than the curve gives after
\* that transaction, so that it does not fail by itself; and unless a sale came
\* last, for no less than the slippage allows (README.md, max_slippage_bps).
OrderFitsCurve ==
  \A m \in Mints :
    LET t == entry[m].tx
        trades == CurveTradesOf(t, m)
        gives == Gives(Reserves(chain[t], m, Len(Executed(chain[t]))))
    IN  entry[m] # NoEntry /\ entry[m].full /\ Uncut(t) =>
          /\ entry[m].minOut <= AtLeastOne(gives)
          /\ trades # {} /\ Buys(Executed(chain[t])[Max(trades)]) =>
               gives * (Scale - set.slippage) < (entry[m].minOut + 1) * Scale

\* A later sale by the creator of a mint that was bought is heeded when its
\* complete copy comes first, if it is the first of its transaction and, with
\* follows, the wallet that is named as creator is followed (engine.rs:345,
\* README.md on sells): neither a relayed nor a bundled transaction hides it.
CreatorSaleHeeded ==
  [][\A m \in Mints, t \in DOMAIN chain :
       LET sales == Where(Executed(chain[t]), LAMBDA c : c.mint = m /\ c.op = "sell") IN
       /\ out' # Nothing /\ out'.key = <<t, m>> /\ out'.complete /\ ~out'.replayed
       /\ entry[m] # NoEntry /\ ~Migrates(t, m)
       /\ \A c \in Range(Executed(chain[t])) : c.op = "create" => c.mint # m
       /\ sales # <<>> /\ Executed(chain[t])[sales[1]].wallet = entry[m].creator
       /\ chain[t].signer \notin set.blackCreators
       /\ Direct \/ IsFollow(entry[m].creator)
       => <<t, m>> \in heeded']_signalsVars

\* What is taken for confirmed was executed by the own wallet, and the amount of
\* a position is what it bought in that transaction, whichever copies came: a
\* wrong amount is sold with the position (engine.rs:703-735).
ConfirmationIsReal ==
  \A x \in confirmed :
    LET calls == Executed(chain[x.tx])
        mine == {i \in DOMAIN calls : /\ calls[i].wallet = Own /\ calls[i].mint = x.mint
                                      /\ IF x.side = "buy" THEN Buys(calls[i]) ELSE Sells(calls[i])}
        amount == SumFunction([i \in mine |-> calls[i].tokens])
    IN  /\ ~chain[x.tx].failed /\ mine # {}
        /\ x.side = "buy" =>
             /\ x.tokens <= amount
             /\ Uncut(x.tx) /\ ~Migrates(x.tx, x.mint) => x.tokens = amount

=============================================================================
