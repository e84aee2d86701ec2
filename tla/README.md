# A TLA+ model of pump-sniper

pump-sniper watches Solana for new pump.fun tokens, buys some of them within
milliseconds, holds each for a configured time and sells it. Its correctness is
not in the arithmetic but in the order of things: the answer of a sender, the
event of the chain, the timeout, the operator's command and the next market
event all arrive independently, and each may be late, repeated or missing. This
directory models those parts of the program, checks them with TLC on small
instances, shows that the order actor implements an abstract life of what it buys,
and proves the central invariants with TLAPS for every size.

Paths without a prefix below are under `src/src/`; `README.md` and
`config.example.toml`, when cited with a line, are the repository's.

## 1. The system

```
 Geyser stream ──┐                                          ┌── buy / sell tasks ── lander ── routes
 target stream ──┤                                          │            │
 Shred stream  ──┼─► merge ─► strategy actor ─► order actor ─┤◄── results ┘
 RPC repair    ──┘    (dedup)   (router)  ▲    (book)  ▲     └─► journal (log, reports) ─► admin summaries
      ▲                           │       └─ releases ─┘
      └── gaps, cursor ── disk    └─► watched mints ─► target stream          admin commands ─► order actor
```

Every box is one tokio task that owns its state; they talk over bounded
channels. What they share is a handful of atomics: the integrity gate, the
pending-gap count and the journal's drop counter, all of which the order actor
reads before it opens a position.

| Component | Source | State | Operations | What is hard | What makes it correct |
|---|---|---|---|---|---|
| Position book | `position.rs` | entry per mint: Buying, SubmittedBuy, Open, Selling, SubmittedSell; deferred exit; reported flag | begin/submit/fail/confirm buy, request/submit/fail/confirm sell, import, timeouts, abandon | calls in any legal order; a late call meets another entry of the same mint | one seller per position; a deferred exit survives; a confirmation only clears its own order |
| Order actor | `engine.rs` | book, confirmation cache, three run flags, permits | results, commands, frames, 50 ms tick | confirmation before result; task that outlives its entry; fuse and restart; permits | it implements `Custody`; see also `SellOwnership` to `StopFinishes` below |
| Strategy router | `strategy/mod.rs` | scan target, published mints | route an event, forward a frame, release a target | the release is 30 s late, or is dropped; scan drops foreign events | a held position stays watched; scan's lock always has a reason |
| Main feed | `listen/geyser.rs` | cursor, replay bound, skip flag; in scan the sampled tip | connect live or replaying, slot and transaction updates, disconnect, sample | updates out of order, replay floor, cut streams, an RPC node that lags | nothing but a slot cut off in the middle is missed silently; old never passes for new |
| Cursor, repair, gate | `listen/cursor.rs`, `listen/repair.rs`, `listen/mod.rs` | cursor file, gap file, gap queue, `INTEGRITY_OK`, `PENDING_GAPS` | persist, enqueue, repair, retry, restart | two files and two tasks, crash between writes, unreadable file, lagging RPC node | a gap is on disk before the cursor passes it; the gate is open only on whole data |
| Merge | `listen/merge.rs` | bounded table of seen (signature, mint) | first report, enrichment, eviction | copies of one transaction in any order | acted on once; the complete copy is never held back |
| Lander | `exec/land.rs`, `exec/sender.rs`, `config.rs` | one send: routes, answers, grace timer | plan tips, fan out, race answers | UDP answers say little; timer against late answers | a send fails only when all routes erred; tips cover, budget holds; one variant spends until the sale |
| Trade journal | `journal.rs` | queue, log, token history, pending signatures | offer, log, show, confirm | event before submission; full queue; failing log | log before report; confirmed once; loss closes the gate |
| Admin server | `admin.rs` | bot state, token list, signature lookups | HTTP commands, rows, lookups | rows and lookups are applied by tasks of their own; a stale wallet view | commands are in `Engine`; what the list says the chain did is true, and stays |
| Target feed | `listen/geyser.rs:371-548` | active targets, signatures seen | standby, subscribe, change, receive | the list changes while a request is under way or a transaction is in hand | what is sent of a mint subscribed to is heard, of a released one at most the transaction in hand |
| Decoder | `pump/decode.rs` | none | a copy of a transaction to its events | which instruction a logged trade belongs to; cut logs; Shred copies, made before the transaction ran | only executed trades, each once, at its own place |
| Follow rules | `strategy/mod.rs:23-126` | none | an event to buy, sale or nothing | what the first copy lacks is not judged again | each create is judged once, and only a fit one bought |
| Order builders, instructions | `exec/buy.rs`, `exec/sell.rs`, `pump/ix.rs` | none | an event and the settings to a transaction | reserves inside a transaction, rounding, slippage | a buy asks for what the curve can give |
| The rest | telemetry, display, price, wallet, pda, rpc, constants, tip accounts, admin-ui, examples | none that a decision reads | formatting and I/O | - | not modelled |

`PROJECT.json` lists the same components with their status, and every hazard we
found in the code, at its line, with the property that would catch it.

## 2. Modules

| Module | Models | Used by |
|---|---|---|
| `PositionBook` | one operator per method of `position.rs`, on the entry of one mint | `Engine` |
| `Engine` | the order actor with its order tasks, the chain and the feed around it | `Sniper`, `EngineCustody`, `EngineProofs` |
| `Custody` | abstract: what is promised of the tokens a buy brings | `EngineCustody` |
| `EngineCustody` | the mapping by which `Engine` implements `Custody` | `MCEngine`, `CompositionProofs` |
| `Sniper` | the strategy router composed with `Engine` over the frame and release channels | `MCSniper`, `CompositionProofs` |
| `Feed` | main stream, cursor file, gap store, repair task, integrity gate, crashes | `MCFeed`, `FeedProofs` |
| `Merge` | the deduplicating merge of the sources | `Ledger`, `SignalsProofs` |
| `Lander` | landing configuration, tip plans and the race of the routes | `MCLander`, `LanderProofs` |
| `Journal` | the journal queue, its log and the confirmation lines | `MCJournal`, `JournalProofs` |
| `TokenList` | one mint of the admin's token list: rows, notes and signature lookups | `MCTokenList`, `TokenProofs` |
| `Decode` | the decoder: the events of a copy of a transaction | `Ledger` |
| `Ledger` | copies decoded, merged and booked as trades, with the cost of what is left; composes `Decode` and `Merge` | `Signals` |
| `Signals` | what the strategy and the order actor make of the copies: buys and their limits, the creator's sales, confirmations; extends `Ledger` | `MCSignals` |
| `TargetFeed` | the stream of the published mints | `MCTargetFeed`, `TargetProofs` |
| `EngineProofs`, `CompositionProofs`, `FeedProofs`, `SignalsProofs`, `LanderProofs`, `JournalProofs`, `TokenProofs`, `TargetProofs` | theorems | - |

`MC*` modules hold only what TLC needs: symmetry sets, constant sets, sample
transactions and two restricted specifications, explained in section 3.

### PositionBook and Engine

An entry of the book is the record `PositionState`; `st` is the Rust enum
variant and `"none"` the missing key. A method that loops over the book
(`claim_all_for_shutdown`, `abandon_unconfirmed_buys`, ...) is one operator
applied to every mint. Of a `Position` we keep the order that bought it and
whether its amount is what the chain reported (`exact`) or the estimate. Elapsed
time is one Boolean `aged`, set by `Age` at any moment after the entry was made:
the properties ask whether a limit was reached, not how long it is.

Each `spawn_buy`/`spawn_sell` is a numbered task with a stage: queued (a sell
waits for a permit), running, ok or err (its result is in the channel), done.
The chain is the set `landed`; a transaction that was handed to a route may
execute at any later time, or never, whatever the senders said. The feed may
report an executed order any number of times. Each arm of the actor's `select!`
is an action: results `BuyAccepted`..`SellFailed`, commands `Start`,
`StopGracefully`, `SellAll`, `ForceStop`, frames `Create*`, `OwnBuySeen`,
`OwnSellSeen`, `CreatorSellSeen`, and `Tick`. A handler that ends with
`finish_admin_stop_if_flat` has it as the conjunct `FinishStop`; a decision
`Start` of the book, which the code answers with `spawn_sell`, is part of
`Commit`. So no handler is split where the code is not.

`SellAll` takes what `Recoverable` lets through of the accounts the page sends
(`holdings_sell_all`); an account is named by the buy that filled it, which may
have been sold since.

The select is biased. We do not model the bias: a result that is in the channel
while another arm runs cannot be told from one sent a moment later.

### Custody

`Engine` says how positions are kept; `Custody` says what for. A buy order brings
a *lot*. For each mint there is a plan about at most one lot: wait for one, hold
it, part with it. Only a delivered lot is held or offered; who asked to be rid of
a lot before it came never holds it; an offered lot is put out of mind only when
it was sold or its sale is overdue; the chain delivers and sells by given orders
only, each once, at any time. `EngineCustody` maps book, tasks and the set
`landed` onto it: a lot is named by its buy order, `plan` is the variant of the
entry with its deferred exit, `offered` and `spent` are the lots of the sell tasks
that were spawned and that landed; the offer is withdrawn when the last sell of the
lot can execute no more (`Withdraw`). Tasks, permits, the confirmation cache, flags
and releases have no counterpart. `Next` of `Custody` moves every mint at once,
since a command or a tick does. The book of a Buying entry may already know an
order of an earlier lot; a plan to buy therefore names no lot (`LotOf`).

### Sniper

Adds the router's lock (`target`), the published mints (`watched`) and the frame
channel to `Engine`. Frames are handled in order; the actions of `Engine` that
stand for them are taken only for the head of the channel. `mode` selects scan,
standard with follows, or direct; it is chosen at the start and does not change.

### Feed

The mode is chosen at the start. In standard mode the connection replays from its
cursor and what cannot be replayed is repaired. scan forgets its cursor before
every attempt, stores no gap, empties the files at start, and hands on only
creates near the tip that the RPC node told its sampler last (`HandsOn`).

The chain has `MaxSlot` slots; each arrives as one slot update and one batch of
transactions. The variable `faults`, fixed at the start, says what server, RPC
node and disk may do, so that a property says under which assumption it holds.
`Restart` is a crash and `Disconnect` a broken connection, both at any point, between
a slot update and its transactions too: memory is lost at a crash, the two files
stay. The slot that was cut off so is remembered in `torn`. A file
that cannot be read at the next start shuts the gate and counts as empty.
The history variables `have`, `live`, `since`, `torn` and `opened` record what the
program was told, for the properties alone.

### Merge, Lander, Journal

`Merge` keeps the queue and the table of seen keys apart, as the code does, and
remembers for the properties how many keys were reported since a key was.
`Lander` starts in every configuration that validation accepts and models one
`send_any`; a variant is named by the set of routes it is for. An answer `"error"`
is any error of a sender, timeouts and unexpected bodies included, and says
nothing of whether the route took the order: `Execute` is open to every variant
that was handed to a route, then and later. `account` is the token account that
the variants of a buy share; the sale (`Sold`) closes it. `Journal` splits
the writer where the code can stop: log first (`Log`, or `LogFails`, which ends
the task), then `Show`.

### TokenList

The journal hands each row (a submission, an own buy, an own sell) to a task of
its own, so rows are a set from which any is applied next; so are the notes of
the order actor. A submitted buy starts a lookup, which polls the RPC node
`Attempts` times (40 in the code) and then writes into whatever the entry has
become, an entry evicted and made anew included. `note_overrides` is
`NoteOverrides`. A slot is named by the signature it belongs to, so that a hash
and a slot of different buys can be told apart.

### Decode, Ledger and Signals

A transaction is its instructions, with those they called, how many of its trades
the logs still hold, and whether it failed. The decoder never sees it, only a
*copy*: `FullCopy` from Geyser and RPC, `ShredCopy` from an entry, which was
packed before anything ran and has no inner instructions, no lookup tables, no
logs and no result. The bonding curve pairs the n-th logged trade of a mint and
side with its n-th recognised instruction; the AMM gives each instruction the
first logged trade of its side, pool and wallet that is left, so that the n-th of
them takes the n-th (`Turn`). Without a logged trade the instructions stand for
themselves, as estimates. Trades are selected as sets of positions and enumerated
in increasing order (`InOrder`), which the provers can reason about.

`Ledger` hands every copy of every transaction through `Decode`, `Merge` and
`TokenHistory`, and computes beside each trade the moving cost price as the
journal does; the reference, `RefHoldings`, walks the chain instead. Prices are
exact fractions; the code's are floating point. A buy of no tokens, or in a currency
of unknown decimals, whose cost the journal calls unknown, is not told apart.

`Signals` goes on from there. The settings of a scenario are what validation lets
pass: followed wallets with their ranges, blacklists, amount and slippage. `OnEvent`
is `FollowDev::on_event`, `Intent` drops what is marked as replayed. On a wish to
buy, `MinTokensOut` reckons with the reserves `live_reserves` finds in the event
(the curve itself is `Reserves`, integers with the rounding of `pump/ix.rs`);
`Confirmations` is what the order actor takes for confirmed. The rest of the
actor is in `Engine`: here a position that was begun stays.

### TargetFeed

The list of published mints is a watch channel: `published` is its value and
`news` says that the connection has not seen the newest change. `Switch` is the
request that follows a change; requests and transactions are queues between
program and server. The list is looked at twice on leaving standby, which is why
`LeaveStandby` and `FirstTargets` are two actions. The biased select is `Look` (no
news), then `Take` (a transaction) or `Pends` (none there: sleep and ask again);
`PutOut` puts out one event of `hand` when the output has room. The list may change
before each of them.

## 3. What is checked

Each run explores the state space of its instance completely, in about two
minutes at the most. Type correctness and the inductive invariants of section 4
were checked by TLC on these instances before they were proved; now that they are,
no run repeats it.

| Run | Instance | Properties | Shows |
|---|---|---|---|
| `engine_core` | 1 mint, 3 orders, 1 permit, room for 1 release; 184,136 states, depth 27 | `SellOwnership`, `BuyingHasTask`, `HeldIsConfirmed`, `NoLostConfirmation`, `FailClosed`, `PermitBound`, `SaleIsOfTheLot`, `ImplementsCustody` | who may sell, what may be held, which confirmations survive, when positions may be opened, and that over all interleavings of results, events, commands and timeouts the actor is a custodian of one lot at a time |
| `engine_live` | the same without room for releases, the integrity fuse fixed; 43,396 states | `Progress`, `StopFinishes` | no entry stays Buying, SubmittedBuy, Open or Selling for ever; a graceful stop ends unless sells fail for ever |
| `sniper_trade` | 2 mints, 3 orders each, 2 permits, room for 1 frame and 1 release; follow and scan; 312,117 states, depth 48 | `PositionIsWatched` | late and repeated releases never unwatch a position; scan trades one mint at a time and keeps its lock under a position |
| `feed_slots` | 4 slots, overlap 2, chunks of 2, slack 1, three environments, both modes; 1,518,629 states, depth 37 | `OrderlyOpensWhole`, `OrderlyLosesNothing`, `GapsAreWorkedOn`, `OnlyNewIsLive` | with an orderly stream, an RPC node that is up to date and a working disk no slot is missed silently in standard mode, over crashes and broken connections at any point, but for slots cut off between their update and their transactions; a stored gap is worked on or the gate is shut, whatever fails; in either mode no past slot passes for a live one |
| `lander_send` | 3 routes, 2 pools, tips 0..2, budget 3, all 808 valid configurations; 554,936 states | `FailureIsUnanimous`, `AcceptedWins`, `TipsCovered`, `OneExecutesUntilSold`, `Answered` | the receipt, when a send may fail, the tips, what may spend before and after the sale, and that every send ends |
| `journal_orders` | 2 orders of 2 variants, queue of 3; 47,409 states | `ShownIsLogged`, `ConfirmedOnce`, `CompleteUnlessDropped` | log before report, one confirmation line, no unnoticed loss |
| `token_rows` | 2 buys, one of them in 2 variants, and 1 sell; 2 polls; 921,248 states | `VerdictIsReal`, `ExecutedIsShown`, `VerdictHolds` | what the list says the chain did is so, the last buy's success is shown, and no late row or lookup takes a verdict back |
| `signals_copies` | 4,940 scenarios: every transaction of 3 out of 10 sample instructions, called directly or by another program, with whole and cut logs; every history of 3 out of 5 sample transactions; creates with what comes with them, alone or followed by a sale or an own buy, under 4 settings; 2 mints, merge memory of 2; 220,447 states | `OnlyExecutedIsBooked`, `NoTradeTwice`, `TradesAreBooked`, `PairedWithItsInstruction`, `CostIsAverage`, `OncePerKey`, `CompleteGetsThrough`, `ChosenOnce`, `OrderFitsCurve`, `CreatorSaleHeeded`, `ConfirmationIsReal` | whatever copies come in whatever order: the books hold executed trades, once, at their place and cost; a create is judged once and the complete copy still gets through; a buy asks for what the curve gives; the creator's sale is heeded; a confirmed amount is what was bought |
| `target_feed` | 2 mints, 2 transactions of which one touches both, 2 requests under way; 159,859 states | `StreamedIsHeard`, `ReleaseIsHeeded`, `SubscriptionFollows` | what is sent of a mint that is published and subscribed to is put out, of a released one at most the transaction in hand, and the subscription ends at the published list |

Every property of these runs is falsified by a mutant of a mapped definition
(`PROJECT.json`, "mutants"): the operators marked "Mutant" in the modules.

### Bounds

- *Orders per mint.* Three allow a buy and two sells (a failed sell and its
  retry) or two buys and a sell (an abandoned buy that lands beside its
  successor), the shortest histories in which an old order meets a newer entry.
  A fourth order repeats one of those pairs. A buy is only started when it
  leaves a number for its sell. Sells may fail without limit: the number of a
  failed sell that will not execute any more is given back (`Recycled`), one that
  may still execute keeps it while another is left. A sell that executes although
  its senders report an error takes a number for good, so this happens only while
  one is left for the retry (`Land`, `SendFails`); with three orders it does.
- *Mints.* What the order actor does with one mint depends on another only
  through permits, the flags and the release channel; the theorems of section 4
  hold for every set of mints. In scan mints compete for the router's lock, so
  `sniper_trade` has two. Its `Scope` keeps the instance small: with follows,
  where the router treats every mint alone, one mint is traded or recovered; in
  scan the fuses hold and nothing is recovered by hand.
- *Permits.* One is the tightest value: every second order waits. `sniper_trade`
  has two so that one mint's late order and the next mint's buy can overlap.
- *Release channel* of 0 and 1: full at once, or after one. *Frame channel* of 1.
- *Slots.* Four slots with overlap 2 and chunks of 2 give a gap of more than one
  chunk, a replay that starts inside what was seen, and one that starts at the
  lower end of the chain.
- *Merge memory* of 2 with up to 6 keys: eviction, return of an evicted key, and
  a key that is evicted twice. `SignalsProofs` holds for any memory.
- *Tips* 0..2 with a budget of 3: two pools can be in or over the budget, and
  two routes of a pool differ.
- *Journal queue* of 3: overflow happens with one order still unread.
- *Polls* of 2: a lookup can learn of a failure and then of a success, and end
  before, between and after the rows. Two buys are needed for an old lookup.
- *Sample transactions* of `Signals`: three instructions are enough to have two
  trades of one side that could be swapped and one in between; three
  transactions to buy, sell in part and buy again. For the orders a create (called
  directly, by another program, or with its accounts in a table) is combined with
  each pair of a buy and a sale by the dev, a buy by another wallet, a second
  create and a trade that is not for SOL; signed by the dev or by a deployer. The
  strategy is idle where only the books matter. `MCSignals` names what each sample
  is for.
- *Amounts*: reserves of 6 and 60 and slippage out of 4 instead of 10,000, small
  enough that every rounding shows; 64-bit overflow does not occur (`ix.rs`
  computes in 128 bits).
- *Slack* of 1 slot of 4: a create can be near enough, and too late.
- *Requests* of 2: a change while another is on its way. Two mints and a
  transaction of both give the second delivery that `SeenSignatures` could eat.

### Fairness

`engine_live` assumes weak fairness of `Tick` (a tokio interval), of `Age` (time
passes) and of each order task and the handling of its result (spawned tasks
run; the senders have timeouts, from which `Answered` of `Lander` follows). It
assumes nothing of the chain, the feed or the operator: a buy may never be
confirmed, and then its timeout must lead out. Nor does it assume that a sell ever
succeeds. A failing sell goes back to Open and is sent again at the next tick
(`engine.rs:159-181`, `:482-483`), without a limit, and a stop tick gives neither up;
so `StopFinishes` has the premise that from some time on no sell fails, whatever the
senders report of buys. `FairSpecIntegrityHolds` leaves out the steps of the
integrity fuse, which refuses creates just as the audit fuse does; the graph is then
half as large. `lander_send` assumes that each sender
returns (RPC after 8 s and HTTP after 3 s at the latest, UDP at once) and that
the loop runs. `target_feed` assumes that the connection's task runs and
that the server takes the requests it is sent and that the strategy drains the
output; the published list, the chain and the connection owe nothing. Weak fairness is enough because nothing else disables
those steps for good once they are enabled.

### Where the code differs from its documents

Three runs check what a document of the repository says, and find it violated.
`PROJECT.json` quotes both sides.

| Run | Statement | What happens |
|---|---|---|
| `sniper_lock` | scan snipes in a loop (`README.md:9`) | a buy that fails or gets no permit releases no target: scan stays locked |
| `feed_tx_first` | gaps of the slot stream enter the repair queue (`README.md:28`) | a transaction ahead of its slot update moves the cursor over the gap |
| `lander_sold` | the shared account keeps a buy from being filled twice (`README.md:168`, `:85`, `config.rs:474`) | the sale closes it (`exec/sell.rs:62`); a variant that is still valid then buys again |

The second checks unconditionally (`MissingIsOnDisk`) what `feed_slots` checks
for an orderly environment. A failing disk breaks `MissingIsOnDisk` too.

More statements do not describe the code, or only in part. Each follows from a
line or two, so no run is spent on it.

- Slot gaps are queued for repair (`README.md:28`), but a slot is counted as seen at
  its update (`geyser.rs:306-308`). When the connection or the program ends before its
  transactions and the next connection does not replay, because the RPC node did
  not tell its tip or the replay is skipped once (`geyser.rs:178-197`), the slot is
  passed over with no gap and the gate open. `Missing` excepts exactly these slots
  (`torn`); one that was cut off before the cursor file knew of it is not excepted.
- A stop is said to drop an unconfirmed buy once waiting has timed out
  (`engine.rs:217`); the first tick after it drops every unconfirmed buy.
- Sells end when the feed reports them (`README.md:25`), but in scan the router
  passes the events of its target alone (`strategy/mod.rs:155`): a position that
  SellAll recovered is never seen to be sold.
- No new positions while a gap is not repaired (`README.md:171`); slots that the
  RPC node has not confirmed yet count as not produced, so a node that lags
  completes the gap (`repair.rs:158`; `OpenOnlyWhole` fails with `rpc_lags`).
- At most one order of a mint may execute (`position.rs:72-73`); but `Start`
  forgets a Buying entry whose task still runs, and a recovered position is then
  sold beside it. What does hold is `SellOwnership`.
- One signed transaction on all endpoints (`README.md:22`, `:148`); but
  `Variants` makes one per tip pool, as `README.md:168` knows.
- All routes send (`config.example.toml:45`); but a route without a tip is not
  `Eligible` when another has one.
- A cursor or gap file that cannot be read shuts the gate, but the next write
  replaces it and the start after that opens the gate.
- A final status does not go back (`admin.rs:1157`, rule 1); but a submission
  resets the status (`admin.rs:448`), and so may a lookup the node refused
  (`admin.rs:585-588`). `VerdictHolds` says what remains.
- An own buy whose event is applied before its submission is never matched with
  it: the list stays at the verdict of the lookup. A lookup of an earlier buy
  can replace hash and slot by its own, the two together.
- The test `one_transaction_decodes_into_one_event_per_mint` (`decode.rs:1379`)
  names a rule that the decoder leaves when a mint trades on the curve and on the
  AMM in one transaction (`decode.rs:198`). Its second event counts as a copy
  (`merge.rs`), which `TradesAreBooked` excepts (`Migrates`).
- Trades of instructions the decoder has no name for are in the log all the
  same and shift the pairing of the bonding curve; `PairedWithItsInstruction`
  excepts such transactions (`Known`).
- The journal books the buys of a transaction before its sells
  (`journal.rs:352-416`): the cost shown for a buy after a sell of the same
  wallet in one transaction leaves that sell out (`Whole`).
- The range of a followed wallet is said to be for what the dev buys beside the create
  (`README.md:74`); `buy_if_size` compares it with what all wallets buy of the mint in
  that transaction (`decode.rs:722-727`).
- That range is not looked at when the event shows no buy, and
  in a Shred copy it meets the limits the instructions state
  (`strategy/mod.rs:101-107`, `decode.rs:722-727`). The complete copy that follows
  is marked as replayed and not judged again; so a Shred copy decides also when it
  lacks the currency or the failure of a create (`ChosenOnce` says what remains),
  and nothing at all is bought when it lacks a create that another program called
  but shows a trade of that mint.
- With follows a create beside a sale of the same mint is a sale to the strategy
  (`strategy/mod.rs:66` comes before `:87`), and only the first sale of an event is
  looked at. The sale of a creator who did not sign the create is heeded only when
  that creator is followed too (`CreatorSaleHeeded`).
- "Live" reserves (`README.md:84`) are those the last logged buy left, although a
  sale may have followed (`OrderFitsCurve` asks for the full amount only when a buy
  came last); on a Shred copy they are those of a new curve.
- The journal takes creator and slot of a token from the first event it reads
  (`journal.rs:337-346`); when that is a trade, the create is never reported.
- SellAll with two accounts of one mint sells the one that comes last:
  `import_open` replaces an Open entry (`position.rs:84`).
- A release that finds its channel full is dropped (`engine.rs:628-631`); the mint
  stays published until its next release.
- The status page may keep an older state than the program's (`admin.rs:313-335`):
  each change is written by a task of its own.
- The target stream replays nothing: of a mint bought at its create, a buy that
  executes before the subscription is live is not seen there. The main stream
  and the Shred stream may still report it.
- A mint that is released while the target task has a transaction of it in hand is
  still put out (`ReleaseIsHeeded` says how often), and one that is released and
  published again before the task looks loses what the old subscription still sends
  (`geyser.rs:529`): `StreamedIsHeard` speaks of mints that are subscribed to.

## 4. What is proved

TLAPS checks every theorem for any set of mints (or keys, routes, orders), any
bound on orders, any number of permits and any capacity. The assumptions are the `ASSUME`s of the
modules: the numbers are naturals; `MaxInflight`, the capacities and the sizes of
queues and gaps are positive (configuration validation refuses zero permits, the
others are constants of the code); a lookup polls at least once; the routes and
pools of a configuration are finite and there is one of each (validation again);
and "no order" is not an order.

**`EngineProofs`.** `TypeCorrect` is type correctness. `EngineInvariant` proves
`IInv`, from which `SellOwnershipHolds`, `BuyingHasTaskHolds`,
`HeldIsConfirmedHolds` and `NoLostConfirmationHolds` follow. None of these four
is inductive alone. Take `NoLostConfirmation`: when the result of a buy arrives
after its event, the entry becomes SubmittedBuy, and we must know that the
confirmation is in the cache, so `ToldIsRemembered` says that the cache holds
what was told of an order still in execution; and since taking a confirmation
from the cache must not take another order's, `CacheIsConsulted` relates the
submitted order to its task, and `SeenIsLanded` relates the cache to the chain,
which in turn gives `HeldIsConfirmed` on the cached path. The proof is per mint:
`Good` is the invariant for one mint as a predicate of its entry, tasks and
sets; `QuietGood` deals once and for all with the changes that involve no order
result (requests, timeouts, imports, abandonment, whether one mint changes or
all of them), so that only the four results and the two confirmations need an
argument of their own. `CommitOne` is the lemma on spawning a sell.

The fuses: `FailClosed` (`FailClosedHolds`) is not inductive, because
`Start` switches the program on again; one has to know that a reported entry is
always a submitted sell past its timeout, which is what `Start` forgets
(`AllFused`). For `PermitBoundHolds` the running tasks are a finite set that grows
only by one and only below the limit, whereas the sells that one step starts for
many mints (stop, tick) wait in `queued`.

`DeferredExitKeptAlways` and `SubmittedSellHeldAlways` are
action properties that need type correctness alone. `Kept` relates an entry to
its successor; every method of the book keeps it (`KeptMethods`,
`KeptOrderMethods`, `KeptTicked`) where the code calls it: a cached confirmation
only on an entry that was Buying or Selling a moment before, a sell's
confirmation only of an executed order. `ImplementsCustody` says the same of lots (an
exit asked for is kept, a sale under way is not dropped), so no run repeats them; of
two sells of one lot only `SubmittedSellHeld` says that the entry waits for the one
that was submitted last.

**`CompositionProofs`.** `EngineImplementsCustody` is the refinement: every step of
the order actor, its tasks and the chain is, for every mint at once, a step of
`Custody` or leaves the lot of that mint alone. `Custody` names lots and the code
does not, so the proof needs one invariant more, `AllLots`: what is held or sold
is named by a buy, and every sell in execution, and the submitted one, sells the
lot the entry is about (`SaleIsOfTheLotHolds`); otherwise a late confirmation
would settle another lot. `Moves` lists what may become of an entry in the
terms of `Custody`, each method of the book is shown to be such a move where the
code calls it (`MovesOfMethods`, `MovesOfTick`), and `PlanFollows` turns a move into
a step of `Custody`. A failed sell whose number is
given back either leaves its lot on offer or withdraws it (`LotsOfGivenBack`).
The restart, which forgets entries, is the case where
the invariants of `EngineProofs` decide: what it forgets was unconfirmed, or an
overdue sale.

`SniperImplementsEngine` shows that router and frame channel only restrict the
order actor, so that every theorem about `Engine` holds of the composition
(`SniperImplementsCustody`). For `PositionIsWatchedHolds` the invariant `WatchInv`
says of each mint nothing was recovered of: while a create of it waits in the frame
channel, or the book has an entry, it is watched (by a scan, as its target) and no
release or timer of it is under way (`Undisturbed`). It is inductive because a
mint is created once, waits at most once, and nothing of it is released before its
create was seen (`Minded`): what is released after its position ended is never
bought again. An imported position is not so protected, and the property says so.

**`FeedProofs`.** `GapsAreWorkedOnHolds` needs to know what the counter
`PENDING_GAPS` counts: not gaps but copies of gaps in the queue, since a gap whose
removal from the file failed may be queued twice. `Counted` identifies the counter
with the number of pairs of a gap and the number of a copy. `OnlyNewIsLiveAlways`
rests on how a connection was opened (`LiveInv`): after the tip, or replaying up to
the tip the RPC node told. `OrderlyInvariant` is the argument behind the two
orderly properties: what is missing up to the cursor is in a stored gap, which
holds through a slot update because `ChunksCover` (the chunks of a range leave out
no slot), through transactions because their slot update came first, through a broken
connection because the slot that is due is then among those cut off (`Cut`), through a
repair because a stored gap lies in the past (`GapsArePast`) and is repaired wholly,
and through a crash because the gap file equals the memory and the cursor file is
never ahead of it (`FilesAgree`). `OrderlyLosesNothingHolds` follows; for
`OrderlyOpensWholeHolds` a stored gap also has exactly one copy (`OneCopy`), which
the counter counts.

**`SignalsProofs`.** One module for the way from a transaction to a booked trade and
to a decision, in six parts.

*The merge actor by itself.* `MergeInvariant` proves `IInv`: queue and table hold the
same keys once (`MergeTypeOK`), a key that left the queue was followed by `Capacity`
others (`Window`), and the remembered source tells whether the complete copy
went out (`MemoryIsExact`). `CompleteGetsThroughHolds` follows;
`OncePerKeyHolds` is the action property, from `Window` (a recent key is still
in the table) and `MemoryIsExact`.

*The decoder*, for every transaction: any number of instructions, at any depth, with
logs cut anywhere. The lemma that carries the rest is `LoggedPart`: the logs are a
beginning of what executed, so the n-th logged trade of any class of trades is the
n-th executed one of that class. With the class "one side of the curve of one mint" it
is why the n-th logged trade may be put at the n-th instruction (`CurveFaithful`);
with the class "one side, mint and wallet on the AMM" it is why taking the first
trade not yet taken is right (`AmmAt`, `AmmFaithful`). `Faithful` says it of a list of
trades: its exact trades are the logged ones of its mint, side and venue, each once,
with what was executed and, if the decoder has a name for every instruction, in
its place. From there trades of events are told apart (`SameAt`, `SameNumber`).

*The book.* `LedgerInvariant` proves `LedgerInv`. Every entry stands for an exact
trade of an event of a complete copy (`FromLogs`), which gives
`OnlyExecutedIsBookedHolds` and `PairedHolds`; no key is booked twice (`EachOnce`), and
since two entries of one instruction come from one list of the decoder they have
one key: `NoTradeTwiceHolds`, although the merge actor forgets. For
`TradesAreBookedHolds` the property is not inductive: a complete copy that is dropped
must have been booked before, so `BooksFollow` says that of every key of which a
complete copy came in *or went out* the book has all logged trades. A trade is
kept out of the book only by its own key, because within an unmixed mint side
and number tell a trade (`BookedWhole`).

*The strategy.* `SignalsImplementsMerge` shows that every step of the composition is
one of the merge actor, so its theorems hold there (`SignalsOncePerKey`).
`ChosenOnceHolds`: a buy needs a first report, whose key was not in the table, and
the event is that of a create in the copy that came (`CurveEventIs`, `CreatorIs`).
`CreatorSaleHeededHolds` rests on `FirstSale`, that the first sale told is the first
executed whether or not it is in the logs, and on `EntryHolds`, that no mint of the
blacklist is in the book.

*Amounts.* The library's sums are recursive functions, and what is needed of them
is proved first: `SubsetInduction` is an induction principle for finite sets that
takes a set and no operator, so that the provers can use it; with it a sum exists
(`TallyExists`), any member may be taken out of it first (`TotalIs`), and the sum
of values taken one by one from another function is at most that one's, and equal
if all are taken (`SumThrough`). `ConfirmationIsRealHolds` follows with
`OwnAreReal`: the exact trades of an event are instructions of the own wallet, each
once, and all of them when the logs are whole; a Shred copy confirms nothing.
For `OrderFitsCurveHolds`, `OrderInv` remembers the event an order was reckoned
from. The last exact buy of that event is the last buy that executed
(`LastExact`), so after it only sales follow (`OnlySalesFollow`), which take SOL
out and bring tokens back: the curve gives no less at the end (`GivesGrow`), and
exactly as much if that buy came last of all. The rest is the rounding of the
quotients (`OrderFits`).

*Cost.* The journal sorts the own trades of its book up to a line and adds up what
is left and what it cost; the reference goes along the chain with an average
price. `LinesAreTrades`: when the own trades up to the line are booked (`Whole`), the
lines that count for it and the executed trades up to its place correspond one to
one and in the same order, which needs all of `OnlyExecutedIsBooked`, `NoTradeTwice`
and `PairedWithItsInstruction`; sets of one order are enumerated alike
(`CarriedInOrder`). Then one trade after the other leaves the two in agreement: as
much is held, and the cost is that of it at the average price (`SpendAgrees`), the
invariant of the induction in `CostAgrees`, where a run compares only the ends.
`RecursionExists` says that the recursive functions of both sides are defined by
their equations. `CostIsAverageHolds` follows.

What is assumed beyond the ranges of the settings: a scenario's chain is a sequence of
transactions, its keys are among `Keys`, and the virtual reserves of a curve stay
positive (`CurveAssumption`), which the code takes as given too: it does not reckon with a
reserve of zero (`exec/buy.rs:134`).

**`LanderProofs`.** `LInv`: while the loop waits, a route that accepted is in the
channel, and one that dispatched is there or some dispatched route is remembered
(`NothingOverlooked`). So when all senders have ended and the channel is empty
with nothing remembered, all have reported an error (`FailureIsUnanimousHolds`); and the
grace timer, looked at only when the channel is empty, passes over no
acceptance (`AcceptedWinsAlways`). Of the configuration one has to remember that it
was validated (`SpendInv`): with several routes it uses the shared token account,
which every execution creates and only a sale closes, so the two alternate
(`Alternate`); without it there is one route and one variant
(`OneExecutesUntilSoldHolds`). For `TipsCoveredHolds` the sum of validation and the sum of the
tip plans are two folds; `VariantsCost` shows that they add up the same tips, pool
by pool, or nothing when no route has a tip.

**`JournalProofs`.** `JournalInvariant` follows an order through queue, writer, log
and report. `ConfirmedOnceHolds` needs that an order is submitted once
(`OnceSubmitted`), that the chain executes one of its variants (`OneVariant`), and
that a variant is pending exactly when its order was read and no event of it was
(`StillPending`): whichever of the two messages comes second finds the other. `ShownIsLoggedHolds`
is by `LoggedFirst`, which includes the trade the writer has in hand.
`CompleteUnlessDroppedHolds` is by `NothingLost`: unless the drop counter was raised,
what was offered is in the queue, with the writer, or in its books.

**`TokenProofs`.** `TokenInvariant` proves `IInv`: types, `VerdictIsReal` and
`FailureIsReal`, the last because a lookup writes at its end what it remembered
polls before. `VerdictHoldsAlways` is the action property, by what each kind of
step may do to the status (`StatusStep`). For `ExecutedIsShownHolds` one also has
to know that the entry, unless it was evicted, lists the signatures of the buy
submitted last (`LatestIsKnown`), so that the lookup of this buy is listened to.

**`TargetProofs`.** `TargetInvariant`: the active list is the published one
whenever a transaction is read (`NewsIsLooked`, which is where the biased select
matters), a signature that is remembered was put out for every active mint or is
in hand (`ReceivedIsHeard`, which is why a new subscription clears the memory), and
of a mint in hand nothing was put out since its release (`HandIsFresh`: at the look
the active list was the published one, and a transaction has one event of a mint).
From these follow `StreamedIsHeardHolds` and `ReleaseIsHeededHolds`.

**Only model-checked.** Liveness (`Progress`, `StopFinishes`, `Answered`,
`SubscriptionFollows`) is outside what TLAPS proves. Every invariant of the runs
that are expected to pass is also a theorem.

## 5. What is not modelled

- *Forks.* Events come at processed commitment; the code never takes one back,
  so there is no handling to model. What executed is final in the models.
- *Time* beyond "the limit was reached"; latencies, the age of a create event.
- *Amounts* beyond tips (`Lander`), the cost of holdings (`Ledger`) and the limit of
  a buy (`Signals`): fees, and the least amount of a sale, which is a setting.
- *Encoding*: transactions, logs, HTTP, files' syntax; a file is read as it was
  last written, or not at all.
- *A change of mode between two starts*: scan empties the gap file of standard
  mode, which is its purpose; `Feed` starts again in the mode it began in.
- *A second variant after the sale* (`lander_sold`) outside of `Lander`: `Engine`,
  `Journal` and `TokenList` let one variant of an order execute. The lot that such
  a variant buys is in no book until SellAll finds it in the wallet.
- *The bounded confirmation cache* (`engine.rs:54`, 4,096 entries): a confirmation
  that is evicted before the result of its order is as one that never came.
- *Events in a channel when the program ends*: `Feed` counts what the stream task took
  from the connection as received.
- *The journal after a crash*: nothing is read back at start.
- *Display, telemetry, price, keys, clients*: no decision reads their state.

## 6. Plan

Done: `PositionBook`, `Engine` (the actor that spends money) and `Custody` (what it
promises), `Sniper` (its composition with the router), `Feed` (what it is told),
`Merge`, `Lander`, `Journal`, `TokenList`, `Decode`, `Ledger` and `Signals` (from a
transaction to an order), `TargetFeed`, and the proofs above. Next, in this order:

1. `TargetFeed` composed with `Sniper`: the events of a published mint arrive, or
   its stream is known to be down.
