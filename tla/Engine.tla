------------------------------- MODULE Engine -------------------------------
(***************************************************************************)
(* The order actor of engine.rs.  One task owns the position book and      *)
(* handles, one at a time, order results, admin commands, strategy frames  *)
(* and a 50 ms tick; buy and sell tasks run concurrently with it, the      *)
(* chain executes (or not) what they sent, and the feed reports exact      *)
(* events of what executed, any number of times and at any moment.         *)
(*                                                                         *)
(* The select is biased, but a result that is already in the channel while *)
(* another arm runs cannot be told from one sent a moment later, so every  *)
(* handler may run whenever its input exists.                              *)
(***************************************************************************)
EXTENDS PositionBook, Functions

CONSTANTS MaxInflight,     \* landing.max_inflight_orders
          ReleaseCapacity  \* target release channel (1024 in main.rs)

ASSUME EngineAssumption ==
  /\ MaxInflight \in Nat \ {0}
  /\ ReleaseCapacity \in Nat

VARIABLES
  book,         \* PositionBook.states
  task,         \* the order tasks of each mint
  landed,       \* chain: the orders whose transaction executed
  boughtSeen,   \* RecentConfirmations.buys
  soldSeen,     \* RecentConfirmations.sells
  told,         \* history: the orders whose exact event reached the actor
  exec,         \* execution_allows_new_orders
  stopping,     \* admin_stopping
  stopped,      \* admin_stopped
  journalOk,    \* TradeJournal::allows_new_orders
  integrityOk,  \* listen::integrity_allows_new_orders
  releases,     \* mints waiting in the target release channel
  timers        \* delayed releases sleeping their 30 s

flags == <<exec, stopping, stopped>>
fuses == <<journalOk, integrityOk>>
seen == <<boughtSeen, soldSeen, told>>
outbox == <<releases, timers>>
vars == <<book, task, landed, boughtSeen, soldSeen, told, exec, stopping, stopped,
          journalOk, integrityOk, releases, timers>>

-----------------------------------------------------------------------------
(* Order tasks.  queued: a sell waiting for a permit; running: it holds    *)
(* one and sends; ok, err: its result is on the way to the actor; done:    *)
(* the actor handled it.  A sell carries the position it was given: the    *)
(* order that bought the tokens, and whether the amount is exact.          *)

Task ==
  [kind : {"buy", "sell"}, stage : {"free", "queued", "running", "ok", "err", "done"},
   buy : Ids \cup {NoId}, exact : BOOLEAN]

FreeTask == [kind |-> "buy", stage |-> "free", buy |-> NoId, exact |-> FALSE]

BuyTask == [FreeTask EXCEPT !.stage = "running"]

SellTask(s) == [kind |-> "sell", stage |-> "queued", buy |-> s.buy, exact |-> s.exact]

FreeIds(t) == {i \in Ids : t[i].stage = "free"}

\* Bound: an order is started only while MaxOrders leaves a number for it.
Started(t, new) == [t EXCEPT ![CHOOSE i \in FreeIds(t) : TRUE] = new]

Live == {"queued", "running", "ok", "err"}

LiveSells(m) == {i \in Ids : task[m][i].kind = "sell" /\ task[m][i].stage \in Live}

LiveBuys(m) == {i \in Ids : task[m][i].kind = "buy" /\ task[m][i].stage \in Live}

Running == {x \in Mints \X Ids : task[x[1]][x[2]].stage = "running"}

HasStage(m, i, kind, stage) == task[m][i].kind = kind /\ task[m][i].stage = stage

Handled(m, i) == [task EXCEPT ![m][i].stage = "done"]

\* The number of an order that can execute no more is given to a later one.
Recycled(m, i) == [task EXCEPT ![m][i] = FreeTask]

\* The book becomes b, and each position that thereby enters Selling (a
\* decision Start) is given to a sell task of its own; spawn_sell never fails.
Commit(b, t) ==
  LET starts == {m \in Mints : b[m].st = "selling" /\ book[m].st # "selling"}
  IN  /\ \A m \in starts : FreeIds(t[m]) # {}
      /\ book' = b
      /\ task' = [m \in Mints |->
                    IF m \in starts THEN Started(t[m], SellTask(b[m])) ELSE t[m]]

-----------------------------------------------------------------------------
(* Releasing a target: at once, dropped when the channel is full, or by a  *)
(* timer that waits for room.                                              *)

Queued == SumFunction(releases)

ReleaseNow(ms) ==
  /\ \E sent \in SUBSET ms :
       /\ IF Queued + Cardinality(ms) <= ReleaseCapacity
          THEN sent = ms
          ELSE Queued + Cardinality(sent) = ReleaseCapacity
       /\ releases' = [m \in Mints |-> IF m \in sent THEN releases[m] + 1
                                                     ELSE releases[m]]
  /\ UNCHANGED timers

ReleaseLater(m) ==
  /\ timers' = [timers EXCEPT ![m] = @ + 1]
  /\ UNCHANGED releases

TimerFires(m) ==
  /\ timers[m] > 0
  /\ Queued < ReleaseCapacity
  /\ timers' = [timers EXCEPT ![m] = @ - 1]
  /\ releases' = [releases EXCEPT ![m] = @ + 1]
  /\ UNCHANGED <<book, task, landed, seen, flags, fuses>>

\* The strategy actor takes a release from the channel.
ReleaseTaken(m) ==
  /\ releases[m] > 0
  /\ releases' = [releases EXCEPT ![m] = @ - 1]
  /\ UNCHANGED <<book, task, landed, seen, flags, fuses, timers>>

Flat(b) == \A m \in Mints : b[m].st = "none"

\* finish_admin_stop_if_flat, called with the flags as the handler left them.
FinishStop(b, stopWanted, wasStopped) ==
  /\ stopping' = (stopWanted /\ ~Flat(b))
  /\ stopped' = (wasStopped \/ (stopWanted /\ Flat(b)))

-----------------------------------------------------------------------------
(* The world around the actor: time, chain, order tasks, fuses.            *)

Age(m) ==
  /\ book[m].st \in {"submitted_buy"} \cup Held
  /\ ~book[m].aged
  /\ book' = [book EXCEPT ![m].aged = TRUE]
  /\ UNCHANGED <<task, landed, seen, flags, fuses, outbox>>

\* A transaction that was sent may execute at any later time, also when its
\* senders reported an error.  A sell empties and closes the token account,
\* so one sell of an account executes, and only once the account has tokens.
\* Bound: a sell that executes is reported failed only while a number is left
\* for the sell that follows it.
Land(m, i) ==
  /\ task[m][i].stage \in {"running", "ok", "err", "done"}
  /\ i \notin landed[m]
  /\ task[m][i].kind = "sell" =>
       /\ task[m][i].buy \in landed[m]
       /\ \A j \in landed[m] : task[m][j].kind = "sell" => task[m][j].buy # task[m][i].buy
  /\ HasStage(m, i, "sell", "err") => FreeIds(task[m]) # {}
  /\ landed' = [landed EXCEPT ![m] = @ \cup {i}]
  /\ UNCHANGED <<book, task, seen, flags, fuses, outbox>>

\* Mutant: a sell runs without a permit.
SellStartsUnpermitted(m, i) ==
  /\ HasStage(m, i, "sell", "queued")
  /\ task' = [task EXCEPT ![m][i].stage = "running"]
  /\ UNCHANGED <<book, landed, seen, flags, fuses, outbox>>

\* A sell task gets its permit (a buy takes one before it is spawned).
SellStarts(m, i) ==
  /\ HasStage(m, i, "sell", "queued")
  /\ Cardinality(Running) < MaxInflight
  /\ task' = [task EXCEPT ![m][i].stage = "running"]
  /\ UNCHANGED <<book, landed, seen, flags, fuses, outbox>>

SendAccepted(m, i) ==
  /\ task[m][i].stage = "running"
  /\ task' = [task EXCEPT ![m][i].stage = "ok"]
  /\ UNCHANGED <<book, landed, seen, flags, fuses, outbox>>

\* The senders of any order may fail, and those of a retried sell again without
\* limit; the order may have been handed on all the same.  Bound: as in Land.
SendFails(m, i) ==
  /\ task[m][i].stage = "running"
  /\ task[m][i].kind = "sell" /\ i \in landed[m] => FreeIds(task[m]) # {}
  /\ task' = [task EXCEPT ![m][i].stage = "err"]
  /\ UNCHANGED <<book, landed, seen, flags, fuses, outbox>>

\* A full queue or a dead writer loses an audit message, for good.
JournalDrops ==
  /\ journalOk
  /\ journalOk' = FALSE
  /\ UNCHANGED <<book, task, landed, seen, flags, integrityOk, outbox>>

\* Gaps open and close, feeds conflict: see the listen modules.
IntegrityChanges ==
  /\ integrityOk' = ~integrityOk
  /\ UNCHANGED <<book, task, landed, seen, flags, journalOk, outbox>>

-----------------------------------------------------------------------------
(* Frames from the strategy actor.                                         *)

\* Mutant: a confirmation is only used, not remembered.
RememberBuyNot(m, i) == UNCHANGED boughtSeen

RememberBuy(m, i) == boughtSeen' = [boughtSeen EXCEPT ![m] = @ \cup {i}]

\* An exact event of an own buy.
OwnBuySeen(m, i) ==
  /\ i \in landed[m] /\ task[m][i].kind = "buy"
  /\ RememberBuy(m, i)
  /\ told' = [told EXCEPT ![m] = @ \cup {i}]
  /\ Commit([book EXCEPT ![m] = ConfirmBuy(@, i)], task)
  /\ UNCHANGED <<landed, soldSeen, flags, fuses, outbox>>

RememberSell(m, i) == soldSeen' = [soldSeen EXCEPT ![m] = @ \cup {i}]

\* An exact event of an own sell; the target is released 30 s later.
OwnSellSeen(m, i) ==
  LET s == ConfirmSell(book[m], i) IN
  /\ i \in landed[m] /\ task[m][i].kind = "sell"
  /\ RememberSell(m, i)
  /\ told' = [told EXCEPT ![m] = @ \cup {i}]
  /\ book' = [book EXCEPT ![m] = s]
  /\ IF s # book[m] THEN ReleaseLater(m) ELSE UNCHANGED outbox
  /\ UNCHANGED <<task, landed, boughtSeen, flags, fuses>>

NewOrdersAllowed == exec /\ ~stopping /\ ~stopped

MayBuy == NewOrdersAllowed /\ journalOk /\ integrityOk

\* Both refusals, in run and in handle_chain_event, release the target.
CreateRefused(m) ==
  /\ ~MayBuy
  /\ ReleaseNow({m})
  /\ UNCHANGED <<book, task, landed, seen, flags, fuses>>

\* Bound: a buy leaves a number for the sell that follows it.
CreateBought(m) ==
  /\ MayBuy
  /\ book[m].st = "none"
  /\ Cardinality(Running) < MaxInflight
  /\ Cardinality(FreeIds(task[m])) >= 2
  /\ book' = [book EXCEPT ![m] = BeginBuy(@)]
  /\ task' = [task EXCEPT ![m] = Started(@, BuyTask)]
  /\ UNCHANGED <<landed, seen, flags, fuses, outbox>>

\* Mutant: the entry of a buy that could not be audited stays.
CreateNotAuditedKeepsEntry(m) ==
  /\ MayBuy
  /\ book[m].st = "none"
  /\ journalOk' = FALSE
  /\ book' = [book EXCEPT ![m] = BeginBuy(@)]
  /\ UNCHANGED <<task, landed, seen, flags, integrityOk, outbox>>

\* The audit note cannot be queued: the buy is cancelled, nothing released.
CreateNotAudited(m) ==
  /\ MayBuy
  /\ book[m].st = "none"
  /\ journalOk' = FALSE
  /\ book' = [book EXCEPT ![m] = FailBuy(BeginBuy(@))]
  /\ UNCHANGED <<task, landed, seen, flags, integrityOk, outbox>>

\* No permit is free: the buy is cancelled, nothing released.
CreateCongested(m) ==
  /\ MayBuy
  /\ book[m].st = "none"
  /\ Cardinality(Running) >= MaxInflight
  /\ book' = [book EXCEPT ![m] = FailBuy(BeginBuy(@))]
  /\ UNCHANGED <<task, landed, seen, flags, fuses, outbox>>

\* A sell by the creator recorded at the buy, with follow_creator_sell set.
CreatorSellSeen(m) ==
  /\ book[m].st # "none"
  /\ Commit([book EXCEPT ![m] = RequestSell(@)], task)
  /\ UNCHANGED <<landed, seen, flags, fuses, outbox>>

-----------------------------------------------------------------------------
(* Order results.  Each handler ends with finish_admin_stop_if_flat.       *)

BuyAccepted(m, i) ==
  LET awaiting == book[m].st = "buying"
      cached == awaiting /\ i \in boughtSeen[m]
      s == BuySubmitted(book[m], i)
      b == [book EXCEPT ![m] = IF cached THEN ConfirmBuy(s, i) ELSE s]
  IN  /\ HasStage(m, i, "buy", "ok")
      /\ boughtSeen' = [boughtSeen EXCEPT ![m] = IF cached THEN @ \ {i} ELSE @]
      /\ Commit(b, Handled(m, i))
      /\ FinishStop(b, stopping, stopped)
      /\ UNCHANGED <<landed, soldSeen, told, exec, fuses, outbox>>

BuyFailed(m, i) ==
  LET b == [book EXCEPT ![m] = FailBuy(@)]
  IN  /\ HasStage(m, i, "buy", "err")
      /\ Commit(b, Handled(m, i))
      /\ FinishStop(b, stopping, stopped)
      /\ UNCHANGED <<landed, seen, exec, fuses, outbox>>

SellAccepted(m, i) ==
  LET cached == book[m].st = "selling" /\ i \in soldSeen[m]
      s == SellSubmitted(book[m], i)
      b == [book EXCEPT ![m] = IF cached THEN ConfirmSell(s, i) ELSE s]
  IN  /\ HasStage(m, i, "sell", "ok")
      /\ soldSeen' = [soldSeen EXCEPT ![m] = IF cached THEN @ \ {i} ELSE @]
      /\ Commit(b, Handled(m, i))
      /\ FinishStop(b, stopping, stopped)
      /\ IF cached THEN ReleaseLater(m) ELSE UNCHANGED outbox
      /\ UNCHANGED <<landed, boughtSeen, told, exec, fuses>>

\* A failed sell may still execute, or will not.  Bound: the former keeps its
\* number while another one is left, the latter may give it back, so that there
\* is no bound on how often a sell fails.
SellFailed(m, i) ==
  LET b == [book EXCEPT ![m] = FailSell(@)]
  IN  /\ HasStage(m, i, "sell", "err")
      /\ \/ FreeIds(task[m]) # {} /\ Commit(b, Handled(m, i))
         \/ i \notin landed[m] /\ Commit(b, Recycled(m, i))
      /\ FinishStop(b, stopping, stopped)
      /\ UNCHANGED <<landed, seen, exec, fuses, outbox>>

-----------------------------------------------------------------------------
(* Admin commands.                                                         *)

\* Mutant: a sell that was never reconciled survives the restart.
ForgetBuysOnly(s) == AbandonUnconfirmedBuy(s)

\* Start drops what it cannot confirm any more; so does every tick of a stop.
ForgetUnresolved(s) == AbandonStaleSubmittedSell(AbandonUnconfirmedBuy(s))

Start ==
  LET b == [m \in Mints |-> ForgetUnresolved(book[m])]
  IN  /\ exec' = TRUE /\ stopping' = FALSE /\ stopped' = FALSE
      /\ book' = b
      /\ ReleaseNow({m \in Mints : b[m] # book[m]})
      /\ UNCHANGED <<task, landed, seen, fuses>>

StopGracefully ==
  LET b == [m \in Mints |-> RequestSell(book[m])]
  IN  /\ Commit(b, task)
      /\ FinishStop(b, TRUE, FALSE)
      /\ UNCHANGED <<landed, seen, exec, fuses, outbox>>

\* holdings_sell_all: the page sends token accounts it saw in the wallet, by the
\* buy that filled them; those whose curve is not readable, or is complete, are
\* dropped, and none left is an error.  The page may be stale: an account that
\* was sold meanwhile can be among them.
Recoverable(holding) ==
  /\ \E m \in Mints : holding[m] # NoId
  /\ \A m \in Mints :
       holding[m] # NoId => holding[m] \in landed[m] /\ task[m][holding[m]].kind = "buy"

SellAll(holding) ==
  LET Imported(m) == IF holding[m] = NoId THEN book[m] ELSE ImportOpen(book[m], holding[m])
      b == [m \in Mints |-> RequestSell(Imported(m))]
  IN  /\ Recoverable(holding)
      /\ Commit(b, task)
      /\ UNCHANGED <<landed, seen, flags, fuses, outbox>>

ForceStop ==
  /\ stopping' = FALSE /\ stopped' = TRUE
  /\ UNCHANGED <<book, task, landed, seen, exec, fuses, outbox>>

-----------------------------------------------------------------------------
(* The 50 ms tick.                                                         *)

Tick ==
  LET claimed == [m \in Mints |-> ClaimTimeout(book[m])]
      stale == {m \in Mints : StaleSubmission(claimed[m])}
      reported == [m \in Mints |->
                     IF m \in stale
                     THEN AbandonUnconfirmedBuy(ClaimStaleSubmission(claimed[m]))
                     ELSE claimed[m]]
      b == [m \in Mints |-> IF stopping THEN ForgetUnresolved(reported[m]) ELSE reported[m]]
  IN  /\ exec' = (exec /\ stale = {})
      /\ Commit(b, task)
      /\ ReleaseNow({m \in Mints : b[m].st = "none" /\ book[m].st # "none"})
      /\ FinishStop(b, stopping, stopped)
      /\ UNCHANGED <<landed, seen, fuses>>

-----------------------------------------------------------------------------
Init ==
  /\ book = [m \in Mints |-> Absent]
  /\ task = [m \in Mints |-> [i \in Ids |-> FreeTask]]
  /\ landed = [m \in Mints |-> {}]
  /\ boughtSeen = [m \in Mints |-> {}]
  /\ soldSeen = [m \in Mints |-> {}]
  /\ told = [m \in Mints |-> {}]
  /\ exec = FALSE /\ stopping = FALSE /\ stopped = TRUE
  /\ journalOk = TRUE /\ integrityOk = TRUE
  /\ releases = [m \in Mints |-> 0]
  /\ timers = [m \in Mints |-> 0]

OrderStep(m, i) ==
  \/ Land(m, i) \/ OwnBuySeen(m, i) \/ OwnSellSeen(m, i)
  \/ SellStarts(m, i) \/ SendAccepted(m, i) \/ SendFails(m, i)
  \/ BuyAccepted(m, i) \/ BuyFailed(m, i) \/ SellAccepted(m, i) \/ SellFailed(m, i)

MintStep(m) ==
  \/ Age(m) \/ TimerFires(m) \/ ReleaseTaken(m)
  \/ CreateRefused(m) \/ CreateBought(m) \/ CreateNotAudited(m) \/ CreateCongested(m)
  \/ CreatorSellSeen(m)

ActorStep ==
  \/ Start \/ StopGracefully \/ ForceStop \/ Tick
  \/ \E holding \in [Mints -> Ids \cup {NoId}] : SellAll(holding)
  \/ JournalDrops \/ IntegrityChanges

Next ==
  \/ \E m \in Mints, i \in Ids : OrderStep(m, i)
  \/ \E m \in Mints : MintStep(m)
  \/ ActorStep

Spec == Init /\ [][Next]_vars

\* Timers of the runtime expire, spawned tasks run and answer, the actor polls
\* its channels.  Nothing is assumed of the chain, the feed or the admin.
OrderAdvances(m, i) ==
  \/ SellStarts(m, i) \/ SendAccepted(m, i) \/ SendFails(m, i)
  \/ BuyAccepted(m, i) \/ BuyFailed(m, i) \/ SellAccepted(m, i) \/ SellFailed(m, i)

Fairness ==
  /\ WF_vars(Tick)
  /\ \A m \in Mints : WF_vars(Age(m))
  /\ \A m \in Mints, i \in Ids : WF_vars(OrderAdvances(m, i))

FairSpec == Spec /\ Fairness

-----------------------------------------------------------------------------
(* Properties.                                                             *)

\* Every variable keeps the shape the code's types give it.
TypeOK ==
  /\ book \in [Mints -> PositionState]
  /\ task \in [Mints -> [Ids -> Task]]
  /\ landed \in [Mints -> SUBSET Ids]
  /\ boughtSeen \in [Mints -> SUBSET Ids]
  /\ soldSeen \in [Mints -> SUBSET Ids]
  /\ told \in [Mints -> SUBSET Ids]
  /\ exec \in BOOLEAN /\ stopping \in BOOLEAN /\ stopped \in BOOLEAN
  /\ journalOk \in BOOLEAN /\ integrityOk \in BOOLEAN
  /\ releases \in [Mints -> Nat]
  /\ timers \in [Mints -> Nat]

\* At most one sell of a mint has the right to execute, and exactly while the
\* book says Selling (position.rs:72-73): every path out of Selling waits for
\* the result of that one task, and every path into it spawned it.
SellOwnership ==
  \A m \in Mints :
    /\ (book[m].st = "selling") <=> (LiveSells(m) # {})
    /\ \A i, j \in LiveSells(m) : i = j

\* An entry that waits for its buy task has one: a Buying entry whose task is
\* gone would keep the mint from being bought until a Start or a stop drops it.
BuyingHasTask ==
  \A m \in Mints : book[m].st = "buying" => LiveBuys(m) # {}

\* The program never holds or sells a position whose buy did not execute, and
\* never at the estimated amount (position.rs:14): neither an accepted send nor
\* an instruction-only Shred observation opens one.
HeldIsConfirmed ==
  \A m \in Mints :
    /\ book[m].st \in Held => book[m].exact /\ book[m].buy \in landed[m]
    /\ \A i \in Ids : task[m][i].kind = "sell" =>
         task[m][i].exact /\ task[m][i].buy \in landed[m]

\* A confirmation that overtakes the order result is not lost: no submitted
\* order waits for an exact event the actor has already been given
\* (engine.rs:256-281, 413-426, 464-470).
NoLostConfirmation ==
  \A m \in Mints :
    /\ book[m].st = "submitted_buy"  => book[m].buy  \notin told[m]
    /\ book[m].st = "submitted_sell" => book[m].sell \notin told[m]

\* What the cache holds for an order still in execution is all the actor was
\* told of it; no order is told of before it was sent.
ToldIsRemembered ==
  \A m \in Mints, i \in Ids :
    /\ i \in landed[m] \cup told[m] => task[m][i].stage # "free"
    /\ i \in told[m] /\ i \in LiveBuys(m) => i \in boughtSeen[m]
    /\ i \in told[m] /\ i \in LiveSells(m) => i \in soldSeen[m]

\* i is an order of that kind that was started for a mint with the tasks t.
Sent(t, i, kind) == i \in Ids /\ t[i].kind = kind /\ t[i].stage # "free"

\* A submitted entry waits for an order of its own kind, whose confirmation
\* does not lie in the cache.
CacheIsConsulted ==
  \A m \in Mints :
    /\ book[m].st = "submitted_buy" =>
         Sent(task[m], book[m].buy, "buy") /\ book[m].buy \notin boughtSeen[m]
    /\ book[m].st = "submitted_sell" =>
         Sent(task[m], book[m].sell, "sell") /\ book[m].sell \notin soldSeen[m]

\* The cached confirmations are of orders that executed.
SeenIsLanded ==
  \A m \in Mints : boughtSeen[m] \subseteq landed[m] /\ soldSeen[m] \subseteq landed[m]

\* The inductive invariant of EngineProofs: position book, order tasks, chain
\* and confirmation cache agree about every mint.
IInv ==
  /\ TypeOK
  /\ SellOwnership
  /\ BuyingHasTask
  /\ HeldIsConfirmed
  /\ CacheIsConsulted
  /\ SeenIsLanded
  /\ ToldIsRemembered
  /\ NoLostConfirmation

\* A submission whose confirmation timed out keeps the program from opening
\* positions for as long as it stays unresolved in the book (README.md:174):
\* Start re-arms the actor only by also forgetting that submission.
FailClosed ==
  \A m \in Mints : book[m].reported => ~exec

\* Order tasks of all mints together never hold more permits than there are:
\* buys take theirs before they are spawned, sells after (engine.rs:643, 681).
PermitBound == Cardinality(Running) <= MaxInflight

\* An exit requested while the buy was in flight is carried through every
\* later state of that buy: it ends in a sell or is given up with the buy, and
\* never in a position that is simply held (engine.rs:359-364).
DeferredExitKept ==
  [][\A m \in Mints :
       book[m].st \in Unconfirmed /\ book[m].exit =>
         /\ book'[m].st # "open"
         /\ book'[m].st \in Unconfirmed => book'[m].exit]_vars

\* A sell that was sent is taken off the book by its confirmation or after its
\* timeout, never sooner: an early removal would let the mint be bought again
\* while its tokens are still being sold.
SubmittedSellHeld ==
  [][\A m \in Mints :
       book[m].st = "submitted_sell" /\ book'[m].st # "submitted_sell" =>
         book[m].sell \in landed[m] \/ book[m].aged]_vars

\* No position waits for ever in a state the program promises to leave: order
\* tasks answer, submitted buys are confirmed or time out, open positions are
\* sold when their holding time ends.
Progress ==
  \A m \in Mints : \A st \in {"buying", "submitted_buy", "open", "selling"} :
    book[m].st = st ~> book[m].st # st

\* A failing sell goes back to Open and is sent again (engine.rs:159-181,
\* 482-483) for as long as the senders fail.
SellFails == \E m \in Mints, i \in Ids : HasStage(m, i, "sell", "err")

\* "Stop and sell" ends unless sells go on failing for ever, and whatever the
\* chain and the feed do: one sell that is accepted is enough for a position,
\* confirmed or not, and no submission is waited for beyond its timeout.
StopFinishes == <>[]~SellFails => (stopping ~> ~stopping)

=============================================================================
