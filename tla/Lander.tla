------------------------------- MODULE Lander -------------------------------
(***************************************************************************)
(* One order on its way out: the landing section of the configuration and  *)
(* its validation (config.rs), the tip plans and the race of the routes    *)
(* (exec/land.rs) and what the routes answer (exec/sender.rs).  Every tip  *)
(* plan is a transaction of its own, called a variant here and named by    *)
(* the set of routes it is for.  The chain may execute a variant that was  *)
(* handed to a route, whatever the route answered, and at any later time.  *)
(* The variants of a buy share a token account, which the sale of what was *)
(* bought closes (exec/sell.rs).                                           *)
(***************************************************************************)
EXTENDS Integers, Sequences, FiniteSets, FiniteSetsExt

CONSTANTS Routes,   \* landing.routes
          Pools,    \* tip account pools
          MaxTip,   \* bound: the largest tip_lamports of a route
          MaxTotal, \* landing.max_total_tip_lamports
          NoRoute   \* stands for "no route"

ASSUME LanderAssumption ==
  /\ IsFiniteSet(Routes) /\ Routes # {}
  /\ IsFiniteSet(Pools) /\ Pools # {}
  /\ MaxTip \in Nat /\ MaxTotal \in Nat
  /\ NoRoute \notin Routes

VARIABLES
  config,     \* [tip, pool, udp, seed] of the landing routes
  phase,      \* of send_any: "new", "waiting", "sent" or "failed"
  route,      \* what became of the submission on each route
  answers,    \* result channel: routes whose answer was not read yet
  dispatched, \* the first route read that only dispatched
  receipt,    \* the route of the receipt
  executed,   \* variants the chain executed
  account,    \* the token account the variants of the buy share exists
  sold        \* sales of what was bought, counted

chain == <<executed, account, sold>>
vars == <<config, phase, route, answers, dispatched, receipt, chain>>

-----------------------------------------------------------------------------
(* Tip plans.                                                              *)

Config == [tip : [Routes -> 0..MaxTip], pool : [Routes -> Pools],
           udp : SUBSET Routes, seed : BOOLEAN]

Tipped(c) == {r \in Routes : c.tip[r] > 0}

\* Routes with one tip account pool share one tip.
PoolRoutes(c) == {{r \in Tipped(c) : c.pool[r] = p} : p \in Pools} \ {{}}

\* Mutant: the tip of the first route of a pool stands.
PlanTipFirst(c, R) == Min({c.tip[r] : r \in R})

PlanTip(c, R) == Max({c.tip[r] : r \in R} \cup {0})

\* Without any tip there is one variant for all routes.
Variants(c) == IF Tipped(c) = {} THEN {Routes} ELSE PoolRoutes(c)

TipOf(c, v) == PlanTip(c, v)

\* Routes of the same pool get the same variant; a route without a tip gets
\* none when another route has one.
VariantOf(c, r) == {v \in Variants(c) : r \in v}

Eligible(c) == UNION Variants(c)

TotalTip(c) ==
  MapThenSumSet(LAMBDA R : Max({c.tip[r] : r \in R}), PoolRoutes(c))

\* Mutant: several routes are allowed without the shared token account.
ValidUnseeded(c) == TotalTip(c) <= MaxTotal

\* What validation demands of tips, budget and the shared token account.
Valid(c) ==
  /\ TotalTip(c) <= MaxTotal
  /\ Cardinality(Routes) > 1 => c.seed
  /\ \A r \in c.udp : c.tip[r] > 0

-----------------------------------------------------------------------------
(* Sending.                                                                *)

\* A variant that is too large for a packet refuses the whole order.
Refuse ==
  /\ phase = "new"
  /\ phase' = "failed"
  /\ UNCHANGED <<config, route, answers, dispatched, receipt, chain>>

Send ==
  /\ phase = "new"
  /\ phase' = "waiting"
  /\ route' = [r \in Routes |-> IF r \in Eligible(config) THEN "sending" ELSE "idle"]
  /\ UNCHANGED <<config, answers, dispatched, receipt, chain>>

\* What the senders say.  A server accepts, or there is an error: refusal, an
\* unexpected body or no answer in time.  UDP knows that the packet is on its
\* way, or that there is no socket to send it by.
ServerAnswers == {"accepted", "error"}
UdpAnswers == {"dispatched", "error"}

AnswersOf(r) == IF r \in config.udp THEN UdpAnswers ELSE ServerAnswers

Answer(r) ==
  /\ route[r] = "sending"
  /\ \E status \in AnswersOf(r) : route' = [route EXCEPT ![r] = status]
  /\ answers' = Append(answers, r)
  /\ UNCHANGED <<config, phase, dispatched, receipt, chain>>

Finish(r) == phase' = "sent" /\ receipt' = r

\* Mutant: the first route that did not fail wins.
ReadFirst ==
  /\ phase = "waiting" /\ answers # <<>>
  /\ answers' = Tail(answers)
  /\ IF route[Head(answers)] # "error"
     THEN Finish(Head(answers))
     ELSE UNCHANGED <<phase, receipt>>
  /\ UNCHANGED <<config, route, dispatched, chain>>

Read ==
  /\ phase = "waiting" /\ answers # <<>>
  /\ answers' = Tail(answers)
  /\ IF route[Head(answers)] = "accepted"
     THEN Finish(Head(answers))
     ELSE UNCHANGED <<phase, receipt>>
  /\ dispatched' = IF route[Head(answers)] = "dispatched" /\ dispatched = NoRoute
                   THEN Head(answers) ELSE dispatched
  /\ UNCHANGED <<config, route, chain>>

\* An unread answer is read before the timer is looked at.
GraceEnds ==
  /\ phase = "waiting" /\ answers = <<>>
  /\ dispatched # NoRoute
  /\ Finish(dispatched)
  /\ UNCHANGED <<config, route, answers, dispatched, chain>>

AllRead == answers = <<>> /\ \A r \in Routes : route[r] # "sending"

\* Mutant: a sending half is kept, the channel never closes and the loop waits.
CloseNever == phase = "waiting" /\ AllRead /\ UNCHANGED vars

\* Mutant: without an answer left the order has failed.
CloseForgetsDispatch ==
  /\ phase = "waiting" /\ AllRead
  /\ phase' = "failed" /\ receipt' = receipt
  /\ UNCHANGED <<config, route, answers, dispatched, chain>>

Close ==
  /\ phase = "waiting" /\ AllRead
  /\ IF dispatched # NoRoute THEN Finish(dispatched)
     ELSE phase' = "failed" /\ receipt' = receipt
  /\ UNCHANGED <<config, route, answers, dispatched, chain>>

\* A buy that uses the shared token account creates it, and fails if it is there.
Execute(v) ==
  /\ v \in Variants(config) \ executed
  /\ \E r \in v : route[r] \notin {"new", "idle"}
  /\ config.seed => ~account
  /\ executed' = executed \cup {v}
  /\ account' = TRUE
  /\ UNCHANGED <<config, phase, route, answers, dispatched, receipt, sold>>

\* The sale of what was bought, an order of its own, closes the account.  It
\* may come before send_any is done: SellAll sells whatever the wallet holds.
Sold ==
  /\ account
  /\ account' = FALSE
  /\ sold' = sold + 1
  /\ UNCHANGED <<config, phase, route, answers, dispatched, receipt, executed>>

Init ==
  /\ config \in {c \in Config : Valid(c)}
  /\ phase = "new"
  /\ route = [r \in Routes |-> "new"]
  /\ answers = <<>>
  /\ dispatched = NoRoute /\ receipt = NoRoute
  /\ executed = {} /\ account = FALSE /\ sold = 0

Over == phase \in {"sent", "failed"} /\ UNCHANGED vars

Next ==
  \/ Refuse \/ Send
  \/ \E r \in Routes : Answer(r)
  \/ Read \/ GraceEnds \/ Close
  \/ \E v \in SUBSET Routes : Execute(v)
  \/ Sold
  \/ Over

Spec == Init /\ [][Next]_vars

\* The senders time out (8 s for RPC, 3 s for HTTP) and tokio runs the loop.
FairSpec ==
  /\ Spec
  /\ WF_vars(Refuse \/ Send)
  /\ \A r \in Routes : WF_vars(Answer(r))
  /\ WF_vars(Read) /\ WF_vars(GraceEnds) /\ WF_vars(Close)

-----------------------------------------------------------------------------
(* Properties.                                                             *)

\* The order actor gives a buy up when send_any fails, so send_any may fail only
\* when every route that was handed the order has reported an error: no answer
\* is outstanding, none accepted and none has the packet on its way.  (It does
\* not mean that no route has the order: a request that timed out counts as an
\* error too, and Execute is open to it.)
FailureIsUnanimous ==
  phase = "failed" => \A r \in Routes : route[r] \in {"new", "idle", "error"}

\* A receipt without a server's word is given only when no server has given
\* its word.
AcceptedWins ==
  [][phase' = "sent" /\ phase = "waiting" /\ route[receipt'] = "dispatched"
       => \A r \in Routes : route[r] # "accepted"]_vars

\* What an order pays should every variant execute.
Cost(c) == MapThenSumSet(LAMBDA v : TipOf(c, v), Variants(c))

\* Every variant pays each of its routes at least what that route wants, and
\* all variants of an order together stay in the budget that was validated.
TipsCovered ==
  /\ \A r \in Eligible(config) : \A v \in VariantOf(config, r) :
       TipOf(config, v) >= config.tip[r]
  /\ Cost(config) <= MaxTotal

\* However many variants of a buy are out, one of them spends, and after that
\* one more for every sale that has closed the shared account in between.
OneExecutesUntilSold == Cardinality(executed) <= sold + 1

\* What README.md says of the shared account without that condition: one buy
\* has one fill, however many routes carry it.  Violated: a variant that is
\* still valid after the sale creates the account again.
OneExecutes == Cardinality(executed) <= 1

\* The order task always gets its result and returns its permit.
Answered == <>(phase \in {"sent", "failed"})

=============================================================================
