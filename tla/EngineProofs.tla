---------------------------- MODULE EngineProofs ----------------------------
(***************************************************************************)
(* Theorems about Engine, for every set of mints, every bound on orders,   *)
(* every number of permits and every channel capacity.                     *)
(***************************************************************************)
EXTENDS Engine, FiniteSetTheorems, TLAPS

(***************************************************************************)
(* The operators of PositionBook return position states.                   *)
(***************************************************************************)
LEMMA PositionOperatorTypes ==
  ASSUME NEW s \in PositionState, NEW id \in Ids
  PROVE  /\ Absent \in PositionState
         /\ ImportOpen(s, id) \in PositionState
         /\ BeginBuy(s) \in PositionState
         /\ BuySubmitted(s, id) \in PositionState
         /\ FailBuy(s) \in PositionState
         /\ ConfirmBuy(s, id) \in PositionState
         /\ RequestSell(s) \in PositionState
         /\ SellSubmitted(s, id) \in PositionState
         /\ FailSell(s) \in PositionState
         /\ ConfirmSell(s, id) \in PositionState
<1> USE DEF PositionState, States
<1>1. Absent \in PositionState
  BY DEF Absent
<1>2. ImportOpen(s, id) \in PositionState
  BY DEF ImportOpen, Absent
<1>3. BeginBuy(s) \in PositionState
  BY DEF BeginBuy, Absent
<1>4. BuySubmitted(s, id) \in PositionState
  BY DEF BuySubmitted, Absent
<1>5. FailBuy(s) \in PositionState
  BY <1>1 DEF FailBuy
<1>6. ConfirmBuy(s, id) \in PositionState
  BY DEF ConfirmBuy, Absent
<1>7. RequestSell(s) \in PositionState
  BY DEF RequestSell, Unconfirmed
<1>8. SellSubmitted(s, id) \in PositionState
  BY DEF SellSubmitted
<1>9. FailSell(s) \in PositionState
  BY DEF FailSell
<1>10. ConfirmSell(s, id) \in PositionState
  BY <1>1 DEF ConfirmSell
<1> QED
  BY <1>1, <1>2, <1>3, <1>4, <1>5, <1>6, <1>7, <1>8, <1>9, <1>10

LEMMA TimeoutOperatorTypes ==
  ASSUME NEW s \in PositionState
  PROVE  /\ ClaimTimeout(s) \in PositionState
         /\ ClaimStaleSubmission(s) \in PositionState
         /\ AbandonUnconfirmedBuy(s) \in PositionState
         /\ AbandonStaleSubmittedSell(s) \in PositionState
BY DEF PositionState, States, Absent, ClaimTimeout, RequestSell, Unconfirmed,
       ClaimStaleSubmission, AbandonUnconfirmedBuy, AbandonStaleSubmittedSell

(***************************************************************************)
(* Starting an order puts it on a number that was free.                    *)
(***************************************************************************)
LEMMA StartedTask ==
  ASSUME NEW t \in [Ids -> Task], NEW new \in Task, FreeIds(t) # {}
  PROVE  /\ Started(t, new) \in [Ids -> Task]
         /\ \E i \in Ids : /\ t[i].stage = "free"
                           /\ Started(t, new) = [t EXCEPT ![i] = new]
<1> DEFINE i == CHOOSE j \in FreeIds(t) : TRUE
<1>1. i \in FreeIds(t)
  OBVIOUS
<1>2. i \in Ids /\ t[i].stage = "free"
  BY <1>1 DEF FreeIds
<1>3. Started(t, new) = [t EXCEPT ![i] = new]
  BY DEF Started
<1> HIDE DEF i
<1>4. QED
  BY <1>2, <1>3

(***************************************************************************)
(* What Commit does to one mint: the entry becomes b[m], and the mint's    *)
(* task table t[m] gains a sell of that entry exactly when the entry       *)
(* enters Selling.                                                         *)
(***************************************************************************)
Spawns(s, r) == r.st = "selling" /\ s.st # "selling"

Extended(t, u, new) ==
  \E i \in Ids : t[i].stage = "free" /\ u = [t EXCEPT ![i] = new]

LEMMA SellTaskType ==
  ASSUME NEW s \in PositionState
  PROVE  SellTask(s) \in Task
BY DEF SellTask, Task, PositionState

LEMMA CommitOne ==
  ASSUME TypeOK,
         NEW b \in [Mints -> PositionState],
         NEW t \in [Mints -> [Ids -> Task]],
         Commit(b, t),
         NEW m \in Mints
  PROVE  /\ book'[m] = b[m]
         /\ task'[m] \in [Ids -> Task]
         /\ Spawns(book[m], b[m])  => Extended(t[m], task'[m], SellTask(b[m]))
         /\ ~Spawns(book[m], b[m]) => task'[m] = t[m]
<1> DEFINE starts == {n \in Mints : b[n].st = "selling" /\ book[n].st # "selling"}
<1>1. /\ \A n \in starts : FreeIds(t[n]) # {}
      /\ book' = b
      /\ task' = [n \in Mints |->
                    IF n \in starts THEN Started(t[n], SellTask(b[n])) ELSE t[n]]
  BY DEF Commit
<1>2. m \in starts <=> Spawns(book[m], b[m])
  BY DEF Spawns
<1>3. SellTask(b[m]) \in Task
  BY SellTaskType
<1> HIDE DEF starts
<1>4. CASE m \in starts
  <2>1. task'[m] = Started(t[m], SellTask(b[m])) /\ FreeIds(t[m]) # {}
    BY <1>1, <1>4
  <2>2. t[m] \in [Ids -> Task]
    OBVIOUS
  <2>3. Started(t[m], SellTask(b[m])) \in [Ids -> Task]
    BY <1>3, <2>1, <2>2, StartedTask
  <2>4. Extended(t[m], Started(t[m], SellTask(b[m])), SellTask(b[m]))
    BY <1>3, <2>1, <2>2, StartedTask DEF Extended
  <2>5. QED
    BY <1>1, <1>2, <1>4, <2>1, <2>3, <2>4
<1>5. CASE m \notin starts
  BY <1>1, <1>2, <1>5
<1>6. QED
  BY <1>4, <1>5

LEMMA CommitType ==
  ASSUME TypeOK,
         NEW b \in [Mints -> PositionState],
         NEW t \in [Mints -> [Ids -> Task]],
         Commit(b, t)
  PROVE  /\ book' \in [Mints -> PositionState]
         /\ task' \in [Mints -> [Ids -> Task]]
<1>1. book' = b
  BY DEF Commit
<1>2. DOMAIN task' = Mints /\ task' = [m \in Mints |-> task'[m]]
  BY DEF Commit
<1>3. \A m \in Mints : task'[m] \in [Ids -> Task]
  BY CommitOne
<1>4. QED
  BY <1>1, <1>2, <1>3

LEMMA HandledType ==
  ASSUME TypeOK, NEW m \in Mints, NEW i \in Ids
  PROVE  Handled(m, i) \in [Mints -> [Ids -> Task]]
<1>1. task[m] \in [Ids -> Task]
  BY DEF TypeOK
<1>2. [task[m][i] EXCEPT !.stage = "done"] \in Task
  BY <1>1 DEF Task
<1>3. QED
  BY <1>1, <1>2 DEF Handled, TypeOK

LEMMA RecycledType ==
  ASSUME TypeOK, NEW m \in Mints, NEW i \in Ids
  PROVE  Recycled(m, i) \in [Mints -> [Ids -> Task]]
<1>1. FreeTask \in Task
  BY DEF FreeTask, Task
<1>2. task[m] \in [Ids -> Task]
  BY DEF TypeOK
<1>3. QED
  BY <1>1, <1>2 DEF Recycled, TypeOK

LEMMA ReleaseNowType ==
  ASSUME TypeOK, NEW ms, ReleaseNow(ms)
  PROVE  releases' \in [Mints -> Nat] /\ timers' \in [Mints -> Nat]
BY DEF TypeOK, ReleaseNow

LEMMA ReleaseLaterType ==
  ASSUME TypeOK, NEW m \in Mints, ReleaseLater(m)
  PROVE  releases' \in [Mints -> Nat] /\ timers' \in [Mints -> Nat]
BY DEF TypeOK, ReleaseLater

LEMMA FinishStopType ==
  ASSUME NEW b, NEW wanted \in BOOLEAN, NEW was \in BOOLEAN, FinishStop(b, wanted, was)
  PROVE  stopping' \in BOOLEAN /\ stopped' \in BOOLEAN
BY DEF FinishStop

-----------------------------------------------------------------------------
(***************************************************************************)
(* Type correctness.                                                       *)
(***************************************************************************)
LEMMA OrderStepType ==
  ASSUME TypeOK, NEW m \in Mints, NEW i \in Ids, OrderStep(m, i)
  PROVE  TypeOK'
<1> USE DEF flags, fuses, seen, outbox
<1>0. book[m] \in PositionState /\ task[m] \in [Ids -> Task]
  BY DEF TypeOK
<1>1. ASSUME NEW stage \in {"running", "ok", "err"},
             task' = [task EXCEPT ![m][i].stage = stage]
      PROVE  task' \in [Mints -> [Ids -> Task]]
  <2>1. [task[m][i] EXCEPT !.stage = stage] \in Task
    BY <1>0 DEF Task
  <2>2. QED
    BY <1>1, <2>1 DEF TypeOK
<1>2. CASE Land(m, i)
  BY <1>2 DEF Land, TypeOK
<1>3. CASE OwnBuySeen(m, i)
  <2>1. [book EXCEPT ![m] = ConfirmBuy(@, i)] \in [Mints -> PositionState]
    BY <1>0, PositionOperatorTypes DEF TypeOK
  <2>2. book' \in [Mints -> PositionState] /\ task' \in [Mints -> [Ids -> Task]]
    BY <1>3, <2>1, CommitType DEF OwnBuySeen, TypeOK
  <2>3. QED
    BY <1>3, <2>2 DEF OwnBuySeen, RememberBuy, TypeOK
<1>4. CASE OwnSellSeen(m, i)
  <2>1. book' \in [Mints -> PositionState]
    BY <1>0, <1>4, PositionOperatorTypes DEF OwnSellSeen, TypeOK
  <2>2. releases' \in [Mints -> Nat] /\ timers' \in [Mints -> Nat]
    BY <1>4, ReleaseLaterType DEF OwnSellSeen, TypeOK
  <2>3. QED
    BY <1>4, <2>1, <2>2 DEF OwnSellSeen, RememberSell, TypeOK
<1>5. CASE SellStarts(m, i)
  BY <1>1, <1>5 DEF SellStarts, TypeOK
<1>6. CASE SendAccepted(m, i)
  BY <1>1, <1>6 DEF SendAccepted, TypeOK
<1>7. CASE SendFails(m, i)
  BY <1>1, <1>7 DEF SendFails, TypeOK
<1>8. CASE BuyAccepted(m, i)
  <2> DEFINE s == BuySubmitted(book[m], i)
             cached == book[m].st = "buying" /\ i \in boughtSeen[m]
             b == [book EXCEPT ![m] = IF cached THEN ConfirmBuy(s, i) ELSE s]
  <2>1. s \in PositionState
    BY <1>0, PositionOperatorTypes
  <2>2. ConfirmBuy(s, i) \in PositionState
    BY <2>1, PositionOperatorTypes
  <2>3. b \in [Mints -> PositionState]
    BY <2>1, <2>2 DEF TypeOK
  <2>4. Commit(b, Handled(m, i)) /\ FinishStop(b, stopping, stopped)
    BY <1>8 DEF BuyAccepted
  <2>5. boughtSeen' \in [Mints -> SUBSET Ids]
    BY <1>8 DEF BuyAccepted, TypeOK
  <2> HIDE DEF b, s, cached
  <2>6. book' \in [Mints -> PositionState] /\ task' \in [Mints -> [Ids -> Task]]
    BY <2>3, <2>4, CommitType, HandledType
  <2>7. stopping' \in BOOLEAN /\ stopped' \in BOOLEAN
    BY <2>4, FinishStopType DEF TypeOK
  <2>8. QED
    BY <1>8, <2>5, <2>6, <2>7 DEF BuyAccepted, TypeOK
<1>9. CASE BuyFailed(m, i)
  <2> DEFINE b == [book EXCEPT ![m] = FailBuy(@)]
  <2>1. b \in [Mints -> PositionState]
    BY <1>0, PositionOperatorTypes DEF TypeOK
  <2>2. Commit(b, Handled(m, i)) /\ FinishStop(b, stopping, stopped)
    BY <1>9 DEF BuyFailed
  <2> HIDE DEF b
  <2>3. book' \in [Mints -> PositionState] /\ task' \in [Mints -> [Ids -> Task]]
    BY <2>1, <2>2, CommitType, HandledType
  <2>4. stopping' \in BOOLEAN /\ stopped' \in BOOLEAN
    BY <2>2, FinishStopType DEF TypeOK
  <2>5. QED
    BY <1>9, <2>3, <2>4 DEF BuyFailed, TypeOK
<1>10. CASE SellAccepted(m, i)
  <2> DEFINE s == SellSubmitted(book[m], i)
             cached == book[m].st = "selling" /\ i \in soldSeen[m]
             b == [book EXCEPT ![m] = IF cached THEN ConfirmSell(s, i) ELSE s]
  <2>1. s \in PositionState
    BY <1>0, PositionOperatorTypes
  <2>2. ConfirmSell(s, i) \in PositionState
    BY <2>1, PositionOperatorTypes
  <2>3. b \in [Mints -> PositionState]
    BY <2>1, <2>2 DEF TypeOK
  <2>4. Commit(b, Handled(m, i)) /\ FinishStop(b, stopping, stopped)
    BY <1>10 DEF SellAccepted
  <2>5. soldSeen' \in [Mints -> SUBSET Ids]
    BY <1>10 DEF SellAccepted, TypeOK
  <2>6. releases' \in [Mints -> Nat] /\ timers' \in [Mints -> Nat]
    BY <1>10, ReleaseLaterType DEF SellAccepted, TypeOK
  <2> HIDE DEF b, s, cached
  <2>7. book' \in [Mints -> PositionState] /\ task' \in [Mints -> [Ids -> Task]]
    BY <2>3, <2>4, CommitType, HandledType
  <2>8. stopping' \in BOOLEAN /\ stopped' \in BOOLEAN
    BY <2>4, FinishStopType DEF TypeOK
  <2>9. QED
    BY <1>10, <2>5, <2>6, <2>7, <2>8 DEF SellAccepted, TypeOK
<1>11. CASE SellFailed(m, i)
  <2> DEFINE b == [book EXCEPT ![m] = FailSell(@)]
  <2>1. b \in [Mints -> PositionState]
    BY <1>0, PositionOperatorTypes DEF TypeOK
  <2>2. /\ Commit(b, Handled(m, i)) \/ Commit(b, Recycled(m, i))
        /\ FinishStop(b, stopping, stopped)
    BY <1>11 DEF SellFailed
  <2> HIDE DEF b
  <2>3. book' \in [Mints -> PositionState] /\ task' \in [Mints -> [Ids -> Task]]
    BY <2>1, <2>2, CommitType, HandledType, RecycledType
  <2>4. stopping' \in BOOLEAN /\ stopped' \in BOOLEAN
    BY <2>2, FinishStopType DEF TypeOK
  <2>5. QED
    BY <1>11, <2>3, <2>4 DEF SellFailed, TypeOK
<1> QED
  BY <1>2, <1>3, <1>4, <1>5, <1>6, <1>7, <1>8, <1>9, <1>10, <1>11 DEF OrderStep

LEMMA BuyTaskStarted ==
  ASSUME NEW m, CreateBought(m)
  PROVE  /\ FreeIds(task[m]) # {}
         /\ task' = [task EXCEPT ![m] = Started(@, BuyTask)]
         /\ BuyTask \in Task
<1>1. Cardinality({}) = 0
  BY FS_EmptySet
<1>2. FreeIds(task[m]) # {}
  BY <1>1 DEF CreateBought
<1>3. QED
  BY <1>2 DEF CreateBought, BuyTask, FreeTask, Task

LEMMA MintStepType ==
  ASSUME TypeOK, NEW m \in Mints, MintStep(m)
  PROVE  TypeOK'
<1> USE DEF flags, fuses, seen, outbox
<1>0. book[m] \in PositionState /\ task[m] \in [Ids -> Task]
  BY DEF TypeOK
<1>1. CASE Age(m)
  <2>1. [book[m] EXCEPT !.aged = TRUE] \in PositionState
    BY <1>0 DEF PositionState
  <2>2. QED
    BY <1>1, <2>1 DEF Age, TypeOK
<1>2. CASE TimerFires(m)
  BY <1>2 DEF TimerFires, TypeOK
<1>3. CASE ReleaseTaken(m)
  BY <1>3 DEF ReleaseTaken, TypeOK
<1>4. CASE CreateRefused(m)
  BY <1>4, ReleaseNowType DEF CreateRefused, TypeOK
<1>5. CASE CreateBought(m)
  <2>1. Started(task[m], BuyTask) \in [Ids -> Task]
    BY <1>0, <1>5, BuyTaskStarted, StartedTask
  <2>2. task' \in [Mints -> [Ids -> Task]]
    BY <1>5, <2>1, BuyTaskStarted DEF TypeOK
  <2>3. BeginBuy(book[m]) \in PositionState
    BY <1>0 DEF BeginBuy, Absent, PositionState, States
  <2>4. QED
    BY <1>5, <2>2, <2>3 DEF CreateBought, TypeOK
<1>6. CASE CreateNotAudited(m) \/ CreateCongested(m)
  <2>1. FailBuy(BeginBuy(book[m])) \in PositionState
    BY <1>0 DEF BeginBuy, FailBuy, Absent, PositionState, States
  <2>2. QED
    BY <1>6, <2>1 DEF CreateNotAudited, CreateCongested, TypeOK
<1>7. CASE CreatorSellSeen(m)
  <2> DEFINE b == [book EXCEPT ![m] = RequestSell(@)]
  <2>1. RequestSell(book[m]) \in PositionState
    BY <1>0 DEF RequestSell, Unconfirmed, PositionState, States
  <2>2. b \in [Mints -> PositionState] /\ Commit(b, task)
    BY <1>7, <2>1 DEF CreatorSellSeen, TypeOK
  <2> HIDE DEF b
  <2>3. book' \in [Mints -> PositionState] /\ task' \in [Mints -> [Ids -> Task]]
    BY <2>2, CommitType DEF TypeOK
  <2>4. QED
    BY <1>7, <2>3 DEF CreatorSellSeen, TypeOK
<1> QED
  BY <1>1, <1>2, <1>3, <1>4, <1>5, <1>6, <1>7 DEF MintStep

(***************************************************************************)
(* The whole book as a command or a tick leaves it.                        *)
(***************************************************************************)
Forgotten == [m \in Mints |-> ForgetUnresolved(book[m])]

SellRequested == [m \in Mints |-> RequestSell(book[m])]

Imported(holding) ==
  [m \in Mints |-> IF holding[m] = NoId THEN book[m] ELSE ImportOpen(book[m], holding[m])]

ImportedAndSold(holding) == [m \in Mints |-> RequestSell(Imported(holding)[m])]

Reported(m) ==
  LET s == ClaimTimeout(book[m])
  IN  IF StaleSubmission(s) THEN AbandonUnconfirmedBuy(ClaimStaleSubmission(s)) ELSE s

Ticked == [m \in Mints |-> IF stopping THEN ForgetUnresolved(Reported(m)) ELSE Reported(m)]

LEMMA CommandBooks ==
  ASSUME TypeOK
  PROVE  /\ Forgotten \in [Mints -> PositionState]
         /\ SellRequested \in [Mints -> PositionState]
         /\ \A holding \in [Mints -> Ids \cup {NoId}] :
              ImportedAndSold(holding) \in [Mints -> PositionState]
         /\ Ticked \in [Mints -> PositionState]
<1>0. \A m \in Mints : book[m] \in PositionState
  BY DEF TypeOK
<1>1. \A s \in PositionState : ForgetUnresolved(s) \in PositionState
  BY TimeoutOperatorTypes DEF ForgetUnresolved
<1>2. \A s \in PositionState : RequestSell(s) \in PositionState
  BY DEF RequestSell, Unconfirmed, PositionState, States
<1>3. \A s \in PositionState, id \in Ids : ImportOpen(s, id) \in PositionState
  BY PositionOperatorTypes
<1>4. \A m \in Mints : Reported(m) \in PositionState
  BY <1>0, TimeoutOperatorTypes DEF Reported
<1>5. Forgotten \in [Mints -> PositionState] /\ SellRequested \in [Mints -> PositionState]
  BY <1>0, <1>1, <1>2 DEF Forgotten, SellRequested
<1>6. ASSUME NEW holding \in [Mints -> Ids \cup {NoId}]
      PROVE  ImportedAndSold(holding) \in [Mints -> PositionState]
  <2>1. \A m \in Mints : Imported(holding)[m] \in PositionState
    BY <1>0, <1>3 DEF Imported
  <2>2. QED
    BY <1>2, <2>1 DEF ImportedAndSold
<1>7. Ticked \in [Mints -> PositionState]
  BY <1>1, <1>4 DEF Ticked
<1>8. QED
  BY <1>5, <1>6, <1>7

\* The handlers of the actor in terms of these books.
LEMMA ActorStepShape ==
  ASSUME TypeOK
  PROVE  /\ Start => /\ book' = Forgotten /\ \E ms : ReleaseNow(ms)
                     /\ exec' = TRUE /\ stopping' = FALSE /\ stopped' = FALSE
                     /\ UNCHANGED <<task, landed, seen, fuses>>
         /\ StopGracefully => /\ Commit(SellRequested, task)
                              /\ FinishStop(SellRequested, TRUE, FALSE)
                              /\ UNCHANGED <<landed, seen, exec, fuses, outbox>>
         /\ \A holding : SellAll(holding) =>
              /\ Commit(ImportedAndSold(holding), task)
              /\ \A m \in Mints : holding[m] # NoId =>
                   holding[m] \in landed[m] /\ task[m][holding[m]].kind = "buy"
              /\ UNCHANGED <<landed, seen, flags, fuses, outbox>>
         /\ Tick => /\ Commit(Ticked, task)
                    /\ \E stale : exec' = (exec /\ stale = {})
                    /\ \E ms : ReleaseNow(ms)
                    /\ FinishStop(Ticked, stopping, stopped)
                    /\ UNCHANGED <<landed, seen, fuses>>
<1>1. ASSUME Start
      PROVE  /\ book' = Forgotten /\ \E ms : ReleaseNow(ms)
             /\ exec' = TRUE /\ stopping' = FALSE /\ stopped' = FALSE
             /\ UNCHANGED <<task, landed, seen, fuses>>
  BY <1>1 DEF Start, Forgotten
<1>2. ASSUME StopGracefully
      PROVE  /\ Commit(SellRequested, task)
             /\ FinishStop(SellRequested, TRUE, FALSE)
             /\ UNCHANGED <<landed, seen, exec, fuses, outbox>>
  BY <1>2 DEF StopGracefully, SellRequested
<1>3. ASSUME NEW holding, SellAll(holding)
      PROVE  /\ Commit(ImportedAndSold(holding), task)
             /\ \A m \in Mints : holding[m] # NoId =>
                  holding[m] \in landed[m] /\ task[m][holding[m]].kind = "buy"
             /\ UNCHANGED <<landed, seen, flags, fuses, outbox>>
  <2>1. ImportedAndSold(holding) =
          [m \in Mints |-> RequestSell(IF holding[m] = NoId THEN book[m]
                                       ELSE ImportOpen(book[m], holding[m]))]
    BY DEF ImportedAndSold, Imported
  <2>2. QED
    BY <1>3, <2>1 DEF SellAll, Recoverable
<1>4. ASSUME Tick
      PROVE  /\ Commit(Ticked, task)
             /\ \E stale : exec' = (exec /\ stale = {})
             /\ \E ms : ReleaseNow(ms)
             /\ FinishStop(Ticked, stopping, stopped)
             /\ UNCHANGED <<landed, seen, fuses>>
  <2> DEFINE claimed == [m \in Mints |-> ClaimTimeout(book[m])]
             stale == {m \in Mints : StaleSubmission(claimed[m])}
             reported == [m \in Mints |->
                            IF m \in stale
                            THEN AbandonUnconfirmedBuy(ClaimStaleSubmission(claimed[m]))
                            ELSE claimed[m]]
             b == [m \in Mints |->
                     IF stopping THEN ForgetUnresolved(reported[m]) ELSE reported[m]]
  <2>1. \A m \in Mints : reported[m] = Reported(m)
    BY DEF Reported
  <2>2. b = Ticked
    BY <2>1 DEF Ticked
  <2>3. /\ Commit(b, task) /\ FinishStop(b, stopping, stopped)
        /\ exec' = (exec /\ stale = {})
        /\ ReleaseNow({m \in Mints : b[m].st = "none" /\ book[m].st # "none"})
        /\ UNCHANGED <<landed, seen, fuses>>
    BY <1>4 DEF Tick
  <2> HIDE DEF b, stale, reported, claimed
  <2>4. QED
    BY <2>2, <2>3
<1>5. QED
  BY <1>1, <1>2, <1>3, <1>4

LEMMA ActorStepType ==
  ASSUME TypeOK, ActorStep
  PROVE  TypeOK'
<1> USE DEF flags, fuses, seen, outbox
<1>1. CASE Start
  BY <1>1, ActorStepShape, CommandBooks, ReleaseNowType DEF TypeOK
<1>2. CASE StopGracefully
  <2>1. Commit(SellRequested, task) /\ SellRequested \in [Mints -> PositionState]
    BY <1>2, ActorStepShape, CommandBooks
  <2>2. book' \in [Mints -> PositionState] /\ task' \in [Mints -> [Ids -> Task]]
    BY <2>1, CommitType DEF TypeOK
  <2>3. stopping' \in BOOLEAN /\ stopped' \in BOOLEAN
    BY <1>2, ActorStepShape, FinishStopType
  <2>4. QED
    BY <1>2, <2>2, <2>3, ActorStepShape DEF TypeOK
<1>3. CASE ForceStop
  BY <1>3 DEF ForceStop, TypeOK
<1>4. CASE Tick
  <2>1. Commit(Ticked, task) /\ Ticked \in [Mints -> PositionState]
    BY <1>4, ActorStepShape, CommandBooks
  <2>2. book' \in [Mints -> PositionState] /\ task' \in [Mints -> [Ids -> Task]]
    BY <2>1, CommitType DEF TypeOK
  <2>3. stopping' \in BOOLEAN /\ stopped' \in BOOLEAN
    BY <1>4, ActorStepShape, FinishStopType DEF TypeOK
  <2>4. releases' \in [Mints -> Nat] /\ timers' \in [Mints -> Nat]
    BY <1>4, ActorStepShape, ReleaseNowType
  <2>5. exec' \in BOOLEAN
    BY <1>4, ActorStepShape DEF TypeOK
  <2>6. QED
    BY <1>4, <2>2, <2>3, <2>4, <2>5, ActorStepShape DEF TypeOK
<1>5. ASSUME NEW holding \in [Mints -> Ids \cup {NoId}], SellAll(holding)
      PROVE  TypeOK'
  <2>1. /\ Commit(ImportedAndSold(holding), task)
        /\ ImportedAndSold(holding) \in [Mints -> PositionState]
        /\ UNCHANGED <<landed, seen, flags, fuses, outbox>>
    BY <1>5, ActorStepShape, CommandBooks
  <2>2. book' \in [Mints -> PositionState] /\ task' \in [Mints -> [Ids -> Task]]
    BY <2>1, CommitType DEF TypeOK
  <2>3. QED
    BY <2>1, <2>2 DEF TypeOK
<1>6. CASE JournalDrops \/ IntegrityChanges
  BY <1>6 DEF JournalDrops, IntegrityChanges, TypeOK
<1> QED
  BY <1>1, <1>2, <1>3, <1>4, <1>5, <1>6 DEF ActorStep

(***************************************************************************)
(* Every variable keeps the type its declaration in the code gives it,     *)
(* in every reachable state.                                               *)
(***************************************************************************)
THEOREM TypeCorrect == Spec => []TypeOK
<1>1. Init => TypeOK
  <2>1. Absent \in PositionState
    BY DEF Absent, PositionState, States
  <2>2. FreeTask \in Task
    BY DEF FreeTask, Task
  <2>3. ASSUME Init
        PROVE  /\ book \in [Mints -> PositionState]
               /\ task \in [Mints -> [Ids -> Task]]
    BY <2>1, <2>2, <2>3 DEF Init
  <2>4. Init => /\ landed \in [Mints -> SUBSET Ids]
                /\ boughtSeen \in [Mints -> SUBSET Ids]
                /\ soldSeen \in [Mints -> SUBSET Ids]
                /\ told \in [Mints -> SUBSET Ids]
    BY DEF Init
  <2>5. Init => releases \in [Mints -> Nat] /\ timers \in [Mints -> Nat]
    BY DEF Init
  <2>6. Init => /\ exec \in BOOLEAN /\ stopping \in BOOLEAN /\ stopped \in BOOLEAN
                /\ journalOk \in BOOLEAN /\ integrityOk \in BOOLEAN
    BY DEF Init
  <2>7. QED
    BY <2>3, <2>4, <2>5, <2>6 DEF TypeOK
<1>2. TypeOK /\ [Next]_vars => TypeOK'
  <2>1. ASSUME TypeOK, Next PROVE TypeOK'
    BY <2>1, OrderStepType, MintStepType, ActorStepType DEF Next
  <2>2. ASSUME TypeOK, UNCHANGED vars PROVE TypeOK'
    BY <2>2 DEF vars, TypeOK
  <2>3. QED
    BY <2>1, <2>2
<1>3. QED
  BY <1>1, <1>2, PTL DEF Spec

-----------------------------------------------------------------------------
(***************************************************************************)
(* The inductive invariant, mint by mint.  Good relates the entry s of a   *)
(* mint, its order tasks t, its landed orders l and the confirmations bs,  *)
(* ss remembered for it.                                                   *)
(***************************************************************************)
Sells(t) == {i \in Ids : t[i].kind = "sell" /\ t[i].stage \in Live}

Buys(t) == {i \in Ids : t[i].kind = "buy" /\ t[i].stage \in Live}

GoodTasks(t, l, bs, ss, d) ==
  /\ \A i \in Ids : t[i].kind = "sell" => t[i].exact /\ t[i].buy \in l
  /\ \A i \in Ids : i \in l \cup d => t[i].stage # "free"
  /\ \A i \in Buys(t) : i \in d => i \in bs
  /\ \A i \in Sells(t) : i \in d => i \in ss

Good(s, t, l, bs, ss, d) ==
  /\ s.st = "selling" <=> Sells(t) # {}
  /\ \A i, j \in Sells(t) : i = j
  /\ s.st = "buying" => Buys(t) # {}
  /\ s.st \in Held => s.exact /\ s.buy \in l
  /\ GoodTasks(t, l, bs, ss, d)
  /\ s.st = "submitted_buy"  => Sent(t, s.buy, "buy") /\ s.buy \notin bs \cup d
  /\ s.st = "submitted_sell" => Sent(t, s.sell, "sell") /\ s.sell \notin ss \cup d
  /\ bs \subseteq l
  /\ ss \subseteq l

AllGood == \A m \in Mints : Good(book[m], task[m], landed[m], boughtSeen[m], soldSeen[m], told[m])

LEMMA IInvIsGood == IInv <=> TypeOK /\ AllGood
<1>1. \A m \in Mints : LiveSells(m) = Sells(task[m]) /\ LiveBuys(m) = Buys(task[m])
  BY DEF LiveSells, LiveBuys, Sells, Buys
<1>2. ASSUME IInv, NEW m \in Mints
      PROVE  Good(book[m], task[m], landed[m], boughtSeen[m], soldSeen[m], told[m])
  <2>1. GoodTasks(task[m], landed[m], boughtSeen[m], soldSeen[m], told[m])
    <3>1. \A i \in Ids : task[m][i].kind = "sell" =>
            task[m][i].exact /\ task[m][i].buy \in landed[m]
      BY <1>2 DEF IInv, HeldIsConfirmed
    <3>2. /\ Buys(task[m]) \subseteq Ids /\ Sells(task[m]) \subseteq Ids
          /\ LiveSells(m) = Sells(task[m]) /\ LiveBuys(m) = Buys(task[m])
      BY <1>1 DEF Buys, Sells
    <3>3. QED
      BY <1>2, <3>1, <3>2 DEF GoodTasks, IInv, ToldIsRemembered
  <2>2. QED
    BY <1>1, <1>2, <2>1 DEF IInv, Good, SellOwnership, BuyingHasTask, HeldIsConfirmed,
       NoLostConfirmation, SeenIsLanded, CacheIsConsulted
<1>3. AllGood => /\ SellOwnership /\ BuyingHasTask /\ HeldIsConfirmed
                 /\ NoLostConfirmation /\ SeenIsLanded
                 /\ CacheIsConsulted /\ ToldIsRemembered
  BY <1>1 DEF AllGood, Good, GoodTasks, SellOwnership, BuyingHasTask, HeldIsConfirmed,
     NoLostConfirmation, SeenIsLanded, CacheIsConsulted, ToldIsRemembered
<1>4. IInv => AllGood
  BY <1>2 DEF AllGood
<1>5. QED
  BY <1>3, <1>4 DEF IInv

(***************************************************************************)
(* A quiet change of an entry from s to r: no order result is involved.    *)
(* It starts no buy, ends no sell, submits nothing, and what it holds      *)
(* afterwards is confirmed.                                                *)
(***************************************************************************)
Quiet(s, r, l) ==
  /\ s.st = "selling" => r.st = "selling"
  /\ r.st = "buying" => s.st = "buying"
  /\ r.st \in Held => r.exact /\ r.buy \in l
  /\ r.st = "submitted_buy" => s.st = "submitted_buy" /\ r.buy = s.buy
  /\ r.st = "submitted_sell" => s.st = "submitted_sell" /\ r.sell = s.sell

Committed(s, r, t, u) ==
  /\ Spawns(s, r)  => Extended(t, u, SellTask(r))
  /\ ~Spawns(s, r) => u = t

LEMMA QuietGood ==
  ASSUME NEW s \in PositionState, NEW r \in PositionState,
         NEW t \in [Ids -> Task], NEW u \in [Ids -> Task],
         NEW l \in SUBSET Ids, NEW bs, NEW ss, NEW d,
         Good(s, t, l, bs, ss, d), Quiet(s, r, l), Committed(s, r, t, u)
  PROVE  Good(r, u, l, bs, ss, d)
<1>1. CASE ~Spawns(s, r)
  BY <1>1 DEF Committed, Spawns, Good, Quiet
<1>2. CASE Spawns(s, r)
  <2>1. PICK i \in Ids : t[i].stage = "free" /\ u = [t EXCEPT ![i] = SellTask(r)]
    BY <1>2 DEF Committed, Extended
  <2>2. Sells(t) = {} /\ r.st = "selling" /\ r.exact /\ r.buy \in l
    BY <1>2 DEF Spawns, Good, Quiet, Held
  <2>3. Sells(u) = {i}
    BY <2>1, <2>2 DEF Sells, SellTask, Live
  <2>4. Buys(u) \subseteq Buys(t) /\ i \notin d
    BY <2>1 DEF Buys, SellTask, Good, GoodTasks
  <2>5. GoodTasks(u, l, bs, ss, d)
    BY <2>1, <2>2, <2>3, <2>4 DEF Good, GoodTasks, SellTask
  <2>6. QED
    BY <2>2, <2>3, <2>5 DEF Good, Held
<1>3. QED
  BY <1>1, <1>2

LEMMA QuietOperators ==
  ASSUME NEW s \in PositionState, NEW l, s.st \in Held => s.exact /\ s.buy \in l
  PROVE  /\ Quiet(s, s, l)
         /\ Quiet(s, [s EXCEPT !.aged = TRUE], l)
         /\ Quiet(s, RequestSell(s), l)
         /\ Quiet(s, ForgetUnresolved(s), l)
         /\ \A id \in l : Quiet(s, RequestSell(ImportOpen(s, id)), l)
         /\ \A id \in l : Quiet(s, ConfirmBuy(s, id), l)
         /\ \A id : Quiet(s, ConfirmSell(s, id), l)
         /\ Quiet(s, FailBuy(BeginBuy(s)), l)
<1> USE DEF Quiet, Held, PositionState, States
<1>1. Quiet(s, s, l) /\ Quiet(s, [s EXCEPT !.aged = TRUE], l)
  OBVIOUS
<1>2. Quiet(s, RequestSell(s), l)
  BY DEF RequestSell, Unconfirmed
<1>3. Quiet(s, ForgetUnresolved(s), l)
  BY DEF ForgetUnresolved, AbandonUnconfirmedBuy, AbandonStaleSubmittedSell, Unconfirmed, Absent
<1>4. ASSUME NEW id \in l
      PROVE  Quiet(s, RequestSell(ImportOpen(s, id)), l)
  BY DEF RequestSell, ImportOpen, Unconfirmed, Absent
<1>5. ASSUME NEW id \in l
      PROVE  Quiet(s, ConfirmBuy(s, id), l)
  BY DEF ConfirmBuy, Absent
<1>6. ASSUME NEW id
      PROVE  Quiet(s, ConfirmSell(s, id), l)
  BY DEF ConfirmSell, Absent
<1>7. Quiet(s, FailBuy(BeginBuy(s)), l)
  BY DEF FailBuy, BeginBuy, Absent
<1>8. QED
  BY <1>1, <1>2, <1>3, <1>4, <1>5, <1>6, <1>7

LEMMA QuietTick ==
  ASSUME TypeOK, AllGood, NEW m \in Mints
  PROVE  Quiet(book[m], Ticked[m], landed[m])
<1> USE DEF PositionState, States, Held
<1>0. /\ book[m] \in PositionState
      /\ book[m].st \in Held => book[m].exact /\ book[m].buy \in landed[m]
  BY DEF TypeOK, AllGood, Good
<1>1. Quiet(book[m], ClaimTimeout(book[m]), landed[m])
  BY <1>0 DEF ClaimTimeout, RequestSell, Unconfirmed, Quiet
<1>2. ASSUME NEW s \in PositionState, Quiet(book[m], s, landed[m])
      PROVE  /\ Quiet(book[m], ClaimStaleSubmission(s), landed[m])
             /\ Quiet(book[m], AbandonUnconfirmedBuy(s), landed[m])
             /\ Quiet(book[m], AbandonStaleSubmittedSell(s), landed[m])
  BY <1>0, <1>2 DEF ClaimStaleSubmission, AbandonUnconfirmedBuy, AbandonStaleSubmittedSell,
     Unconfirmed, Quiet, Absent
<1>3. Reported(m) \in PositionState /\ Quiet(book[m], Reported(m), landed[m])
  BY <1>0, <1>1, <1>2, TimeoutOperatorTypes DEF Reported
<1>4. Quiet(book[m], ForgetUnresolved(Reported(m)), landed[m])
  BY <1>2, <1>3, TimeoutOperatorTypes DEF ForgetUnresolved
<1>5. QED
  BY <1>3, <1>4 DEF Ticked

(***************************************************************************)
(* The life of one order task.                                             *)
(***************************************************************************)
LEMMA StageMoves ==
  ASSUME NEW t \in [Ids -> Task], NEW i \in Ids, t[i].stage \in Live,
         NEW stage \in {"running", "ok", "err", "done"},
         NEW u, u = [t EXCEPT ![i].stage = stage],
         NEW l, NEW bs, NEW ss, NEW d
  PROVE  /\ stage \in Live => Sells(u) = Sells(t) /\ Buys(u) = Buys(t)
         /\ stage = "done" => Sells(u) = Sells(t) \ {i}
         /\ GoodTasks(t, l, bs, ss, d) => GoodTasks(u, l, bs, ss, d)
         /\ \A j, kind : Sent(t, j, kind) => Sent(u, j, kind)
<1>1. /\ \A j \in Ids : j # i => u[j] = t[j]
      /\ u[i].stage = stage /\ u[i].kind = t[i].kind
      /\ u[i].exact = t[i].exact /\ u[i].buy = t[i].buy
  BY DEF Task
<1>2. stage \in Live => Sells(u) = Sells(t) /\ Buys(u) = Buys(t)
  BY <1>1 DEF Sells, Buys
<1>3. stage = "done" => Sells(u) = Sells(t) \ {i}
  BY <1>1 DEF Sells, Live
<1>4. Sells(u) \subseteq Sells(t) /\ Buys(u) \subseteq Buys(t)
  BY <1>1 DEF Sells, Buys
<1>5. GoodTasks(t, l, bs, ss, d) => GoodTasks(u, l, bs, ss, d)
  BY <1>1, <1>4 DEF GoodTasks, Live
<1>6. \A j, kind : Sent(t, j, kind) => Sent(u, j, kind)
  BY <1>1 DEF Sent
<1>7. QED
  BY <1>2, <1>3, <1>5, <1>6

LEMMA OneMintGood ==
  ASSUME AllGood, NEW m \in Mints,
         \A n \in Mints \ {m} :
           /\ book'[n] = book[n] /\ task'[n] = task[n] /\ landed'[n] = landed[n]
           /\ boughtSeen'[n] = boughtSeen[n] /\ soldSeen'[n] = soldSeen[n]
           /\ told'[n] = told[n],
         Good(book'[m], task'[m], landed'[m], boughtSeen'[m], soldSeen'[m], told'[m])
  PROVE  AllGood'
<1>1. ASSUME NEW n \in Mints \ {m}
      PROVE  Good(book'[n], task'[n], landed'[n], boughtSeen'[n], soldSeen'[n], told'[n])
  BY DEF AllGood
<1>2. QED
  BY <1>1 DEF AllGood

\* Commit of a book that differs from the current one at m only.
LEMMA CommitAt ==
  ASSUME TypeOK, NEW m \in Mints, NEW s \in PositionState,
         NEW t \in [Mints -> [Ids -> Task]],
         \A n \in Mints \ {m} : t[n] = task[n],
         Commit([book EXCEPT ![m] = s], t)
  PROVE  /\ book'[m] = s /\ task'[m] \in [Ids -> Task]
         /\ Committed(book[m], s, t[m], task'[m])
         /\ \A n \in Mints \ {m} : book'[n] = book[n] /\ task'[n] = task[n]
<1> DEFINE b == [book EXCEPT ![m] = s]
<1>1. b \in [Mints -> PositionState] /\ b[m] = s /\ \A n \in Mints \ {m} : b[n] = book[n]
  BY DEF TypeOK
<1>2. Commit(b, t)
  OBVIOUS
<1> HIDE DEF b
<1>3. book'[m] = s /\ task'[m] \in [Ids -> Task] /\ Committed(book[m], s, t[m], task'[m])
  BY <1>1, <1>2, CommitOne DEF Committed
<1>4. ASSUME NEW n \in Mints \ {m}
      PROVE  book'[n] = book[n] /\ task'[n] = task[n]
  <2>1. ~Spawns(book[n], b[n])
    BY <1>1 DEF Spawns
  <2>2. QED
    BY <1>1, <1>2, <2>1, CommitOne
<1>5. QED
  BY <1>3, <1>4

LEMMA WorldKeepsGood ==
  ASSUME TypeOK, AllGood, NEW m \in Mints, NEW i \in Ids,
         Land(m, i) \/ SellStarts(m, i) \/ SendAccepted(m, i) \/ SendFails(m, i)
  PROVE  AllGood'
<1> USE DEF seen, flags, fuses, outbox
<1>0. /\ Good(book[m], task[m], landed[m], boughtSeen[m], soldSeen[m], told[m])
      /\ task[m] \in [Ids -> Task] /\ landed[m] \in SUBSET Ids
  BY DEF AllGood, TypeOK
<1>1. CASE Land(m, i)
  <2>1. landed'[m] = landed[m] \cup {i} /\ UNCHANGED <<book, task, seen>>
    BY <1>1 DEF Land, TypeOK
  <2>2. \A n \in Mints \ {m} : landed'[n] = landed[n]
    BY <1>1 DEF Land, TypeOK
  <2>3. Good(book[m], task[m], landed[m] \cup {i}, boughtSeen[m], soldSeen[m], told[m])
    BY <1>0, <1>1 DEF Good, GoodTasks, Land
  <2>4. QED
    BY <2>1, <2>2, <2>3, OneMintGood
<1>2. ASSUME NEW stage \in {"running", "ok", "err"},
             task[m][i].stage \in Live,
             task' = [task EXCEPT ![m][i].stage = stage],
             UNCHANGED <<book, landed, seen>>
      PROVE  AllGood'
  <2>1. task'[m] = [task[m] EXCEPT ![i].stage = stage]
    BY <1>2 DEF TypeOK
  <2>2. /\ Sells(task'[m]) = Sells(task[m]) /\ Buys(task'[m]) = Buys(task[m])
        /\ GoodTasks(task'[m], landed[m], boughtSeen[m], soldSeen[m], told[m])
        /\ \A j, kind : Sent(task[m], j, kind) => Sent(task'[m], j, kind)
    BY <1>0, <1>2, <2>1, StageMoves DEF Good, Live
  <2>3. Good(book[m], task'[m], landed[m], boughtSeen[m], soldSeen[m], told[m])
    BY <1>0, <2>2 DEF Good
  <2>4. \A n \in Mints \ {m} : task'[n] = task[n]
    BY <1>2 DEF TypeOK
  <2>5. QED
    BY <1>2, <2>3, <2>4, OneMintGood
<1>3. CASE SellStarts(m, i)
  BY <1>2, <1>3 DEF SellStarts, HasStage, Live
<1>4. CASE SendAccepted(m, i)
  BY <1>2, <1>4 DEF SendAccepted, Live
<1>5. CASE SendFails(m, i)
  BY <1>2, <1>5 DEF SendFails, Live
<1>6. QED
  BY <1>1, <1>3, <1>4, <1>5

LEMMA ConfirmationsKeepGood ==
  ASSUME TypeOK, AllGood, NEW m \in Mints, NEW i \in Ids,
         OwnBuySeen(m, i) \/ OwnSellSeen(m, i)
  PROVE  AllGood'
<1> USE DEF seen, flags, fuses, outbox
<1>0. /\ Good(book[m], task[m], landed[m], boughtSeen[m], soldSeen[m], told[m])
      /\ book[m] \in PositionState
      /\ task[m] \in [Ids -> Task] /\ landed[m] \in SUBSET Ids
      /\ book[m].st \in Held => book[m].exact /\ book[m].buy \in landed[m]
  BY DEF AllGood, TypeOK, Good
<1>1. CASE OwnBuySeen(m, i)
  <2> DEFINE r == ConfirmBuy(book[m], i)
  <2>1. r \in PositionState /\ Quiet(book[m], r, landed[m])
    BY <1>0, <1>1, PositionOperatorTypes, QuietOperators DEF OwnBuySeen
  <2>2. Commit([book EXCEPT ![m] = r], task)
    BY <1>1 DEF OwnBuySeen
  <2>3. r.st = "submitted_buy" => r.buy # i
    BY DEF ConfirmBuy, Absent
  <2> HIDE DEF r
  <2>4. /\ book'[m] = r /\ task'[m] \in [Ids -> Task]
        /\ Committed(book[m], r, task[m], task'[m])
        /\ \A n \in Mints \ {m} : book'[n] = book[n] /\ task'[n] = task[n]
    BY <2>1, <2>2, CommitAt DEF TypeOK
  <2>5. Good(r, task'[m], landed[m], boughtSeen[m], soldSeen[m], told[m])
    BY <1>0, <2>1, <2>4, QuietGood
  <2>6. /\ i \in landed[m] /\ boughtSeen'[m] = boughtSeen[m] \cup {i}
        /\ told'[m] = told[m] \cup {i}
        /\ \A n \in Mints \ {m} : boughtSeen'[n] = boughtSeen[n] /\ told'[n] = told[n]
        /\ UNCHANGED <<landed, soldSeen>>
    BY <1>1 DEF OwnBuySeen, RememberBuy, TypeOK
  <2>7. task'[m][i].kind = "buy" /\ task'[m][i].stage # "free"
    <3>1. task[m][i].kind = "buy" /\ task[m][i].stage # "free"
      BY <1>0, <1>1 DEF OwnBuySeen, Good, GoodTasks
    <3>2. task'[m][i] = task[m][i]
      BY <1>0, <2>4, <3>1 DEF Committed, Extended
    <3>3. QED
      BY <3>1, <3>2
  <2>8. Good(r, task'[m], landed[m], boughtSeen[m] \cup {i}, soldSeen[m], told[m] \cup {i})
    BY <2>3, <2>5, <2>6, <2>7 DEF Good, GoodTasks, Sent, Sells
  <2>9. QED
    BY <2>4, <2>6, <2>8, OneMintGood
<1>2. CASE OwnSellSeen(m, i)
  <2> DEFINE r == ConfirmSell(book[m], i)
  <2>1. r \in PositionState /\ Quiet(book[m], r, landed[m])
    BY <1>0, PositionOperatorTypes, QuietOperators
  <2>2. r.st = "submitted_sell" => r.sell # i
    BY DEF ConfirmSell, Absent
  <2>3. r.st = "selling" => book[m].st = "selling"
    BY DEF ConfirmSell, Absent
  <2>4. /\ i \in landed[m] /\ task[m][i].kind = "sell"
        /\ book' = [book EXCEPT ![m] = r]
        /\ soldSeen' = [soldSeen EXCEPT ![m] = @ \cup {i}]
        /\ told' = [told EXCEPT ![m] = @ \cup {i}]
        /\ UNCHANGED <<task, landed, boughtSeen>>
    BY <1>2 DEF OwnSellSeen, RememberSell
  <2> HIDE DEF r
  <2>5. Good(r, task[m], landed[m], boughtSeen[m], soldSeen[m], told[m])
    BY <1>0, <2>1, <2>3, QuietGood DEF Committed, Spawns
  <2>6. Good(r, task[m], landed[m], boughtSeen[m], soldSeen[m] \cup {i}, told[m] \cup {i})
    BY <2>2, <2>4, <2>5 DEF Good, GoodTasks, Sent, Buys
  <2>7. /\ book'[m] = r /\ soldSeen'[m] = soldSeen[m] \cup {i}
        /\ told'[m] = told[m] \cup {i}
        /\ \A n \in Mints \ {m} :
             book'[n] = book[n] /\ soldSeen'[n] = soldSeen[n] /\ told'[n] = told[n]
    BY <2>4 DEF TypeOK
  <2>8. QED
    BY <2>4, <2>6, <2>7, OneMintGood
<1>3. QED
  BY <1>1, <1>2

\* What handling the result of order i does to the mint's tasks.
LEMMA HandledTasks ==
  ASSUME TypeOK, AllGood, NEW m \in Mints, NEW i \in Ids,
         task[m][i].stage \in {"ok", "err"}
  PROVE  /\ Handled(m, i)[m] \in [Ids -> Task]
         /\ \A n \in Mints \ {m} : Handled(m, i)[n] = task[n]
         /\ Sells(Handled(m, i)[m]) = Sells(task[m]) \ {i}
         /\ \A j, kind : Sent(task[m], j, kind) => Sent(Handled(m, i)[m], j, kind)
         /\ \A bs, ss : boughtSeen[m] \ {i} \subseteq bs /\ soldSeen[m] \ {i} \subseteq ss =>
              GoodTasks(Handled(m, i)[m], landed[m], bs, ss, told[m])
<1>1. task[m] \in [Ids -> Task] /\ GoodTasks(task[m], landed[m], boughtSeen[m], soldSeen[m], told[m])
  BY DEF TypeOK, AllGood, Good
<1>2. /\ Handled(m, i)[m] = [task[m] EXCEPT ![i].stage = "done"]
      /\ \A n \in Mints \ {m} : Handled(m, i)[n] = task[n]
  BY DEF Handled, TypeOK
<1>3. Handled(m, i)[m] \in [Ids -> Task]
  BY HandledType
<1>4. task[m][i].stage \in Live
  BY DEF Live
<1>5. /\ Sells(Handled(m, i)[m]) = Sells(task[m]) \ {i}
      /\ GoodTasks(Handled(m, i)[m], landed[m], boughtSeen[m], soldSeen[m], told[m])
      /\ \A j, kind : Sent(task[m], j, kind) => Sent(Handled(m, i)[m], j, kind)
  BY <1>1, <1>2, <1>4, StageMoves
<1>6. i \notin Sells(Handled(m, i)[m]) /\ i \notin Buys(Handled(m, i)[m])
  BY <1>1, <1>2 DEF Sells, Buys, Live, Task
<1>7. ASSUME NEW bs, NEW ss, boughtSeen[m] \ {i} \subseteq bs, soldSeen[m] \ {i} \subseteq ss
      PROVE  GoodTasks(Handled(m, i)[m], landed[m], bs, ss, told[m])
  BY <1>5, <1>6, <1>7 DEF GoodTasks
<1>8. QED
  BY <1>2, <1>3, <1>5, <1>7

\* What giving back the number of sell i does to them: it executed never, so
\* nothing was heard of it.
LEMMA RecycledTasks ==
  ASSUME TypeOK, AllGood, NEW m \in Mints, NEW i \in Ids,
         HasStage(m, i, "sell", "err"), i \notin landed[m]
  PROVE  /\ Recycled(m, i)[m] \in [Ids -> Task]
         /\ \A n \in Mints \ {m} : Recycled(m, i)[n] = task[n]
         /\ Sells(Recycled(m, i)[m]) = Sells(task[m]) \ {i}
         /\ GoodTasks(Recycled(m, i)[m], landed[m], boughtSeen[m], soldSeen[m], told[m])
<1> DEFINE v == task[m]
           t == Recycled(m, i)[m]
<1>1. v \in [Ids -> Task] /\ GoodTasks(v, landed[m], boughtSeen[m], soldSeen[m], told[m])
  BY DEF TypeOK, AllGood, Good
<1>2. t = [v EXCEPT ![i] = FreeTask] /\ \A n \in Mints \ {m} : Recycled(m, i)[n] = task[n]
  BY DEF Recycled, TypeOK
<1>3. t \in [Ids -> Task]
  BY RecycledType
<1>4. i \notin told[m]
  <2>1. i \in Sells(v)
    BY DEF HasStage, Sells, Live
  <2>2. soldSeen[m] \subseteq landed[m]
    BY DEF AllGood, Good
  <2> QED
    BY <1>1, <2>1, <2>2 DEF GoodTasks
<1>5. /\ t[i].kind = "buy" /\ t[i].stage = "free"
      /\ \A j \in Ids \ {i} : t[j] = v[j]
  BY <1>1, <1>2 DEF FreeTask
<1> HIDE DEF t, v
<1>6. Sells(t) = Sells(v) \ {i} /\ Buys(t) \subseteq Buys(v)
  BY <1>5 DEF Sells, Buys, Live
<1>7. GoodTasks(t, landed[m], boughtSeen[m], soldSeen[m], told[m])
  BY <1>1, <1>4, <1>5, <1>6 DEF GoodTasks
<1> QED
  BY <1>2, <1>3, <1>6, <1>7 DEF t, v

LEMMA BuyResultKeepsGood ==
  ASSUME TypeOK, AllGood, NEW m \in Mints, NEW i \in Ids,
         BuyAccepted(m, i) \/ BuyFailed(m, i)
  PROVE  AllGood'
<1> USE DEF seen, flags, fuses, outbox
<1> DEFINE s == book[m]
           t == Handled(m, i)[m]
<1>0. /\ Good(s, task[m], landed[m], boughtSeen[m], soldSeen[m], told[m])
      /\ s \in PositionState /\ landed[m] \in SUBSET Ids
  BY DEF AllGood, TypeOK
<1>1. task[m][i].kind = "buy" /\ task[m][i].stage \in {"ok", "err"}
  BY DEF BuyAccepted, BuyFailed, HasStage
<1>2. /\ t \in [Ids -> Task] /\ Handled(m, i) \in [Mints -> [Ids -> Task]]
      /\ \A n \in Mints \ {m} : Handled(m, i)[n] = task[n]
      /\ Sells(t) = Sells(task[m])
      /\ GoodTasks(t, landed[m], boughtSeen[m], soldSeen[m], told[m])
      /\ GoodTasks(t, landed[m], boughtSeen[m] \ {i}, soldSeen[m], told[m])
      /\ \A j, kind : Sent(task[m], j, kind) => Sent(t, j, kind)
  <2>1. /\ t \in [Ids -> Task] /\ Handled(m, i) \in [Mints -> [Ids -> Task]]
        /\ \A n \in Mints \ {m} : Handled(m, i)[n] = task[n]
        /\ Sells(t) = Sells(task[m])
        /\ \A j, kind : Sent(task[m], j, kind) => Sent(t, j, kind)
    <3>1. /\ t \in [Ids -> Task]
          /\ \A n \in Mints \ {m} : Handled(m, i)[n] = task[n]
          /\ \A j, kind : Sent(task[m], j, kind) => Sent(t, j, kind)
          /\ Sells(t) = Sells(task[m]) \ {i}
      BY <1>1, HandledTasks
    <3>2. Handled(m, i) \in [Mints -> [Ids -> Task]]
      BY HandledType
    <3>3. i \notin Sells(task[m])
      BY <1>1 DEF Sells
    <3>4. QED
      BY <3>1, <3>2, <3>3
  <2>2. \A bs, ss : boughtSeen[m] \ {i} \subseteq bs /\ soldSeen[m] \ {i} \subseteq ss =>
          GoodTasks(t, landed[m], bs, ss, told[m])
    BY <1>1, HandledTasks
  <2> HIDE DEF t
  <2>3. /\ boughtSeen[m] \ {i} \subseteq boughtSeen[m]
        /\ boughtSeen[m] \ {i} \subseteq boughtSeen[m] \ {i}
        /\ soldSeen[m] \ {i} \subseteq soldSeen[m]
    OBVIOUS
  <2>4. GoodTasks(t, landed[m], boughtSeen[m], soldSeen[m], told[m])
    BY <2>2, <2>3
  <2>5. GoodTasks(t, landed[m], boughtSeen[m] \ {i}, soldSeen[m], told[m])
    BY <2>2, <2>3
  <2>6. QED
    BY <2>1, <2>4, <2>5
<1>3. s.st = "buying" => Sells(t) = {}
  BY <1>0, <1>2 DEF Good
<1>4. CASE BuyFailed(m, i)
  <2> DEFINE r == FailBuy(s)
  <2>1. r \in PositionState
    BY <1>0, PositionOperatorTypes
  <2>2. Commit([book EXCEPT ![m] = r], Handled(m, i)) /\ UNCHANGED <<landed, seen>>
    BY <1>4 DEF BuyFailed
  <2>3. r = Absent \/ (r = s /\ s.st # "buying")
    BY DEF FailBuy
  <2>4. ~Spawns(s, r)
    BY <2>3 DEF Spawns, Absent
  <2>5. Good(r, t, landed[m], boughtSeen[m], soldSeen[m], told[m])
    BY <1>0, <1>2, <1>3, <2>3 DEF Good, Absent, FailBuy, Held
  <2> HIDE DEF r
  <2>6. /\ book'[m] = r /\ task'[m] = t
        /\ \A n \in Mints \ {m} : book'[n] = book[n] /\ task'[n] = task[n]
    BY <1>2, <2>1, <2>2, <2>4, CommitAt DEF Committed
  <2>7. QED
    BY <2>2, <2>5, <2>6, OneMintGood
<1>5. CASE BuyAccepted(m, i)
  <2> DEFINE cached == s.st = "buying" /\ i \in boughtSeen[m]
             q == BuySubmitted(s, i)
             r == IF cached THEN ConfirmBuy(q, i) ELSE q
             bs == IF cached THEN boughtSeen[m] \ {i} ELSE boughtSeen[m]
  <2>1. r \in PositionState
    BY <1>0, PositionOperatorTypes
  <2>2. /\ Commit([book EXCEPT ![m] = r], Handled(m, i))
        /\ boughtSeen' = [boughtSeen EXCEPT ![m] = bs]
        /\ UNCHANGED <<landed, soldSeen, told>>
    BY <1>5 DEF BuyAccepted
  <2>3. \A u \in [Ids -> Task] :
          Committed(s, r, t, u) => Good(r, u, landed[m], bs, soldSeen[m], told[m])
    <3>1. CASE s.st # "buying"
      <4>1. r = s /\ bs = boughtSeen[m]
        BY <3>1 DEF BuySubmitted
      <4>2. QED
        BY <1>0, <1>2, <3>1, <4>1 DEF Committed, Spawns, Good
    <3>2. CASE s.st = "buying" /\ ~cached
      <4>1. r.st = "submitted_buy" /\ r.buy = i /\ i \notin bs
        BY <3>2 DEF BuySubmitted, Absent
      <4>2. i \in Buys(task[m]) /\ Sent(task[m], i, "buy")
        BY <1>1 DEF Buys, Live, Sent
      <4>3. i \notin told[m] /\ Sent(t, i, "buy")
        BY <1>0, <1>2, <3>2, <4>2 DEF Good, GoodTasks
      <4>4. ~Spawns(s, r) /\ bs = boughtSeen[m]
        BY <3>2, <4>1 DEF Spawns
      <4> HIDE DEF r, t, bs, cached
      <4>5. Good(r, t, landed[m], boughtSeen[m], soldSeen[m], told[m])
        BY <1>0, <1>2, <1>3, <3>2, <4>1, <4>3, <4>4 DEF Good, Held
      <4>6. QED
        BY <4>4, <4>5 DEF Committed
    <3>3. CASE cached
      <4>1. r.st \in {"open", "selling"} /\ r.exact /\ r.buy = i /\ i \in landed[m]
        BY <1>0, <3>3 DEF BuySubmitted, ConfirmBuy, Absent, Good
      <4>2. Good(Absent, t, landed[m], bs, soldSeen[m], told[m])
        BY <1>0, <1>2, <1>3, <3>3 DEF Good, Absent, Held
      <4>3. Quiet(Absent, r, landed[m])
        BY <4>1 DEF Quiet, Absent, Held
      <4>4. \A u : Committed(s, r, t, u) => Committed(Absent, r, t, u)
        BY <3>3 DEF Committed, Spawns, Absent
      <4>5. Absent \in PositionState
        BY DEF Absent, PositionState, States
      <4> HIDE DEF r, t, bs, cached
      <4>6. QED
        BY <1>0, <1>2, <2>1, <4>2, <4>3, <4>4, <4>5, QuietGood
    <3>4. QED
      BY <3>1, <3>2, <3>3
  <2>4. boughtSeen'[m] = bs /\ \A n \in Mints \ {m} : boughtSeen'[n] = boughtSeen[n]
    BY <2>2 DEF TypeOK
  <2> HIDE DEF r, bs, t, q, cached
  <2>5. /\ book'[m] = r /\ task'[m] \in [Ids -> Task] /\ Committed(s, r, t, task'[m])
        /\ \A n \in Mints \ {m} : book'[n] = book[n] /\ task'[n] = task[n]
    BY <1>2, <2>1, <2>2, CommitAt DEF t
  <2>6. QED
    BY <2>2, <2>3, <2>4, <2>5, OneMintGood
<1>6. QED
  BY <1>4, <1>5

LEMMA SellResultKeepsGood ==
  ASSUME TypeOK, AllGood, NEW m \in Mints, NEW i \in Ids,
         SellAccepted(m, i) \/ SellFailed(m, i)
  PROVE  AllGood'
<1> USE DEF seen, flags, fuses, outbox
<1> DEFINE s == book[m]
           t == Handled(m, i)[m]
<1>0. /\ Good(s, task[m], landed[m], boughtSeen[m], soldSeen[m], told[m])
      /\ s \in PositionState /\ landed[m] \in SUBSET Ids
  BY DEF AllGood, TypeOK
<1>1. task[m][i].kind = "sell" /\ task[m][i].stage \in {"ok", "err"}
  BY DEF SellAccepted, SellFailed, HasStage
<1>2. i \in Sells(task[m])
  BY <1>1 DEF Sells, Live
\* The task that answers is the one sell of the mint, so the entry is Selling.
<1>3. s.st = "selling" /\ Sells(task[m]) = {i} /\ s.exact /\ s.buy \in landed[m]
  BY <1>0, <1>2 DEF Good, Held
<1>4. /\ t \in [Ids -> Task] /\ Handled(m, i) \in [Mints -> [Ids -> Task]]
      /\ \A n \in Mints \ {m} : Handled(m, i)[n] = task[n]
      /\ Sells(t) = {}
      /\ GoodTasks(t, landed[m], boughtSeen[m], soldSeen[m], told[m])
      /\ GoodTasks(t, landed[m], boughtSeen[m], soldSeen[m] \ {i}, told[m])
  BY <1>1, <1>3, HandledTasks, HandledType
<1>5. CASE SellFailed(m, i)
  <2> DEFINE r == FailSell(s)
             b == [book EXCEPT ![m] = r]
  <2>1. r \in PositionState
    BY <1>0, PositionOperatorTypes
  <2>2. /\ HasStage(m, i, "sell", "err") /\ UNCHANGED <<landed, seen>>
        /\ Commit(b, Handled(m, i)) \/ (i \notin landed[m] /\ Commit(b, Recycled(m, i)))
    BY <1>5 DEF SellFailed
  <2>3. r.st = "open" /\ r.exact = s.exact /\ r.buy = s.buy
    BY <1>0, <1>3 DEF FailSell, PositionState
  <2>4. ~Spawns(s, r)
    BY <2>3 DEF Spawns
  <2>5. ASSUME NEW w \in [Mints -> [Ids -> Task]], Commit(b, w),
               \A n \in Mints \ {m} : w[n] = task[n], Sells(w[m]) = {},
               GoodTasks(w[m], landed[m], boughtSeen[m], soldSeen[m], told[m])
        PROVE  AllGood'
    <3>1. Good(r, w[m], landed[m], boughtSeen[m], soldSeen[m], told[m])
      BY <1>0, <1>3, <2>3, <2>5 DEF Good, Held
    <3> HIDE DEF r
    <3>2. /\ book'[m] = r /\ task'[m] = w[m]
          /\ \A n \in Mints \ {m} : book'[n] = book[n] /\ task'[n] = task[n]
      BY <2>1, <2>4, <2>5, CommitAt DEF Committed
    <3> QED
      BY <2>2, <3>1, <3>2, OneMintGood
  <2> HIDE DEF b
  <2>6. CASE Commit(b, Handled(m, i))
    BY <1>4, <2>5, <2>6
  <2>7. CASE i \notin landed[m] /\ Commit(b, Recycled(m, i))
    <3>1. Recycled(m, i) \in [Mints -> [Ids -> Task]]
      BY RecycledType
    <3>2. /\ \A n \in Mints \ {m} : Recycled(m, i)[n] = task[n]
          /\ Sells(Recycled(m, i)[m]) = {}
          /\ GoodTasks(Recycled(m, i)[m], landed[m], boughtSeen[m], soldSeen[m], told[m])
      BY <1>3, <2>2, <2>7, RecycledTasks
    <3> QED
      BY <2>5, <2>7, <3>1, <3>2
  <2>8. QED
    BY <2>2, <2>6, <2>7
<1>6. CASE SellAccepted(m, i)
  <2> DEFINE cached == s.st = "selling" /\ i \in soldSeen[m]
             q == SellSubmitted(s, i)
             r == IF cached THEN ConfirmSell(q, i) ELSE q
             ss == IF cached THEN soldSeen[m] \ {i} ELSE soldSeen[m]
  <2>1. r \in PositionState
    BY <1>0, PositionOperatorTypes
  <2>2. /\ Commit([book EXCEPT ![m] = r], Handled(m, i))
        /\ soldSeen' = [soldSeen EXCEPT ![m] = ss]
        /\ UNCHANGED <<landed, boughtSeen, told>>
    BY <1>6 DEF SellAccepted
  <2>3. /\ q.st = "submitted_sell" /\ q.sell = i
        /\ q.exact = s.exact /\ q.buy = s.buy
    BY <1>0, <1>3 DEF SellSubmitted, PositionState
  <2>4. Good(r, t, landed[m], boughtSeen[m], ss, told[m])
    <3>1. CASE cached
      <4>1. r = Absent
        BY <2>3, <3>1 DEF ConfirmSell
      <4>2. QED
        BY <1>0, <1>4, <3>1, <4>1 DEF Good, Absent, Held
    <3>2. CASE ~cached
      <4>1. r = q /\ ss = soldSeen[m] /\ i \notin ss
        BY <1>3, <3>2
      <4>2. i \notin told[m] /\ Sent(t, i, "sell")
        <5>1. i \notin told[m]
          BY <1>0, <1>2, <4>1 DEF Good, GoodTasks
        <5>2. t[i].kind = "sell" /\ t[i].stage = "done"
          BY <1>1 DEF Handled, TypeOK
        <5>3. QED
          BY <5>1, <5>2 DEF Sent
      <4> HIDE DEF q, r, ss, cached, t
      <4>3. QED
        BY <1>0, <1>3, <1>4, <2>3, <4>1, <4>2 DEF Good, Held
    <3>3. QED
      BY <3>1, <3>2
  <2>5. ~Spawns(s, r)
    BY <1>3 DEF Spawns
  <2>6. soldSeen'[m] = ss /\ \A n \in Mints \ {m} : soldSeen'[n] = soldSeen[n]
    BY <2>2 DEF TypeOK
  <2> HIDE DEF r, ss, q, cached
  <2>7. /\ book'[m] = r /\ task'[m] = t
        /\ \A n \in Mints \ {m} : book'[n] = book[n] /\ task'[n] = task[n]
    BY <1>4, <2>1, <2>2, <2>5, CommitAt DEF Committed
  <2>8. QED
    BY <2>2, <2>4, <2>6, <2>7, OneMintGood
<1>7. QED
  BY <1>5, <1>6

LEMMA MintStepKeepsGood ==
  ASSUME TypeOK, AllGood, NEW m \in Mints, MintStep(m)
  PROVE  AllGood'
<1> USE DEF seen, flags, fuses, outbox
<1>0. /\ Good(book[m], task[m], landed[m], boughtSeen[m], soldSeen[m], told[m])
      /\ book[m] \in PositionState
      /\ task[m] \in [Ids -> Task] /\ landed[m] \in SUBSET Ids
      /\ book[m].st \in Held => book[m].exact /\ book[m].buy \in landed[m]
  BY DEF AllGood, TypeOK, Good
\* A quiet change of the entry alone, which does not enter Selling.
<1>1. ASSUME NEW r \in PositionState, Quiet(book[m], r, landed[m]),
             r.st = "selling" => book[m].st = "selling",
             book' = [book EXCEPT ![m] = r], UNCHANGED <<task, landed, seen>>
      PROVE  AllGood'
  <2>1. Committed(book[m], r, task[m], task[m])
    BY <1>1 DEF Committed, Spawns
  <2>2. Good(r, task[m], landed[m], boughtSeen[m], soldSeen[m], told[m])
    BY <1>0, <1>1, <2>1, QuietGood
  <2>3. book'[m] = r /\ \A n \in Mints \ {m} : book'[n] = book[n]
    BY <1>1 DEF TypeOK
  <2>4. QED
    BY <1>1, <2>2, <2>3, OneMintGood
<1>2. CASE Age(m)
  <2>1. /\ [book[m] EXCEPT !.aged = TRUE] \in PositionState
        /\ [book[m] EXCEPT !.aged = TRUE].st = book[m].st
    BY <1>0 DEF PositionState
  <2>2. book' = [book EXCEPT ![m] = [book[m] EXCEPT !.aged = TRUE]]
    BY <1>2 DEF Age, TypeOK
  <2>3. QED
    BY <1>0, <1>1, <1>2, <2>1, <2>2, QuietOperators DEF Age
<1>3. CASE TimerFires(m) \/ ReleaseTaken(m) \/ CreateRefused(m)
  BY <1>3 DEF TimerFires, ReleaseTaken, CreateRefused, AllGood
<1>4. CASE CreateBought(m)
  <2>1. book[m].st = "none" /\ book' = [book EXCEPT ![m] = BeginBuy(@)]
    BY <1>4 DEF CreateBought
  <2>2. PICK i \in Ids : /\ task[m][i].stage = "free"
                         /\ Started(task[m], BuyTask) = [task[m] EXCEPT ![i] = BuyTask]
    BY <1>0, <1>4, BuyTaskStarted, StartedTask
  <2>3. /\ task'[m] = [task[m] EXCEPT ![i] = BuyTask]
        /\ \A n \in Mints \ {m} : task'[n] = task[n]
    <3>1. task' = [task EXCEPT ![m] = Started(task[m], BuyTask)]
      BY <1>4 DEF CreateBought
    <3>2. task \in [Mints -> [Ids -> Task]]
      BY DEF TypeOK
    <3>3. task'[m] = Started(task[m], BuyTask)
      BY <3>1, <3>2
    <3>4. \A n \in Mints \ {m} : task'[n] = task[n]
      BY <3>1, <3>2
    <3>5. QED
      BY <3>3, <3>4, <2>2
  <2>4. i \in Buys(task'[m])
    BY <1>0, <2>3 DEF Buys, BuyTask, FreeTask, Live
  <2>5. Sells(task'[m]) = {} /\ GoodTasks(task'[m], landed[m], boughtSeen[m], soldSeen[m], told[m])
    <3>1. /\ Sells(task[m]) = {} /\ i \notin landed[m] \cup told[m]
          /\ GoodTasks(task[m], landed[m], boughtSeen[m], soldSeen[m], told[m])
      BY <1>0, <2>1, <2>2 DEF Good, GoodTasks
    <3>2. /\ \A j \in Ids : j # i => task'[m][j] = task[m][j]
          /\ task'[m][i].kind = "buy" /\ task'[m][i].stage = "running"
      BY <1>0, <2>3 DEF BuyTask, FreeTask
    <3>3. Sells(task'[m]) = {} /\ Buys(task'[m]) \subseteq Buys(task[m]) \cup {i}
      BY <3>1, <3>2 DEF Sells, Buys
    <3>4. QED
      BY <3>1, <3>2, <3>3 DEF GoodTasks
  <2>6. book'[m].st = "buying" /\ \A n \in Mints \ {m} : book'[n] = book[n]
    BY <2>1 DEF BeginBuy, Absent, TypeOK
  <2>7. UNCHANGED <<landed, seen>>
    BY <1>4 DEF CreateBought
  <2>8. Good(book'[m], task'[m], landed'[m], boughtSeen'[m], soldSeen'[m], told'[m])
    BY <1>0, <2>4, <2>5, <2>6, <2>7 DEF Good, Held
  <2>9. QED
    BY <2>3, <2>6, <2>7, <2>8, OneMintGood
<1>5. CASE CreateNotAudited(m) \/ CreateCongested(m)
  <2> DEFINE r == FailBuy(BeginBuy(book[m]))
  <2>1. r \in PositionState /\ r.st # "selling"
    BY <1>0, <1>5 DEF FailBuy, BeginBuy, Absent, PositionState, States,
       CreateNotAudited, CreateCongested
  <2>2. book' = [book EXCEPT ![m] = r] /\ UNCHANGED <<task, landed, seen>>
    BY <1>5 DEF CreateNotAudited, CreateCongested
  <2>3. Quiet(book[m], r, landed[m])
    BY <1>0, QuietOperators
  <2> HIDE DEF r
  <2>4. QED
    BY <1>1, <2>1, <2>2, <2>3
<1>6. CASE CreatorSellSeen(m)
  <2> DEFINE r == RequestSell(book[m])
  <2>1. r \in PositionState /\ Quiet(book[m], r, landed[m])
    BY <1>0, QuietOperators DEF RequestSell, Unconfirmed, PositionState, States
  <2>2. Commit([book EXCEPT ![m] = r], task) /\ UNCHANGED <<landed, seen>>
    BY <1>6 DEF CreatorSellSeen
  <2> HIDE DEF r
  <2>3. /\ book'[m] = r /\ task'[m] \in [Ids -> Task]
        /\ Committed(book[m], r, task[m], task'[m])
        /\ \A n \in Mints \ {m} : book'[n] = book[n] /\ task'[n] = task[n]
    BY <2>1, <2>2, CommitAt DEF TypeOK
  <2>4. Good(r, task'[m], landed[m], boughtSeen[m], soldSeen[m], told[m])
    BY <1>0, <2>1, <2>3, QuietGood
  <2>5. QED
    BY <2>2, <2>3, <2>4, OneMintGood
<1>7. QED
  BY <1>2, <1>3, <1>4, <1>5, <1>6 DEF MintStep

LEMMA ActorStepKeepsGood ==
  ASSUME TypeOK, AllGood, ActorStep
  PROVE  AllGood'
<1> USE DEF seen, flags, fuses, outbox
<1>0. ASSUME NEW m \in Mints
      PROVE  /\ Good(book[m], task[m], landed[m], boughtSeen[m], soldSeen[m], told[m])
             /\ book[m] \in PositionState
             /\ task[m] \in [Ids -> Task] /\ landed[m] \in SUBSET Ids
             /\ book[m].st \in Held => book[m].exact /\ book[m].buy \in landed[m]
  BY DEF AllGood, TypeOK, Good
\* A book all of whose entries change quietly.
<1>1. ASSUME NEW b \in [Mints -> PositionState],
             \A m \in Mints : Quiet(book[m], b[m], landed[m]),
             Commit(b, task), UNCHANGED <<landed, seen>>
      PROVE  AllGood'
  <2>1. ASSUME NEW m \in Mints
        PROVE  Good(book'[m], task'[m], landed[m], boughtSeen[m], soldSeen[m], told[m])
    <3>1. /\ book'[m] = b[m] /\ task'[m] \in [Ids -> Task]
          /\ Committed(book[m], b[m], task[m], task'[m])
      BY <1>1, CommitOne DEF Committed, TypeOK
    <3>2. QED
      BY <1>0, <1>1, <3>1, QuietGood
  <2>2. QED
    BY <1>1, <2>1 DEF AllGood
<1>2. CASE Start
  <2>1. /\ book' = Forgotten /\ UNCHANGED <<task, landed, seen>>
        /\ Forgotten \in [Mints -> PositionState]
    BY <1>2, ActorStepShape, CommandBooks
  <2>2. \A m \in Mints : Quiet(book[m], Forgotten[m], landed[m])
    BY <1>0, QuietOperators DEF Forgotten
  <2>3. \A m \in Mints : Forgotten[m].st = "selling" => book[m].st = "selling"
    BY DEF Forgotten, ForgetUnresolved, AbandonUnconfirmedBuy,
       AbandonStaleSubmittedSell, Absent
  <2>4. ASSUME NEW m \in Mints
        PROVE  Good(book'[m], task[m], landed[m], boughtSeen[m], soldSeen[m], told[m])
    <3>1. Committed(book[m], Forgotten[m], task[m], task[m])
      BY <2>3 DEF Committed, Spawns
    <3>2. QED
      BY <1>0, <2>1, <2>2, <3>1, QuietGood
  <2>5. QED
    BY <2>1, <2>4 DEF AllGood
<1>3. CASE StopGracefully
  <2>1. \A m \in Mints : Quiet(book[m], SellRequested[m], landed[m])
    BY <1>0, QuietOperators DEF SellRequested
  <2>2. QED
    BY <1>1, <1>3, <2>1, ActorStepShape, CommandBooks
<1>4. CASE ForceStop
  BY <1>4 DEF ForceStop, AllGood
<1>5. CASE Tick
  <2>1. \A m \in Mints : Quiet(book[m], Ticked[m], landed[m])
    BY QuietTick
  <2>2. QED
    BY <1>1, <1>5, <2>1, ActorStepShape, CommandBooks
<1>6. ASSUME NEW holding \in [Mints -> Ids \cup {NoId}], SellAll(holding)
      PROVE  AllGood'
  <2>1. /\ Commit(ImportedAndSold(holding), task)
        /\ \A m \in Mints : holding[m] # NoId => holding[m] \in landed[m]
        /\ UNCHANGED <<landed, seen>>
        /\ ImportedAndSold(holding) \in [Mints -> PositionState]
    BY <1>6, ActorStepShape, CommandBooks
  <2>2. ASSUME NEW m \in Mints
        PROVE  Quiet(book[m], ImportedAndSold(holding)[m], landed[m])
    BY <1>0, <2>1, QuietOperators DEF ImportedAndSold, Imported
  <2>3. QED
    BY <1>1, <2>1, <2>2
<1>7. CASE JournalDrops \/ IntegrityChanges
  BY <1>7 DEF JournalDrops, IntegrityChanges, AllGood
<1>8. QED
  BY <1>2, <1>3, <1>4, <1>5, <1>6, <1>7 DEF ActorStep

LEMMA InitGood == Init => AllGood
<1> SUFFICES ASSUME Init, NEW m \in Mints
             PROVE  Good(book[m], task[m], landed[m], boughtSeen[m], soldSeen[m], told[m])
  BY DEF AllGood
<1>1. /\ book[m].st = "none" /\ landed[m] = {} /\ boughtSeen[m] = {} /\ soldSeen[m] = {}
      /\ told[m] = {}
      /\ \A i \in Ids : task[m][i].kind = "buy"
  BY DEF Init, Absent, FreeTask
<1>2. Sells(task[m]) = {}
  BY <1>1 DEF Sells
<1>3. QED
  BY <1>1, <1>2 DEF Good, GoodTasks, Held

(***************************************************************************)
(* IInv is an inductive invariant of the order actor.                      *)
(***************************************************************************)
THEOREM EngineInvariant == Spec => []IInv
<1>1. Init => AllGood
  BY InitGood
<1>2. TypeOK /\ TypeOK' /\ AllGood /\ [Next]_vars => AllGood'
  <2>1. ASSUME TypeOK, AllGood, Next PROVE AllGood'
    <3>1. ASSUME NEW m \in Mints, NEW i \in Ids, OrderStep(m, i)
          PROVE  AllGood'
      BY <2>1, <3>1, WorldKeepsGood, ConfirmationsKeepGood, BuyResultKeepsGood,
         SellResultKeepsGood DEF OrderStep
    <3>2. QED
      BY <2>1, <3>1, MintStepKeepsGood, ActorStepKeepsGood DEF Next
  <2>2. ASSUME AllGood, UNCHANGED vars PROVE AllGood'
    BY <2>2 DEF vars, AllGood
  <2>3. QED
    BY <2>1, <2>2
<1>3. TypeOK /\ AllGood => IInv
  BY IInvIsGood
<1>4. QED
  BY <1>1, <1>2, <1>3, TypeCorrect, PTL DEF Spec

(***************************************************************************)
(* A mint is Selling exactly while one sell task of it is in execution, so *)
(* two sells of the same tokens never race each other.                     *)
(***************************************************************************)
THEOREM SellOwnershipHolds == Spec => []SellOwnership
<1>1. IInv => SellOwnership
  BY DEF IInv
<1>2. QED
  BY <1>1, EngineInvariant, PTL

(***************************************************************************)
(* What the book holds or a task sells was bought on chain, at the amount  *)
(* the chain reported.                                                     *)
(***************************************************************************)
THEOREM HeldIsConfirmedHolds == Spec => []HeldIsConfirmed
<1>1. IInv => HeldIsConfirmed
  BY DEF IInv
<1>2. QED
  BY <1>1, EngineInvariant, PTL

(***************************************************************************)
(* No submitted order waits for a confirmation that already came.          *)
(***************************************************************************)
THEOREM NoLostConfirmationHolds == Spec => []NoLostConfirmation
<1>1. IInv => NoLostConfirmation
  BY DEF IInv
<1>2. QED
  BY <1>1, EngineInvariant, PTL

(***************************************************************************)
(* A Buying entry always has a buy task that will answer for the mint.     *)
(***************************************************************************)
THEOREM BuyingHasTaskHolds == Spec => []BuyingHasTask
<1>1. IInv => BuyingHasTask
  BY DEF IInv
<1>2. QED
  BY <1>1, EngineInvariant, PTL

-----------------------------------------------------------------------------
(***************************************************************************)
(* The two limits on opening positions: the confirmation fuse and the      *)
(* permits.                                                                *)
(***************************************************************************)

(***************************************************************************)
(* The confirmation fuse.  Fused relates one entry to the switch e: a      *)
(* reported submission is a sell past its timeout, and the switch is off.  *)
(* FailClosed alone is not inductive: Start turns the switch on, and must  *)
(* be known to forget every entry that was reported.                       *)
(***************************************************************************)
Fused(s, e) == s.reported => s.st = "submitted_sell" /\ s.aged /\ ~e

AllFused == \A m \in Mints : Fused(book[m], exec)

\* No method of the book reports a submission, and none touches one that is
\* reported except to remove it.
LEMMA FusedMethods ==
  ASSUME NEW s \in PositionState, NEW e \in BOOLEAN, Fused(s, e)
  PROVE  /\ Fused(BeginBuy(s), e)
         /\ Fused(FailBuy(BeginBuy(s)), e)
         /\ Fused(FailBuy(s), e)
         /\ Fused(RequestSell(s), e)
         /\ Fused(FailSell(s), e)
BY DEF Fused, PositionState, Absent, BeginBuy, FailBuy, RequestSell, Unconfirmed, FailSell

LEMMA FusedOrderMethods ==
  ASSUME NEW s \in PositionState, NEW e \in BOOLEAN, Fused(s, e), NEW id \in Ids
  PROVE  /\ Fused(BuySubmitted(s, id), e)
         /\ Fused(ConfirmBuy(BuySubmitted(s, id), id), e)
         /\ Fused(ConfirmBuy(s, id), e)
         /\ Fused(RequestSell(ImportOpen(s, id)), e)
         /\ Fused(SellSubmitted(s, id), e)
         /\ Fused(ConfirmSell(SellSubmitted(s, id), id), e)
         /\ Fused(ConfirmSell(s, id), e)
<1> USE DEF Fused, PositionState, Absent
<1>1. /\ Fused(BuySubmitted(s, id), e)
      /\ Fused(ConfirmBuy(BuySubmitted(s, id), id), e)
      /\ Fused(ConfirmBuy(s, id), e)
  BY DEF BuySubmitted, ConfirmBuy
<1>2. Fused(RequestSell(ImportOpen(s, id)), e)
  BY DEF RequestSell, ImportOpen, Unconfirmed
<1>3. /\ Fused(SellSubmitted(s, id), e)
      /\ Fused(ConfirmSell(SellSubmitted(s, id), id), e)
      /\ Fused(ConfirmSell(s, id), e)
  BY DEF SellSubmitted, ConfirmSell
<1>4. QED
  BY <1>1, <1>2, <1>3

\* Start forgets every reported submission.
LEMMA ForgottenNotReported ==
  ASSUME NEW s \in PositionState, NEW e \in BOOLEAN, Fused(s, e)
  PROVE  ~ForgetUnresolved(s).reported
<1>1. CASE s.reported
  BY <1>1 DEF Fused, ForgetUnresolved, AbandonUnconfirmedBuy,
     AbandonStaleSubmittedSell, Unconfirmed, Absent
<1>2. CASE ~s.reported
  BY <1>2 DEF ForgetUnresolved, AbandonUnconfirmedBuy, AbandonStaleSubmittedSell, Absent
<1>3. QED
  BY <1>1, <1>2

\* A tick that reports no submission leaves the fuse as it was, one that
\* reports some turns the switch off.
LEMMA TickedFused ==
  ASSUME TypeOK, AllFused, Tick, NEW m \in Mints
  PROVE  Fused(Ticked[m], exec')
<1> DEFINE s == ClaimTimeout(book[m])
<1>1. book[m] \in PositionState /\ Fused(book[m], exec) /\ exec \in BOOLEAN
  BY DEF TypeOK, AllFused
<1>2. s \in PositionState /\ Fused(s, exec)
  BY <1>1, TimeoutOperatorTypes
     DEF ClaimTimeout, RequestSell, Unconfirmed, Fused, PositionState
<1>3. exec' => exec /\ ~StaleSubmission(s)
  BY DEF Tick
<1> HIDE DEF s
<1>4. Reported(m) = IF StaleSubmission(s)
                    THEN AbandonUnconfirmedBuy(ClaimStaleSubmission(s)) ELSE s
  BY DEF Reported, s
<1>5. exec' \in BOOLEAN
  BY ActorStepShape DEF TypeOK
<1>6. Fused(Reported(m), exec')
  BY <1>2, <1>3, <1>4, <1>5 DEF Fused, StaleSubmission, ClaimStaleSubmission,
     AbandonUnconfirmedBuy, Unconfirmed, Absent, PositionState
<1>7. Fused(ForgetUnresolved(Reported(m)), exec')
  BY <1>6 DEF Fused, ForgetUnresolved, AbandonUnconfirmedBuy,
     AbandonStaleSubmittedSell, Absent
<1>8. QED
  BY <1>6, <1>7 DEF Ticked

LEMMA OrderStepKeepsFused ==
  ASSUME TypeOK, AllFused, NEW m \in Mints, NEW i \in Ids, OrderStep(m, i)
  PROVE  AllFused'
<1> USE DEF flags
<1>1. \A n \in Mints : book[n] \in PositionState /\ Fused(book[n], exec) /\ exec \in BOOLEAN
  BY DEF TypeOK, AllFused
\* The step changes at most this mint's entry, to r.
<1>2. ASSUME NEW r, Fused(r, exec), book' = [book EXCEPT ![m] = r], exec' = exec
      PROVE  AllFused'
  BY <1>1, <1>2 DEF AllFused, TypeOK
<1>3. CASE \/ Land(m, i) \/ SellStarts(m, i) \/ SendAccepted(m, i) \/ SendFails(m, i)
  BY <1>3 DEF Land, SellStarts, SendAccepted, SendFails, AllFused
<1>4. CASE OwnBuySeen(m, i)
  BY <1>1, <1>2, <1>4, FusedOrderMethods DEF OwnBuySeen, Commit
<1>5. CASE OwnSellSeen(m, i)
  BY <1>1, <1>2, <1>5, FusedOrderMethods DEF OwnSellSeen
<1>6. CASE BuyAccepted(m, i)
  BY <1>1, <1>2, <1>6, FusedOrderMethods DEF BuyAccepted, Commit
<1>7. CASE BuyFailed(m, i)
  BY <1>1, <1>2, <1>7, FusedMethods DEF BuyFailed, Commit
<1>8. CASE SellAccepted(m, i)
  BY <1>1, <1>2, <1>8, FusedOrderMethods DEF SellAccepted, Commit
<1>9. CASE SellFailed(m, i)
  BY <1>1, <1>2, <1>9, FusedMethods DEF SellFailed, Commit
<1>10. QED
  BY <1>3, <1>4, <1>5, <1>6, <1>7, <1>8, <1>9 DEF OrderStep

LEMMA MintStepKeepsFused ==
  ASSUME TypeOK, AllFused, NEW m \in Mints, MintStep(m)
  PROVE  AllFused'
<1> USE DEF flags
<1>1. \A n \in Mints : book[n] \in PositionState /\ Fused(book[n], exec) /\ exec \in BOOLEAN
  BY DEF TypeOK, AllFused
<1>2. ASSUME NEW r, Fused(r, exec), book' = [book EXCEPT ![m] = r], exec' = exec
      PROVE  AllFused'
  BY <1>1, <1>2 DEF AllFused, TypeOK
<1>3. CASE Age(m)
  <2>1. book' = [book EXCEPT ![m] = [book[m] EXCEPT !.aged = TRUE]] /\ exec' = exec
    BY <1>3 DEF Age, TypeOK
  <2>2. Fused([book[m] EXCEPT !.aged = TRUE], exec)
    BY <1>1 DEF Fused, PositionState
  <2>3. QED
    BY <1>2, <2>1, <2>2
<1>4. CASE TimerFires(m) \/ ReleaseTaken(m) \/ CreateRefused(m)
  BY <1>4 DEF TimerFires, ReleaseTaken, CreateRefused, AllFused
<1>5. CASE CreateBought(m)
  BY <1>1, <1>2, <1>5, FusedMethods DEF CreateBought
<1>6. CASE CreateNotAudited(m) \/ CreateCongested(m)
  BY <1>1, <1>2, <1>6, FusedMethods DEF CreateNotAudited, CreateCongested
<1>7. CASE CreatorSellSeen(m)
  BY <1>1, <1>2, <1>7, FusedMethods DEF CreatorSellSeen, Commit
<1>8. QED
  BY <1>3, <1>4, <1>5, <1>6, <1>7 DEF MintStep

LEMMA ActorStepKeepsFused ==
  ASSUME TypeOK, AllFused, ActorStep
  PROVE  AllFused'
<1> USE DEF flags
<1>1. \A n \in Mints : book[n] \in PositionState /\ Fused(book[n], exec) /\ exec \in BOOLEAN
  BY DEF TypeOK, AllFused
<1>2. CASE Start
  <2>1. book' = Forgotten /\ exec' = TRUE
    BY <1>2, ActorStepShape
  <2>2. ASSUME NEW n \in Mints PROVE ~Forgotten[n].reported
    BY <1>1, ForgottenNotReported DEF Forgotten
  <2>3. QED
    BY <2>1, <2>2 DEF AllFused, Fused
<1>3. CASE StopGracefully
  <2>1. book' = SellRequested /\ exec' = exec
    BY <1>3, ActorStepShape DEF Commit
  <2>2. ASSUME NEW n \in Mints PROVE Fused(SellRequested[n], exec)
    BY <1>1, FusedMethods DEF SellRequested
  <2>3. QED
    BY <2>1, <2>2 DEF AllFused
<1>4. CASE ForceStop \/ JournalDrops \/ IntegrityChanges
  BY <1>4 DEF ForceStop, JournalDrops, IntegrityChanges, AllFused
<1>5. CASE Tick
  <2>1. book' = Ticked
    BY <1>5, ActorStepShape DEF Commit
  <2>2. QED
    BY <1>5, <2>1, TickedFused DEF AllFused
<1>6. ASSUME NEW holding \in [Mints -> Ids \cup {NoId}], SellAll(holding)
      PROVE  AllFused'
  <2>1. book' = ImportedAndSold(holding) /\ exec' = exec
    BY <1>6, ActorStepShape DEF Commit
  <2>2. ASSUME NEW n \in Mints PROVE Fused(ImportedAndSold(holding)[n], exec)
    <3>1. CASE holding[n] = NoId
      BY <1>1, <3>1, FusedMethods DEF ImportedAndSold, Imported
    <3>2. CASE holding[n] \in Ids
      <4>1. holding[n] # NoId
        BY <3>2, OrdersAssumption DEF Ids
      <4>2. ImportedAndSold(holding)[n] = RequestSell(ImportOpen(book[n], holding[n]))
        BY <4>1 DEF ImportedAndSold, Imported
      <4>3. QED
        BY <1>1, <3>2, <4>2, FusedOrderMethods
    <3>3. QED
      BY <3>1, <3>2
  <2>3. QED
    BY <2>1, <2>2 DEF AllFused
<1>7. QED
  BY <1>2, <1>3, <1>4, <1>5, <1>6 DEF ActorStep

(***************************************************************************)
(* While a submission that timed out without a confirmation is unresolved  *)
(* in the book, the program opens no position (README.md:174).             *)
(***************************************************************************)
THEOREM FailClosedHolds == Spec => []FailClosed
<1>1. Init => AllFused
  BY DEF Init, AllFused, Fused, Absent
<1>2. TypeOK /\ AllFused /\ [Next]_vars => AllFused'
  <2>1. ASSUME TypeOK, AllFused, Next PROVE AllFused'
    BY <2>1, OrderStepKeepsFused, MintStepKeepsFused, ActorStepKeepsFused DEF Next
  <2>2. ASSUME AllFused, UNCHANGED vars PROVE AllFused'
    BY <2>2 DEF vars, AllFused
  <2>3. QED
    BY <2>1, <2>2
<1>3. AllFused => FailClosed
  BY DEF AllFused, Fused, FailClosed
<1>4. QED
  BY <1>1, <1>2, <1>3, TypeCorrect, PTL DEF Spec

-----------------------------------------------------------------------------
(***************************************************************************)
(* The permits.  A step either leaves the running tasks alone, ends some,  *)
(* or starts one while a permit is free.                                   *)
(***************************************************************************)
PermitsKept == IsFiniteSet(Running) /\ PermitBound

LEMMA FewerRunning ==
  ASSUME PermitsKept, Running' \subseteq Running
  PROVE  PermitsKept'
<1>1. IsFiniteSet(Running') /\ Cardinality(Running') <= Cardinality(Running)
  BY FS_Subset DEF PermitsKept
<1>2. Cardinality(Running) \in Nat /\ Cardinality(Running') \in Nat
  BY <1>1, FS_CardinalityType DEF PermitsKept
<1>3. QED
  BY <1>1, <1>2, EngineAssumption DEF PermitsKept, PermitBound

LEMMA OneMoreRunning ==
  ASSUME PermitsKept, NEW x, Running' \subseteq Running \cup {x},
         Cardinality(Running) < MaxInflight
  PROVE  PermitsKept'
<1>1. IsFiniteSet(Running)
  BY DEF PermitsKept
<1>2. /\ IsFiniteSet(Running \cup {x})
      /\ Cardinality(Running \cup {x}) =
           IF x \in Running THEN Cardinality(Running) ELSE Cardinality(Running) + 1
  BY <1>1, FS_AddElement
<1>3. IsFiniteSet(Running') /\ Cardinality(Running') <= Cardinality(Running \cup {x})
  BY <1>2, FS_Subset
<1>4. /\ Cardinality(Running) \in Nat /\ Cardinality(Running') \in Nat
  BY <1>1, <1>3, FS_CardinalityType
<1>5. Cardinality(Running \cup {x}) <= MaxInflight
  BY <1>2, <1>4, EngineAssumption
<1>6. QED
  BY <1>2, <1>3, <1>4, <1>5, EngineAssumption, FS_CardinalityType DEF PermitsKept, PermitBound

\* A sell that a commit hands to a task waits for a permit first.
LEMMA CommitStartsNone ==
  ASSUME TypeOK, NEW b \in [Mints -> PositionState],
         NEW t \in [Mints -> [Ids -> Task]], Commit(b, t),
         \A m \in Mints, i \in Ids : t[m][i].stage = "running" => <<m, i>> \in Running
  PROVE  Running' \subseteq Running
<1> SUFFICES ASSUME NEW m \in Mints, NEW i \in Ids, task'[m][i].stage = "running"
             PROVE  t[m][i].stage = "running"
  BY DEF Running
<1>1. CASE task'[m] = t[m]
  BY <1>1
<1>2. CASE task'[m] # t[m]
  <2>1. Extended(t[m], task'[m], SellTask(b[m]))
    BY <1>2, CommitOne
  <2>2. PICK j \in Ids : task'[m] = [t[m] EXCEPT ![j] = SellTask(b[m])]
    BY <2>1 DEF Extended
  <2>3. t[m] \in [Ids -> Task]
    OBVIOUS
  <2>4. SellTask(b[m]).stage = "queued"
    BY DEF SellTask
  <2>5. i # j
    BY <2>2, <2>3, <2>4
  <2>6. QED
    BY <2>2, <2>3, <2>5
<1>3. QED
  BY <1>1, <1>2

LEMMA OrderStepKeepsPermits ==
  ASSUME TypeOK, PermitsKept, NEW m \in Mints, NEW i \in Ids, OrderStep(m, i)
  PROVE  PermitsKept'
<1> USE DEF flags, fuses, seen, outbox
<1>0. task \in [Mints -> [Ids -> Task]] /\ \A n \in Mints : book[n] \in PositionState
  BY DEF TypeOK
<1>1. ASSUME UNCHANGED task PROVE PermitsKept'
  BY <1>1 DEF PermitsKept, PermitBound, Running
\* The order leaves a stage for one that holds no permit.
<1>2. ASSUME NEW stage, stage # "running", task' = [task EXCEPT ![m][i].stage = stage]
      PROVE  Running' \subseteq Running
  BY <1>0, <1>2 DEF Running, Task
\* The actor handles the result of the order and commits the book b.
<1>3. ASSUME NEW b \in [Mints -> PositionState], Commit(b, Handled(m, i))
      PROVE  PermitsKept'
  <2>1. Handled(m, i) \in [Mints -> [Ids -> Task]]
    BY HandledType
  <2>2. \A n \in Mints, j \in Ids :
          Handled(m, i)[n][j].stage = "running" => <<n, j>> \in Running
    BY <1>0 DEF Handled, Running, Task
  <2>3. Running' \subseteq Running
    BY <1>3, <2>1, <2>2, CommitStartsNone
  <2>4. QED
    BY <2>3, FewerRunning
<1>4. CASE Land(m, i) \/ OwnSellSeen(m, i)
  BY <1>1, <1>4 DEF Land, OwnSellSeen
<1>5. CASE OwnBuySeen(m, i)
  <2> DEFINE b == [book EXCEPT ![m] = ConfirmBuy(@, i)]
  <2>1. b \in [Mints -> PositionState]
    BY <1>0, PositionOperatorTypes DEF TypeOK
  <2>2. Commit(b, task)
    BY <1>5 DEF OwnBuySeen
  <2> HIDE DEF b
  <2>3. \A n \in Mints, j \in Ids : task[n][j].stage = "running" => <<n, j>> \in Running
    BY DEF Running
  <2>4. QED
    BY <1>0, <2>1, <2>2, <2>3, CommitStartsNone, FewerRunning
<1>6. CASE SellStarts(m, i)
  <2>1. Running' \subseteq Running \cup {<<m, i>>}
    BY <1>0, <1>6 DEF SellStarts, Running, Task
  <2>2. QED
    BY <1>6, <2>1, OneMoreRunning DEF SellStarts
<1>7. CASE SendAccepted(m, i)
  BY <1>2, <1>7, FewerRunning DEF SendAccepted
<1>8. CASE SendFails(m, i)
  BY <1>2, <1>8, FewerRunning DEF SendFails
<1>9. CASE BuyAccepted(m, i)
  <2> DEFINE s == BuySubmitted(book[m], i)
             r == IF book[m].st = "buying" /\ i \in boughtSeen[m] THEN ConfirmBuy(s, i) ELSE s
  <2>1. r \in PositionState
    <3>1. s \in PositionState
      BY <1>0, PositionOperatorTypes
    <3>2. ConfirmBuy(s, i) \in PositionState
      BY <3>1, PositionOperatorTypes
    <3>3. QED
      BY <3>1, <3>2
  <2>2. Commit([book EXCEPT ![m] = r], Handled(m, i))
    BY <1>9 DEF BuyAccepted
  <2> HIDE DEF r
  <2>3. QED
    BY <1>3, <2>1, <2>2 DEF TypeOK
<1>10. CASE BuyFailed(m, i)
  BY <1>0, <1>3, <1>10, PositionOperatorTypes DEF BuyFailed, TypeOK
<1>11. CASE SellAccepted(m, i)
  <2> DEFINE s == SellSubmitted(book[m], i)
             r == IF book[m].st = "selling" /\ i \in soldSeen[m] THEN ConfirmSell(s, i) ELSE s
  <2>1. r \in PositionState
    <3>1. s \in PositionState
      BY <1>0, PositionOperatorTypes
    <3>2. ConfirmSell(s, i) \in PositionState
      BY <3>1, PositionOperatorTypes
    <3>3. QED
      BY <3>1, <3>2
  <2>2. Commit([book EXCEPT ![m] = r], Handled(m, i))
    BY <1>11 DEF SellAccepted
  <2> HIDE DEF r
  <2>3. QED
    BY <1>3, <2>1, <2>2 DEF TypeOK
<1>12. CASE SellFailed(m, i)
  <2> DEFINE b == [book EXCEPT ![m] = FailSell(@)]
  <2>1. b \in [Mints -> PositionState]
    BY <1>0, PositionOperatorTypes DEF TypeOK
  <2>2. Commit(b, Handled(m, i)) \/ Commit(b, Recycled(m, i))
    BY <1>12 DEF SellFailed
  <2> HIDE DEF b
  <2>3. CASE Commit(b, Recycled(m, i))
    <3>1. Recycled(m, i) \in [Mints -> [Ids -> Task]]
      BY RecycledType
    <3>2. \A n \in Mints, j \in Ids :
            Recycled(m, i)[n][j].stage = "running" => <<n, j>> \in Running
      BY <1>0 DEF Recycled, FreeTask, Running, Task
    <3>3. Running' \subseteq Running
      BY <2>1, <2>3, <3>1, <3>2, CommitStartsNone
    <3> QED
      BY <3>3, FewerRunning
  <2> QED
    BY <1>3, <2>1, <2>2, <2>3
<1>13. QED
  BY <1>4, <1>5, <1>6, <1>7, <1>8, <1>9, <1>10, <1>11, <1>12 DEF OrderStep

LEMMA MintStepKeepsPermits ==
  ASSUME TypeOK, PermitsKept, NEW m \in Mints, MintStep(m)
  PROVE  PermitsKept'
<1>0. task \in [Mints -> [Ids -> Task]] /\ book[m] \in PositionState
  BY DEF TypeOK
<1>1. CASE UNCHANGED task
  BY <1>1 DEF PermitsKept, PermitBound, Running
<1>2. CASE CreateBought(m)
  <2>1. PICK i \in Ids : Started(task[m], BuyTask) = [task[m] EXCEPT ![i] = BuyTask]
    BY <1>0, <1>2, BuyTaskStarted, StartedTask
  <2>2. task' = [task EXCEPT ![m] = [task[m] EXCEPT ![i] = BuyTask]]
    BY <1>2, <2>1 DEF CreateBought
  <2>3. Running' \subseteq Running \cup {<<m, i>>}
    BY <1>0, <2>2 DEF Running
  <2>4. QED
    BY <1>2, <2>3, OneMoreRunning DEF CreateBought
<1>3. CASE CreatorSellSeen(m)
  <2> DEFINE b == [book EXCEPT ![m] = RequestSell(@)]
  <2>1. RequestSell(book[m]) \in PositionState
    BY <1>0 DEF RequestSell, Unconfirmed, PositionState, States
  <2>2. b \in [Mints -> PositionState] /\ Commit(b, task)
    BY <1>3, <2>1 DEF CreatorSellSeen, TypeOK
  <2> HIDE DEF b
  <2>3. \A n \in Mints, j \in Ids : task[n][j].stage = "running" => <<n, j>> \in Running
    BY DEF Running
  <2>4. QED
    BY <1>0, <2>2, <2>3, CommitStartsNone, FewerRunning
<1>4. QED
  BY <1>1, <1>2, <1>3 DEF MintStep, Age, TimerFires, ReleaseTaken, CreateRefused,
     CreateNotAudited, CreateCongested

LEMMA ActorStepKeepsPermits ==
  ASSUME TypeOK, PermitsKept, ActorStep
  PROVE  PermitsKept'
<1>1. CASE UNCHANGED task
  BY <1>1 DEF PermitsKept, PermitBound, Running
<1>2. ASSUME NEW b \in [Mints -> PositionState], Commit(b, task)
      PROVE  PermitsKept'
  <2>1. \A n \in Mints, j \in Ids : task[n][j].stage = "running" => <<n, j>> \in Running
    BY DEF Running
  <2>2. task \in [Mints -> [Ids -> Task]]
    BY DEF TypeOK
  <2>3. QED
    BY <1>2, <2>1, <2>2, CommitStartsNone, FewerRunning
<1>3. CASE StopGracefully \/ Tick
  BY <1>2, <1>3, ActorStepShape, CommandBooks
<1>4. ASSUME NEW holding \in [Mints -> Ids \cup {NoId}], SellAll(holding)
      PROVE  PermitsKept'
  BY <1>2, <1>4, ActorStepShape, CommandBooks
<1>5. QED
  BY <1>1, <1>3, <1>4 DEF ActorStep, Start, ForceStop, JournalDrops, IntegrityChanges

(***************************************************************************)
(* The order tasks of all mints together never hold more permits than      *)
(* landing.max_inflight_orders, however many mints there are.              *)
(***************************************************************************)
THEOREM PermitBoundHolds == Spec => []PermitBound
<1>1. Init => PermitsKept
  <2>1. Init => Running = {}
    BY DEF Init, Running, FreeTask
  <2>2. IsFiniteSet({}) /\ Cardinality({}) = 0
    BY FS_EmptySet
  <2>3. QED
    BY <2>1, <2>2, EngineAssumption DEF PermitsKept, PermitBound
<1>2. TypeOK /\ PermitsKept /\ [Next]_vars => PermitsKept'
  <2>1. ASSUME TypeOK, PermitsKept, Next PROVE PermitsKept'
    BY <2>1, OrderStepKeepsPermits, MintStepKeepsPermits, ActorStepKeepsPermits DEF Next
  <2>2. ASSUME PermitsKept, UNCHANGED vars PROVE PermitsKept'
    BY <2>2 DEF vars, PermitsKept, PermitBound, Running
  <2>3. QED
    BY <2>1, <2>2
<1>3. PermitsKept => PermitBound
  BY DEF PermitsKept
<1>4. QED
  BY <1>1, <1>2, <1>3, TypeCorrect, PTL DEF Spec

-----------------------------------------------------------------------------
(***************************************************************************)
(* What a step may never take from an entry: a deferred exit, and a        *)
(* submitted sell that is still in execution.                              *)
(***************************************************************************)

(***************************************************************************)
(* An entry s becomes r while the chain has executed the orders l.         *)
(***************************************************************************)
ExitKept(s, r) ==
  s.st \in Unconfirmed /\ s.exit =>
    r.st # "open" /\ (r.st \in Unconfirmed => r.exit)

SellKept(s, r, l) ==
  s.st = "submitted_sell" /\ r.st # "submitted_sell" => s.sell \in l \/ s.aged

Kept(s, r, l) == ExitKept(s, r) /\ SellKept(s, r, l)

AllKept(b) == \A m \in Mints : Kept(book[m], b[m], landed[m])

LEMMA KeptSame ==
  ASSUME NEW s, NEW l
  PROVE  Kept(s, s, l)
BY DEF Kept, ExitKept, SellKept, Unconfirmed

\* The methods that start, fail and import.
LEMMA KeptMethods ==
  ASSUME NEW s \in PositionState, NEW l
  PROVE  /\ Kept(s, [s EXCEPT !.aged = TRUE], l)
         /\ s.st = "none" => Kept(s, BeginBuy(s), l) /\ Kept(s, FailBuy(BeginBuy(s)), l)
         /\ Kept(s, FailBuy(s), l)
         /\ Kept(s, RequestSell(s), l)
         /\ Kept(s, FailSell(s), l)
         /\ Kept(s, ForgetUnresolved(s), l)
<1> USE DEF Kept, ExitKept, SellKept, PositionState, Unconfirmed, Absent
<1>1. Kept(s, [s EXCEPT !.aged = TRUE], l)
  OBVIOUS
<1>2. s.st = "none" => Kept(s, BeginBuy(s), l) /\ Kept(s, FailBuy(BeginBuy(s)), l)
  OBVIOUS
<1>3. Kept(s, FailBuy(s), l) /\ Kept(s, FailSell(s), l)
  BY DEF FailBuy, FailSell
<1>4. Kept(s, RequestSell(s), l)
  BY DEF RequestSell
<1>5. Kept(s, ForgetUnresolved(s), l)
  BY DEF ForgetUnresolved, AbandonUnconfirmedBuy, AbandonStaleSubmittedSell
<1> QED
  BY <1>1, <1>2, <1>3, <1>4, <1>5

\* The methods that name an order.  A confirmation is of an executed one.
LEMMA KeptOrderMethods ==
  ASSUME NEW s \in PositionState, NEW l, NEW id \in Ids
  PROVE  /\ Kept(s, BuySubmitted(s, id), l)
         /\ s.st = "buying" => Kept(s, ConfirmBuy(BuySubmitted(s, id), id), l)
         /\ Kept(s, ConfirmBuy(s, id), l)
         /\ Kept(s, RequestSell(ImportOpen(s, id)), l)
         /\ Kept(s, SellSubmitted(s, id), l)
         /\ s.st = "selling" => Kept(s, ConfirmSell(SellSubmitted(s, id), id), l)
         /\ id \in l => Kept(s, ConfirmSell(s, id), l)
<1> USE DEF Kept, ExitKept, SellKept, PositionState, Unconfirmed, Absent
<1>1. /\ Kept(s, BuySubmitted(s, id), l)
      /\ s.st = "buying" => Kept(s, ConfirmBuy(BuySubmitted(s, id), id), l)
      /\ Kept(s, ConfirmBuy(s, id), l)
  BY DEF BuySubmitted, ConfirmBuy
<1>2. Kept(s, RequestSell(ImportOpen(s, id)), l)
  BY DEF RequestSell, ImportOpen
<1>3. /\ Kept(s, SellSubmitted(s, id), l)
      /\ s.st = "selling" => Kept(s, ConfirmSell(SellSubmitted(s, id), id), l)
      /\ id \in l => Kept(s, ConfirmSell(s, id), l)
  BY DEF SellSubmitted, ConfirmSell
<1> QED
  BY <1>1, <1>2, <1>3

\* A tick abandons only buys and sells past their timeout.
LEMMA KeptTicked ==
  ASSUME TypeOK, NEW m \in Mints
  PROVE  Kept(book[m], Ticked[m], landed[m])
<1> DEFINE s == book[m]
           l == landed[m]
<1>1. s \in PositionState
  BY DEF TypeOK
<1>2. /\ ClaimTimeout(s) \in PositionState
      /\ s.st # "open" => ClaimTimeout(s) = s
  BY <1>1, TimeoutOperatorTypes DEF ClaimTimeout
<1> USE DEF Kept, ExitKept, SellKept, PositionState, Unconfirmed, Absent
<1>3. CASE s.st = "open"
  BY <1>3
<1>4. CASE s.st # "open"
  <2>1. Reported(m) = IF StaleSubmission(s)
                      THEN AbandonUnconfirmedBuy(ClaimStaleSubmission(s)) ELSE s
    BY <1>2, <1>4 DEF Reported
  <2>2. /\ Reported(m) \in PositionState
        /\ Kept(s, Reported(m), l)
        /\ Reported(m).st = "submitted_sell" =>
             s.st = "submitted_sell" /\ Reported(m).sell = s.sell /\ Reported(m).aged = s.aged
    <3> DEFINE c == ClaimStaleSubmission(s)
    <3>1. /\ c \in PositionState /\ c.st = s.st /\ c.exit = s.exit
          /\ c.sell = s.sell /\ c.aged = s.aged
      BY <1>1 DEF ClaimStaleSubmission
    <3>2. AbandonUnconfirmedBuy(c) \in PositionState
      BY <3>1, TimeoutOperatorTypes
    <3>3. AbandonUnconfirmedBuy(c) = IF s.st \in Unconfirmed THEN Absent ELSE c
      BY <3>1 DEF AbandonUnconfirmedBuy
    <3> HIDE DEF c
    <3>4. Reported(m) = s \/ Reported(m) = AbandonUnconfirmedBuy(c)
      BY <2>1 DEF c
    <3>5. CASE Reported(m) = s
      BY <1>1, <3>5
    <3>6. CASE Reported(m) = AbandonUnconfirmedBuy(c)
      BY <3>1, <3>2, <3>3, <3>6
    <3> QED
      BY <3>4, <3>5, <3>6
  <2>3. Kept(s, ForgetUnresolved(Reported(m)), l)
    BY <2>2 DEF ForgetUnresolved, AbandonUnconfirmedBuy, AbandonStaleSubmittedSell
  <2> QED
    BY <2>2, <2>3 DEF Ticked
<1> QED
  BY <1>3, <1>4

(***************************************************************************)
(* The steps.                                                              *)
(***************************************************************************)
LEMMA OneMintKept ==
  ASSUME TypeOK, NEW m \in Mints, NEW r, Kept(book[m], r, landed[m]),
         book' = [book EXCEPT ![m] = r]
  PROVE  AllKept(book')
BY KeptSame DEF AllKept, TypeOK

LEMMA OrderStepKeeps ==
  ASSUME TypeOK, NEW m \in Mints, NEW i \in Ids, OrderStep(m, i)
  PROVE  AllKept(book')
<1> DEFINE s == book[m]
<1>1. s \in PositionState
  BY DEF TypeOK
<1>2. CASE Land(m, i) \/ SellStarts(m, i) \/ SendAccepted(m, i) \/ SendFails(m, i)
  BY <1>2, KeptSame DEF Land, SellStarts, SendAccepted, SendFails, AllKept
<1>3. CASE OwnBuySeen(m, i)
  <2>1. book' = [book EXCEPT ![m] = ConfirmBuy(s, i)]
    BY <1>3 DEF OwnBuySeen, Commit
  <2> QED
    BY <1>1, <2>1, KeptOrderMethods, OneMintKept
<1>4. CASE OwnSellSeen(m, i)
  <2>1. book' = [book EXCEPT ![m] = ConfirmSell(s, i)] /\ i \in landed[m]
    BY <1>4 DEF OwnSellSeen
  <2> QED
    BY <1>1, <2>1, KeptOrderMethods, OneMintKept
<1>5. CASE BuyAccepted(m, i)
  <2>1. \/ book' = [book EXCEPT ![m] = BuySubmitted(s, i)]
        \/ s.st = "buying" /\ book' = [book EXCEPT ![m] = ConfirmBuy(BuySubmitted(s, i), i)]
    BY <1>5 DEF BuyAccepted, Commit
  <2> QED
    BY <1>1, <2>1, KeptOrderMethods, OneMintKept
<1>6. CASE BuyFailed(m, i)
  <2>1. book' = [book EXCEPT ![m] = FailBuy(s)]
    BY <1>6 DEF BuyFailed, Commit
  <2> QED
    BY <1>1, <2>1, KeptMethods, OneMintKept
<1>7. CASE SellAccepted(m, i)
  <2>1. \/ book' = [book EXCEPT ![m] = SellSubmitted(s, i)]
        \/ s.st = "selling" /\ book' = [book EXCEPT ![m] = ConfirmSell(SellSubmitted(s, i), i)]
    BY <1>7 DEF SellAccepted, Commit
  <2> QED
    BY <1>1, <2>1, KeptOrderMethods, OneMintKept
<1>8. CASE SellFailed(m, i)
  <2>1. book' = [book EXCEPT ![m] = FailSell(s)]
    BY <1>8 DEF SellFailed, Commit
  <2> QED
    BY <1>1, <2>1, KeptMethods, OneMintKept
<1> QED
  BY <1>2, <1>3, <1>4, <1>5, <1>6, <1>7, <1>8 DEF OrderStep

LEMMA MintStepKeeps ==
  ASSUME TypeOK, NEW m \in Mints, MintStep(m)
  PROVE  AllKept(book')
<1> DEFINE s == book[m]
<1>1. s \in PositionState
  BY DEF TypeOK
<1>2. CASE TimerFires(m) \/ ReleaseTaken(m) \/ CreateRefused(m)
  BY <1>2, KeptSame DEF TimerFires, ReleaseTaken, CreateRefused, AllKept
<1>3. CASE Age(m)
  <2>1. book' = [book EXCEPT ![m] = [s EXCEPT !.aged = TRUE]]
    BY <1>3 DEF Age, TypeOK
  <2> QED
    BY <1>1, <2>1, KeptMethods, OneMintKept
<1>4. CASE CreateBought(m)
  <2>1. s.st = "none" /\ book' = [book EXCEPT ![m] = BeginBuy(s)]
    BY <1>4 DEF CreateBought
  <2> QED
    BY <1>1, <2>1, KeptMethods, OneMintKept
<1>5. CASE CreateNotAudited(m) \/ CreateCongested(m)
  <2>1. s.st = "none" /\ book' = [book EXCEPT ![m] = FailBuy(BeginBuy(s))]
    BY <1>5 DEF CreateNotAudited, CreateCongested
  <2> QED
    BY <1>1, <2>1, KeptMethods, OneMintKept
<1>6. CASE CreatorSellSeen(m)
  <2>1. book' = [book EXCEPT ![m] = RequestSell(s)]
    BY <1>6 DEF CreatorSellSeen, Commit
  <2> QED
    BY <1>1, <2>1, KeptMethods, OneMintKept
<1> QED
  BY <1>2, <1>3, <1>4, <1>5, <1>6 DEF MintStep

LEMMA ActorStepKeeps ==
  ASSUME TypeOK, ActorStep
  PROVE  AllKept(book')
<1>1. \A m \in Mints : book[m] \in PositionState
  BY DEF TypeOK
<1>2. CASE Start
  <2>1. book' = Forgotten
    BY <1>2, ActorStepShape
  <2> QED
    BY <1>1, <2>1, KeptMethods DEF AllKept, Forgotten
<1>3. CASE StopGracefully
  <2>1. book' = SellRequested
    BY <1>3, ActorStepShape DEF Commit
  <2> QED
    BY <1>1, <2>1, KeptMethods DEF AllKept, SellRequested
<1>4. CASE ForceStop \/ JournalDrops \/ IntegrityChanges
  BY <1>4, KeptSame DEF ForceStop, JournalDrops, IntegrityChanges, AllKept
<1>5. CASE Tick
  <2>1. book' = Ticked
    BY <1>5, ActorStepShape DEF Commit
  <2> QED
    BY <2>1, KeptTicked DEF AllKept
<1>6. ASSUME NEW holding \in [Mints -> Ids \cup {NoId}], SellAll(holding)
      PROVE  AllKept(book')
  <2>1. book' = ImportedAndSold(holding)
    BY <1>6, ActorStepShape DEF Commit
  <2>2. ASSUME NEW m \in Mints
        PROVE  Kept(book[m], ImportedAndSold(holding)[m], landed[m])
    <3>1. CASE holding[m] = NoId
      BY <1>1, <3>1, KeptMethods DEF ImportedAndSold, Imported
    <3>2. CASE holding[m] # NoId
      <4>1. ImportedAndSold(holding)[m] = RequestSell(ImportOpen(book[m], holding[m]))
        BY <3>2 DEF ImportedAndSold, Imported
      <4>2. holding[m] \in Ids
        BY <3>2
      <4> QED
        BY <1>1, <4>1, <4>2, KeptOrderMethods
    <3> QED
      BY <3>1, <3>2
  <2> QED
    BY <2>1, <2>2 DEF AllKept
<1> QED
  BY <1>2, <1>3, <1>4, <1>5, <1>6 DEF ActorStep

LEMMA StepKeeps ==
  ASSUME TypeOK, [Next]_vars
  PROVE  AllKept(book')
<1>1. CASE Next
  BY <1>1, OrderStepKeeps, MintStepKeeps, ActorStepKeeps DEF Next
<1>2. CASE UNCHANGED vars
  BY <1>2, KeptSame DEF vars, AllKept
<1> QED
  BY <1>1, <1>2

(***************************************************************************)
(* An exit that was asked for while the buy was in flight ends in a sell   *)
(* or is given up with the buy, on the ordinary path and on the cached one *)
(* (position.rs:226, engine.rs:359-364).                                   *)
(***************************************************************************)
THEOREM DeferredExitKeptAlways == Spec => DeferredExitKept
<1> DEFINE Step == \A m \in Mints :
                     book[m].st \in Unconfirmed /\ book[m].exit =>
                       /\ book'[m].st # "open"
                       /\ book'[m].st \in Unconfirmed => book'[m].exit
<1>1. TypeOK /\ [Next]_vars => [Step]_vars
  BY StepKeeps DEF AllKept, Kept, ExitKept
<1> QED
  BY <1>1, TypeCorrect, PTL DEF Spec, DeferredExitKept

(***************************************************************************)
(* A submitted sell leaves the book by its own confirmation, of which the  *)
(* chain knows, or after its timeout (position.rs:321).                    *)
(***************************************************************************)
THEOREM SubmittedSellHeldAlways == Spec => SubmittedSellHeld
<1> DEFINE Step == \A m \in Mints :
                     book[m].st = "submitted_sell" /\ book'[m].st # "submitted_sell" =>
                       book[m].sell \in landed[m] \/ book[m].aged
<1>1. TypeOK /\ [Next]_vars => [Step]_vars
  BY StepKeeps DEF AllKept, Kept, SellKept
<1> QED
  BY <1>1, TypeCorrect, PTL DEF Spec, SubmittedSellHeld

=============================================================================
