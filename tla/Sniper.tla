------------------------------- MODULE Sniper -------------------------------
(***************************************************************************)
(* The strategy actor of strategy/mod.rs composed with the order actor of  *)
(* Engine.  Market events go through StrategyRouter, which in scan mode    *)
(* locks on the first mint it can buy and drops the events of every other  *)
(* one, and which publishes the mints the target connection listens to;    *)
(* frames wait in a channel for the order actor; releases come back        *)
(* through the channel that Engine models.                                 *)
(***************************************************************************)
EXTENDS Engine, Sequences

CONSTANTS Modes,     \* the strategy modes to start in
          MaxFrames, \* frame channel (4096 in main.rs)
          NoMint     \* stands for "no mint"

ASSUME SniperAssumption ==
  /\ Modes \subseteq {"scan", "follow", "direct"}
  /\ MaxFrames \in Nat \ {0}
  /\ NoMint \notin Mints

VARIABLES
  mode,     \* "scan", "follow" (standard with follows) or "direct"
  target,   \* StrategyRouter.scan_target
  watched,  \* the mints published to the target connection
  frames,   \* frames waiting for the order actor
  created,  \* history: mints whose create event was seen; a mint is created once
  imported  \* history: mints SellAll brought a recovered position of

router == <<mode, target, watched>>
history == <<created, imported>>
engineVars == vars
sniperVars == <<vars, mode, target, watched, frames, created, imported>>

-----------------------------------------------------------------------------
(* The router.  Events the filters drop without a state change (another    *)
(* mint while locked, no intent, a replayed create) are stutters.          *)

Frame == [kind : {"create", "own_buy", "own_sell", "creator_sell"},
          mint : Mints, order : Ids \cup {NoId}]

Forward(kind, m, i) ==
  /\ Len(frames) < MaxFrames
  /\ frames' = Append(frames, [kind |-> kind, mint |-> m, order |-> i])

Publish(m) == watched' = IF mode = "direct" THEN watched ELSE watched \cup {m}

\* Mutant: the lock of an earlier target is not looked at.
ScanFreeAlways == TRUE

ScanFree == mode = "scan" => target = NoMint

\* A live create with a Buy intent.  While scan is locked it is lost for good.
RouteCreate(m) ==
  /\ m \notin created
  /\ created' = created \cup {m}
  /\ IF ScanFree
     THEN /\ Forward("create", m, NoId)
          /\ Publish(m)
          /\ target' = IF mode = "scan" THEN m ELSE target
     ELSE UNCHANGED <<frames, router>>
  /\ UNCHANGED <<engineVars, mode, imported>>

\* scan drops the trades of every mint but the locked one, own trades too.
Passes(m) == mode = "scan" => target = m

RouteOwnTrade(m, i) ==
  /\ Passes(m)
  /\ i \in landed[m]
  /\ Forward(IF task[m][i].kind = "buy" THEN "own_buy" ELSE "own_sell", m, i)
  /\ UNCHANGED <<engineVars, router, history>>

RouteCreatorSell(m) ==
  /\ Passes(m)
  /\ m \in created
  /\ Forward("creator_sell", m, NoId)
  /\ UNCHANGED <<engineVars, router, history>>

Unlock(m) == target' = IF target = m THEN NoMint ELSE target

ReleaseTarget(m) ==
  /\ ReleaseTaken(m)
  /\ Unlock(m)
  /\ watched' = watched \ {m}
  /\ UNCHANGED <<mode, frames, history>>

-----------------------------------------------------------------------------
(* The order actor takes the next frame.                                   *)

IsNext(kind, m, i) ==
  /\ frames # <<>>
  /\ Head(frames) = [kind |-> kind, mint |-> m, order |-> i]

\* Without an entry, or with one of another creator, nothing happens.
CreatorSellIgnored(m) == book[m].st = "none" /\ UNCHANGED engineVars

\* A create of a mint that has an entry already is ignored.
CreateIgnored(m) == MayBuy /\ book[m].st # "none" /\ UNCHANGED engineVars

HandleFrame(m, i) ==
  /\ \/ /\ IsNext("create", m, NoId)
        /\ \/ CreateRefused(m) \/ CreateBought(m) \/ CreateNotAudited(m)
           \/ CreateCongested(m) \/ CreateIgnored(m)
     \/ IsNext("own_buy", m, i) /\ OwnBuySeen(m, i)
     \/ IsNext("own_sell", m, i) /\ OwnSellSeen(m, i)
     \/ /\ IsNext("creator_sell", m, NoId)
        /\ CreatorSellSeen(m) \/ CreatorSellIgnored(m)
  /\ frames' = Tail(frames)
  /\ UNCHANGED <<router, history>>

\* What the order actor, its tasks and the chain do without a frame.
EngineStep ==
  /\ \/ \E m \in Mints, i \in Ids : Land(m, i) \/ OrderAdvances(m, i)
     \/ \E m \in Mints : Age(m) \/ TimerFires(m)
     \/ Start \/ StopGracefully \/ ForceStop \/ Tick \/ JournalDrops \/ IntegrityChanges
  /\ UNCHANGED <<frames, router, history>>

RecoverAndSell(holding) ==
  /\ SellAll(holding)
  /\ imported' = imported \cup {m \in Mints : holding[m] # NoId}
  /\ UNCHANGED <<frames, router, created>>

SniperInit ==
  /\ Init
  /\ mode \in Modes
  /\ target = NoMint
  /\ watched = {}
  /\ frames = <<>>
  /\ created = {}
  /\ imported = {}

SniperNext ==
  \/ \E m \in Mints : RouteCreate(m) \/ RouteCreatorSell(m) \/ ReleaseTarget(m)
  \/ \E m \in Mints, i \in Ids : RouteOwnTrade(m, i) \/ HandleFrame(m, i)
  \/ \E holding \in [Mints -> Ids \cup {NoId}] : RecoverAndSell(holding)
  \/ EngineStep

SniperSpec == SniperInit /\ [][SniperNext]_sniperVars

-----------------------------------------------------------------------------
(* Properties.                                                             *)

\* A position the program opened is listened to for as long as it is in the
\* book: no release, however late or repeated, takes its target away, and scan
\* never trades two mints at once.
PositionIsWatched ==
  \A m \in Mints \ imported :
    book[m].st # "none" =>
      /\ mode # "direct" => m \in watched
      /\ mode = "scan" => target = m

-----------------------------------------------------------------------------
(* A statement of the repository that the code does not keep.              *)

Waiting(m) == \E k \in DOMAIN frames : frames[k].mint = m

\* README.md:9, 138-139: scan snipes in a loop, each target is dropped and the
\* next create awaited.  So something that will release the lock must exist.
LockHasReason ==
  \A m \in Mints :
    target = m => \/ Waiting(m) \/ book[m].st # "none"
                  \/ releases[m] > 0 \/ timers[m] > 0

=============================================================================
