-------------------------------- MODULE Feed --------------------------------
(***************************************************************************)
(* The main Geyser connection with its slot cursor (listen/geyser.rs,      *)
(* listen/cursor.rs), the store of pending gaps and the RPC repair task    *)
(* (listen/repair.rs) and the integrity gate that the order actor asks     *)
(* (listen/mod.rs).  The chain, the server and the RPC node choose; every  *)
(* slot of the chain is produced.  A slot reaches the program as one slot  *)
(* update and one batch of watched transactions.  Standard mode replays    *)
(* and repairs what it missed; scan does neither, and asks the RPC node    *)
(* for the tip of the chain instead, to tell a create that comes late.     *)
(* The connection may break and the program may crash at any point, inside *)
(* a slot too.  The memories of seen signatures and of repaired slots,     *)
(* which only save work, are left out.                                     *)
(***************************************************************************)
EXTENDS Integers, FiniteSets

CONSTANTS MaxSlot,  \* bound: the last slot of the chain
          Overlap,  \* CURSOR_REPLAY_OVERLAP_SLOTS, 64
          MaxGap,   \* MAX_GAP_SLOTS, 256
          Slack,    \* max_event_slot_lag, landing.lighthouse_slot_slack
          Modes,    \* bot.mode: "standard", "scan"
          Environments  \* what the environment may do to the feed: sets of faults

ASSUME FeedAssumption ==
  /\ MaxSlot \in Nat \ {0}
  /\ Overlap \in Nat
  /\ MaxGap \in Nat \ {0}
  /\ Slack \in Nat
  /\ Modes \subseteq {"standard", "scan"}
  /\ Environments \subseteq SUBSET {"tx_first", "rpc_lags", "disk_fails"}

VARIABLES
  faults,   \* the environment of this run: transactions may precede their slot
            \* update (tx_first), the RPC node may be behind the chain (rpc_lags),
            \* a file may fail to be written or read (disk_fails)
  mode,     \* bot.mode
  sampled,  \* the tip the RPC node told last, rpc_tip of scan, 0 for None
  tip,      \* the newest slot of the chain
  up,       \* the connection is subscribed
  pos,      \* the next slot of the stream
  part,     \* what of that slot has arrived: "none", "slot" or "tx"
  cursor,   \* StreamCursor.last_slot, 0 for None
  skip,     \* StreamCursor.skip_replay_once
  replayTo, \* replay_until, 0 for None
  stored,   \* GapStore.pending in memory
  flying,   \* copies of a gap in the queue, at work or waiting for a retry
  pending,  \* PENDING_GAPS
  intact,   \* INTEGRITY_OK
  saver,    \* the task that writes the cursor file runs
  disk,     \* the cursor and gap files
  since,    \* history: the first slot followed without a lost cursor
  have,     \* history: slots whose transactions reached the program
  live,     \* history: slots whose transactions were not marked as replayed
  torn,     \* history: slots the cursor took from their slot update, before the
            \* connection or the program ended without their transactions
  opened    \* history: the chain's tip when the stream was opened

env == <<faults, mode, sampled>>
stream == <<up, pos, part, replayTo, opened>>
history == <<since, have, live, torn>>
gaps == <<stored, flying, pending, intact>>
files == <<saver, disk>>
vars == <<faults, mode, sampled, tip, up, pos, part, cursor, skip, replayTo, stored, flying, pending,
          intact, saver, disk, since, have, live, torn, opened>>

Slots == 1..MaxSlot

GapRange == {g \in [start : Slots, end : Slots] :
               g.start <= g.end /\ g.end - g.start < MaxGap}

Within(g) == g.start..g.end

AllowsNewOrders == intact /\ pending = 0

-----------------------------------------------------------------------------
(* Gaps.                                                                   *)

\* The range from .. to in chunks of at most MaxGap slots.
Chunks(from, to) ==
  {g \in GapRange : /\ g.start >= from /\ (g.start - from) % MaxGap = 0
                    /\ g.end = IF g.start + MaxGap - 1 < to
                               THEN g.start + MaxGap - 1 ELSE to}

\* GapStore.add: a chunk that is pending already is not added again.
Added(from, to) == Chunks(from, to) \ stored

\* A chunk that cannot be written stays in memory and is not queued at all.
Enqueue(from, to) ==
  LET new == Added(from, to) IN
  /\ stored' = stored \cup new
  /\ \/ /\ flying' = [g \in GapRange |-> flying[g] + (IF g \in new THEN 1 ELSE 0)]
        /\ pending' = pending + Cardinality(new)
        /\ disk' = IF new = {} THEN disk ELSE [disk EXCEPT !.gaps = stored']
        /\ UNCHANGED intact
     \/ /\ "disk_fails" \in faults /\ new # {}
        /\ intact' = FALSE
        /\ UNCHANGED <<flying, pending, disk>>

SawSlot(s) ==
  /\ cursor' = IF s > cursor THEN s ELSE cursor
  /\ since' = IF cursor = 0 THEN s ELSE since

-----------------------------------------------------------------------------
(* The connection.                                                         *)

ChainGrows ==
  /\ tip < MaxSlot
  /\ tip' = tip + 1
  /\ UNCHANGED <<env, stream, cursor, skip, gaps, files, history>>

\* Without a cursor, after a replay floor or without an RPC tip: the live
\* stream.
ConnectLive ==
  /\ mode = "standard" /\ ~up
  /\ up' = TRUE
  /\ pos' = tip + 1
  /\ replayTo' = 0
  /\ opened' = tip
  /\ skip' = FALSE
  /\ UNCHANGED <<env, tip, part, cursor, gaps, files, history>>

\* safe_replay_slot
ReplayFrom == IF cursor > Overlap THEN cursor - Overlap ELSE 1

RpcTip == IF "rpc_lags" \in faults THEN 0..tip ELSE {tip}

Replayable == mode = "standard" /\ ~up /\ cursor # 0 /\ ~skip

ConnectReplay ==
  /\ Replayable
  /\ up' = TRUE
  /\ pos' = ReplayFrom
  /\ replayTo' \in RpcTip
  /\ opened' = tip
  /\ UNCHANGED <<env, tip, part, cursor, skip, gaps, files, history>>

\* Mutant: the cursor moves to the floor and what lies before it is not queued.
ReplayRefusedUnrecorded(floor) ==
  /\ Replayable
  /\ floor > ReplayFrom /\ floor <= tip
  /\ cursor' = IF floor - 1 > cursor THEN floor - 1 ELSE cursor
  /\ skip' = TRUE
  /\ UNCHANGED <<env, tip, stream, gaps, files, history>>

\* The server keeps nothing before floor.  What it cannot replay goes to the
\* repair task, and the next connection is a live one.
ReplayRefused(floor) ==
  /\ Replayable
  /\ floor > ReplayFrom /\ floor <= tip
  /\ IF floor > cursor + 1
     THEN Enqueue(cursor + 1, floor - 1)
     ELSE UNCHANGED <<gaps, disk>>
  /\ cursor' = IF floor - 1 > cursor THEN floor - 1 ELSE cursor
  /\ skip' = TRUE
  /\ UNCHANGED <<env, tip, stream, saver, history>>

\* scan forgets its cursor before each attempt and takes the live stream,
\* whatever it missed; the attempt may fail.
ConnectScan ==
  /\ mode = "scan" /\ ~up
  /\ cursor' = 0
  /\ \/ /\ up' = TRUE /\ pos' = tip + 1 /\ opened' = tip
        /\ UNCHANGED <<part, replayTo>>
     \/ UNCHANGED stream
  /\ UNCHANGED <<env, tip, skip, gaps, files, history>>

\* spawn_rpc_tip_sampler: a call that fails leaves the last answer standing.
SampleTip ==
  /\ mode = "scan"
  /\ sampled' \in RpcTip \ {0, sampled}
  /\ UNCHANGED <<faults, mode, tip, stream, cursor, skip, gaps, files, history>>

\* The slot that is cut off when the stream ends now.
Cut == IF part = "slot" THEN {pos} \ have ELSE {}

Disconnect ==
  /\ up
  /\ up' = FALSE /\ part' = "none"
  /\ torn' = torn \cup Cut
  /\ UNCHANGED <<env, tip, pos, replayTo, opened, cursor, skip, gaps, files, since, have, live>>

\* The slots before s do not arrive on this connection.
Skip(s) ==
  /\ up /\ part = "none"
  /\ s > pos /\ s <= tip
  /\ pos' = s
  /\ UNCHANGED <<env, tip, up, part, replayTo, opened, cursor, skip, gaps, files, history>>

\* With both parts of a slot received the stream goes on to the next.
Received(one, other) ==
  IF part = other
  THEN part' = "none" /\ pos' = pos + 1
  ELSE part' = one /\ pos' = pos

SlotUpdate ==
  /\ up /\ pos <= tip /\ part # "slot"
  /\ Received("slot", "tx")
  /\ IF mode = "standard" /\ cursor # 0 /\ pos > cursor + 1
     THEN Enqueue(cursor + 1, pos - 1)
     ELSE UNCHANGED <<gaps, disk>>
  /\ SawSlot(pos)
  /\ UNCHANGED <<env, tip, up, replayTo, opened, skip, saver, have, live, torn>>

\* Mutant: the slot the replay ends with counts as live.
ReplayingBefore(s) == s < replayTo

Replaying(s) == s <= replayTo

\* scan hands a create on when the RPC node's tip is known and not far ahead.
HandsOn(s) == mode = "standard" \/ (sampled # 0 /\ sampled - s <= Slack)

\* Transactions advance the cursor like slot updates, but look for no gap.
\* What scan does not hand on, a batch without a create included, leaves no
\* trace.
Transactions ==
  /\ up /\ pos <= tip /\ part # "tx"
  /\ part = "none" => "tx_first" \in faults
  /\ Received("tx", "slot")
  /\ \/ /\ HandsOn(pos)
        /\ SawSlot(pos)
        /\ have' = have \cup {pos}
        /\ live' = IF Replaying(pos) THEN live ELSE live \cup {pos}
        /\ torn' = torn \ {pos}
     \/ /\ mode = "scan"
        /\ UNCHANGED <<cursor, history>>
  /\ UNCHANGED <<env, tip, up, replayTo, opened, skip, gaps, files>>

-----------------------------------------------------------------------------
(* The repair task.                                                        *)

\* Mutant: a gap whose retry is scheduled no longer counts as pending.
RepairFailsUncounted(g, done) ==
  /\ flying[g] > 0
  /\ done \subseteq Within(g)
  /\ have' = have \cup done
  /\ intact' = FALSE
  /\ pending' = IF pending > 0 THEN pending - 1 ELSE 0
  /\ UNCHANGED <<env, tip, stream, cursor, skip, stored, flying, files, since, live, torn>>

\* getBlocks or a getBlock fails: some slots are repaired, the gap is retried.
RepairFails(g, done) ==
  /\ flying[g] > 0
  /\ done \subseteq Within(g)
  /\ have' = have \cup done
  /\ intact' = FALSE
  /\ UNCHANGED <<env, tip, stream, cursor, skip, stored, flying, pending, files, since, live, torn>>

\* The blocks the RPC node knows are repaired; what it does not know yet
\* counts as not produced.
RepairSucceeds(g) ==
  /\ flying[g] > 0
  /\ \E known \in RpcTip :
       have' = have \cup {s \in Within(g) : s <= known}
  /\ stored' = stored \ {g}
  /\ \/ /\ disk' = [disk EXCEPT !.gaps = stored']
        /\ flying' = [flying EXCEPT ![g] = @ - 1]
        /\ pending' = IF pending > 0 THEN pending - 1 ELSE 0
        /\ UNCHANGED intact
     \/ /\ "disk_fails" \in faults
        /\ intact' = FALSE
        /\ UNCHANGED <<flying, pending, disk>>
  /\ UNCHANGED <<env, tip, stream, cursor, skip, saver, since, live, torn>>

-----------------------------------------------------------------------------
(* Files and restarts.                                                     *)

\* The first failure is the end of the task that writes the cursor.
PersistCursor ==
  /\ saver
  /\ disk.cursor # cursor
  /\ \/ /\ disk' = [disk EXCEPT !.cursor = cursor]
        /\ UNCHANGED <<gaps, saver>>
     \/ /\ "disk_fails" \in faults
        /\ saver' = FALSE
        /\ intact' = FALSE
        /\ UNCHANGED <<stored, flying, pending, disk>>
  /\ UNCHANGED <<env, tip, stream, cursor, skip, history>>

\* What a start makes of a file.  One that cannot be read or parsed counts as
\* missing and shuts the gate; the next write replaces it.
CursorRead ==
  {[found |-> disk.cursor, intact |-> TRUE]} \cup
  IF "disk_fails" \in faults THEN {[found |-> 0, intact |-> FALSE]} ELSE {}

GapsRead ==
  {[found |-> disk.gaps, intact |-> TRUE]} \cup
  IF "disk_fails" \in faults THEN {[found |-> {}, intact |-> FALSE]} ELSE {}

\* Mutant: the gap file is read, but its gaps are not queued.
StartUnqueued(read) ==
  /\ stored' = read
  /\ flying' = [g \in GapRange |-> 0]
  /\ pending' = 0

\* main queues the stored gaps before it connects.
Start(read) ==
  /\ stored' = read
  /\ flying' = [g \in GapRange |-> IF g \in read THEN 1 ELSE 0]
  /\ pending' = Cardinality(read)

\* Standard mode goes on from its files.
Resume ==
  /\ \E c \in CursorRead, g \in GapsRead :
       /\ cursor' = c.found
       /\ Start(g.found)
       /\ intact' = (c.intact /\ g.intact)
  /\ UNCHANGED disk

\* scan empties both; without a gap file it does not start at all.
StartAfresh ==
  /\ cursor' = 0
  /\ Start({})
  /\ \/ disk' = [cursor |-> 0, gaps |-> {}] /\ intact' = TRUE
     \/ /\ "disk_fails" \in faults
        /\ disk' = [disk EXCEPT !.gaps = {}] /\ intact' = FALSE

\* A crash at any point.  What the cursor file does not know yet is not cut off:
\* it comes after the cursor again.
Restart ==
  /\ up' = FALSE /\ part' = "none" /\ skip' = FALSE
  /\ IF mode = "scan" THEN StartAfresh ELSE Resume
  /\ sampled' = 0
  /\ saver' = TRUE
  /\ torn' = {s \in torn \cup Cut : s <= cursor'}
  /\ UNCHANGED <<faults, mode, tip, pos, replayTo, opened, since, have, live>>

Init ==
  /\ faults \in Environments
  /\ mode \in Modes /\ sampled = 0
  /\ tip = 1
  /\ up = FALSE /\ pos = 1 /\ part = "none" /\ replayTo = 0 /\ opened = 0
  /\ cursor = 0 /\ skip = FALSE
  /\ stored = {} /\ flying = [g \in GapRange |-> 0] /\ pending = 0
  /\ intact = TRUE /\ saver = TRUE
  /\ disk = [cursor |-> 0, gaps |-> {}]
  /\ since = 0 /\ have = {} /\ live = {} /\ torn = {}

Next ==
  \/ ChainGrows
  \/ ConnectLive \/ ConnectReplay \/ ConnectScan \/ Disconnect
  \/ SampleTip
  \/ \E s \in Slots : ReplayRefused(s) \/ Skip(s)
  \/ SlotUpdate \/ Transactions
  \/ \E g \in GapRange : RepairSucceeds(g) \/ \E done \in SUBSET Within(g) : RepairFails(g, done)
  \/ PersistCursor \/ Restart

Spec == Init /\ [][Next]_vars

-----------------------------------------------------------------------------
(* Properties.                                                             *)

\* The slot whose transactions are due next on an intact stream.
Arriving(s) == up /\ s = pos /\ part = "slot"

\* A slot that was cut off is not among them: the slot update alone has moved the
\* cursor (geyser.rs:306-308), and only a connection that replays asks for it
\* again (geyser.rs:178-197).  No document promises more, and the code does not.
Missing ==
  {s \in Slots : since # 0 /\ s >= since /\ s \notin have \cup torn /\ ~Arriving(s)}

\* README.md:171: new positions stop until every pending gap is repaired, so
\* what is missing lies after the cursor whenever they are allowed.  The code
\* keeps this in an orderly environment only.
OpenOnlyWhole == AllowsNewOrders => \A s \in Missing : s > cursor

\* README.md:28-29: gaps enter the repair queue and survive a restart, so what
\* is missing before the cursor on disk is in a gap on disk.  The code keeps
\* this in an orderly environment only.
MissingIsOnDisk ==
  \A s \in Missing : s <= disk.cursor => \E g \in disk.gaps : s \in Within(g)

Orderly == faults = {} /\ mode = "standard"

\* In an orderly environment, whenever the program crashes or the stream breaks,
\* new positions are opened only by a program that has seen or repaired every
\* slot up to its cursor that was not cut off (README.md:171).
OrderlyOpensWhole == Orderly => OpenOnlyWhole

\* In an orderly environment a crash, at any point, leaves no slot behind but one
\* that was cut off: what else is missing up to the cursor on disk is in a gap on
\* disk (README.md:28-29).
OrderlyLosesNothing == Orderly => MissingIsOnDisk

\* Whatever fails: a gap that is stored is worked on, or the gate is shut for
\* good; and the gate's counter counts the gaps that are worked on.
GapsAreWorkedOn ==
  /\ \A g \in stored : flying[g] > 0 \/ ~intact
  /\ (pending = 0) = (\A g \in GapRange : flying[g] = 0)

\* Transactions of the past never pass for live ones, unless standard mode asks
\* an RPC node for the chain's tip that is behind: a strategy buys only on slots
\* the chain reached after the stream was opened (geyser.rs:335), and scan, on a
\* stream that lags, only near the tip that was told last (geyser.rs:314-333).
OnlyNewIsLive ==
  [][\A s \in live' \ live :
       /\ s > opened \/ (mode = "standard" /\ "rpc_lags" \in faults)
       /\ mode = "scan" => s + Slack >= sampled]_vars

=============================================================================
