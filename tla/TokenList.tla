------------------------------- MODULE TokenList -------------------------------
(***************************************************************************)
(* One mint in the token list of the admin page (admin.rs): what the list  *)
(* says became of the orders.  The journal hands every row to a task of    *)
(* its own, so rows are applied in any order; each submitted buy starts a  *)
(* lookup that polls the RPC node for its signatures and writes what it    *)
(* found into the same entry, up to ten seconds later.                     *)
(*                                                                         *)
(* Prices, remarks, hashes of the creator and distances in slots are left  *)
(* out; a slot is named by the signature it belongs to.                    *)
(***************************************************************************)
EXTENDS Naturals, FiniteSets

CONSTANTS Buys, Sells,
          Variants,  \* the signed variants of each order
          Attempts,  \* 40 polls of a lookup
          None       \* stands for "no entry", "no lookup", "no signature"

VARIABLES
  fate,    \* chain: what became of each signature
  submitted, \* orders the senders took
  tasks,   \* rows whose task did not run yet
  lookups, \* of each buy: the running signature lookup
  summary, \* the entry of the mint
  latest,  \* history: the buy whose submission was applied last
  gaveUp,  \* history: buys whose lookup found no success
  evicted  \* history: the entry was dropped once

vars == <<fate, submitted, tasks, lookups, summary, latest, gaveUp, evicted>>

world == <<fate, submitted>>
history == <<latest, gaveUp, evicted>>

Orders == Buys \cup Sells

Sent(o) == {o} \X Variants[o]

Signatures == UNION {Sent(o) : o \in Orders}

Executed(s) == fate[s] = "ok"

-----------------------------------------------------------------------------
(* The entry and its statuses.                                             *)

Status == {"processing", "unconfirmed", "failed", "chain failed", "chain ok", "success"}

IsTerminal(status) == status \in {"success", "chain ok", "failed", "chain failed"}

IsPending(status) == status \in {"unconfirmed", "processing"}

IsSuccess(status) == status \in {"success", "chain ok", "chain failed"}

\* Mutant: a failure is written over everything.
NoteOverridesTerminal(current, incoming) ==
  ~(IsTerminal(current) /\ IsPending(incoming))

NoteOverrides(current, incoming) ==
  /\ ~(IsTerminal(current) /\ IsPending(incoming))
  /\ ~(IsSuccess(current) /\ incoming = "failed")

Summary == [status : Status, hash : Signatures \cup {None}, slot : Signatures \cup {None},
            candidates : SUBSET Signatures, pendingBuys : SUBSET Signatures,
            pendingSells : SUBSET Signatures]

NewSummary == [status |-> "processing", hash |-> None, slot |-> None,
               candidates |-> {}, pendingBuys |-> {}, pendingSells |-> {}]

Row == [kind : {"submitted", "buy", "sell"}, signature : Signatures]

\* A running signature lookup: polls left, the last signature that failed, and
\* whether the node refused to answer.
LookupState == [left : 0..Attempts, failure : Signatures \cup {None}, refused : BOOLEAN]

NewLookup == [left |-> Attempts, failure |-> None, refused |-> FALSE]

ASSUME TokenListAssumption ==
  /\ Buys \cap Sells = {}
  /\ Attempts \in Nat \ {0}
  /\ None \notin Buys \cup Signatures \cup Summary \cup LookupState

-----------------------------------------------------------------------------
(* The order actor, the chain and the journal, which reports an exact      *)
(* event of an own order once.  The rows that occur once are spawned as    *)
(* tasks; notes and rows of the market recur, so that one applied late is  *)
(* one spawned late, and they are applied at once.  An order that fails is *)
(* only noted.                                                             *)

Spawn(kind, s) == tasks' = tasks \cup {[kind |-> kind, signature |-> s]}

Submit(o, v) ==
  /\ o \notin submitted
  /\ submitted' = submitted \cup {o}
  /\ Spawn("submitted", <<o, v>>)
  /\ UNCHANGED <<fate, lookups, summary, history>>

\* One variant can succeed (until the sale, see Lander).  Its event may be
\* reported any time later, like its task may run any time later.
Execute(s) ==
  /\ fate[s] = "none" /\ \A t \in Sent(s[1]) : ~Executed(t)
  /\ fate' = [fate EXCEPT ![s] = "ok"]
  /\ Spawn(IF s[1] \in Buys THEN "buy" ELSE "sell", s)
  /\ UNCHANGED <<submitted, lookups, summary, history>>

\* Any other that lands fails.  Of a sell that fails nothing is told.
Refuse(s) ==
  /\ fate[s] = "none" /\ s[1] \in Buys
  /\ fate' = [fate EXCEPT ![s] = "err"]
  /\ UNCHANGED <<submitted, tasks, lookups, summary, history>>

-----------------------------------------------------------------------------
(* record_token_event: the task of a row runs under the lock of the list.  *)

Entry == IF summary = None THEN NewSummary ELSE summary

Takes(row) == row \in tasks /\ tasks' = tasks \ {row}

\* A create, or a trade of somebody else: the entry is there.
ApplyMarket ==
  /\ summary' = Entry
  /\ UNCHANGED <<world, tasks, lookups, history>>

\* An own buy counts when its submission was applied before.
ApplyBuy(row) ==
  /\ Takes(row) /\ row.kind = "buy"
  /\ LET s == row.signature IN
     summary' = [Entry EXCEPT
       !.pendingBuys = @ \ {s},
       !.status = IF s \in Entry.pendingBuys \cup Entry.candidates THEN "success" ELSE @,
       !.hash = IF s \in Entry.pendingBuys \cup Entry.candidates THEN s ELSE @,
       !.slot = IF s \in Entry.pendingBuys \cup Entry.candidates THEN s ELSE @]
  /\ UNCHANGED <<world, lookups, history>>

ApplySell(row) ==
  /\ Takes(row) /\ row.kind = "sell"
  /\ summary' = [Entry EXCEPT
       !.pendingSells = @ \ {row.signature},
       !.status = IF row.signature \in Entry.pendingSells THEN "success" ELSE @]
  /\ UNCHANGED <<world, lookups, history>>

\* Mutant: the status of the previous buy stays.
ApplySubmittedBuyKeeping(row) ==
  /\ Takes(row) /\ row.kind = "submitted" /\ row.signature[1] \in Buys
  /\ LET sent == Sent(row.signature[1]) IN
     /\ summary' = [Entry EXCEPT !.hash = row.signature, !.candidates = sent,
                                 !.pendingBuys = @ \cup sent]
     /\ lookups' = [lookups EXCEPT ![row.signature[1]] = NewLookup]
     /\ latest' = row.signature[1]
  /\ UNCHANGED <<world, gaveUp, evicted>>

\* A submitted buy starts over, and its lookup starts.
ApplySubmittedBuy(row) ==
  /\ Takes(row) /\ row.kind = "submitted" /\ row.signature[1] \in Buys
  /\ LET sent == Sent(row.signature[1]) IN
     /\ summary' = [Entry EXCEPT !.hash = row.signature, !.candidates = sent,
                                 !.pendingBuys = @ \cup sent, !.status = "processing"]
     /\ lookups' = [lookups EXCEPT ![row.signature[1]] = NewLookup]
     /\ latest' = row.signature[1]
  /\ UNCHANGED <<world, gaveUp, evicted>>

ApplySubmittedSell(row) ==
  /\ Takes(row) /\ row.kind = "submitted" /\ row.signature[1] \in Sells
  /\ summary' = [Entry EXCEPT !.pendingSells = @ \cup Sent(row.signature[1])]
  /\ UNCHANGED <<world, lookups, history>>

\* note_status: an order begins or is deferred, fails, or is not confirmed in
\* time.
NoteSaid(status) ==
  \/ status \in {"processing", "failed"}
  \/ status = "unconfirmed" /\ submitted # {}

ApplyNote(status) ==
  /\ NoteSaid(status)
  /\ summary' = [Entry EXCEPT !.status = IF NoteOverrides(@, status) THEN status ELSE @]
  /\ UNCHANGED <<world, tasks, lookups, history>>

\* 300 mints came after this one: activity does not keep an entry.
Evict ==
  /\ summary # None
  /\ summary' = None
  /\ evicted' = TRUE
  /\ UNCHANGED <<world, tasks, lookups, latest, gaveUp>>

-----------------------------------------------------------------------------
(* spawn_signature_slot_lookup.  The node may lag behind the chain.        *)

Polls(o) == lookups[o] # None /\ lookups[o].left > 0

Visible(o) == SUBSET {s \in Sent(o) : fate[s] # "none"}

EndLookup(o) == lookups' = [lookups EXCEPT ![o] = None]

Knows(s) == s \in summary.pendingBuys \cup summary.candidates \cup {summary.hash}

PollSuccess(o, s) ==
  /\ Polls(o) /\ s \in Sent(o) /\ Executed(s)
  /\ EndLookup(o)
  /\ summary' = IF summary = None \/ ~Knows(s) THEN summary
       ELSE [summary EXCEPT !.pendingBuys = @ \ {s}, !.hash = s, !.slot = s,
                            !.status = IF @ = "success" THEN @ ELSE "chain ok"]
  /\ UNCHANGED <<world, tasks, history>>

\* No success in the answer: the last failure is kept, and when every
\* signature has failed there is nothing left to poll for.
PollNothing(o, visible) ==
  /\ Polls(o) /\ visible \in Visible(o) /\ \A s \in visible : ~Executed(s)
  /\ \E failure \in IF visible = {} THEN {lookups[o].failure} ELSE visible :
       lookups' = [lookups EXCEPT
         ![o].failure = failure,
         ![o].left = IF visible = Sent(o) THEN 0 ELSE @ - 1]
  /\ UNCHANGED <<world, tasks, summary, history>>

PollError(o) ==
  /\ Polls(o)
  /\ lookups' = [lookups EXCEPT ![o].left = @ - 1, ![o].refused = TRUE]
  /\ UNCHANGED <<world, tasks, summary, history>>

\* Mutant: a failed variant hides the one that succeeded.
VerdictOverChainOk(entry, lookup) ==
  IF lookup.failure # None /\ entry.status # "success"
  THEN [entry EXCEPT !.pendingBuys = @ \ {lookup.failure}, !.hash = lookup.failure,
                     !.slot = lookup.failure, !.status = "chain failed"]
  ELSE entry

\* What a lookup that found no success writes.
Verdict(entry, lookup) ==
  IF lookup.failure # None
  THEN IF entry.status \in {"success", "chain ok"} THEN entry
       ELSE [entry EXCEPT !.pendingBuys = @ \ {lookup.failure}, !.hash = lookup.failure,
                          !.slot = lookup.failure, !.status = "chain failed"]
  ELSE IF lookup.refused /\ ~IsSuccess(entry.status)
       THEN [entry EXCEPT !.status = "unconfirmed"]
       ELSE entry

GiveUp(o) ==
  /\ lookups[o] # None /\ lookups[o].left = 0
  /\ EndLookup(o)
  /\ summary' = IF summary = None THEN None ELSE Verdict(summary, lookups[o])
  /\ gaveUp' = gaveUp \cup {o}
  /\ UNCHANGED <<world, tasks, latest, evicted>>

-----------------------------------------------------------------------------
Init ==
  /\ fate = [s \in Signatures |-> "none"]
  /\ lookups = [o \in Buys |-> None]
  /\ summary = None /\ submitted = {} /\ tasks = {}
  /\ latest = None /\ gaveUp = {} /\ evicted = FALSE

Apply(row) ==
  \/ ApplyBuy(row) \/ ApplySell(row)
  \/ ApplySubmittedBuy(row) \/ ApplySubmittedSell(row)

Lookup(o) ==
  \/ \E s \in Sent(o) : PollSuccess(o, s)
  \/ \E visible \in Visible(o) : PollNothing(o, visible)
  \/ PollError(o) \/ GiveUp(o)

Next ==
  \/ ApplyMarket
  \/ \E status \in Status : ApplyNote(status)
  \/ \E o \in Orders : \E v \in Variants[o] : Submit(o, v)
  \/ \E s \in Signatures : Execute(s) \/ Refuse(s)
  \/ \E row \in tasks : Apply(row)
  \/ \E o \in Buys : Lookup(o)
  \/ Evict

Spec == Init /\ [][Next]_vars

-----------------------------------------------------------------------------
(* Properties.                                                             *)

TokenTypeOK ==
  /\ fate \in [Signatures -> {"none", "ok", "err"}]
  /\ submitted \subseteq Orders
  /\ tasks \subseteq Row
  /\ lookups \in [Buys -> LookupState \cup {None}]
  /\ summary \in Summary \cup {None}
  /\ latest \in Buys \cup {None}
  /\ gaveUp \subseteq Buys /\ evicted \in BOOLEAN

Real(entry) ==
  /\ entry.status = "chain ok" =>
       entry.slot = entry.hash /\ entry.hash # None /\ fate[entry.hash] = "ok"
  /\ entry.status = "chain failed" =>
       entry.slot = entry.hash /\ entry.hash # None /\ fate[entry.hash] = "err"

\* When the list says that the chain executed or failed a buy, hash and slot
\* are of one signature and that is what became of it (admin.rs:540-546,
\* 567-579), whatever rows and lookups of other buys come between.
VerdictIsReal == summary # None => Real(summary)

\* What a running lookup remembers as failed has failed.
FailureIsReal ==
  \A o \in Buys : lookups[o] # None /\ lookups[o].failure # None =>
    fate[lookups[o].failure] = "err"

\* The inductive invariant behind VerdictIsReal.
IInv == TokenTypeOK /\ VerdictIsReal /\ FailureIsReal

SubmittedBuyApplied == \E row \in tasks \ tasks' :
  row.kind = "submitted" /\ row.signature[1] \in Buys

\* Until the next buy is submitted, a verdict of the chain gives way to a
\* better one only: no note and no late lookup takes it back (admin.rs:1156-1160,
\* rules 1 and 2).
VerdictHolds ==
  [][summary # None /\ summary' # None /\ ~SubmittedBuyApplied =>
       /\ summary.status = "success" => summary'.status = "success"
       /\ summary.status = "chain ok" => summary'.status \in {"chain ok", "success"}
       /\ summary.status = "chain failed" => IsSuccess(summary'.status)]_vars

\* The buy that was submitted last is shown as executed once its lookup was told
\* so, in whatever order submission, event and notes were applied, and whatever
\* lookups of earlier buys still run.
ExecutedIsShown ==
  latest # None /\ lookups[latest] = None /\ latest \notin gaveUp /\ ~evicted =>
    summary.status \in {"chain ok", "success"}

=============================================================================
