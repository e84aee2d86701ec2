-------------------------------- MODULE Merge --------------------------------
(***************************************************************************)
(* The merge actor of listen/merge.rs: several sources report the same     *)
(* transaction of the same mint (together a key), in any order and any     *)
(* number of times.  The strategy must act on a key once, and the order    *)
(* actor must still get the complete data when the incomplete Shred copy   *)
(* came first.  The memory of keys is bounded and evicts the oldest.       *)
(***************************************************************************)
EXTENDS Naturals, Sequences, Functions

CONSTANTS Keys,     \* (signature, mint)
          Capacity  \* DEDUP_CACHE_CAPACITY, 100,000

ASSUME MergeAssumption == Capacity \in Nat \ {0}

VARIABLES
  first,   \* seen: the source of the first report, "none" for a key not in it
  enriched,\* seen: keys whose complete copy followed the Shred copy
  order,   \* the keys of seen, oldest first
  out,     \* what the last event read put out
  since,   \* history: other keys reported since the key was, up to Capacity
  got,     \* history: keys of which, since then, a complete copy came in
  passed   \* history: keys of which, since then, a complete copy went out

vars == <<first, enriched, order, out, since, got, passed>>

\* shred: instruction data only; live: the stream of a Geyser connection;
\* replay: replayed by the Geyser server or repaired by RPC.
Sources == {"shred", "live", "replay"}

Complete(source) == source # "shred"

Event == [key : Keys, complete : BOOLEAN, replayed : BOOLEAN]

Nothing == [complete |-> FALSE]

\* Mutant: a repaired or replayed copy does not complete a Shred copy.
ShouldForwardLive(k, source) ==
  first[k] = "shred" /\ source = "live" /\ k \notin enriched

\* should_forward_enrichment
ShouldForward(k, source) ==
  first[k] = "shred" /\ Complete(source) /\ k \notin enriched

\* A copy of a known key: dropped, or passed on for the books only.
Duplicate(k, source) ==
  /\ first[k] # "none"
  /\ IF ShouldForward(k, source)
     THEN /\ enriched' = enriched \cup {k}
          /\ out' = [key |-> k, complete |-> TRUE, replayed |-> TRUE]
          /\ passed' = passed \cup {k}
     ELSE out' = Nothing /\ UNCHANGED <<enriched, passed>>
  /\ got' = IF Complete(source) THEN got \cup {k} ELSE got
  /\ UNCHANGED <<first, order, since>>

\* Mutant: a full memory evicts before it overflows.
OverflowsFull(queue) == Len(queue) >= Capacity

Overflows(queue) == Len(queue) > Capacity

Forget(f, k) == [f EXCEPT ![k] = "none"]

\* The keys reported since j, when one more is.
OneMore(j) == IF since[j] < Capacity THEN since[j] + 1 ELSE Capacity

With(keys, k, in) == IF in THEN keys \cup {k} ELSE keys \ {k}

FirstReport(k, source) ==
  LET queue == Append(order, k)
      known == [first EXCEPT ![k] = source]
  IN  /\ first[k] = "none"
      /\ IF Overflows(queue)
         THEN /\ order' = Tail(queue)
              /\ first' = Forget(known, Head(queue))
              /\ enriched' = (enriched \ {k}) \ {Head(queue)}
         ELSE /\ order' = queue
              /\ first' = known
              /\ enriched' = enriched \ {k}
      /\ out' = [key |-> k, complete |-> Complete(source), replayed |-> source = "replay"]
      /\ since' = [j \in Keys |-> IF j = k THEN 0 ELSE OneMore(j)]
      /\ got' = With(got, k, Complete(source))
      /\ passed' = With(passed, k, Complete(source))

Init ==
  /\ first = [k \in Keys |-> "none"]
  /\ enriched = {}
  /\ order = <<>>
  /\ out = Nothing
  /\ since = [k \in Keys |-> Capacity]
  /\ got = {} /\ passed = {}

Next == \E k \in Keys, source \in Sources : Duplicate(k, source) \/ FirstReport(k, source)

Spec == Init /\ [][Next]_vars

-----------------------------------------------------------------------------
(* Properties.                                                             *)

\* The queue of keys and the table of seen keys hold the same keys, each once
\* and at most Capacity of them: otherwise one of the two grows for ever.
MergeTypeOK ==
  /\ first \in [Keys -> Sources \cup {"none"}]
  /\ enriched \subseteq {k \in Keys : first[k] = "shred"}
  /\ order \in Seq(Keys) /\ Len(order) <= Capacity
  /\ IsInjective(order) /\ Range(order) = {k \in Keys : first[k] # "none"}
  /\ out \in Event \cup {Nothing}
  /\ since \in [Keys -> 0..Capacity]
  /\ got \subseteq Keys /\ passed \subseteq Keys

\* What is put out again of a key reported less than Capacity keys ago is its
\* complete copy alone, once, marked so that no strategy acts on it
\* (merge.rs:23): a create is never bought twice because two sources saw it.
OncePerKey ==
  [][out' # Nothing /\ since[out'.key] < Capacity
       => out'.complete /\ out'.replayed /\ out'.key \notin passed]_vars

\* A complete copy that came in went out, or one before it did: the order
\* actor confirms by complete events only and would wait for its timeout.
CompleteGetsThrough == got \subseteq passed

\* Keys leave the queue in the order of their reports, so one that left it has
\* been followed by Capacity others.
Window ==
  /\ \A i \in 1..Len(order) : since[order[i]] = Len(order) - i
  /\ \A k \in Keys : first[k] = "none" => since[k] = Capacity

\* What the actor remembers of a key tells whether its complete copy went out.
MemoryIsExact ==
  \A k \in Keys :
    /\ first[k] = "shred" => (k \in enriched <=> k \in passed)
    /\ first[k] \in {"live", "replay"} => k \in passed

\* The inductive invariant of MergeProofs: queue, table and what went out of
\* every key agree.
IInv == MergeTypeOK /\ Window /\ MemoryIsExact /\ CompleteGetsThrough

=============================================================================
