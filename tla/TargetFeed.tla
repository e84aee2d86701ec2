------------------------------ MODULE TargetFeed ------------------------------
(***************************************************************************)
(* The second Geyser connection (run_scan_target and                       *)
(* connect_scan_target_once of listen/geyser.rs), which follows the mints  *)
(* that the strategy publishes.  The published list is a watch channel:    *)
(* the reader learns that it changed and reads its newest value.  A change *)
(* becomes a request to the server, which takes requests in their order    *)
(* and from then on sends the transactions of those mints; what happened   *)
(* before is not sent.  The main connection is modelled in Feed, the       *)
(* reasons to publish and to release a mint in Sniper.                     *)
(*                                                                         *)
(* The task looks for a change, takes a transaction and puts out one event *)
(* of it at a time, waiting for room in the output; the strategy, which    *)
(* drains that output, may change the list between any two of these steps. *)
(*                                                                         *)
(* Slot updates and pings and the bounded memory of signatures (larger     *)
(* than what one subscription receives) are left out.                      *)
(***************************************************************************)
EXTENDS Naturals, Sequences, FiniteSets, SequencesExt

CONSTANTS Mints,
          Txs,     \* the transactions of the chain
          Touches, \* the mints of a transaction
          MaxRequests  \* bound: requests under way when the list changes

ASSUME TargetAssumption ==
  /\ Touches \in [Txs -> SUBSET Mints]
  /\ MaxRequests \in Nat \ {0}

VARIABLES
  published,\* the value of the watch channel
  touched,  \* it was changed since the start
  news,     \* the connection's receiver has not seen the newest change
  conn,     \* "down", "standby", "leaving" (about to read), "targets" (at the
            \* select), "polled" (no news, about to take) or "handling"
  active,   \* active_targets
  requests, \* subscriptions on the way to the server
  filter,   \* the mints whose transactions the server sends
  stream,   \* transactions on the way to the program
  seen,     \* SeenSignatures
  hand,     \* events of the transaction in hand that are not put out yet
  happened, \* transactions the chain has executed
  heard,    \* history: events put out, as <<transaction, mint>>
  owed,     \* history: events of the stream whose mint was active when they were
            \* sent, and published then and since
  late      \* history: events put out of a mint since its release, counted

router == <<published, touched>>
server == <<requests, filter>>
history == <<heard, owed, late>>
vars == <<router, news, conn, active, server, stream, seen, hand, happened, history>>

\* The connection has subscribed to targets and reads their transactions.
Reading == conn \in {"targets", "polled", "handling"}

Targets == {s \in UNION {[1..n -> Mints] : n \in 0..Cardinality(Mints)} : IsInjective(s)}

-----------------------------------------------------------------------------
(* The strategy.                                                           *)

Replace(targets) ==
  /\ Len(requests) < MaxRequests
  /\ published' = targets
  /\ touched' = TRUE
  /\ news' = TRUE
  /\ owed' = {p \in owed : p[2] \in Range(targets)}
  /\ late' = [m \in Mints |-> IF m \in Range(targets) THEN 0 ELSE late[m]]
  /\ UNCHANGED <<conn, active, server, stream, seen, hand, happened, heard>>

PublishTarget(m) == m \notin Range(published) /\ Replace(Append(published, m))

ReleaseTarget(m) == m \in Range(published) /\ Replace(Remove(published, m))

-----------------------------------------------------------------------------
(* The connection.                                                         *)

\* Each connection has a receiver of its own, which has seen no change.
Connect ==
  /\ conn = "down"
  /\ conn' = "standby"
  /\ active' = <<>>
  /\ news' = touched
  /\ requests' = <<{}>> /\ filter' = {}
  /\ seen' = {}
  /\ UNCHANGED <<router, stream, hand, happened, history>>

Disconnect ==
  /\ conn # "down"
  /\ conn' = "down"
  /\ requests' = <<>> /\ filter' = {} /\ stream' = <<>>
  /\ hand' = {} /\ owed' = {}
  /\ UNCHANGED <<router, news, active, seen, happened, heard, late>>

\* The list is looked at twice: it may be empty again when it is copied.
LeaveStandby ==
  /\ conn = "standby" /\ published # <<>>
  /\ conn' = "leaving"
  /\ UNCHANGED <<router, news, active, server, stream, seen, hand, happened, history>>

\* Mutant: the signatures of the previous subscription stay.
SwitchSeen ==
  /\ active' = published
  /\ requests' = Append(requests, Range(published))
  /\ UNCHANGED <<filter, seen>>

Switch ==
  /\ active' = published
  /\ requests' = Append(requests, Range(published))
  /\ seen' = {}
  /\ UNCHANGED filter

FirstTargets ==
  /\ conn = "leaving"
  /\ conn' = "targets"
  /\ Switch
  /\ UNCHANGED <<router, news, stream, hand, happened, history>>

\* Mutant: a list that became empty needs no subscription.
ChangedUnlessEmpty ==
  /\ conn = "targets" /\ news
  /\ news' = FALSE
  /\ IF published \in {active, <<>>} THEN UNCHANGED <<active, server, seen>> ELSE Switch
  /\ UNCHANGED <<router, conn, stream, hand, happened, history>>

\* A list with the same mints in the same order needs no new subscription.
Changed ==
  /\ conn = "targets" /\ news
  /\ news' = FALSE
  /\ IF published = active THEN UNCHANGED <<active, server, seen>> ELSE Switch
  /\ UNCHANGED <<router, conn, stream, hand, happened, history>>

\* Mutant: the select is not biased, and takes whichever is there.
LookUnbiased ==
  /\ conn = "targets"
  /\ conn' = "polled"
  /\ UNCHANGED <<router, news, active, server, stream, seen, hand, happened, history>>

\* The select is biased: it asks for a change first, and only without one for
\* the next transaction.
Look ==
  /\ conn = "targets" /\ ~news
  /\ conn' = "polled"
  /\ UNCHANGED <<router, news, active, server, stream, seen, hand, happened, history>>

\* Nothing to take: the task sleeps, and once awake asks for a change first.
Pends ==
  /\ conn = "polled" /\ stream = <<>>
  /\ conn' = "targets"
  /\ UNCHANGED <<router, news, active, server, stream, seen, hand, happened, history>>

EventsOf(t) == {<<t, m>> : m \in Touches[t] \cap Range(active)}

\* active stays as it is until the last event is out, so it selects at once.
Take ==
  /\ conn = "polled" /\ stream # <<>>
  /\ LET t == Head(stream) IN
     /\ hand' = IF t \in seen THEN {} ELSE EventsOf(t)
     /\ seen' = seen \cup {t}
  /\ stream' = Tail(stream)
  /\ conn' = IF hand' = {} THEN "targets" ELSE "handling"
  /\ UNCHANGED <<router, news, active, server, happened, history>>

\* The output has room for the next event.
PutOut ==
  \E p \in hand :
    /\ hand' = hand \ {p}
    /\ heard' = heard \cup {p}
    /\ late' = [late EXCEPT ![p[2]] = IF p[2] \in Range(published) THEN @ ELSE @ + 1]
    /\ conn' = IF hand' = {} THEN "targets" ELSE "handling"
    /\ UNCHANGED <<router, news, active, server, stream, seen, happened, owed>>

-----------------------------------------------------------------------------
(* The server and the chain.                                               *)

ServerTakes ==
  /\ requests # <<>>
  /\ filter' = Head(requests) /\ requests' = Tail(requests)
  /\ UNCHANGED <<router, news, conn, active, stream, seen, hand, happened, history>>

\* A transaction is executed, or sent a second time.
Sends(t) ==
  /\ t \notin happened \/ (Touches[t] \cap filter # {} /\ t \notin Range(stream))
  /\ happened' = happened \cup {t}
  /\ IF Touches[t] \cap filter = {} THEN UNCHANGED <<stream, owed>>
     ELSE /\ stream' = Append(stream, t)
          /\ owed' = owed \cup {p \in EventsOf(t) : p[2] \in filter \cap Range(published)}
  /\ UNCHANGED <<router, news, conn, active, server, seen, hand, heard, late>>

Init ==
  /\ published = <<>> /\ touched = FALSE /\ news = FALSE
  /\ conn = "down" /\ active = <<>>
  /\ requests = <<>> /\ filter = {} /\ stream = <<>>
  /\ seen = {} /\ hand = {} /\ happened = {}
  /\ heard = {} /\ owed = {} /\ late = [m \in Mints |-> 0]

Next ==
  \/ \E m \in Mints : PublishTarget(m) \/ ReleaseTarget(m)
  \/ Connect \/ Disconnect
  \/ LeaveStandby \/ FirstTargets \/ Changed
  \/ Look \/ Pends \/ Take \/ PutOut
  \/ ServerTakes
  \/ \E t \in Txs : Sends(t)

Spec == Init /\ [][Next]_vars

\* The task runs, the server takes what it is sent and the strategy drains the
\* output; the chain, the list and the connection owe nothing.
FairSpec ==
  /\ Spec
  /\ WF_vars(LeaveStandby) /\ WF_vars(FirstTargets) /\ WF_vars(Changed)
  /\ WF_vars(Look) /\ WF_vars(Pends) /\ WF_vars(Take) /\ WF_vars(PutOut)
  /\ WF_vars(ServerTakes)

-----------------------------------------------------------------------------
(* Properties.                                                             *)

\* What the server sends of a mint that is published and subscribed to is put
\* out, however often the list changes meanwhile, also when the transaction was
\* received before for the sake of another mint (geyser.rs:463-545).  It is not
\* promised of a mint that was released and published again before the connection
\* looked: a subscription of before may still send it, and nobody asked for it.
StreamedIsHeard ==
  \A p \in owed : p \in heard \/ p \in hand \/ p[1] \in Range(stream)

\* Once a mint is released at most one more transaction of it is put out, the one
\* the task was about to take or had in hand when the release came: requests and
\* transactions in flight across a change do not bring back a released target
\* (geyser.rs:465-502, 529-535).
ReleaseIsHeeded == \A m \in Mints : late[m] <= 1

\* What was received of the current subscription was put out for its mints or is
\* about to be; the list is the published one once the newest change was looked
\* at; what is owed is of mints that are published and subscribed to.
ReceivedIsHeard ==
  Reading => \A t \in seen : EventsOf(t) \subseteq heard \cup hand

NewsIsLooked == Reading /\ ~news => active = published

OwedIsPublished ==
  /\ owed \subseteq {p \in Txs \X Mints : p[2] \in Touches[p[1]] \cap Range(published)}
  /\ \A p \in owed : p[2] \in Range(active)
  /\ conn = "down" => owed = {} /\ filter = {} /\ requests = <<>>

\* What is in hand is of one transaction; of a mint that is still to be put out
\* nothing was since its release.
HandIsFresh ==
  /\ hand # {} => conn = "handling" /\ \E t \in Txs : hand \subseteq EventsOf(t)
  /\ late \in [Mints -> 0..1]
  /\ \A m \in Range(published) \cap Mints : late[m] = 0
  /\ conn = "polled" => \A m \in Range(active) \cap Mints : late[m] = 0
  /\ \A p \in hand : late[p[2]] = 0

\* The inductive invariant behind StreamedIsHeard and ReleaseIsHeeded.
IInv ==
  /\ stream \in Seq(Txs)
  /\ ReceivedIsHeard
  /\ NewsIsLooked
  /\ OwedIsPublished
  /\ HandIsFresh
  /\ StreamedIsHeard

\* A connection that lasts ends up subscribed to the published list, once that
\* rests: no change is missed between the two reads, before the first request or
\* while another is under way.
SubscriptionFollows ==
  \A targets \in Targets :
    <>[](conn # "down" /\ published = targets) => <>[](filter = Range(targets))

=============================================================================
