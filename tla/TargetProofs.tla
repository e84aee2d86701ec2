---------------------------- MODULE TargetProofs ----------------------------
(***************************************************************************)
(* Theorems about TargetFeed, for every set of mints and transactions and  *)
(* any number of requests under way.                                       *)
(***************************************************************************)
EXTENDS TargetFeed, TLAPS

(***************************************************************************)
(* The stream as a queue.                                                  *)
(***************************************************************************)
LEMMA StreamEnds ==
  ASSUME NEW q \in Seq(Txs)
  PROVE  /\ \A t \in Txs : Append(q, t) \in Seq(Txs)
                           /\ Range(Append(q, t)) = Range(q) \cup {t}
         /\ q # <<>> => /\ Head(q) \in Txs
                        /\ Tail(q) \in Seq(Txs)
                        /\ Range(q) = {Head(q)} \cup Range(Tail(q))
<1>1. ASSUME NEW t \in Txs
      PROVE  Append(q, t) \in Seq(Txs) /\ Range(Append(q, t)) = Range(q) \cup {t}
  <2> DEFINE a == Append(q, t)
  <2>1. /\ a \in Seq(Txs) /\ DOMAIN q = 1..Len(q) /\ DOMAIN a = 1..(Len(q) + 1)
        /\ Len(q) \in Nat /\ a[Len(q) + 1] = t
        /\ \A i \in 1..Len(q) : a[i] = q[i]
    OBVIOUS
  <2>2. \A i \in DOMAIN a : a[i] \in Range(q) \cup {t}
    BY <2>1 DEF Range
  <2>3. t \in Range(a) /\ \A i \in DOMAIN q : q[i] \in Range(a)
    BY <2>1 DEF Range
  <2> QED
    BY <2>1, <2>2, <2>3 DEF Range
<1>2. ASSUME q # <<>>
      PROVE  /\ Head(q) \in Txs /\ Tail(q) \in Seq(Txs)
             /\ Range(q) = {Head(q)} \cup Range(Tail(q))
  <2> DEFINE r == Tail(q)
  <2>1. /\ Head(q) \in Txs /\ Head(q) = q[1] /\ r \in Seq(Txs)
        /\ Len(q) \in Nat \ {0}
        /\ DOMAIN q = 1..Len(q) /\ DOMAIN r = 1..(Len(q) - 1)
        /\ \A i \in 1..(Len(q) - 1) : r[i] = q[i + 1]
    BY <1>2
  <2>2. \A i \in DOMAIN r : r[i] \in Range(q)
    BY <2>1 DEF Range
  <2>3. q[1] \in Range(q)
    BY <2>1 DEF Range
  <2>4. ASSUME NEW i \in DOMAIN q, i # 1
        PROVE  q[i] \in Range(r)
    <3>1. i - 1 \in DOMAIN r /\ r[i - 1] = q[i]
      BY <2>1, <2>4
    <3> QED
      BY <3>1 DEF Range
  <2> QED
    BY <2>1, <2>2, <2>3, <2>4 DEF Range
<1> QED
  BY <1>1, <1>2

(***************************************************************************)
(* A change of the published list waives what is owed of a released mint,  *)
(* forgets what was late of a published one and is news to the connection. *)
(***************************************************************************)
LEMMA ReplaceStep ==
  ASSUME IInv, NEW targets, Replace(targets)
  PROVE  IInv'
<1>1. /\ UNCHANGED <<conn, active, requests, filter, stream, seen, hand, heard>>
      /\ published' = targets /\ news'
      /\ owed' = {p \in owed : p[2] \in Range(targets)}
      /\ late' = [m \in Mints |-> IF m \in Range(targets) THEN 0 ELSE late[m]]
  BY DEF Replace, server
<1>2. ReceivedIsHeard' /\ NewsIsLooked' /\ StreamedIsHeard'
  BY <1>1 DEF IInv, ReceivedIsHeard, NewsIsLooked, StreamedIsHeard, Reading, EventsOf
<1>3. OwedIsPublished'
  BY <1>1 DEF IInv, OwedIsPublished
<1>4. late' \in [Mints -> 0..1] /\ \A m \in Mints : late'[m] \in {0, late[m]}
  BY <1>1 DEF IInv, HandIsFresh
<1>5. ASSUME NEW p \in hand PROVE p[2] \in Mints
  BY TargetAssumption DEF IInv, HandIsFresh, EventsOf
<1>6. HandIsFresh'
  BY <1>1, <1>4, <1>5 DEF IInv, HandIsFresh, EventsOf
<1> QED
  BY <1>1, <1>2, <1>3, <1>6 DEF IInv

(***************************************************************************)
(* A transaction is taken up by the active list: a fresh one with an event *)
(* for every active mint of it, of which none was late.                    *)
(***************************************************************************)
LEMMA TakeStep ==
  ASSUME IInv, Take
  PROVE  IInv'
<1>1. PICK t \in Txs : /\ t = Head(stream) /\ stream' \in Seq(Txs)
                       /\ Range(stream) = {t} \cup Range(stream')
  BY StreamEnds DEF IInv, Take
<1>2. /\ conn = "polled" /\ hand' \in {{}, EventsOf(t)} /\ hand = {}
      /\ t \notin seen => hand' = EventsOf(t)
      /\ seen' = seen \cup {t}
      /\ conn' = IF hand' = {} THEN "targets" ELSE "handling"
      /\ UNCHANGED <<published, news, active, requests, filter, heard, owed, late>>
  <2>1. hand = {} /\ conn = "polled"
    BY DEF IInv, HandIsFresh, Take
  <2> QED
    BY <1>1, <2>1 DEF Take, router, server, history
<1>3. \A x : EventsOf(x)' = EventsOf(x)
  BY <1>2 DEF EventsOf
<1>4. ReceivedIsHeard'
  BY <1>2, <1>3 DEF IInv, ReceivedIsHeard, Reading
<1>5. NewsIsLooked' /\ OwedIsPublished'
  BY <1>2 DEF IInv, NewsIsLooked, OwedIsPublished, Reading
<1>6. HandIsFresh'
  <2>1. \A p \in EventsOf(t) : p[2] \in Range(active) \cap Mints
    BY <1>1, TargetAssumption DEF EventsOf
  <2>2. \A p \in hand' : late'[p[2]] = 0
    BY <1>2, <2>1 DEF IInv, HandIsFresh
  <2>3. hand' # {} => conn' = "handling" /\ hand' \subseteq EventsOf(t)'
    BY <1>2, <1>3
  <2> QED
    BY <1>1, <1>2, <2>2, <2>3 DEF IInv, HandIsFresh
<1>7. StreamedIsHeard'
  <2> SUFFICES ASSUME NEW p \in owed, p[1] \notin Range(stream')
               PROVE  p \in heard \/ p \in hand'
    BY <1>2 DEF StreamedIsHeard
  <2>1. CASE p \in heard
    BY <2>1
  <2>2. CASE p[1] = t
    <3>1. p = <<t, p[2]>> /\ p[2] \in Touches[t] \cap Range(active)
      BY <2>2 DEF IInv, OwedIsPublished
    <3>2. p \in EventsOf(t)
      BY <3>1 DEF EventsOf
    <3>3. t \in seen => p \in heard
      BY <1>2, <3>2 DEF IInv, ReceivedIsHeard, Reading
    <3> QED
      BY <1>2, <3>2, <3>3
  <2> QED
    BY <2>1, <2>2, <1>1, <1>2 DEF IInv, StreamedIsHeard
<1> QED
  BY <1>1, <1>4, <1>5, <1>6, <1>7 DEF IInv

(***************************************************************************)
(* One event goes out.  The transaction in hand has one of its mint, so    *)
(* nothing else is in hand of a mint that this makes late.                 *)
(***************************************************************************)
LEMMA PutOutStep ==
  ASSUME IInv, PutOut
  PROVE  IInv'
<1>1. PICK p \in hand :
        /\ hand' = hand \ {p} /\ heard' = heard \cup {p}
        /\ late' = [late EXCEPT ![p[2]] = IF p[2] \in Range(published) THEN @ ELSE @ + 1]
        /\ conn' = IF hand' = {} THEN "targets" ELSE "handling"
        /\ UNCHANGED <<router, news, active, server, stream, seen, happened, owed>>
  BY DEF PutOut
<1>2. UNCHANGED <<published, news, active, requests, filter, stream, seen, owed>>
  BY <1>1 DEF router, server
<1>3. PICK t \in Txs : hand \subseteq EventsOf(t)
  BY <1>1 DEF IInv, HandIsFresh
<1>4. conn = "handling" /\ late \in [Mints -> 0..1] /\ late[p[2]] = 0
  BY <1>1 DEF IInv, HandIsFresh
<1>5. \A q \in hand : q = <<t, q[2]>> /\ q[2] \in Mints
  BY <1>3, TargetAssumption DEF EventsOf
<1>6. \A x : EventsOf(x)' = EventsOf(x)
  BY <1>2 DEF EventsOf
<1>7. ReceivedIsHeard'
  BY <1>1, <1>2, <1>4, <1>6 DEF IInv, ReceivedIsHeard, Reading
<1>8. NewsIsLooked' /\ OwedIsPublished' /\ StreamedIsHeard'
  BY <1>1, <1>2, <1>4 DEF IInv, NewsIsLooked, OwedIsPublished, StreamedIsHeard, Reading
<1>9. HandIsFresh'
  <2>1. late' \in [Mints -> 0..1]
    BY <1>1, <1>4, <1>5
  <2>2. \A m \in Mints : m # p[2] \/ m \in Range(published) => late'[m] = late[m]
    BY <1>1, <1>4
  <2>3. \A q \in hand' : q \in hand /\ q[2] # p[2]
    BY <1>1, <1>5
  <2>4. \A q \in hand' : late'[q[2]] = 0
    BY <1>5, <2>2, <2>3 DEF IInv, HandIsFresh
  <2>5. \A m \in Range(published)' \cap Mints : late'[m] = 0
    BY <1>2, <2>2 DEF IInv, HandIsFresh
  <2>6. conn' # "polled" /\ (hand' # {} => conn' = "handling" /\ hand' \subseteq EventsOf(t)')
    BY <1>1, <1>3, <1>6
  <2> QED
    BY <1>3, <2>1, <2>4, <2>5, <2>6 DEF HandIsFresh
<1> QED
  BY <1>2, <1>7, <1>8, <1>9 DEF IInv

(***************************************************************************)
(* The server owes only what it puts on the stream.                        *)
(***************************************************************************)
LEMMA SendsStep ==
  ASSUME IInv, NEW t \in Txs, Sends(t)
  PROVE  IInv'
<1> DEFINE new == {p \in EventsOf(t) : p[2] \in filter \cap Range(published)}
<1>1. UNCHANGED <<published, news, conn, active, requests, filter, seen, hand, heard, late>>
  BY DEF Sends, router, server
<1>2. /\ stream \in Seq(Txs) /\ Append(stream, t) \in Seq(Txs)
      /\ Range(Append(stream, t)) = Range(stream) \cup {t}
  <2>1. stream \in Seq(Txs)
    BY DEF IInv
  <2> QED
    BY <2>1, StreamEnds
<1>3. Range(stream) \subseteq Range(stream') /\ stream' \in Seq(Txs)
  <2>1. stream' \in {stream, Append(stream, t)}
    BY DEF Sends
  <2> QED
    BY <1>2, <2>1, Zenon
<1>4. owed' \subseteq owed \cup new /\ (owed' # owed => t \in Range(stream'))
  <2>1. UNCHANGED owed \/ (stream' = Append(stream, t) /\ owed' = owed \cup new)
    BY DEF Sends
  <2> QED
    BY <1>2, <2>1, Zenon
<1>5. \A p \in new : /\ p \in Txs \X Mints /\ p[1] = t
                     /\ p[2] \in Touches[t] \cap Range(published) \cap Range(active)
                     /\ filter # {}
  BY TargetAssumption DEF EventsOf
<1>6. ReceivedIsHeard' /\ NewsIsLooked' /\ HandIsFresh'
  BY <1>1 DEF IInv, ReceivedIsHeard, NewsIsLooked, HandIsFresh, Reading, EventsOf
<1>7. OwedIsPublished'
  BY <1>1, <1>4, <1>5 DEF IInv, OwedIsPublished
<1>8. StreamedIsHeard'
  BY <1>1, <1>3, <1>4, <1>5 DEF IInv, StreamedIsHeard
<1> QED
  BY <1>3, <1>6, <1>7, <1>8 DEF IInv

(***************************************************************************)
(* A new subscription takes over the published list and forgets what it    *)
(* received.                                                               *)
(***************************************************************************)
LEMMA SwitchStep ==
  ASSUME IInv, FirstTargets \/ Changed
  PROVE  IInv'
<1>1. /\ conn \in {"leaving", "targets"} /\ conn' = "targets" /\ hand = {} /\ hand' = {}
      /\ UNCHANGED <<published, filter, stream, heard, owed, late>>
      /\ active' = published
      /\ seen' = {} \/ (seen' = seen /\ active = published /\ conn = "targets")
  <2>1. conn \in {"leaving", "targets"} /\ hand = {}
    BY DEF IInv, HandIsFresh, FirstTargets, Changed
  <2>2. CASE FirstTargets
    BY <2>1, <2>2 DEF FirstTargets, Switch, router, history
  <2>3. CASE Changed
    BY <2>1, <2>3 DEF Changed, Switch, router, server, history
  <2> QED
    BY <2>2, <2>3
<1>2. ReceivedIsHeard' /\ NewsIsLooked'
  BY <1>1 DEF IInv, ReceivedIsHeard, NewsIsLooked, Reading, EventsOf
<1>3. OwedIsPublished'
  BY <1>1 DEF IInv, OwedIsPublished
<1>4. HandIsFresh'
  BY <1>1 DEF IInv, HandIsFresh
<1>5. StreamedIsHeard'
  BY <1>1 DEF IInv, StreamedIsHeard
<1> QED
  BY <1>1, <1>2, <1>3, <1>4, <1>5 DEF IInv

(***************************************************************************)
(* Connecting, looking and sleeping leave the transactions alone; at a look*)
(* the active list is the published one, of which nothing is late.         *)
(***************************************************************************)
LEMMA QuietStep ==
  ASSUME IInv, Connect \/ Disconnect \/ LeaveStandby \/ Look \/ Pends
  PROVE  IInv'
<1> USE DEF IInv, ReceivedIsHeard, NewsIsLooked, OwedIsPublished, HandIsFresh,
            StreamedIsHeard, Reading, EventsOf, router, server, history
<1>1. CASE Connect
  <2>1. hand = {} /\ owed = {}
    BY <1>1 DEF Connect
  <2> QED
    BY <1>1, <2>1 DEF Connect, Range
<1>2. CASE Disconnect
  BY <1>2 DEF Disconnect
<1>3. CASE LeaveStandby
  BY <1>3 DEF LeaveStandby
<1>4. CASE Look
  BY <1>4 DEF Look
<1>5. CASE Pends
  BY <1>5 DEF Pends
<1> QED
  BY <1>1, <1>2, <1>3, <1>4, <1>5

LEMMA TargetStep ==
  ASSUME IInv, [Next]_vars
  PROVE  IInv'
<1>1. ASSUME NEW m \in Mints, PublishTarget(m) \/ ReleaseTarget(m) PROVE IInv'
  BY <1>1, ReplaceStep DEF PublishTarget, ReleaseTarget
<1>2. CASE ServerTakes
  BY <1>2 DEF ServerTakes, IInv, ReceivedIsHeard, NewsIsLooked, OwedIsPublished, HandIsFresh,
              StreamedIsHeard, Reading, EventsOf, router, history
<1>3. ASSUME NEW t \in Txs, Sends(t) PROVE IInv'
  BY <1>3, SendsStep
<1>4. CASE UNCHANGED vars
  BY <1>4 DEF vars, IInv, ReceivedIsHeard, NewsIsLooked, OwedIsPublished, HandIsFresh,
              StreamedIsHeard, Reading, EventsOf, router, server, history
<1> QED
  BY <1>1, <1>2, <1>3, <1>4, QuietStep, SwitchStep, TakeStep, PutOutStep DEF Next

(***************************************************************************)
(* The invariant holds: nothing that was sent of a mint that is published  *)
(* and subscribed to is lost between the server and the output, and of a   *)
(* released mint at most what was in hand gets there (geyser.rs:463-545).  *)
(***************************************************************************)
THEOREM TargetInvariant == Spec => []IInv
<1>1. Init => IInv
  <2> SUFFICES ASSUME Init PROVE IInv
    OBVIOUS
  <2>1. late \in [Mints -> 0..1] /\ \A m \in Mints : late[m] = 0
    BY DEF Init
  <2> QED
    BY <2>1 DEF Init, IInv, ReceivedIsHeard, NewsIsLooked, OwedIsPublished, HandIsFresh,
                StreamedIsHeard, Reading, EventsOf
<1> QED
  BY <1>1, TargetStep, PTL DEF Spec

(***************************************************************************)
(* What the server sends of a mint that is published and subscribed to is  *)
(* put out.                                                                *)
(***************************************************************************)
THEOREM StreamedIsHeardHolds == Spec => []StreamedIsHeard
<1>1. IInv => StreamedIsHeard
  BY DEF IInv
<1> QED
  BY <1>1, TargetInvariant, PTL

(***************************************************************************)
(* After its release at most one more transaction of a mint is put out, the*)
(* one the task was about to take or had in hand (geyser.rs:465-545).      *)
(***************************************************************************)
THEOREM ReleaseIsHeededHolds == Spec => []ReleaseIsHeeded
<1>1. IInv => ReleaseIsHeeded
  BY DEF IInv, HandIsFresh, ReleaseIsHeeded
<1> QED
  BY <1>1, TargetInvariant, PTL

=============================================================================
