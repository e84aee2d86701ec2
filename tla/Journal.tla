------------------------------- MODULE Journal -------------------------------
(***************************************************************************)
(* The trade journal of journal.rs: the order actor hands messages to a    *)
(* bounded queue without waiting, one task writes them.  Market events go  *)
(* to the write-ahead log before anything is shown of them; the report of  *)
(* a mint says "confirmed" of an own order when both its submission and    *)
(* its exact event were read, whichever came first.                        *)
(*                                                                         *)
(* An order is sent as one signed variant per tip plan, of which the chain *)
(* executes at most one (a second one after the sale is left to Lander); a *)
(* signature is the pair of order and variant.                             *)
(* Report files, whose errors are only logged, count as written.  At start *)
(* nothing is read back, so the model is of one life of the process.       *)
(***************************************************************************)
EXTENDS Naturals, Sequences

CONSTANTS Orders, Variants,
          QueueSize, \* 16,384
          None       \* stands for "no variant" and "no message"

VARIABLES
  executed, \* chain: the variant of each order that executed
  answered, \* orders whose result the order actor handled
  queue,    \* the message channel
  dropped,  \* DROPPED_JOURNAL_MESSAGES is not zero
  up,       \* the writer runs
  writing,  \* the event the writer has logged and not shown yet
  wal,      \* signatures of exact events in events.wal.jsonl
  history,  \* TokenHistory: signatures of the exact trades shown
  pending,  \* signatures submitted and not confirmed
  lines,    \* lines "confirmed" in the report, per order
  recorded, \* history: signatures whose exact event was handed over
  noted     \* history: orders whose submission the writer read

actor == <<executed, answered, recorded>>
vars == <<executed, answered, queue, dropped, up, writing, wal, history, pending,
          lines, recorded, noted>>

files == <<wal, history, pending, lines, noted>>

Signatures == Orders \X Variants

Sent(o) == {o} \X Variants

Message ==
  [kind : {"submitted"}, order : Orders]
    \cup [kind : {"chain"}, signature : Signatures, exact : BOOLEAN]

ASSUME JournalAssumption ==
  /\ QueueSize \in Nat \ {0}
  /\ None \notin Variants \cup Message

-----------------------------------------------------------------------------
(* The order actor and the chain.                                          *)

AllowsNewOrders == ~dropped

\* Mutant: what a full queue loses is not counted.
OfferSilently(message) ==
  /\ queue' = IF up /\ Len(queue) < QueueSize THEN Append(queue, message) ELSE queue
  /\ dropped' = (dropped \/ ~up)

Offer(message) ==
  IF up /\ Len(queue) < QueueSize
  THEN queue' = Append(queue, message) /\ UNCHANGED dropped
  ELSE dropped' = TRUE /\ UNCHANGED queue

Execute(o, v) ==
  /\ executed[o] = None
  /\ executed' = [executed EXCEPT ![o] = v]
  /\ UNCHANGED <<answered, recorded, queue, dropped, up, writing, files>>

\* The senders took the order.
Submitted(o) ==
  /\ o \notin answered
  /\ answered' = answered \cup {o}
  /\ Offer([kind |-> "submitted", order |-> o])
  /\ UNCHANGED <<executed, recorded, up, writing, files>>

\* An event of an own order: exact from a full transaction, not from a shred,
\* and possibly repeated.
Record(o, exact) ==
  /\ executed[o] # None
  /\ Offer([kind |-> "chain", signature |-> <<o, executed[o]>>, exact |-> exact])
  /\ recorded' = IF exact THEN recorded \cup {<<o, executed[o]>>} ELSE recorded
  /\ UNCHANGED <<executed, answered, up, writing, files>>

-----------------------------------------------------------------------------
(* The writer.                                                             *)

Oldest == Head(queue)

Reads(kind) == up /\ writing = None /\ queue # <<>> /\ Oldest.kind = kind

\* Mutant: an error of the log is overlooked.
LogFailsUnnoticed ==
  /\ Reads("chain")
  /\ queue' = Tail(queue)
  /\ writing' = Oldest
  /\ UNCHANGED <<actor, dropped, up, files>>

\* The first error ends the writer, and what is queued is lost.
LogFails ==
  /\ Reads("chain")
  /\ up' = FALSE
  /\ queue' = <<>>
  /\ UNCHANGED <<actor, dropped, writing, files>>

Log ==
  /\ Reads("chain")
  /\ queue' = Tail(queue)
  /\ writing' = Oldest
  /\ wal' = IF Oldest.exact THEN wal \cup {Oldest.signature} ELSE wal
  /\ UNCHANGED <<actor, dropped, up, history, pending, lines, noted>>

\* take_confirmation for each signature that is observed: one line, and the
\* signature is no longer waiting.
Take(waiting, signatures) ==
  /\ pending' = waiting \ signatures
  /\ lines' = [o \in Orders |-> IF Sent(o) \cap waiting \cap signatures # {}
                                THEN lines[o] + 1 ELSE lines[o]]

\* A trade that was shown before is not shown, and confirms nothing, again.
Show ==
  /\ writing # None
  /\ writing' = None
  /\ IF writing.exact /\ writing.signature \notin history
     THEN /\ history' = history \cup {writing.signature}
          /\ Take(pending, {writing.signature})
     ELSE UNCHANGED <<history, pending, lines>>
  /\ UNCHANGED <<actor, queue, dropped, up, wal, noted>>

\* Mutant: trades observed before the submission are not looked up.
ReadSubmittedUnobserved ==
  /\ Reads("submitted")
  /\ queue' = Tail(queue)
  /\ pending' = pending \cup Sent(Oldest.order)
  /\ noted' = noted \cup {Oldest.order}
  /\ UNCHANGED <<actor, dropped, up, writing, wal, history, lines>>

ReadSubmitted ==
  /\ Reads("submitted")
  /\ queue' = Tail(queue)
  /\ Take(pending \cup Sent(Oldest.order), Sent(Oldest.order) \cap history)
  /\ noted' = noted \cup {Oldest.order}
  /\ UNCHANGED <<actor, dropped, up, writing, wal, history>>

-----------------------------------------------------------------------------
Init ==
  /\ executed = [o \in Orders |-> None]
  /\ answered = {}
  /\ queue = <<>> /\ dropped = FALSE /\ writing = None
  /\ up \in BOOLEAN  \* its directory or its log could not be opened
  /\ recorded = {} /\ wal = {} /\ history = {} /\ pending = {} /\ noted = {}
  /\ lines = [o \in Orders |-> 0]

Next ==
  \/ \E o \in Orders, v \in Variants : Execute(o, v)
  \/ \E o \in Orders : Submitted(o)
  \/ \E o \in Orders, exact \in BOOLEAN : Record(o, exact)
  \/ LogFails \/ Log \/ Show \/ ReadSubmitted

Spec == Init /\ [][Next]_vars

-----------------------------------------------------------------------------
(* Properties.                                                             *)

\* Nothing is shown of a trade that is not in the log: after a crash the log
\* explains every line of the reports (README.md:29).
ShownIsLogged == history \subseteq wal

Observed(o) == Sent(o) \cap history # {}

\* The report says once "confirmed" of an order that was submitted and seen on
\* chain, in either order of the two messages and however often the event is
\* repeated, and never of another one (README.md:144-145).
ConfirmedOnce ==
  \A o \in Orders : lines[o] = IF o \in noted /\ Observed(o) THEN 1 ELSE 0

\* While the gate for new positions is open and the writer runs, an empty
\* queue means that nothing the order actor said was lost: every order it saw
\* submitted and executed is confirmed in the report.
CompleteUnlessDropped ==
  AllowsNewOrders /\ up /\ queue = <<>> /\ writing = None =>
    \A o \in answered : Sent(o) \cap recorded # {} => lines[o] = 1

=============================================================================
