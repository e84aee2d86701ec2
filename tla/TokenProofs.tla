---------------------------- MODULE TokenProofs ----------------------------
(***************************************************************************)
(* Theorems about TokenList, for every set of orders and variants and any  *)
(* number of polls.                                                        *)
(***************************************************************************)
EXTENDS TokenList, TLAPS

(***************************************************************************)
(* The entry that a row is applied to is as good as the list.              *)
(***************************************************************************)
LEMMA EntryIsReal ==
  ASSUME IInv
  PROVE  Entry \in Summary /\ Real(Entry)
<1>1. NewSummary \in Summary /\ NewSummary.status = "processing"
  BY DEF NewSummary, Summary, Status
<1>2. Real(NewSummary)
  BY <1>1 DEF Real
<1> QED
  BY <1>1, <1>2 DEF IInv, TokenTypeOK, VerdictIsReal, Entry

(***************************************************************************)
(* A step that changes the entry only, to a real one, keeps the invariant. *)
(***************************************************************************)
LEMMA EntryStep ==
  ASSUME IInv, NEW e \in Summary, Real(e),
         summary' = e, tasks' \subseteq tasks, UNCHANGED <<fate, submitted, lookups>>,
         latest' \in Buys \cup {None}, gaveUp' \subseteq Buys, evicted' \in BOOLEAN
  PROVE  IInv'
<1>1. TokenTypeOK'
  BY DEF IInv, TokenTypeOK
<1>2. VerdictIsReal'
  BY DEF VerdictIsReal, Real
<1>3. FailureIsReal'
  BY DEF IInv, FailureIsReal
<1> QED
  BY <1>1, <1>2, <1>3 DEF IInv

(***************************************************************************)
(* A step of the chain decides one signature that was undecided.           *)
(***************************************************************************)
LEMMA FateStep ==
  ASSUME IInv, NEW s \in Signatures, fate[s] = "none",
         NEW r \in {"ok", "err"}, fate' = [fate EXCEPT ![s] = r],
         tasks' \subseteq Row, UNCHANGED <<submitted, lookups, summary, history>>
  PROVE  IInv'
<1> USE DEF IInv, history
<1>1. TokenTypeOK'
  BY DEF TokenTypeOK
<1>2. \A t \in Signatures : fate[t] # "none" => fate'[t] = fate[t]
  BY DEF TokenTypeOK
<1>3. VerdictIsReal'
  <2>1. summary # None => summary.hash \in Signatures \cup {None}
    BY DEF TokenTypeOK, Summary
  <2> QED
    BY <1>2, <2>1 DEF VerdictIsReal, Real
<1>4. FailureIsReal'
  <2>1. \A o \in Buys : lookups[o] # None => lookups[o].failure \in Signatures \cup {None}
    BY DEF TokenTypeOK, LookupState
  <2> QED
    BY <1>2, <2>1 DEF FailureIsReal
<1> QED
  BY <1>1, <1>3, <1>4

(***************************************************************************)
(* The rows.                                                               *)
(***************************************************************************)
LEMMA ApplyStep ==
  ASSUME IInv, NEW row \in tasks, Apply(row)
  PROVE  IInv'
<1> USE DEF history, world
<1> DEFINE s == row.signature
<1>1. row \in Row /\ s \in Signatures
  BY DEF IInv, TokenTypeOK, Row
<1>2. Entry \in Summary /\ Real(Entry)
  BY EntryIsReal
<1>3. latest \in Buys \cup {None} /\ gaveUp \subseteq Buys /\ evicted \in BOOLEAN
  BY DEF IInv, TokenTypeOK
<1>4. CASE ApplyBuy(row)
  <2>1. CASE s \in Entry.pendingBuys \cup Entry.candidates
    <3> DEFINE e == [Entry EXCEPT !.pendingBuys = @ \ {s}, !.status = "success",
                                  !.hash = s, !.slot = s]
    <3>1. summary' = e
      BY <1>2, <1>4, <2>1 DEF ApplyBuy, Summary
    <3>2. e \in Summary /\ e.status = "success"
      BY <1>1, <1>2 DEF Summary, Status
    <3>3. Real(e)
      BY <3>2 DEF Real
    <3> QED
      BY <1>3, <1>4, <3>1, <3>2, <3>3, EntryStep DEF ApplyBuy, Takes
  <2>2. CASE s \notin Entry.pendingBuys \cup Entry.candidates
    <3> DEFINE e == [Entry EXCEPT !.pendingBuys = @ \ {s}]
    <3>1. summary' = e
      BY <1>2, <1>4, <2>2 DEF ApplyBuy, Summary
    <3>2. e \in Summary /\ Real(e)
      BY <1>2 DEF Summary, Real
    <3> QED
      BY <1>3, <1>4, <3>1, <3>2, EntryStep DEF ApplyBuy, Takes
  <2> QED
    BY <2>1, <2>2
<1>5. CASE ApplySell(row)
  <2> DEFINE e == [Entry EXCEPT
       !.pendingSells = @ \ {s},
       !.status = IF s \in Entry.pendingSells THEN "success" ELSE @]
  <2>1. e \in Summary
    BY <1>2 DEF Summary, Status
  <2>2. Real(e)
    BY <1>2 DEF Summary, Real
  <2> QED
    BY <1>3, <1>5, <2>1, <2>2, EntryStep DEF ApplySell, Takes
<1>6. CASE ApplySubmittedBuy(row)
  <2> DEFINE b == s[1]
             e == [Entry EXCEPT !.hash = s, !.candidates = Sent(b),
                                !.pendingBuys = @ \cup Sent(b), !.status = "processing"]
  <2>1. b \in Buys /\ Sent(b) \subseteq Signatures
    BY <1>6 DEF ApplySubmittedBuy, Signatures, Orders
  <2>2. e \in Summary /\ e.status = "processing"
    BY <1>1, <1>2, <2>1 DEF Summary, Status
  <2>3. summary' = e /\ Real(e)
    BY <1>6, <2>2 DEF ApplySubmittedBuy, Real
  <2>4. lookups' = [lookups EXCEPT ![b] = NewLookup] /\ latest' = b
    BY <1>6 DEF ApplySubmittedBuy
  <2>5. NewLookup \in LookupState /\ NewLookup.failure = None
    BY TokenListAssumption DEF NewLookup, LookupState
  <2>6. TokenTypeOK'
    BY <1>6, <2>1, <2>2, <2>3, <2>4, <2>5
    DEF IInv, TokenTypeOK, LookupState, ApplySubmittedBuy, Takes
  <2>7. VerdictIsReal'
    BY <1>6, <2>3 DEF VerdictIsReal, Real, ApplySubmittedBuy
  <2>8. FailureIsReal'
    BY <1>6, <2>4, <2>5 DEF IInv, TokenTypeOK, FailureIsReal, ApplySubmittedBuy
  <2> QED
    BY <2>6, <2>7, <2>8 DEF IInv
<1>7. CASE ApplySubmittedSell(row)
  <2> DEFINE e == [Entry EXCEPT !.pendingSells = @ \cup Sent(s[1])]
  <2>1. Sent(s[1]) \subseteq Signatures
    BY <1>7 DEF ApplySubmittedSell, Signatures, Orders
  <2>2. e \in Summary /\ Real(e)
    BY <1>2, <2>1 DEF Summary, Real
  <2> QED
    BY <1>3, <1>7, <2>2, EntryStep DEF ApplySubmittedSell, Takes
<1> QED
  BY <1>4, <1>5, <1>6, <1>7 DEF Apply

LEMMA NoteStep ==
  ASSUME IInv, NEW status \in Status, ApplyNote(status)
  PROVE  IInv'
<1> DEFINE e == [Entry EXCEPT !.status = IF NoteOverrides(@, status) THEN status ELSE @]
<1>1. Entry \in Summary /\ Real(Entry)
  BY EntryIsReal
<1>2. status \in {"processing", "failed", "unconfirmed"}
  BY DEF ApplyNote, NoteSaid
<1>3. e \in Summary /\ Real(e)
  BY <1>1, <1>2 DEF Summary, Real
<1> QED
  BY <1>3, EntryStep DEF ApplyNote, world, history, IInv, TokenTypeOK

(***************************************************************************)
(* The lookups.                                                            *)
(***************************************************************************)
LEMMA LookupEnds ==
  ASSUME IInv, NEW o \in Buys, NEW e, e = None \/ (e \in Summary /\ Real(e)),
         summary' = e, lookups' = [lookups EXCEPT ![o] = None],
         UNCHANGED <<fate, submitted, tasks, latest, evicted>>, gaveUp' \subseteq Buys
  PROVE  IInv'
<1>1. TokenTypeOK'
  BY DEF IInv, TokenTypeOK
<1>2. VerdictIsReal'
  BY DEF VerdictIsReal, Real
<1>3. FailureIsReal'
  BY DEF IInv, TokenTypeOK, FailureIsReal
<1> QED
  BY <1>1, <1>2, <1>3 DEF IInv

LEMMA LookupGoesOn ==
  ASSUME IInv, NEW o \in Buys, NEW r \in LookupState, r.failure # None => fate[r.failure] = "err",
         lookups' = [lookups EXCEPT ![o] = r],
         UNCHANGED <<fate, submitted, tasks, summary, latest, evicted, gaveUp>>
  PROVE  IInv'
<1>1. TokenTypeOK'
  BY DEF IInv, TokenTypeOK, LookupState
<1>2. VerdictIsReal'
  BY DEF IInv, VerdictIsReal, Real
<1>3. FailureIsReal'
  BY DEF IInv, TokenTypeOK, FailureIsReal
<1> QED
  BY <1>1, <1>2, <1>3 DEF IInv

LEMMA LookupStep ==
  ASSUME IInv, NEW o \in Buys, Lookup(o)
  PROVE  IInv'
<1> USE DEF history, world
<1>1. /\ Sent(o) \subseteq Signatures
      /\ lookups[o] \in LookupState \cup {None}
      /\ summary \in Summary \cup {None}
  BY DEF IInv, TokenTypeOK, LookupState, Signatures, Orders
<1>2. lookups[o] # None
  BY DEF Lookup, PollSuccess, PollNothing, PollError, GiveUp, Polls
<1>4. ASSUME NEW s \in Sent(o), PollSuccess(o, s)
      PROVE  IInv'
  <2> DEFINE e == [summary EXCEPT !.pendingBuys = @ \ {s}, !.hash = s, !.slot = s,
                     !.status = IF @ = "success" THEN @ ELSE "chain ok"]
  <2>1. s \in Signatures /\ s # None /\ fate[s] = "ok"
    BY <1>1, <1>4, TokenListAssumption DEF PollSuccess, Executed
  <2>2. summary # None => e \in Summary /\ Real(e)
    BY <1>1, <2>1 DEF Summary, Status, Real
  <2>3. summary # None => Real(summary)
    BY DEF IInv, VerdictIsReal
  <2>4. summary' = None \/ (summary' \in Summary /\ Real(summary'))
    <3>1. CASE summary = None
      BY <1>4, <3>1 DEF PollSuccess
    <3>2. CASE summary # None /\ ~Knows(s)
      BY <1>1, <1>4, <2>3, <3>2 DEF PollSuccess
    <3>3. CASE summary # None /\ Knows(s)
      BY <1>4, <2>2, <3>3 DEF PollSuccess
    <3> QED
      BY <3>1, <3>2, <3>3
  <2>5. gaveUp' \subseteq Buys
    BY <1>4 DEF PollSuccess, IInv, TokenTypeOK
  <2> QED
    BY <1>4, <2>4, <2>5, LookupEnds DEF PollSuccess, EndLookup
<1>5. ASSUME NEW visible \in Visible(o), PollNothing(o, visible)
      PROVE  IInv'
  <2>1. PICK failure \in IF visible = {} THEN {lookups[o].failure} ELSE visible :
          lookups' = [lookups EXCEPT ![o].failure = failure,
                        ![o].left = IF visible = Sent(o) THEN 0 ELSE @ - 1]
    BY <1>5 DEF PollNothing
  <2>2. failure \in Signatures \cup {None} /\ (failure # None => fate[failure] = "err")
    <3>1. CASE visible = {}
      BY <1>1, <1>2, <2>1, <3>1 DEF LookupState, IInv, FailureIsReal
    <3>2. CASE visible # {}
      BY <1>1, <1>5, <2>1, <3>2 DEF Visible, PollNothing, Executed, IInv, TokenTypeOK
    <3> QED
      BY <3>1, <3>2
  <2>3. lookups[o].left \in 1..Attempts
    BY <1>1, <1>2, <1>5, TokenListAssumption DEF PollNothing, Polls, LookupState
  <2> DEFINE k == IF visible = Sent(o) THEN 0 ELSE lookups[o].left - 1
             r == [lookups[o] EXCEPT !.failure = failure, !.left = k]
  <2>4. k \in 0..Attempts
    BY <2>3, TokenListAssumption
  <2>5. r \in LookupState /\ r.failure = failure
    <3> HIDE DEF k
    <3> QED
      BY <1>1, <1>2, <2>2, <2>4 DEF LookupState
  <2>6. lookups' = [lookups EXCEPT ![o] = r]
    BY <2>1 DEF IInv, TokenTypeOK
  <2> QED
    <3> HIDE DEF r
    <3> QED
      BY <1>5, <2>2, <2>5, <2>6, LookupGoesOn DEF PollNothing
<1>6. CASE PollError(o)
  <2> DEFINE k == lookups[o].left - 1
             r == [lookups[o] EXCEPT !.left = k, !.refused = TRUE]
  <2>1. k \in 0..Attempts
    BY <1>1, <1>2, <1>6, TokenListAssumption DEF PollError, Polls, LookupState
  <2>2. r \in LookupState /\ r.failure = lookups[o].failure
    <3> HIDE DEF k
    <3> QED
      BY <1>1, <1>2, <2>1 DEF LookupState
  <2>3. lookups' = [lookups EXCEPT ![o] = r]
    BY <1>6 DEF PollError, IInv, TokenTypeOK
  <2>4. r.failure # None => fate[r.failure] = "err"
    BY <1>2, <2>2 DEF IInv, FailureIsReal
  <2> QED
    <3> HIDE DEF r
    <3> QED
      BY <1>6, <2>2, <2>3, <2>4, LookupGoesOn DEF PollError
<1>7. CASE GiveUp(o)
  <2> DEFINE f == lookups[o].failure
             failed == [summary EXCEPT !.pendingBuys = @ \ {f}, !.hash = f,
                                       !.slot = f, !.status = "chain failed"]
             refused == [summary EXCEPT !.status = "unconfirmed"]
  <2>1. f \in Signatures \cup {None} /\ (f # None => fate[f] = "err")
    BY <1>1, <1>2 DEF LookupState, IInv, FailureIsReal
  <2>2. ASSUME summary # None PROVE summary \in Summary /\ Real(summary)
    BY <1>1, <2>2 DEF IInv, VerdictIsReal
  <2>3. ASSUME summary # None, f # None PROVE failed \in Summary /\ Real(failed)
    BY <2>1, <2>2, <2>3 DEF Summary, Status, Real
  <2>4. ASSUME summary # None PROVE refused \in Summary /\ Real(refused)
    BY <2>2, <2>4 DEF Summary, Status, Real
  <2>5. ASSUME summary # None
        PROVE  Verdict(summary, lookups[o]) \in Summary /\ Real(Verdict(summary, lookups[o]))
    BY <2>2, <2>3, <2>4, <2>5 DEF Verdict
  <2>6. \/ summary' = None
        \/ summary # None /\ summary' = Verdict(summary, lookups[o])
    BY <1>7 DEF GiveUp
  <2>7. gaveUp' \subseteq Buys
    BY <1>7 DEF GiveUp, IInv, TokenTypeOK
  <2>8. summary' = None \/ (summary' \in Summary /\ Real(summary'))
    BY <2>5, <2>6
  <2> QED
    BY <1>7, <2>7, <2>8, LookupEnds DEF GiveUp, EndLookup
<1> QED
  BY <1>4, <1>5, <1>6, <1>7 DEF Lookup

LEMMA TokenStep ==
  ASSUME IInv, [Next]_vars
  PROVE  IInv'
<1> USE DEF history, world
<1>1. CASE ApplyMarket
  BY <1>1, EntryIsReal, EntryStep DEF ApplyMarket, IInv, TokenTypeOK
<1>2. ASSUME NEW status \in Status, ApplyNote(status) PROVE IInv'
  BY <1>2, NoteStep
<1>3. ASSUME NEW o \in Orders, NEW v \in Variants[o], Submit(o, v) PROVE IInv'
  <2>1. <<o, v>> \in Signatures
    BY DEF Signatures, Sent
  <2>2. TokenTypeOK'
    BY <1>3, <2>1 DEF Submit, Spawn, Row, IInv, TokenTypeOK
  <2>3. VerdictIsReal' /\ FailureIsReal'
    BY <1>3 DEF Submit, IInv, VerdictIsReal, Real, FailureIsReal
  <2> QED
    BY <2>2, <2>3 DEF IInv
<1>4. ASSUME NEW s \in Signatures, Execute(s) PROVE IInv'
  <2>1. tasks' \subseteq Row
    BY <1>4 DEF Execute, Spawn, Row, IInv, TokenTypeOK
  <2> QED
    BY <1>4, <2>1, FateStep DEF Execute
<1>5. ASSUME NEW s \in Signatures, Refuse(s) PROVE IInv'
  BY <1>5, FateStep DEF Refuse, IInv, TokenTypeOK
<1>6. ASSUME NEW row \in tasks, Apply(row) PROVE IInv'
  BY <1>6, ApplyStep
<1>7. ASSUME NEW o \in Buys, Lookup(o) PROVE IInv'
  BY <1>7, LookupStep
<1>8. CASE Evict
  BY <1>8 DEF Evict, IInv, TokenTypeOK, VerdictIsReal, FailureIsReal
<1>9. CASE UNCHANGED vars
  BY <1>9 DEF vars, IInv, TokenTypeOK, VerdictIsReal, Real, FailureIsReal
<1> QED
  BY <1>1, <1>2, <1>3, <1>4, <1>5, <1>6, <1>7, <1>8, <1>9 DEF Next

(***************************************************************************)
(* The inductive invariant of the token list: types, what a lookup         *)
(* remembers, and that every verdict of the chain on the list is that of   *)
(* the signature beside it (admin.rs:540-546, 567-579).                    *)
(***************************************************************************)
THEOREM TokenInvariant == Spec => []IInv
<1>1. Init => IInv
  BY DEF Init, IInv, TokenTypeOK, VerdictIsReal, FailureIsReal
<1>2. IInv /\ [Next]_vars => IInv'
  BY TokenStep
<1> QED
  BY <1>1, <1>2, PTL DEF Spec

(***************************************************************************)
(* No verdict on the list is one of another signature.                     *)
(***************************************************************************)
THEOREM VerdictIsRealHolds == Spec => []VerdictIsReal
<1>1. IInv => VerdictIsReal
  BY DEF IInv
<1> QED
  BY <1>1, TokenInvariant, PTL

(***************************************************************************)
(* Which statuses each step may write.                                     *)
(***************************************************************************)
LEMMA StatusStep ==
  ASSUME IInv, [Next]_vars, summary # None, summary' # None, ~SubmittedBuyApplied
  PROVE  \/ summary'.status = summary.status
         \/ summary'.status = "success"
         \/ summary'.status = "chain ok" /\ summary.status # "success"
         \/ ~IsSuccess(summary.status)
         \/ summary'.status = "chain failed" /\ summary.status \notin {"success", "chain ok"}
<1> USE DEF history, world
<1>1. summary \in Summary /\ Entry = summary
  BY DEF IInv, TokenTypeOK, Entry
<1>2. CASE ApplyMarket
  BY <1>1, <1>2 DEF ApplyMarket
<1>3. ASSUME NEW status \in Status, ApplyNote(status)
      PROVE  summary'.status = summary.status \/ ~IsSuccess(summary.status)
  <2>1. summary'.status = IF NoteOverrides(summary.status, status)
                          THEN status ELSE summary.status
    BY <1>1, <1>3 DEF ApplyNote, Summary
  <2>2. IsSuccess(summary.status) => ~NoteOverrides(summary.status, status)
    BY <1>3 DEF ApplyNote, NoteSaid, NoteOverrides, IsSuccess, IsTerminal, IsPending
  <2> QED
    BY <2>1, <2>2
<1>4. ASSUME NEW row \in tasks, Apply(row)
      PROVE  summary'.status \in {summary.status, "success"}
  <2>1. CASE ApplyBuy(row)
    BY <1>1, <2>1 DEF ApplyBuy, Summary
  <2>2. CASE ApplySell(row)
    BY <1>1, <2>2 DEF ApplySell, Summary
  <2>3. CASE ApplySubmittedBuy(row)
    BY <2>3 DEF ApplySubmittedBuy, Takes, SubmittedBuyApplied
  <2>4. CASE ApplySubmittedSell(row)
    BY <1>1, <2>4 DEF ApplySubmittedSell, Summary
  <2> QED
    BY <1>4, <2>1, <2>2, <2>3, <2>4 DEF Apply
<1>5. ASSUME NEW o \in Buys, NEW s \in Sent(o), PollSuccess(o, s)
      PROVE  \/ summary'.status = summary.status
             \/ summary'.status = "chain ok" /\ summary.status # "success"
  BY <1>1, <1>5 DEF PollSuccess, Summary
<1>6. ASSUME NEW o \in Buys, GiveUp(o)
      PROVE  \/ summary'.status = summary.status
             \/ ~IsSuccess(summary.status)
             \/ summary'.status = "chain failed" /\ summary.status \notin {"success", "chain ok"}
  <2>1. summary' = Verdict(summary, lookups[o])
    BY <1>6 DEF GiveUp
  <2> QED
    BY <1>1, <2>1 DEF Verdict, Summary
<1>7. ASSUME UNCHANGED summary PROVE summary'.status = summary.status
  BY <1>7
<1>8. ASSUME NEW o \in Buys, Lookup(o)
      PROVE  \/ UNCHANGED summary \/ GiveUp(o)
             \/ \E s \in Sent(o) : PollSuccess(o, s)
  BY <1>8 DEF Lookup, PollNothing, PollError
<1> QED
  BY <1>2, <1>3, <1>4, <1>5, <1>6, <1>7, <1>8
  DEF Next, Submit, Execute, Refuse, Evict, vars, ApplyMarket

(***************************************************************************)
(* Until the next buy is submitted a verdict of the chain gives way to a   *)
(* better one only (admin.rs:1156-1160, rules 1 and 2).                    *)
(***************************************************************************)
THEOREM VerdictHoldsAlways == Spec => VerdictHolds
<1>1. ASSUME IInv, [Next]_vars, summary # None, summary' # None, ~SubmittedBuyApplied
      PROVE  /\ summary.status = "success" => summary'.status = "success"
             /\ summary.status = "chain ok" => summary'.status \in {"chain ok", "success"}
             /\ summary.status = "chain failed" => IsSuccess(summary'.status)
  BY <1>1, StatusStep DEF IsSuccess
<1> QED
  BY <1>1, TokenInvariant, PTL DEF Spec, VerdictHolds

(***************************************************************************)
(* While the entry is there, its candidates are the signatures of the buy  *)
(* submitted last, so that the lookup of this buy is listened to; and what *)
(* it found is shown.                                                      *)
(***************************************************************************)
LatestIsKnown ==
  latest # None /\ ~evicted => summary # None /\ summary.candidates = Sent(latest)

LEMMA LatestStep ==
  ASSUME IInv, LatestIsKnown, [Next]_vars
  PROVE  LatestIsKnown'
<1> USE DEF history, world, LatestIsKnown
<1>1. /\ summary \in Summary \cup {None}
      /\ summary # None => Entry = summary
      /\ Entry \in Summary
      /\ \A e \in Summary : e # None
  BY EntryIsReal, TokenListAssumption DEF IInv, TokenTypeOK, Entry
<1>2. ASSUME NEW e \in Summary, e.candidates = Entry.candidates,
             summary' = e, UNCHANGED <<latest, evicted>>
      PROVE  LatestIsKnown'
  BY <1>1, <1>2
<1>3. CASE ApplyMarket
  BY <1>1, <1>2, <1>3 DEF ApplyMarket
<1>4. ASSUME NEW status \in Status, ApplyNote(status) PROVE LatestIsKnown'
  <2> DEFINE e == [Entry EXCEPT !.status = IF NoteOverrides(@, status) THEN status ELSE @]
  <2>1. e \in Summary /\ e.candidates = Entry.candidates
    BY <1>1 DEF Summary
  <2> QED
    BY <1>2, <1>4, <2>1 DEF ApplyNote
<1>5. ASSUME NEW row \in tasks, Apply(row) PROVE LatestIsKnown'
  <2>a. row.signature \in Signatures
    BY DEF IInv, TokenTypeOK, Row
  <2>1. CASE ApplyBuy(row)
    <3> DEFINE s == row.signature
               known == s \in Entry.pendingBuys \cup Entry.candidates
               p == Entry.pendingBuys \ {s}
               status == IF known THEN "success" ELSE Entry.status
               h == IF known THEN s ELSE Entry.hash
               l == IF known THEN s ELSE Entry.slot
    <3>1. /\ p \in SUBSET Signatures /\ status \in Status
          /\ h \in Signatures \cup {None} /\ l \in Signatures \cup {None}
      BY <1>1, <2>a DEF Summary, Status
    <3>2. summary' = [Entry EXCEPT !.pendingBuys = p, !.status = status, !.hash = h, !.slot = l]
      BY <2>1 DEF ApplyBuy
    <3>3. UNCHANGED <<latest, evicted>>
      BY <2>1 DEF ApplyBuy
    <3> HIDE DEF p, status, h, l
    <3>4. summary' \in Summary /\ summary'.candidates = Entry.candidates
      BY <1>1, <3>1, <3>2 DEF Summary
    <3> QED
      BY <1>2, <3>3, <3>4
  <2>2. CASE ApplySell(row)
    <3> DEFINE e == [Entry EXCEPT
         !.pendingSells = @ \ {row.signature},
         !.status = IF row.signature \in Entry.pendingSells THEN "success" ELSE @]
    <3>1. e \in Summary /\ e.candidates = Entry.candidates
      BY <1>1 DEF Summary, Status
    <3> QED
      BY <1>2, <2>2, <3>1 DEF ApplySell
  <2>3. CASE ApplySubmittedBuy(row)
    <3> DEFINE s == row.signature
               e == [Entry EXCEPT !.hash = s, !.candidates = Sent(s[1]),
                       !.pendingBuys = @ \cup Sent(s[1]), !.status = "processing"]
    <3>1. s \in Signatures /\ Sent(s[1]) \subseteq Signatures
      BY <2>3 DEF ApplySubmittedBuy, IInv, TokenTypeOK, Row, Signatures, Orders
    <3>2. e \in Summary /\ e.candidates = Sent(s[1])
      BY <1>1, <3>1 DEF Summary, Status
    <3>3. summary' = e /\ latest' = s[1]
      BY <2>3 DEF ApplySubmittedBuy
    <3> QED
      BY <1>1, <3>2, <3>3
  <2>4. CASE ApplySubmittedSell(row)
    <3> DEFINE e == [Entry EXCEPT !.pendingSells = @ \cup Sent(row.signature[1])]
    <3>1. Sent(row.signature[1]) \subseteq Signatures
      BY <2>4 DEF ApplySubmittedSell, Signatures, Orders
    <3>2. e \in Summary /\ e.candidates = Entry.candidates
      BY <1>1, <3>1 DEF Summary
    <3> QED
      BY <1>2, <2>4, <3>2 DEF ApplySubmittedSell
  <2> QED
    BY <1>5, <2>1, <2>2, <2>3, <2>4 DEF Apply
<1>6. ASSUME NEW o \in Buys, Lookup(o) PROVE LatestIsKnown'
  <2>1. ASSUME NEW s \in Sent(o), PollSuccess(o, s) PROVE LatestIsKnown'
    <3> DEFINE p == summary.pendingBuys \ {s}
               status == IF summary.status = "success" THEN summary.status ELSE "chain ok"
    <3>1. CASE summary = None \/ ~Knows(s)
      BY <2>1, <3>1 DEF PollSuccess
    <3>2. CASE summary # None /\ Knows(s)
      <4>1. /\ p \in SUBSET Signatures /\ status \in Status /\ s \in Signatures
            /\ summary \in Summary
        BY <1>1, <3>2 DEF Summary, Status, Signatures, Orders
      <4>2. summary' = [summary EXCEPT !.pendingBuys = p, !.status = status,
                                       !.hash = s, !.slot = s]
        BY <2>1, <3>2, <4>1 DEF PollSuccess, Summary
      <4>3. UNCHANGED <<latest, evicted>>
        BY <2>1 DEF PollSuccess
      <4> HIDE DEF p, status
      <4>4. summary' \in Summary /\ summary'.candidates = Entry.candidates
        BY <1>1, <3>2, <4>1, <4>2 DEF Summary
      <4> QED
        BY <1>2, <4>3, <4>4
    <3> QED
      BY <3>1, <3>2
  <2>2. ASSUME GiveUp(o) PROVE LatestIsKnown'
    <3>1. ASSUME summary # None
          PROVE  /\ Verdict(summary, lookups[o]) \in Summary
                 /\ Verdict(summary, lookups[o]).candidates = summary.candidates
      <4> DEFINE f == lookups[o].failure
                 failed == [summary EXCEPT !.pendingBuys = @ \ {f}, !.hash = f,
                                           !.slot = f, !.status = "chain failed"]
                 refused == [summary EXCEPT !.status = "unconfirmed"]
      <4>1. summary \in Summary /\ f \in Signatures \cup {None}
        BY <1>1, <2>2, <3>1 DEF GiveUp, IInv, TokenTypeOK, LookupState
      <4>2. failed \in Summary /\ failed.candidates = summary.candidates
        BY <4>1 DEF Summary, Status
      <4>3. refused \in Summary /\ refused.candidates = summary.candidates
        BY <4>1 DEF Summary, Status
      <4> QED
        BY <4>1, <4>2, <4>3 DEF Verdict
    <3>2. CASE summary = None
      BY <2>2, <3>2 DEF GiveUp
    <3>3. CASE summary # None
      BY <1>1, <1>2, <2>2, <3>1, <3>3 DEF GiveUp
    <3> QED
      BY <3>2, <3>3
  <2>3. ASSUME UNCHANGED <<summary, latest, evicted>> PROVE LatestIsKnown'
    BY <2>3
  <2> QED
    BY <1>6, <2>1, <2>2, <2>3 DEF Lookup, PollNothing, PollError
<1>7. CASE Evict
  BY <1>7 DEF Evict
<1>8. ASSUME UNCHANGED <<summary, latest, evicted>> PROVE LatestIsKnown'
  BY <1>8
<1> QED
  BY <1>3, <1>4, <1>5, <1>6, <1>7, <1>8 DEF Next, Submit, Execute, Refuse, vars

(***************************************************************************)
(* A step applies a submitted buy, or belongs to a lookup, or touches      *)
(* neither.                                                                *)
(***************************************************************************)
LEMMA OtherRow ==
  ASSUME NEW row \in tasks, Apply(row)
  PROVE  \/ ApplySubmittedBuy(row)
         \/ UNCHANGED <<lookups, latest, gaveUp, evicted>> /\ ~SubmittedBuyApplied
<1> USE DEF history, world
<1>1. ASSUME Takes(row), ~(row.kind = "submitted" /\ row.signature[1] \in Buys)
      PROVE  ~SubmittedBuyApplied
  BY <1>1 DEF Takes, SubmittedBuyApplied
<1>2. CASE ApplyBuy(row)
  BY <1>1, <1>2 DEF ApplyBuy
<1>3. CASE ApplySell(row)
  BY <1>1, <1>3 DEF ApplySell
<1>4. CASE ApplySubmittedSell(row)
  BY <1>1, <1>4, TokenListAssumption DEF ApplySubmittedSell
<1> QED
  BY <1>2, <1>3, <1>4 DEF Apply

LEMMA LookupFrame ==
  ASSUME IInv, NEW o \in Buys, Lookup(o)
  PROVE  /\ \A p \in Buys \ {o} : lookups'[p] = lookups[p]
         /\ UNCHANGED <<tasks, latest, evicted>> /\ gaveUp \subseteq gaveUp'
<1> USE DEF history, world
<1>1. lookups \in [Buys -> LookupState \cup {None}]
  BY DEF IInv, TokenTypeOK
<1>2. ASSUME NEW s \in Sent(o), PollSuccess(o, s)
      PROVE  /\ \A p \in Buys \ {o} : lookups'[p] = lookups[p]
             /\ UNCHANGED <<tasks, latest, evicted, gaveUp>>
  BY <1>1, <1>2 DEF PollSuccess, EndLookup
<1>3. ASSUME NEW visible \in Visible(o), PollNothing(o, visible)
      PROVE  /\ \A p \in Buys \ {o} : lookups'[p] = lookups[p]
             /\ UNCHANGED <<tasks, latest, evicted, gaveUp>>
  BY <1>1, <1>3 DEF PollNothing
<1>4. CASE PollError(o)
  BY <1>1, <1>4 DEF PollError
<1>5. CASE GiveUp(o)
  BY <1>1, <1>5 DEF GiveUp, EndLookup
<1> QED
  BY <1>2, <1>3, <1>4, <1>5 DEF Lookup

LEMMA StepKinds ==
  ASSUME IInv, [Next]_vars
  PROVE  \/ \E row \in tasks : ApplySubmittedBuy(row)
         \/ \E o \in Buys : Lookup(o)
         \/ /\ UNCHANGED <<lookups, latest, gaveUp>> /\ (evicted => evicted')
            /\ ~SubmittedBuyApplied
<1> USE DEF history, world
<1>1. ASSUME tasks \subseteq tasks' PROVE ~SubmittedBuyApplied
  BY <1>1 DEF SubmittedBuyApplied
<1>2. ASSUME NEW row \in tasks, Apply(row)
      PROVE  \/ ApplySubmittedBuy(row)
             \/ UNCHANGED <<lookups, latest, gaveUp, evicted>> /\ ~SubmittedBuyApplied
  BY <1>2, OtherRow
<1>3. CASE ApplyMarket
  BY <1>1, <1>3 DEF ApplyMarket
<1>4. ASSUME NEW status \in Status, ApplyNote(status)
      PROVE  UNCHANGED <<tasks, lookups, latest, gaveUp, evicted>>
  BY <1>4 DEF ApplyNote
<1>5. ASSUME NEW o \in Orders, NEW v \in Variants[o], Submit(o, v)
      PROVE  tasks \subseteq tasks' /\ UNCHANGED <<lookups, latest, gaveUp, evicted>>
  BY <1>5 DEF Submit, Spawn
<1>6. ASSUME NEW s \in Signatures, Execute(s) \/ Refuse(s)
      PROVE  tasks \subseteq tasks' /\ UNCHANGED <<lookups, latest, gaveUp, evicted>>
  BY <1>6 DEF Execute, Refuse, Spawn
<1>7. CASE Evict
  BY <1>1, <1>7 DEF Evict
<1>8. CASE UNCHANGED vars
  BY <1>1, <1>8 DEF vars
<1> QED
  BY <1>1, <1>2, <1>3, <1>4, <1>5, <1>6, <1>7, <1>8 DEF Next

(***************************************************************************)
(* The buy submitted last is shown as executed once its lookup was told    *)
(* so, whatever rows and lookups come in between.                          *)
(***************************************************************************)
THEOREM ExecutedIsShownHolds == Spec => []ExecutedIsShown
<1>1. Init => LatestIsKnown /\ ExecutedIsShown
  BY DEF Init, LatestIsKnown, ExecutedIsShown
<1>2. IInv /\ LatestIsKnown /\ ExecutedIsShown /\ [Next]_vars
        => LatestIsKnown' /\ ExecutedIsShown'
  <2> SUFFICES ASSUME IInv, LatestIsKnown, ExecutedIsShown, [Next]_vars,
                      latest' # None, lookups'[latest'] = None, latest' \notin gaveUp', ~evicted'
               PROVE  summary'.status \in {"chain ok", "success"}
    BY LatestStep DEF ExecutedIsShown
  <2>1. /\ summary' # None
        /\ lookups \in [Buys -> LookupState \cup {None}] /\ latest \in Buys \cup {None}
        /\ NewLookup \in LookupState /\ None \notin LookupState
    BY LatestStep, TokenListAssumption
    DEF LatestIsKnown, IInv, TokenTypeOK, NewLookup, LookupState
  <2>2. ASSUME latest' = latest, lookups[latest] = None, latest \notin gaveUp, ~evicted,
               ~SubmittedBuyApplied
        PROVE  summary'.status \in {"chain ok", "success"}
    <3>1. summary # None /\ summary.status \in {"chain ok", "success"}
      BY <2>2 DEF LatestIsKnown, ExecutedIsShown
    <3> QED
      BY <2>1, <2>2, <3>1, StatusStep DEF IsSuccess
  <2>3. ASSUME NEW row \in tasks, ApplySubmittedBuy(row) PROVE FALSE
    <3>1. lookups'[latest'] = NewLookup
      BY <2>1, <2>3 DEF ApplySubmittedBuy
    <3> QED
      BY <2>1, <3>1
  <2>4. ASSUME NEW o \in Buys, Lookup(o) PROVE summary'.status \in {"chain ok", "success"}
    <3>1. /\ \A p \in Buys \ {o} : lookups'[p] = lookups[p]
          /\ UNCHANGED <<tasks, latest, evicted>> /\ gaveUp \subseteq gaveUp'
      BY <2>4, LookupFrame
    <3>2. ~SubmittedBuyApplied
      BY <3>1 DEF SubmittedBuyApplied
    <3>3. CASE o # latest
      BY <2>1, <2>2, <3>1, <3>2, <3>3
    <3>4. CASE o = latest
      <4>1. /\ summary \in Summary /\ summary.candidates = Sent(o)
            /\ lookups'[o] = None /\ o \notin gaveUp'
        BY <3>1, <3>4 DEF LatestIsKnown, IInv, TokenTypeOK
      <4>2. ASSUME NEW s \in Sent(o), PollSuccess(o, s)
            PROVE  summary'.status \in {"chain ok", "success"}
        <5> DEFINE p == summary.pendingBuys \ {s}
                   status == IF summary.status = "success" THEN summary.status ELSE "chain ok"
        <5>1. Knows(s) /\ summary # None
          BY <4>1, <4>2, TokenListAssumption DEF Knows
        <5>2. summary' = [summary EXCEPT !.pendingBuys = p, !.status = status,
                                         !.hash = s, !.slot = s]
          BY <4>1, <4>2, <5>1 DEF PollSuccess, Summary
        <5>3. /\ p \in SUBSET Signatures /\ status \in Status /\ s \in Signatures
              /\ status \in {"chain ok", "success"}
          BY <4>1, <4>2 DEF Summary, Status, Signatures, Orders
        <5> HIDE DEF p, status
        <5> QED
          BY <4>1, <5>2, <5>3 DEF Summary
      <4>3. ~PollError(o)
        <5>1. ASSUME PollError(o) PROVE lookups'[o] \in LookupState
          <6>1. lookups[o] \in LookupState /\ lookups[o].left - 1 \in 0..Attempts
            BY <2>1, <5>1, TokenListAssumption DEF PollError, Polls, LookupState
          <6>2. lookups'[o] = [lookups[o] EXCEPT !.left = @ - 1, !.refused = TRUE]
            BY <2>1, <5>1, <6>1 DEF PollError, LookupState
          <6> QED
            BY <6>1, <6>2 DEF LookupState
        <5> QED
          BY <2>1, <4>1, <5>1
      <4>4. ASSUME NEW visible \in Visible(o), PollNothing(o, visible) PROVE FALSE
        BY <2>1, <4>1, <4>4 DEF PollNothing, Polls, LookupState
      <4>5. ~GiveUp(o)
        BY <4>1 DEF GiveUp
      <4> QED
        BY <2>4, <4>2, <4>3, <4>4, <4>5 DEF Lookup
    <3> QED
      BY <3>3, <3>4
  <2>5. ASSUME UNCHANGED <<lookups, latest, gaveUp>>, evicted => evicted',
               ~SubmittedBuyApplied
        PROVE  summary'.status \in {"chain ok", "success"}
    BY <2>2, <2>5
  <2>6. \/ \E row \in tasks : ApplySubmittedBuy(row)
        \/ \E o \in Buys : Lookup(o)
        \/ /\ UNCHANGED <<lookups, latest, gaveUp>> /\ (evicted => evicted')
           /\ ~SubmittedBuyApplied
    BY StepKinds
  <2> QED
    BY <2>3, <2>4, <2>5, <2>6
<1> QED
  BY <1>1, <1>2, TokenInvariant, PTL DEF Spec

=============================================================================
