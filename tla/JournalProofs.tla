---------------------------- MODULE JournalProofs ----------------------------
(***************************************************************************)
(* Theorems about Journal, for every set of orders and variants and every  *)
(* length of the message channel.                                          *)
(***************************************************************************)
EXTENDS Journal, SequenceTheorems, TLAPS

Submission(o) == [kind |-> "submitted", order |-> o]

Observation(s) == [kind |-> "chain", signature |-> s, exact |-> TRUE]

\* A message waits in the channel q; a submission does so at most once.
Waits(q, message) == \E k \in 1..Len(q) : q[k] = message

AtMostOnce(q, message) ==
  \A j, k \in 1..Len(q) : q[j] = message /\ q[k] = message => j = k

LEMMA MessageKinds ==
  ASSUME NEW message \in Message
  PROVE  \/ /\ message.kind = "submitted" /\ message.order \in Orders
            /\ message = Submission(message.order)
         \/ /\ message.kind = "chain" /\ message.signature \in Signatures
            /\ message.exact \in BOOLEAN
            /\ message.exact <=> message = Observation(message.signature)
BY DEF Message, Submission, Observation

LEMMA MessageTypes ==
  /\ \A o \in Orders : Submission(o) \in Message /\ Submission(o).kind = "submitted"
                       /\ Submission(o).order = o
  /\ \A s \in Signatures, exact \in BOOLEAN :
       [kind |-> "chain", signature |-> s, exact |-> exact] \in Message
BY DEF Message, Submission

LEMMA AppendWaits ==
  ASSUME NEW q \in Seq(Message), NEW message \in Message
  PROVE  /\ Append(q, message) \in Seq(Message)
         /\ \A x : Waits(Append(q, message), x) <=> Waits(q, x) \/ x = message
         /\ \A x : AtMostOnce(q, x) /\ (x = message => ~Waits(q, x)) =>
                     AtMostOnce(Append(q, message), x)
<1> DEFINE r == Append(q, message)
<1>1. /\ r \in Seq(Message) /\ Len(r) = Len(q) + 1 /\ Len(q) \in Nat
      /\ \A k \in 1..Len(q) : r[k] = q[k]
      /\ r[Len(q) + 1] = message
  BY AppendProperties
<1> HIDE DEF r
<1>2. 1..Len(r) = (1..Len(q)) \cup {Len(q) + 1}
  BY <1>1
<1>3. \A x : Waits(r, x) <=> Waits(q, x) \/ x = message
  BY <1>1, <1>2 DEF Waits
<1>4. ASSUME NEW x, AtMostOnce(q, x), x = message => ~Waits(q, x)
      PROVE  AtMostOnce(r, x)
  BY <1>1, <1>2, <1>4 DEF AtMostOnce, Waits
<1> QED
  BY <1>1, <1>3, <1>4 DEF r

LEMMA TailWaits ==
  ASSUME NEW q \in Seq(Message), q # <<>>
  PROVE  /\ Tail(q) \in Seq(Message) /\ Head(q) \in Message
         /\ \A x : Waits(q, x) <=> x = Head(q) \/ Waits(Tail(q), x)
         /\ \A x : AtMostOnce(q, x) =>
                     AtMostOnce(Tail(q), x) /\ (x = Head(q) => ~Waits(Tail(q), x))
<1> DEFINE r == Tail(q)
<1>1. /\ r \in Seq(Message) /\ Head(q) \in Message /\ Len(r) = Len(q) - 1
      /\ Len(q) \in Nat /\ Len(q) # 0 /\ Head(q) = q[1]
      /\ \A k \in 1..Len(r) : r[k] = q[k + 1]
  BY HeadTailProperties, EmptySeq
<1> HIDE DEF r
<1>2. \A k \in 1..Len(r) : k + 1 \in 1..Len(q) /\ k \in Int /\ k + 1 # 1
  BY <1>1
<1>3. 1 \in 1..Len(q) /\ \A k \in 1..Len(q) : k = 1 \/ (k - 1 \in 1..Len(r) /\ q[k] = r[k - 1])
  BY <1>1
<1>4. \A x : Waits(q, x) <=> x = Head(q) \/ Waits(r, x)
  <2> SUFFICES ASSUME NEW x PROVE Waits(q, x) <=> x = Head(q) \/ Waits(r, x)
    OBVIOUS
  <2>1. Waits(q, x) => x = Head(q) \/ Waits(r, x)
    BY <1>1, <1>3 DEF Waits
  <2>2. Waits(r, x) => Waits(q, x)
    BY <1>1, <1>2 DEF Waits
  <2>3. x = Head(q) => Waits(q, x)
    BY <1>1, <1>3 DEF Waits
  <2> QED
    BY <2>1, <2>2, <2>3
<1>5. ASSUME NEW x, AtMostOnce(q, x)
      PROVE  AtMostOnce(r, x) /\ (x = Head(q) => ~Waits(r, x))
  <2>1. AtMostOnce(r, x)
    <3> SUFFICES ASSUME NEW j \in 1..Len(r), NEW k \in 1..Len(r), r[j] = x, r[k] = x
                 PROVE  j = k
      BY DEF AtMostOnce
    <3>1. j + 1 = k + 1 /\ j \in Int /\ k \in Int
      BY <1>1, <1>2, <1>5 DEF AtMostOnce
    <3> QED
      BY <3>1
  <2>2. x = Head(q) => ~Waits(r, x)
    BY <1>1, <1>2, <1>3, <1>5 DEF AtMostOnce, Waits
  <2> QED
    BY <2>1, <2>2
<1> QED
  BY <1>1, <1>4, <1>5 DEF r

-----------------------------------------------------------------------------
(***************************************************************************)
(* The inductive invariant.                                                *)
(***************************************************************************)
JournalTypes ==
  /\ executed \in [Orders -> Variants \cup {None}]
  /\ answered \subseteq Orders
  /\ queue \in Seq(Message)
  /\ writing \in Message \cup {None}
  /\ wal \subseteq Signatures /\ history \subseteq Signatures
  /\ pending \subseteq Signatures /\ recorded \subseteq Signatures
  /\ lines \in [Orders -> Nat] /\ noted \subseteq Orders

\* The chain executes one variant of an order, so every event of it, queued,
\* being written or shown, is of that one.
IsExecuted(ex, s) == ex[s[1]] = s[2]

FromChain(ex, message) == message.kind = "chain" => IsExecuted(ex, message.signature)

OneVariant ==
  /\ \A message \in Message : Waits(queue, message) => FromChain(executed, message)
  /\ writing # None => writing.kind = "chain" /\ FromChain(executed, writing)
  /\ \A s \in history : IsExecuted(executed, s)

\* The submission of an order is handed over once and read once.
OnceSubmitted ==
  /\ noted \subseteq answered
  /\ \A o \in Orders : Waits(queue, Submission(o)) => o \in answered \ noted
  /\ \A o \in Orders : AtMostOnce(queue, Submission(o))

\* What waits for its confirmation: every variant that was submitted and not
\* seen.
StillPending == \A s \in Signatures : s \in pending <=> s[1] \in noted /\ s \notin history

LoggedFirst ==
  /\ history \subseteq wal
  /\ writing # None /\ writing.exact => writing.signature \in wal

\* While nothing was dropped and the writer runs, what the order actor handed
\* over is on its way or was read.
NothingLost ==
  up /\ ~dropped =>
    /\ \A o \in answered : o \in noted \/ Waits(queue, Submission(o))
    /\ \A s \in recorded :
         s \in history \/ Waits(queue, Observation(s)) \/ writing = Observation(s)

JournalInv ==
  /\ JournalTypes /\ OneVariant /\ OnceSubmitted /\ StillPending
  /\ LoggedFirst /\ NothingLost /\ ConfirmedOnce

LEMMA SentOf ==
  ASSUME NEW o \in Orders
  PROVE  \A s : s \in Sent(o) <=> s \in Signatures /\ s[1] = o
BY DEF Sent, Signatures

LEMMA ObservedOf ==
  ASSUME JournalTypes, NEW o \in Orders
  PROVE  Observed(o) <=> \E s \in history : s[1] = o
BY SentOf DEF Observed, JournalTypes

LEMMA InitHolds == Init => JournalInv
<1> SUFFICES ASSUME Init PROVE JournalInv
  OBVIOUS
<1>1. JournalTypes
  BY DEF Init, JournalTypes
<1>2. \A x : ~Waits(queue, x) /\ AtMostOnce(queue, x)
  BY DEF Init, Waits, AtMostOnce
<1>3. OneVariant /\ OnceSubmitted /\ StillPending /\ LoggedFirst /\ NothingLost
  BY <1>2 DEF Init, OneVariant, OnceSubmitted, StillPending, LoggedFirst, NothingLost
<1>4. ConfirmedOnce
  BY DEF Init, ConfirmedOnce
<1> QED
  BY <1>1, <1>3, <1>4 DEF JournalInv

\* What Offer does to the channel.
LEMMA OfferCases ==
  ASSUME JournalTypes, NEW message \in Message, Offer(message)
  PROVE  \/ up /\ queue' = Append(queue, message) /\ dropped' = dropped
         \/ queue' = queue /\ dropped'
BY DEF Offer

LEMMA ExecuteKeeps ==
  ASSUME JournalInv, NEW o \in Orders, NEW v \in Variants, Execute(o, v)
  PROVE  JournalInv'
<1> USE DEF JournalInv, files
<1>1. /\ executed[o] = None /\ executed' = [executed EXCEPT ![o] = v]
      /\ UNCHANGED <<answered, recorded, queue, dropped, up, writing, files>>
  BY DEF Execute
<1>2. JournalTypes'
  BY <1>1 DEF JournalTypes
<1>3. ASSUME NEW s \in Signatures, IsExecuted(executed, s)
      PROVE  IsExecuted(executed', s)
  BY <1>1, <1>3, JournalAssumption DEF IsExecuted, Signatures, JournalTypes
<1>4. OneVariant'
  <2>1. ASSUME NEW message \in Message, FromChain(executed, message)
        PROVE  FromChain(executed', message)
    BY <1>3, <2>1, MessageKinds DEF FromChain
  <2>2. writing # None => writing \in Message
    BY DEF JournalTypes
  <2>3. \A s \in history : IsExecuted(executed', s)
    BY <1>3 DEF OneVariant, JournalTypes
  <2>4. writing # None => writing.kind = "chain" /\ FromChain(executed', writing)
    BY <2>1, <2>2 DEF OneVariant
  <2> QED
    BY <1>1, <2>1, <2>3, <2>4 DEF OneVariant
<1>5. (OnceSubmitted /\ StillPending /\ LoggedFirst /\ NothingLost /\ ConfirmedOnce)'
  BY <1>1 DEF OnceSubmitted, StillPending, LoggedFirst, NothingLost, ConfirmedOnce, Observed
<1> QED
  BY <1>2, <1>4, <1>5

\* A message handed over changes nothing that was written.
LEMMA OfferKeeps ==
  ASSUME JournalInv, NEW message \in Message, Offer(message),
         UNCHANGED <<executed, up, writing, files>>,
         answered \subseteq answered', answered' \subseteq Orders, recorded' \subseteq Signatures,
         FromChain(executed, message),
         \A o \in Orders : message = Submission(o) => o \notin answered /\ o \in answered',
         \A o \in answered' : o \in answered \/ message = Submission(o),
         \A s \in recorded' : s \in recorded \/ message = Observation(s)
  PROVE  JournalInv'
<1> USE DEF JournalInv, files
<1>1. \/ up /\ queue' = Append(queue, message) /\ dropped' = dropped
      \/ queue' = queue /\ dropped'
  BY OfferCases
<1>2. queue \in Seq(Message)
  BY DEF JournalTypes
<1>3. /\ queue' \in Seq(Message)
      /\ \A x : Waits(queue', x) => Waits(queue, x) \/ x = message
      /\ ~dropped' => \A x : Waits(queue, x) \/ x = message => Waits(queue', x)
      /\ \A x : AtMostOnce(queue, x) /\ (x = message => ~Waits(queue, x)) => AtMostOnce(queue', x)
  <2>1. CASE queue' = Append(queue, message)
    BY <1>2, <2>1, AppendWaits
  <2>2. CASE queue' = queue /\ dropped'
    BY <1>2, <2>2
  <2> QED
    BY <1>1, <2>1, <2>2
<1>4. JournalTypes'
  BY <1>3 DEF JournalTypes
<1>5. OneVariant'
  BY <1>3 DEF OneVariant
<1>6. OnceSubmitted'
  <2>1. \A o \in Orders : message = Submission(o) => ~Waits(queue, Submission(o)) /\ o \notin noted
    BY DEF OnceSubmitted
  <2>2. ASSUME NEW o \in Orders
        PROVE  /\ Waits(queue', Submission(o)) => o \in answered' \ noted'
               /\ AtMostOnce(queue', Submission(o))
    BY <1>3, <2>1 DEF OnceSubmitted
  <2>3. noted' \subseteq answered'
    BY DEF OnceSubmitted
  <2> QED
    BY <2>2, <2>3 DEF OnceSubmitted
<1>7. StillPending' /\ LoggedFirst' /\ ConfirmedOnce'
  BY DEF StillPending, LoggedFirst, ConfirmedOnce, Observed
<1>8. NothingLost'
  <2> SUFFICES ASSUME up', ~dropped'
               PROVE  /\ \A o \in answered' : o \in noted' \/ Waits(queue', Submission(o))
                      /\ \A s \in recorded' : \/ s \in history' \/ Waits(queue', Observation(s))
                                              \/ writing' = Observation(s)
    BY DEF NothingLost
  <2>1. up /\ ~dropped
    BY <1>1
  <2>2. \A x : Waits(queue, x) \/ x = message => Waits(queue', x)
    BY <1>3
  <2> QED
    BY <2>1, <2>2 DEF NothingLost
<1> QED
  BY <1>4, <1>5, <1>6, <1>7, <1>8

LEMMA SubmittedKeeps ==
  ASSUME JournalInv, NEW o \in Orders, Submitted(o)
  PROVE  JournalInv'
<1> DEFINE message == Submission(o)
<1>1. /\ o \notin answered /\ answered' = answered \cup {o} /\ Offer(message)
      /\ UNCHANGED <<executed, recorded, up, writing, files>>
  BY DEF Submitted, Submission
<1>2. /\ message \in Message /\ FromChain(executed, message)
      /\ \A p \in Orders : message = Submission(p) => p = o
      /\ \A s : message # Observation(s)
  BY MessageTypes DEF FromChain, Submission, Observation
<1> HIDE DEF message
<1>3. answered \subseteq Orders /\ recorded \subseteq Signatures
  BY DEF JournalInv, JournalTypes
<1>4. \A p \in answered' : p \in answered \/ message = Submission(p)
  BY <1>1 DEF message
<1> QED
  BY <1>1, <1>2, <1>3, <1>4, OfferKeeps

LEMMA RecordKeeps ==
  ASSUME JournalInv, NEW o \in Orders, NEW exact \in BOOLEAN, Record(o, exact)
  PROVE  JournalInv'
<1> DEFINE s == <<o, executed[o]>>
           message == [kind |-> "chain", signature |-> s, exact |-> exact]
<1>1. /\ executed[o] # None /\ Offer(message)
      /\ recorded' = (IF exact THEN recorded \cup {s} ELSE recorded)
      /\ UNCHANGED <<executed, answered, up, writing, files>>
  BY DEF Record
<1>2. s \in Signatures
  BY <1>1 DEF JournalInv, JournalTypes, Signatures
<1>3. /\ message \in Message /\ FromChain(executed, message)
      /\ \A p \in Orders : message # Submission(p)
      /\ exact => message = Observation(s)
  BY <1>2, MessageTypes DEF FromChain, IsExecuted, Submission, Observation
<1> HIDE DEF message, s
<1>4. answered \subseteq Orders /\ recorded \subseteq Signatures
  BY DEF JournalInv, JournalTypes
<1> QED
  BY <1>1, <1>2, <1>3, <1>4, OfferKeeps

LEMMA LogFailsKeeps ==
  ASSUME JournalInv, LogFails
  PROVE  JournalInv'
<1> USE DEF JournalInv, files, actor
<1>1. ~up' /\ queue' = <<>> /\ UNCHANGED <<actor, dropped, writing, files>>
  BY DEF LogFails
<1>2. queue' \in Seq(Message) /\ \A x : ~Waits(queue', x) /\ AtMostOnce(queue', x)
  BY <1>1 DEF Waits, AtMostOnce
<1>3. JournalTypes'
  BY <1>1, <1>2 DEF JournalTypes
<1>4. OneVariant' /\ OnceSubmitted' /\ StillPending' /\ LoggedFirst' /\ NothingLost'
  BY <1>1, <1>2 DEF OneVariant, OnceSubmitted, StillPending, LoggedFirst, NothingLost
<1>5. ConfirmedOnce'
  BY <1>1 DEF ConfirmedOnce, Observed
<1> QED
  BY <1>3, <1>4, <1>5

LEMMA LogKeeps ==
  ASSUME JournalInv, Log
  PROVE  JournalInv'
<1> USE DEF JournalInv, actor
<1>1. /\ writing = None /\ queue # <<>> /\ Head(queue).kind = "chain"
      /\ queue' = Tail(queue) /\ writing' = Head(queue)
      /\ wal' = IF Head(queue).exact THEN wal \cup {Head(queue).signature} ELSE wal
      /\ UNCHANGED <<actor, up, dropped, history, pending, lines, noted>>
  BY DEF Log, Reads, Oldest
<1>2. /\ queue' \in Seq(Message) /\ Head(queue) \in Message
      /\ \A x : Waits(queue, x) <=> x = Head(queue) \/ Waits(queue', x)
      /\ \A x : AtMostOnce(queue, x) => AtMostOnce(queue', x)
  BY <1>1, TailWaits DEF JournalTypes
<1>3. Head(queue).signature \in Signatures /\ \A o : Head(queue) # Submission(o)
  BY <1>1, <1>2, MessageKinds DEF Submission
<1>4. JournalTypes'
  BY <1>1, <1>2, <1>3 DEF JournalTypes
<1>5. OneVariant'
  BY <1>1, <1>2 DEF OneVariant
<1>6. OnceSubmitted' /\ StillPending' /\ LoggedFirst'
  BY <1>1, <1>2 DEF OnceSubmitted, StillPending, LoggedFirst
<1>7. NothingLost'
  <2>1. \A s \in recorded : Observation(s) \in Message
    BY MessageTypes DEF JournalTypes, Observation
  <2>2. \A s \in recorded : writing # Observation(s)
    BY <1>1, <2>1, JournalAssumption
  <2> SUFFICES ASSUME up, ~dropped
               PROVE  /\ \A o \in answered : o \in noted \/ Waits(queue', Submission(o))
                      /\ \A s \in recorded : \/ s \in history \/ Waits(queue', Observation(s))
                                             \/ writing' = Observation(s)
    BY <1>1 DEF NothingLost
  <2> QED
    BY <1>1, <1>2, <1>3, <2>2 DEF NothingLost
<1>8. ConfirmedOnce'
  BY <1>1 DEF ConfirmedOnce, Observed
<1> QED
  BY <1>4, <1>5, <1>6, <1>7, <1>8

LEMMA ShowKeeps ==
  ASSUME JournalInv, Show
  PROVE  JournalInv'
<1> USE DEF JournalInv, actor
<1> DEFINE w == writing.signature
<1>1. /\ writing # None /\ writing \in Message /\ writing.kind = "chain" /\ writing' = None
      /\ UNCHANGED <<actor, queue, dropped, up, wal, noted>>
  BY DEF Show, JournalTypes, OneVariant
<1>2. w \in Signatures /\ IsExecuted(executed, w) /\ (writing.exact <=> writing = Observation(w))
  BY <1>1, MessageKinds DEF OneVariant, FromChain
<1>3. \A s : writing = Observation(s) => s = w /\ writing.exact
  BY DEF Observation
<1>4. CASE writing.exact /\ w \notin history
  <2>1. /\ history' = history \cup {w} /\ pending' = pending \ {w}
        /\ lines' = [o \in Orders |-> IF Sent(o) \cap pending \cap {w} # {}
                                      THEN lines[o] + 1 ELSE lines[o]]
    BY <1>4 DEF Show, Take
  <2> HIDE DEF w
  <2>2. JournalTypes'
    BY <1>1, <1>2, <2>1 DEF JournalTypes
  <2>3. OneVariant' /\ OnceSubmitted'
    BY <1>1, <1>2, <2>1 DEF OneVariant, OnceSubmitted
  <2>4. StillPending'
    BY <1>1, <2>1 DEF StillPending
  <2>5. LoggedFirst'
    BY <1>1, <1>4, <2>1 DEF LoggedFirst, w
  <2>6. NothingLost'
    BY <1>1, <1>3, <2>1 DEF NothingLost
  <2>7. ASSUME NEW o \in Orders
        PROVE  lines'[o] = IF o \in noted' /\ Observed(o)' THEN 1 ELSE 0
    <3>1. Observed(o) <=> \E s \in history : s[1] = o
      BY ObservedOf
    <3>2. Observed(o)' <=> \E s \in history' : s[1] = o
      <4>1. JournalTypes' /\ o \in Orders
        BY <2>2
      <4>2. \A s : s \in Sent(o) <=> s \in Signatures /\ s[1] = o
        BY SentOf
      <4> QED
        BY <4>1, <4>2 DEF Observed, JournalTypes
    <3>3. Sent(o) \cap pending \cap {w} # {} <=> w[1] = o /\ o \in noted
      BY <1>2, <1>4, SentOf DEF StillPending, w
    <3>4. lines'[o] = IF w[1] = o /\ o \in noted THEN lines[o] + 1 ELSE lines[o]
      BY <2>1, <3>3
    <3>5. CASE w[1] # o
      BY <1>1, <2>1, <3>1, <3>2, <3>4, <3>5 DEF ConfirmedOnce
    <3>6. CASE w[1] = o
      <4>1. ~Observed(o)
        <5> SUFFICES ASSUME NEW s \in history, s[1] = o PROVE FALSE
          BY <3>1
        <5>1. s \in Signatures /\ IsExecuted(executed, s)
          BY DEF OneVariant, JournalTypes
        <5>2. s = w
          BY <1>2, <3>6, <5>1 DEF IsExecuted, Signatures
        <5> QED
          BY <1>4, <5>2 DEF w
      <4>2. Observed(o)'
        BY <2>1, <3>2, <3>6
      <4>3. lines[o] = 0
        BY <4>1 DEF ConfirmedOnce
      <4> QED
        BY <1>1, <3>4, <3>6, <4>2, <4>3
    <3> QED
      BY <3>5, <3>6
  <2>8. ConfirmedOnce'
    BY <2>7 DEF ConfirmedOnce
  <2> QED
    BY <2>2, <2>3, <2>4, <2>5, <2>6, <2>8
<1>5. CASE ~(writing.exact /\ w \notin history)
  <2>1. UNCHANGED <<history, pending, lines>>
    BY <1>5 DEF Show
  <2> HIDE DEF w
  <2>2. JournalTypes' /\ OneVariant' /\ OnceSubmitted' /\ StillPending' /\ LoggedFirst'
    BY <1>1, <2>1 DEF JournalTypes, OneVariant, OnceSubmitted, StillPending, LoggedFirst
  <2>3. NothingLost'
    BY <1>1, <1>3, <1>5, <2>1 DEF NothingLost, w
  <2>4. ConfirmedOnce'
    BY <1>1, <2>1 DEF ConfirmedOnce, Observed
  <2> QED
    BY <2>2, <2>3, <2>4
<1> QED
  BY <1>4, <1>5

LEMMA ReadSubmittedKeeps ==
  ASSUME JournalInv, ReadSubmitted
  PROVE  JournalInv'
<1> USE DEF JournalInv, actor
<1> DEFINE n == Head(queue).order
<1>1. /\ writing = None /\ queue # <<>> /\ Head(queue).kind = "submitted"
      /\ queue' = Tail(queue) /\ noted' = noted \cup {n}
      /\ pending' = (pending \cup Sent(n)) \ (Sent(n) \cap history)
      /\ lines' = [o \in Orders |->
                     IF Sent(o) \cap (pending \cup Sent(n)) \cap (Sent(n) \cap history) # {}
                     THEN lines[o] + 1 ELSE lines[o]]
      /\ UNCHANGED <<actor, dropped, up, writing, wal, history>>
  BY DEF ReadSubmitted, Reads, Oldest, Take
<1>2. /\ queue' \in Seq(Message) /\ Head(queue) \in Message
      /\ \A x : Waits(queue, x) <=> x = Head(queue) \/ Waits(queue', x)
      /\ \A x : AtMostOnce(queue, x) =>
                  AtMostOnce(queue', x) /\ (x = Head(queue) => ~Waits(queue', x))
  BY <1>1, TailWaits DEF JournalTypes
<1>3. n \in Orders /\ Head(queue) = Submission(n)
  BY <1>1, <1>2, MessageKinds
<1>4. /\ \A o : Submission(o) = Submission(n) => o = n
      /\ \A s : Submission(n) # Observation(s)
  BY DEF Submission, Observation
<1>5. \A o \in Orders : \A s : s \in Sent(o) <=> s \in Signatures /\ s[1] = o
  BY SentOf
<1>6. n \notin noted /\ n \in answered /\ ~Waits(queue', Submission(n))
  BY <1>2, <1>3 DEF OnceSubmitted
<1> HIDE DEF n
<1>7. JournalTypes'
  BY <1>1, <1>2, <1>3, <1>5 DEF JournalTypes
<1>8. OneVariant'
  BY <1>1, <1>2 DEF OneVariant
<1>9. OnceSubmitted'
  BY <1>1, <1>2, <1>3, <1>4, <1>6 DEF OnceSubmitted
<1>10. StillPending'
  BY <1>1, <1>3, <1>5 DEF StillPending
<1>11. LoggedFirst'
  BY <1>1 DEF LoggedFirst
<1>12. NothingLost'
  BY <1>1, <1>2, <1>3, <1>4 DEF NothingLost
<1>13. ASSUME NEW o \in Orders
       PROVE  lines'[o] = IF o \in noted' /\ Observed(o)' THEN 1 ELSE 0
  <2>1. Observed(o) <=> \E s \in history : s[1] = o
    BY ObservedOf
  <2>2. Observed(o)' <=> Observed(o)
    BY <1>1 DEF Observed
  <2>3. Sent(o) \cap (pending \cup Sent(n)) \cap (Sent(n) \cap history) # {} <=> o = n /\ Observed(o)
    BY <1>3, <1>5 DEF Observed
  <2>4. lines'[o] = IF o = n /\ Observed(o) THEN lines[o] + 1 ELSE lines[o]
    BY <1>1, <2>3
  <2>5. lines[o] = IF o \in noted /\ Observed(o) THEN 1 ELSE 0
    BY DEF ConfirmedOnce
  <2> QED
    BY <1>1, <1>6, <2>2, <2>4, <2>5
<1>14. ConfirmedOnce'
  BY <1>13 DEF ConfirmedOnce
<1> QED
  BY <1>7, <1>8, <1>9, <1>10, <1>11, <1>12, <1>14

-----------------------------------------------------------------------------
\* What order actor, channel, log and report agree on, in every reachable state
\* (journal.rs): the inductive invariant of this module.
THEOREM JournalInvariant == Spec => []JournalInv
<1>1. JournalInv /\ [Next]_vars => JournalInv'
  <2> SUFFICES ASSUME JournalInv, [Next]_vars PROVE JournalInv'
    OBVIOUS
  <2>1. CASE UNCHANGED vars
    BY <2>1 DEF vars, JournalInv, JournalTypes, OneVariant, OnceSubmitted, StillPending,
       LoggedFirst, NothingLost, ConfirmedOnce, Observed
  <2>2. CASE Next
    BY <2>2, ExecuteKeeps, SubmittedKeeps, RecordKeeps, LogFailsKeeps, LogKeeps, ShowKeeps,
       ReadSubmittedKeeps DEF Next
  <2> QED
    BY <2>1, <2>2
<1> QED
  BY <1>1, InitHolds, PTL DEF Spec

\* Nothing is shown of a trade that is not in the write-ahead log, whatever
\* fails and whenever (journal.rs:189-200, README.md:29).
THEOREM ShownIsLoggedHolds == Spec => []ShownIsLogged
<1>1. JournalInv => ShownIsLogged
  BY DEF JournalInv, LoggedFirst, ShownIsLogged
<1> QED
  BY <1>1, JournalInvariant, PTL

\* The report says once "confirmed" of an order that was submitted and seen, in
\* either order of the two messages, however often the event is repeated, and
\* never of another one (README.md:144-145).
THEOREM ConfirmedOnceHolds == Spec => []ConfirmedOnce
<1>1. JournalInv => ConfirmedOnce
  BY DEF JournalInv
<1> QED
  BY <1>1, JournalInvariant, PTL

\* While the gate for new positions is open and the writer runs, an empty queue
\* means that nothing the order actor said was lost.
THEOREM CompleteUnlessDroppedHolds == Spec => []CompleteUnlessDropped
<1>1. JournalInv => CompleteUnlessDropped
  <2> SUFFICES ASSUME JournalInv, ~dropped, up, queue = <<>>, writing = None,
                      NEW o \in answered, Sent(o) \cap recorded # {}
               PROVE  lines[o] = 1
    BY DEF CompleteUnlessDropped, AllowsNewOrders
  <2>1. \A x : ~Waits(queue, x)
    BY DEF Waits
  <2>2. o \in noted /\ o \in Orders
    BY <2>1 DEF JournalInv, NothingLost, JournalTypes
  <2>3. recorded \subseteq history
    <3> SUFFICES ASSUME NEW s \in recorded PROVE s \in history
      OBVIOUS
    <3>1. Observation(s) \in Message
      BY MessageTypes DEF JournalInv, JournalTypes, Observation
    <3> QED
      BY <2>1, <3>1, JournalAssumption DEF JournalInv, NothingLost
  <2>4. Observed(o)
    BY <2>3 DEF Observed
  <2> QED
    BY <2>2, <2>4 DEF JournalInv, ConfirmedOnce
<1> QED
  BY <1>1, JournalInvariant, PTL
=============================================================================
