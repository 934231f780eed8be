-------------------------- MODULE Delivery_proofs --------------------------
(***************************************************************************)
(* Theorems about Delivery, for every set of workloads and every number of *)
(* messages, offers, reports, crashes and failures.                        *)
(***************************************************************************)
EXTENDS Delivery, FiniteSetTheorems, TLAPS

USE DEF broker, books, loop

-----------------------------------------------------------------------------
(* The invariants *)

\* The loop has a message in hand, and the broker still has it.
InHand == {"persist", "events", "request", "call"}

\* The message in hand is in the store.
Persisted == {"events", "request", "call", "confirm", "doubt"}

\* What the broker has is what it sent last, and the loop works on the oldest.
QueueInv ==
  /\ \E k \in 1..(sent + 1) : queue = k..sent
  /\ pc \in InHand => cur \in queue /\ \A m \in queue : cur <= m
  /\ pc \in {"confirm", "doubt"} => cur \in Messages /\ cur <= sent
  /\ pc = "confirm" => cur \notin queue

\* A delivery is recorded from the oldest message only, with that message's
\* own fingerprint, and confirmed once it is gone.
RowsInv ==
  /\ \A m \in Messages : ack[m] # "none" => m <= sent /\ (m \in queue => \A n \in queue : m <= n)
  /\ \A m \in Messages : ack[m] # "none" /\ m \in queue => print[m] = assigned[m]
  /\ \A m \in Messages : ack[m] = "confirmed" => m \notin queue
  /\ pc \in Persisted => ack[cur] # "none"

\* An attempt comes with its delivery, and one that gave way has a successor.
AttemptsInv ==
  /\ \A x \in AttemptIds : att[x] # "none" => ack[x[1]] # "none"
  /\ \A x, y \in AttemptIds : x[2] = y[2] /\ att[x] \in Open /\ att[y] \in Open => x = y
  /\ SupersededHasSuccessor

\* Past each step of the loop, what that step makes durable is.
DurableInv ==
  /\ pc \in {"events", "request", "call"} =>
       /\ \A w \in assigned[cur] : att[<<cur, w>>] # "none"
       /\ \A r \in reports[cur] \ left :
            r.run # NoRun /\ r.run[2] = r.w => <<r.run, r.canceled>> \in noted
  /\ pc \in {"request", "call"} => left = {}

DeliveryInv == QueueInv /\ RowsInv /\ AttemptsInv /\ DurableInv

-----------------------------------------------------------------------------
(* Types *)

\* Messages are numbered from one.
LEMMA Numbers ==
  /\ Messages \subseteq Nat \ {0} /\ MaxMessages \in Nat /\ MaxCrashes \in Nat
  /\ ReopenAfter \in Nat /\ ReopenAfter # 0
  /\ NoRun \notin AttemptIds
  /\ \A x \in AttemptIds : x[1] \in Messages /\ x[2] \in Workloads /\ x = <<x[1], x[2]>>
  /\ \A m \in Messages, w \in Workloads : <<m, w>> \in AttemptIds /\ <<m, w>>[1] = m /\ <<m, w>>[2] = w
BY DeliveryAssumption DEF Messages, NoRun, AttemptIds

\* A choice of at most n members is a subset.
LEMMA UpToIsSubset == ASSUME NEW n \in Nat, NEW S, NEW U \in UpTo(n, S) PROVE U \subseteq S
BY DEF UpTo

\* What the broker sends is well formed.
LEMMA SentTypes ==
  ASSUME TypeOK, BrokerSends
  PROVE  \E A \in SUBSET Workloads, O \in SUBSET Workloads, R \in SUBSET Reports : Send(A, O, R)
<1>1. PICK A \in SUBSET Workloads : \E O \in UpTo(MaxOffers, Workloads \ A) :
        \E R \in UpTo(MaxReports, [w : Workloads, run : ran \cup {NoRun}, canceled : BOOLEAN]) :
          Send(A, O, R)
  BY DEF BrokerSends
<1>2. PICK O \in UpTo(MaxOffers, Workloads \ A) :
        \E R \in UpTo(MaxReports, [w : Workloads, run : ran \cup {NoRun}, canceled : BOOLEAN]) :
          Send(A, O, R)
  BY <1>1
<1>3. PICK R \in UpTo(MaxReports, [w : Workloads, run : ran \cup {NoRun}, canceled : BOOLEAN]) :
        Send(A, O, R)
  BY <1>2
<1>4. MaxOffers \in Nat /\ MaxReports \in Nat
  BY DeliveryAssumption
<1>5. O \subseteq Workloads
  BY <1>4, UpToIsSubset
<1>6. R \subseteq [w : Workloads, run : ran \cup {NoRun}, canceled : BOOLEAN]
  BY <1>4, UpToIsSubset
<1>7. [w : Workloads, run : ran \cup {NoRun}, canceled : BOOLEAN] \subseteq Reports
  BY DEF TypeOK, Reports
<1> QED
  BY <1>3, <1>5, <1>6, <1>7

\* The oldest message is one of the queue, and no other is older.
LEMMA OldestIsOldest ==
  ASSUME TypeOK, QueueInv, queue # {}
  PROVE  Oldest \in queue /\ \A m \in queue : Oldest <= m
<1>1. PICK k \in 1..(sent + 1) : queue = k..sent
  BY DEF QueueInv
<1>2. k \in queue /\ \A n \in queue : k <= n
  BY <1>1, DeliveryAssumption DEF TypeOK
<1> QED
  BY <1>2 DEF Oldest

\* A failed call leaves the count below the one that costs the session.
LEMMA FailureType ==
  ASSUME TypeOK, CountFailure
  PROVE  failures' \in 0..(ReopenAfter - 1) /\ session' \in BOOLEAN
<1>1. ReopenAfter \in Nat /\ ReopenAfter # 0 /\ failures \in 0..(ReopenAfter - 1)
  BY Numbers DEF TypeOK
<1>2. failures' \in {0, failures + 1} /\ (failures' # 0 => failures + 1 < ReopenAfter)
  BY DEF CountFailure
<1>3. failures' \in 0..(ReopenAfter - 1)
  BY <1>1, <1>2
<1>4. session' \in BOOLEAN
  BY Zenon DEF TypeOK, CountFailure
<1> QED
  BY <1>3, <1>4

\* Every step keeps the types, given what QueueInv says of the message in hand.
LEMMA TypeStep == ASSUME TypeOK, QueueInv, [Next]_vars PROVE TypeOK'
<1> USE DEF TypeOK
<1>1. CASE BrokerSends
  <2>1. PICK A \in SUBSET Workloads, O \in SUBSET Workloads, R \in SUBSET Reports : Send(A, O, R)
    BY <1>1, SentTypes
  <2>2. sent + 1 \in Messages /\ sent + 1 \in 0..MaxMessages
    BY <2>1, DeliveryAssumption DEF Send, Messages
  <2> QED
    BY <2>1, <2>2 DEF Send
<1>2. CASE EnsureScaleSet \/ OpenSession \/ ReceiveEmpty \/ LeaveForRedelivery \/ ReportsRecorded
           \/ AckRequestFails
  <2>1. 0 \in 0..(ReopenAfter - 1)
    BY Numbers
  <2> QED
    BY <1>2, <2>1
    DEF EnsureScaleSet, OpenSession, ReceiveEmpty, LeaveForRedelivery, ReportsRecorded,
        AckRequestFails, Goto, NextRound, LoopSteps
<1>3. CASE ReceiveFails
  BY <1>3, FailureType DEF ReceiveFails, NextRound, LoopSteps
<1>4. CASE ReceiveWithoutOffers
  BY <1>4, FailureType, OldestIsOldest DEF ReceiveWithoutOffers, NextRound, Goto, LoopSteps
<1>5. ASSUME NEW grants \in SUBSET Workloads, Receive(grants) PROVE TypeOK'
  BY <1>5, OldestIsOldest, Numbers DEF Receive, Goto, LoopSteps
<1>6. CASE PersistDelivery
  <2>1. att' \in [AttemptIds -> States]
    BY <1>6 DEF PersistDelivery, States
  <2>2. cur \in Messages
    BY <1>6 DEF PersistDelivery, QueueInv, InHand
  <2>3. ack' \in [Messages -> AckStates] /\ print' \in [Messages -> SUBSET Workloads]
    BY <1>6, <2>2 DEF PersistDelivery, AckStates, Fingerprint
  <2> QED
    BY <1>6, <2>1, <2>2, <2>3 DEF PersistDelivery, Goto, LoopSteps
<1>7. ASSUME NEW r \in left, RecordReport(r) PROVE TypeOK'
  <2>1. att' \in [AttemptIds -> States]
    BY <1>7 DEF RecordReport, States
  <2>2. r \in Reports /\ r.canceled \in BOOLEAN /\ r.run \in AttemptIds \cup {NoRun}
    BY DEF Reports
  <2>3. SubjectOf(r) \subseteq AttemptIds
    BY <2>2 DEF SubjectOf, OpenAttemptsOf
  <2>4. noted' \in SUBSET (AttemptIds \X BOOLEAN)
    BY <1>7, <2>2, <2>3 DEF RecordReport
  <2> QED
    BY <1>7, <2>1, <2>4 DEF RecordReport
<1>8. CASE AckRequested
  BY <1>8 DEF AckRequested, Goto, NextRound, LoopSteps, AckStates
<1>9. CASE Acknowledge
  BY <1>9 DEF Acknowledge, BrokerDeletes, Goto, LoopSteps
<1>10. CASE RecordOutcome
  BY <1>10 DEF RecordOutcome, Outcome, NextRound, LoopSteps, AckStates
<1>11. CASE Crash
  <2>1. 0 \in 0..(ReopenAfter - 1) /\ crashes + 1 \in 0..MaxCrashes
    BY <1>11, Numbers DEF Crash
  <2> QED
    BY <1>11, <2>1 DEF Crash, LoopSteps
<1>12. ASSUME NEW x \in AttemptIds, LeaseAttempt(x) PROVE TypeOK'
  BY <1>12 DEF LeaseAttempt, States
<1>13. ASSUME NEW x \in AttemptIds, NEW to \in States, Serve(x, to) PROVE TypeOK'
  BY <1>13 DEF Serve
<1>14. CASE UNCHANGED vars
  BY <1>14 DEF vars
<1> QED
  BY <1>1, <1>2, <1>3, <1>4, <1>5, <1>6, <1>7, <1>8, <1>9, <1>10, <1>11, <1>12, <1>13, <1>14
  DEF Next, Round

-----------------------------------------------------------------------------
(* The queue and the loop *)

\* A step of the loop that changes nothing at the broker has the message in
\* hand already, takes the oldest one up, or is done with it.
LEMMA LoopQueue ==
  ASSUME TypeOK, QueueInv, UNCHANGED <<queue, sent>>,
         pc' \in InHand => \/ pc \in InHand /\ cur' = cur
                           \/ queue # {} /\ cur' = Oldest,
         pc' = "doubt" => pc \in InHand \cup {"doubt"} /\ cur' = cur,
         pc' = "confirm" => pc = "confirm" /\ cur' = cur
  PROVE  QueueInv'
<1>1. \A m \in queue : m \in Messages /\ m <= sent
  BY DeliveryAssumption DEF QueueInv, TypeOK, Messages
<1>2. pc' \in InHand => cur' \in queue /\ \A m \in queue : cur' <= m
  BY OldestIsOldest DEF QueueInv
<1>3. pc' \in {"confirm", "doubt"} => cur' \in Messages /\ cur' <= sent
  BY <1>1 DEF QueueInv
<1> QED
  BY <1>2, <1>3 DEF QueueInv

\* The broker sends in order and the loop deletes the oldest message.
LEMMA QueueStep == ASSUME TypeOK, QueueInv, [Next]_vars PROVE QueueInv'
<1>1. PICK k \in 1..(sent + 1) : queue = k..sent
  BY DEF QueueInv
<1>2. sent \in Nat /\ k \in Nat /\ k # 0 /\ MaxMessages \in Nat /\ sent <= MaxMessages
  BY <1>1, Numbers DEF TypeOK
<1>3. CASE BrokerSends
  <2>1. PICK A \in SUBSET Workloads, O \in SUBSET Workloads, R \in SUBSET Reports : Send(A, O, R)
    BY <1>3, SentTypes
  <2>2. /\ sent' = sent + 1 /\ queue' = queue \cup {sent + 1} /\ pc' = pc /\ cur' = cur
    BY <2>1 DEF Send
  <2>3. queue' = k..sent' /\ k \in 1..(sent' + 1)
    BY <1>1, <1>2, <2>2
  <2>4. pc \in InHand => cur \in queue' /\ \A m \in queue' : cur <= m
    BY <1>1, <1>2, <2>2 DEF QueueInv
  <2>5. pc \in {"confirm", "doubt"} => cur \in Messages /\ cur <= sent'
    BY <1>2, <2>2 DEF QueueInv, Messages
  <2>6. pc = "confirm" => cur \notin queue'
    BY <1>2, <2>2 DEF QueueInv, Messages
  <2> QED
    BY <2>2, <2>3, <2>4, <2>5, <2>6 DEF QueueInv
<1>4. CASE Acknowledge
  <2>1. cur \in queue /\ cur = k /\ cur \in Messages /\ cur <= sent
    BY <1>1, <1>2, <1>4 DEF Acknowledge, QueueInv, InHand, Messages
  <2>2. cur' = cur /\ sent' = sent /\ pc' \in {"confirm", "doubt"} /\ queue' \in {queue, queue \ {cur}}
    BY <1>4 DEF Acknowledge, BrokerDeletes, Goto
  <2>3. pc' = "confirm" => queue' = queue \ {cur}
    BY <1>4 DEF Acknowledge, BrokerDeletes, Goto
  <2>4. k + 1 \in 1..(sent + 1) /\ queue \ {cur} = (k + 1)..sent
    BY <1>1, <1>2, <2>1
  <2>5. \E j \in 1..(sent' + 1) : queue' = j..sent'
    BY <1>1, <2>2, <2>4
  <2> QED
    BY <2>1, <2>2, <2>3, <2>5 DEF QueueInv, InHand
<1>5. CASE UNCHANGED <<queue, sent>> /\ UNCHANGED <<pc, cur>>
  BY <1>5 DEF QueueInv
<1>6. CASE UNCHANGED <<queue, sent>> /\ pc' \in {"ensure", "session", "poll"}
  BY <1>6, LoopQueue DEF InHand
<1>7. CASE Round /\ ~Acknowledge
  <2>1. UNCHANGED <<queue, sent>>
    BY <1>7
    DEF Round, EnsureScaleSet, OpenSession, ReceiveFails, ReceiveEmpty, ReceiveWithoutOffers,
        Receive, PersistDelivery, LeaveForRedelivery, ReportsRecorded, RecordReport, AckRequested,
        AckRequestFails, RecordOutcome
  <2>2. CASE ReceiveWithoutOffers
    BY <1>6, <2>1, <2>2, LoopQueue DEF ReceiveWithoutOffers, Goto, NextRound, InHand
  <2>3. ASSUME NEW grants \in SUBSET Workloads, Receive(grants) PROVE QueueInv'
    BY <2>1, <2>3, LoopQueue DEF Receive, Goto, InHand
  <2>4. CASE PersistDelivery \/ ReportsRecorded \/ AckRequested
    BY <1>6, <2>1, <2>4, LoopQueue
    DEF PersistDelivery, ReportsRecorded, AckRequested, Goto, NextRound, InHand
  <2>5. ASSUME NEW r \in left, RecordReport(r) PROVE QueueInv'
    BY <1>5, <2>1, <2>5 DEF RecordReport
  <2>6. CASE EnsureScaleSet \/ OpenSession \/ ReceiveFails \/ ReceiveEmpty \/ LeaveForRedelivery
             \/ AckRequestFails \/ RecordOutcome
    BY <1>6, <2>1, <2>6
    DEF EnsureScaleSet, OpenSession, ReceiveFails, ReceiveEmpty, LeaveForRedelivery,
        AckRequestFails, RecordOutcome, Goto, NextRound
  <2> QED
    BY <1>7, <2>2, <2>3, <2>4, <2>5, <2>6 DEF Round
<1>8. CASE Crash
  BY <1>6, <1>8 DEF Crash
<1>9. CASE (\E x \in AttemptIds : LeaseAttempt(x) \/ \E to \in States : Serve(x, to)) \/ UNCHANGED vars
  BY <1>5, <1>9 DEF LeaseAttempt, Serve, vars
<1> QED
  BY <1>3, <1>4, <1>7, <1>8, <1>9 DEF Next, Round

-----------------------------------------------------------------------------
(* The delivery rows *)

\* A step that leaves the rows and the broker alone and persists nothing.
LEMMA QuietRows ==
  ASSUME RowsInv, UNCHANGED <<queue, sent, ack, print, assigned>>,
         pc' \in Persisted => pc \in Persisted /\ cur' = cur
  PROVE  RowsInv'
BY DEF RowsInv

\* A row is made with the payload's own fingerprint, and confirmed only after
\* the broker has forgotten the message.
LEMMA RowsStep == ASSUME TypeOK, QueueInv, RowsInv, [Next]_vars PROVE RowsInv'
<1>1. sent \in Nat /\ \A m \in Messages : m \in Nat
  BY Numbers DEF TypeOK
<1>2. CASE BrokerSends
  <2>1. PICK A \in SUBSET Workloads, O \in SUBSET Workloads, R \in SUBSET Reports : Send(A, O, R)
    BY <1>2, SentTypes
  <2>2. /\ sent' = sent + 1 /\ queue' = queue \cup {sent + 1}
        /\ UNCHANGED <<pc, cur, ack, print>>
        /\ \A m \in Messages : m # sent + 1 => assigned'[m] = assigned[m]
    BY <2>1 DEF Send, TypeOK
  <2>3. \A m \in Messages : ack[m] # "none" => m # sent + 1 /\ m <= sent'
    BY <1>1, <2>2 DEF RowsInv
  <2>4. \A m \in Messages : ack[m] # "none" /\ m \in queue' => \A n \in queue' : m <= n
    BY <1>1, <2>2, <2>3 DEF RowsInv
  <2> QED
    BY <2>2, <2>3, <2>4 DEF RowsInv
<1>3. CASE PersistDelivery
  <2>1. /\ cur \in queue /\ cur \in Messages /\ cur <= sent /\ \A m \in queue : cur <= m
        /\ ack[cur] # "confirmed"
    BY <1>1, <1>3 DEF PersistDelivery, QueueInv, InHand, TypeOK, Messages, RowsInv
  <2>2. /\ \A m \in Messages \ {cur} : ack'[m] = ack[m] /\ print'[m] = print[m]
        /\ ack'[cur] = IF ack[cur] = "none" THEN "pending" ELSE ack[cur]
        /\ print'[cur] = IF ack[cur] = "none" THEN assigned[cur] ELSE print[cur]
        /\ UNCHANGED <<queue, sent, assigned, cur>> /\ pc' = "events"
    BY <1>3, <2>1 DEF PersistDelivery, Fingerprint, TypeOK, Goto
  <2> QED
    BY <2>1, <2>2 DEF RowsInv
<1>4. CASE AckRequested
  <2>1. /\ cur \in Messages /\ ack[cur] # "none"
    BY <1>4 DEF AckRequested, QueueInv, InHand, TypeOK, RowsInv, Persisted
  <2>2. /\ \A m \in Messages \ {cur} : ack'[m] = ack[m]
        /\ ack'[cur] \in {ack[cur], "requested"}
        /\ UNCHANGED <<queue, sent, assigned, print>>
        /\ pc' \in Persisted => cur' = cur
    BY <1>4, <2>1 DEF AckRequested, TypeOK, Goto, NextRound, Persisted
  <2> QED
    BY <2>1, <2>2 DEF RowsInv
<1>5. CASE Acknowledge
  <2>1. /\ cur \in Messages /\ cur \in queue /\ \A m \in queue : cur <= m
        /\ UNCHANGED <<sent, ack, print, cur>> /\ ack[cur] # "none"
    BY <1>5 DEF Acknowledge, BrokerDeletes, QueueInv, InHand, TypeOK, RowsInv, Persisted
  <2>2. \/ UNCHANGED <<queue, assigned>>
        \/ queue' = queue \ {cur} /\ \A m \in Messages \ {cur} : assigned'[m] = assigned[m]
    BY <1>5 DEF Acknowledge, BrokerDeletes, TypeOK
  <2> QED
    BY <2>1, <2>2 DEF RowsInv
<1>6. CASE RecordOutcome
  <2>1. cur \in Messages /\ ack[cur] # "none" /\ (pc = "confirm" => cur \notin queue)
    BY <1>6 DEF RecordOutcome, QueueInv, RowsInv, Persisted
  <2>2. /\ \A m \in Messages \ {cur} : ack'[m] = ack[m]
        /\ ack'[cur] \in {ack[cur], IF pc = "confirm" THEN "confirmed" ELSE "uncertain"}
        /\ UNCHANGED <<queue, sent, assigned, print>> /\ pc' = "session"
    BY <1>6, <2>1 DEF RecordOutcome, Outcome, TypeOK, NextRound
  <2> QED
    BY <2>1, <2>2 DEF RowsInv, Persisted
<1>7. CASE UNCHANGED <<queue, sent, ack, print, assigned>>
           /\ (pc' \in Persisted => pc \in Persisted /\ cur' = cur)
  BY <1>7, QuietRows
<1>8. CASE EnsureScaleSet \/ OpenSession \/ ReceiveFails \/ ReceiveEmpty \/ ReceiveWithoutOffers
           \/ LeaveForRedelivery \/ ReportsRecorded \/ AckRequestFails
           \/ \E grants \in SUBSET Workloads : Receive(grants)
  BY <1>7, <1>8
  DEF EnsureScaleSet, OpenSession, ReceiveFails, ReceiveEmpty, ReceiveWithoutOffers, Receive,
      LeaveForRedelivery, ReportsRecorded, AckRequestFails, Goto, NextRound, Persisted
<1>9. CASE \/ \E r \in left : RecordReport(r)
           \/ \E x \in AttemptIds : LeaseAttempt(x) \/ \E to \in States : Serve(x, to)
           \/ Crash
           \/ UNCHANGED vars
  BY <1>7, <1>9 DEF RecordReport, LeaseAttempt, Serve, Crash, vars, Persisted
<1> QED
  BY <1>2, <1>3, <1>4, <1>5, <1>6, <1>8, <1>9 DEF Next, Round

-----------------------------------------------------------------------------
(* The attempts *)

\* An attempt that moves was open and does not give way, and no delivery's row
\* goes away.
LEMMA MovingAttempts ==
  ASSUME TypeOK, AttemptsInv,
         \A x \in AttemptIds : att'[x] # att[x] =>
           att[x] \in Open /\ att'[x] \notin {"none", "superseded"},
         \A m \in Messages : ack[m] # "none" => ack'[m] # "none"
  PROVE  AttemptsInv'
<1>1. \A x \in AttemptIds : att'[x] # "none" => ack'[x[1]] # "none"
  BY Numbers DEF AttemptsInv, Open
<1>2. \A x \in AttemptIds : att'[x] \in Open => att[x] \in Open
  OBVIOUS
<1>3. \A x, y \in AttemptIds : x[2] = y[2] /\ att'[x] \in Open /\ att'[y] \in Open => x = y
  BY <1>2 DEF AttemptsInv
<1>4. \A x \in AttemptIds : /\ att'[x] = "superseded" => att[x] = "superseded"
                            /\ att[x] # "none" => att'[x] # "none"
  OBVIOUS
<1>5. SupersededHasSuccessor'
  BY <1>4 DEF AttemptsInv, SupersededHasSuccessor
<1> QED
  BY <1>1, <1>3, <1>5 DEF AttemptsInv

\* The transaction that makes a delivery durable makes its attempts the only
\* open ones, and what they replace is older.
LEMMA PersistAttempts ==
  ASSUME TypeOK, QueueInv, RowsInv, AttemptsInv, PersistDelivery
  PROVE  AttemptsInv'
<1>1. /\ cur \in queue /\ cur \in Messages /\ \A m \in queue : cur <= m
      /\ Admitted \subseteq Workloads /\ Missing \subseteq Admitted
  BY DEF PersistDelivery, QueueInv, InHand, TypeOK, Admitted, Missing
<1>2. /\ \A x \in AttemptIds :
           att'[x] = IF x \in Superseded THEN "superseded"
                     ELSE IF x[1] = cur /\ x[2] \in Missing THEN "ready" ELSE att[x]
      /\ \A m \in Messages : ack[m] # "none" => ack'[m] # "none"
      /\ ack'[cur] # "none"
  BY <1>1 DEF PersistDelivery, TypeOK
<1>3. \A x \in Superseded : x \in AttemptIds /\ x[1] # cur /\ x[2] \in Admitted /\ att[x] \in Open
  BY DEF Superseded, Conflicts, OpenAttemptsOf
<1>4. \A x \in AttemptIds : x[1] # cur /\ x[2] \in Missing /\ att[x] \in Open => x \in Superseded
  BY <1>1 DEF Superseded, InTheWay, Conflicts, OpenAttemptsOf
<1>5. \A x \in AttemptIds : att[x] # "none" => ack[x[1]] # "none" /\ x[1] \in Messages
  BY Numbers DEF AttemptsInv
<1>6. \A x \in AttemptIds : att'[x] # "none" => ack'[x[1]] # "none"
  BY <1>2, <1>3, <1>5 DEF Open
<1>7. \A x, y \in AttemptIds : x[2] = y[2] /\ att'[x] \in Open /\ att'[y] \in Open => x = y
  <2> SUFFICES ASSUME NEW x \in AttemptIds, NEW y \in AttemptIds, x[2] = y[2],
                      att'[x] \in Open, att'[y] \in Open
               PROVE  x = y
    OBVIOUS
  <2>1. \A z \in AttemptIds : att'[z] \in Open =>
          z \notin Superseded /\ ((z[1] = cur /\ z[2] \in Missing) \/ att[z] \in Open)
    BY <1>2 DEF Open
  <2>2. CASE x[2] \in Missing
    <3>1. x[1] = cur /\ y[1] = cur
      BY <1>4, <2>1, <2>2
    <3> QED
      BY <3>1, Numbers
  <2>3. CASE x[2] \notin Missing
    BY <2>1, <2>3 DEF AttemptsInv
  <2> QED
    BY <2>2, <2>3
<1>8. \A x \in AttemptIds : att[x] # "none" => att'[x] # "none"
  BY <1>2
<1>9. SupersededHasSuccessor'
  <2> SUFFICES ASSUME NEW x \in AttemptIds, att'[x] = "superseded"
               PROVE  \E y \in AttemptIds : y[2] = x[2] /\ y[1] > x[1] /\ att'[y] # "none"
    BY DEF SupersededHasSuccessor
  <2>1. CASE x \in Superseded
    <3>1. x[1] # cur /\ x[2] \in Admitted /\ ack[x[1]] # "none" /\ x[1] \in Messages
      BY <1>3, <1>5, <2>1 DEF Open
    <3>2. x[1] \in Nat /\ cur \in Nat /\ sent \in Nat /\ x[1] <= sent
      BY <1>1, <3>1, Numbers DEF RowsInv, TypeOK
    <3>3. x[1] \notin queue
      BY <1>1, <3>1, <3>2 DEF RowsInv
    <3>4. PICK k \in 1..(sent + 1) : queue = k..sent
      BY DEF QueueInv
    <3>5. cur > x[1]
      BY <1>1, <3>2, <3>3, <3>4
    <3>6. <<cur, x[2]>> \in AttemptIds /\ <<cur, x[2]>>[1] = cur /\ <<cur, x[2]>>[2] = x[2]
      BY <1>1, Numbers
    <3>7. att'[<<cur, x[2]>>] # "none"
      BY <1>2, <3>1, <3>6 DEF Missing
    <3> QED
      BY <3>5, <3>6, <3>7
  <2>2. CASE x \notin Superseded
    <3>1. att[x] = "superseded"
      BY <1>2, <2>2
    <3> QED
      BY <1>8, <3>1 DEF AttemptsInv, SupersededHasSuccessor
  <2> QED
    BY <2>1, <2>2
<1> QED
  BY <1>6, <1>7, <1>9 DEF AttemptsInv

\* Every step keeps AttemptsInv.
LEMMA AttemptsStep ==
  ASSUME TypeOK, QueueInv, RowsInv, AttemptsInv, [Next]_vars
  PROVE  AttemptsInv'
<1>1. CASE PersistDelivery
  BY <1>1, PersistAttempts
<1>2. CASE UNCHANGED <<att, ack>>
  BY <1>2, MovingAttempts
<1>3. ASSUME NEW r \in left, RecordReport(r) PROVE AttemptsInv'
  <2>1. UNCHANGED ack /\ \A x \in AttemptIds : att'[x] # att[x]
          => att[x] = "ready" /\ att'[x] = "canceled"
    BY <1>3 DEF RecordReport
  <2> QED
    BY <2>1, MovingAttempts DEF Open
<1>4. CASE AckRequested \/ RecordOutcome
  <2>1. UNCHANGED att /\ \A m \in Messages : ack[m] # "none" => ack'[m] # "none"
    BY <1>4 DEF AckRequested, RecordOutcome, Outcome, TypeOK
  <2> QED
    BY <2>1, MovingAttempts
<1>5. ASSUME NEW x \in AttemptIds, LeaseAttempt(x) PROVE AttemptsInv'
  <2>1. UNCHANGED ack /\ att[x] = "ready" /\ att'[x] = "leased"
        /\ \A y \in AttemptIds : y # x => att'[y] = att[y]
    BY <1>5 DEF LeaseAttempt, TypeOK
  <2> QED
    BY <2>1, MovingAttempts DEF Open
<1>6. ASSUME NEW x \in AttemptIds, NEW to \in States, Serve(x, to) PROVE AttemptsInv'
  <2>1. UNCHANGED ack /\ att'[x] = to /\ <<att[x], to>> \in Moves
        /\ \A y \in AttemptIds : y # x => att'[y] = att[y]
    BY <1>6 DEF Serve, TypeOK
  <2>2. att[x] \in Open /\ to \notin {"none", "superseded"}
    BY <2>1 DEF Moves, Open
  <2> QED
    BY <2>1, <2>2, MovingAttempts
<1>7. CASE BrokerSends \/ Crash \/ UNCHANGED vars
  BY <1>2, <1>7, SentTypes DEF Send, Crash, vars
<1> QED
  BY <1>1, <1>2, <1>3, <1>4, <1>5, <1>6, <1>7
  DEF Next, Round, EnsureScaleSet, OpenSession, ReceiveFails, ReceiveEmpty, ReceiveWithoutOffers,
      Receive, LeaveForRedelivery, ReportsRecorded, AckRequestFails, Acknowledge

-----------------------------------------------------------------------------
(* Persist before acknowledging *)

\* A step that forgets no attempt and no event, leaves the message in hand as it
\* is, and comes no further in the loop.
LEMMA QuietDurable ==
  ASSUME DurableInv, cur \in Messages \/ pc' \notin {"events", "request", "call"},
         noted \subseteq noted',
         \A x \in AttemptIds : att[x] # "none" => att'[x] # "none",
         TypeOK,
         pc' \in {"events", "request", "call"} =>
           /\ pc' = pc /\ cur' = cur /\ left' = left
           /\ assigned'[cur] = assigned[cur] /\ reports'[cur] = reports[cur]
  PROVE  DurableInv'
<1>1. \A m \in Messages : \A w \in assigned[m] : <<m, w>> \in AttemptIds
  BY DEF TypeOK, AttemptIds
<1> QED
  BY <1>1 DEF DurableInv

\* Attempts are made and reports recorded before the loop goes on.
LEMMA DurableStep == ASSUME TypeOK, QueueInv, DurableInv, [Next]_vars PROVE DurableInv'
<1>1. pc \in InHand => cur \in Messages /\ cur <= sent /\ cur # sent + 1
  BY Numbers DEF QueueInv, TypeOK, Messages
<1>2. CASE BrokerSends
  <2>1. PICK A \in SUBSET Workloads, O \in SUBSET Workloads, R \in SUBSET Reports : Send(A, O, R)
    BY <1>2, SentTypes
  <2>2. /\ UNCHANGED <<pc, cur, left, att, noted>>
        /\ \A m \in Messages : m # sent + 1 => assigned'[m] = assigned[m] /\ reports'[m] = reports[m]
    BY <2>1 DEF Send, TypeOK
  <2> QED
    BY <1>1, <2>2, QuietDurable DEF InHand
<1>3. CASE PersistDelivery
  <2>1. /\ cur \in Messages /\ pc' = "events" /\ left' = reports[cur]
        /\ UNCHANGED <<cur, assigned, reports, noted>>
    BY <1>1, <1>3 DEF PersistDelivery, Goto, InHand
  <2>2. \A w \in assigned[cur] : att'[<<cur, w>>] # "none"
    <3> SUFFICES ASSUME NEW w \in assigned[cur] PROVE att'[<<cur, w>>] # "none"
      OBVIOUS
    <3>1. w \in Workloads /\ w \in Admitted
      BY <2>1 DEF TypeOK, Admitted
    <3>2. <<cur, w>> \in AttemptIds /\ <<cur, w>>[1] = cur /\ <<cur, w>>[2] = w
      BY <2>1, <3>1, Numbers
    <3> QED
      BY <1>3, <3>1, <3>2 DEF PersistDelivery, Missing
  <2> QED
    BY <2>1, <2>2 DEF DurableInv
<1>4. ASSUME NEW r \in left, RecordReport(r) PROVE DurableInv'
  <2>1. /\ pc = "events" /\ left' = left \ {r} /\ noted' = noted \cup (SubjectOf(r) \X {r.canceled})
        /\ UNCHANGED <<pc, cur, assigned, reports>> /\ cur \in Messages
        /\ \A x \in AttemptIds : att[x] # "none" => att'[x] # "none"
    BY <1>1, <1>4 DEF RecordReport, InHand
  <2>2. r.run # NoRun /\ r.run[2] = r.w => <<r.run, r.canceled>> \in noted'
    BY <2>1 DEF SubjectOf
  <2>3. \A w \in assigned[cur] : att'[<<cur, w>>] # "none"
    BY <2>1 DEF DurableInv, TypeOK, AttemptIds
  <2>4. \A q \in reports[cur] \ left' :
          q.run # NoRun /\ q.run[2] = q.w => <<q.run, q.canceled>> \in noted'
    BY <2>1, <2>2 DEF DurableInv
  <2> QED
    BY <2>1, <2>3, <2>4 DEF DurableInv
<1>5. CASE ReportsRecorded
  BY <1>5 DEF ReportsRecorded, DurableInv, Goto
<1>6. CASE AckRequested
  BY <1>6 DEF AckRequested, DurableInv, Goto, NextRound
<1>7. CASE Acknowledge
  BY <1>7 DEF Acknowledge, DurableInv, Goto
<1>8. CASE pc' \notin {"events", "request", "call"}
  BY <1>8 DEF DurableInv
<1>9. CASE EnsureScaleSet \/ OpenSession \/ ReceiveFails \/ ReceiveEmpty \/ ReceiveWithoutOffers
           \/ LeaveForRedelivery \/ AckRequestFails \/ RecordOutcome \/ Crash
           \/ \E grants \in SUBSET Workloads : Receive(grants)
  BY <1>8, <1>9
  DEF EnsureScaleSet, OpenSession, ReceiveFails, ReceiveEmpty, ReceiveWithoutOffers, Receive,
      LeaveForRedelivery, AckRequestFails, RecordOutcome, Crash, Goto, NextRound
<1>10. ASSUME NEW x \in AttemptIds, LeaseAttempt(x) \/ \E to \in States : Serve(x, to)
       PROVE  DurableInv'
  <2>1. /\ UNCHANGED <<pc, cur, left, assigned, reports, noted>>
        /\ \A y \in AttemptIds : att[y] # "none" => att'[y] # "none"
    BY <1>10 DEF LeaseAttempt, Serve, Moves, TypeOK
  <2> QED
    BY <1>1, <2>1, QuietDurable DEF InHand
<1>11. CASE UNCHANGED vars
  BY <1>11 DEF vars, DurableInv
<1> QED
  BY <1>2, <1>3, <1>4, <1>5, <1>6, <1>7, <1>9, <1>10, <1>11 DEF Next, Round

-----------------------------------------------------------------------------
(* What the demand cycle promises *)

\* A queue nothing was sent to satisfies the invariants.
LEMMA DeliveryInit == Init => TypeOK /\ DeliveryInv
<1> SUFFICES ASSUME Init PROVE TypeOK /\ DeliveryInv
  OBVIOUS
<1>1. 0 \in 0..(ReopenAfter - 1) /\ 0 \in 0..MaxCrashes /\ 0 \in 0..MaxMessages
  BY Numbers
<1>2. TypeOK
  BY <1>1 DEF Init, TypeOK, AckStates, States, LoopSteps
<1>3. QueueInv
  <2>1. 1 \in 1..(sent + 1) /\ queue = 1..sent
    BY DEF Init
  <2> QED
    BY <2>1 DEF Init, QueueInv, InHand
<1>4. RowsInv
  BY DEF Init, RowsInv, Persisted
<1>5. AttemptsInv
  BY DEF Init, AttemptsInv, SupersededHasSuccessor, Open
<1>6. DurableInv
  BY DEF Init, DurableInv
<1> QED
  BY <1>2, <1>3, <1>4, <1>5, <1>6 DEF DeliveryInv

\* The invariants hold of every state the cycle reaches.
LEMMA DeliveryInvariant == Spec => [](TypeOK /\ DeliveryInv)
<1>1. TypeOK /\ DeliveryInv /\ [Next]_vars => TypeOK' /\ DeliveryInv'
  BY TypeStep, QueueStep, RowsStep, AttemptsStep, DurableStep DEF DeliveryInv
<1> QED
  BY <1>1, DeliveryInit, PTL DEF Spec

\* Every variable of the demand cycle keeps its type; the count of receive
\* failures never reaches the one that costs the session (discardSpentSession).
THEOREM DeliveryTypesHold == Spec => []TypeOK
BY DeliveryInvariant, PTL

\* Never are two attempts of one workload open together, whatever is delivered,
\* redelivered, superseded or requeued (persistDelivery, the partial index
\* one_open_attempt_per_workload).
THEOREM OneAttemptIsOpen == Spec => []OneOpenAttempt
<1>1. ASSUME DeliveryInv PROVE OneOpenAttempt
  <2> SUFFICES ASSUME NEW w \in Workloads PROVE Cardinality(OpenAttemptsOf(w)) <= 1
    BY DEF OneOpenAttempt
  <2>1. \A x, y \in OpenAttemptsOf(w) : x = y
    BY <1>1 DEF DeliveryInv, AttemptsInv, OpenAttemptsOf
  <2>2. CASE OpenAttemptsOf(w) = {}
    BY <2>2, FS_EmptySet
  <2>3. CASE OpenAttemptsOf(w) # {}
    <3>1. PICK x : OpenAttemptsOf(w) = {x}
      BY <2>1, <2>3
    <3> QED
      BY <3>1, FS_Singleton
  <2> QED
    BY <2>2, <2>3
<1> QED
  BY <1>1, DeliveryInvariant, PTL

\* A superseded attempt has a younger successor of the same workload: no
\* accepted workload is closed with nothing to run it (SupersedeOpenAttempt).
THEOREM SupersededAlwaysHasSuccessor == Spec => []SupersededHasSuccessor
<1>1. DeliveryInv => SupersededHasSuccessor
  BY DEF DeliveryInv, AttemptsInv
<1> QED
  BY <1>1, DeliveryInvariant, PTL

\* A delivery recorded as confirmed is gone at the broker, whatever answer was
\* lost and wherever the loop crashed (acknowledgeDelivery).
THEOREM ConfirmedIsAlwaysDeleted == Spec => []ConfirmedIsDeleted
<1>1. TypeOK /\ DeliveryInv => ConfirmedIsDeleted
  BY Numbers DEF DeliveryInv, RowsInv, ConfirmedIsDeleted, Deleted, TypeOK, Messages
<1> QED
  BY <1>1, DeliveryInvariant, PTL

\* A message that comes again never reads as contract drift, whatever its
\* redeliveries acquired (RecordDelivery).
THEOREM DriftIsNeverFalse == Spec => []NoFalseDrift
<1>1. TypeOK /\ DeliveryInv => NoFalseDrift
  BY DEF DeliveryInv, QueueInv, RowsInv, NoFalseDrift, Drift, Fingerprint, InHand, TypeOK
<1> QED
  BY <1>1, DeliveryInvariant, PTL

\* Nothing is acknowledged before it is durable: a message the broker deletes
\* has an attempt for every workload it assigned and an event for every report
\* of one of our runners (bindingSupervisor.loop).
THEOREM DeletedIsAlwaysDurable == Spec => DeletedIsDurable
<1> DEFINE Durable ==
      \A m \in Deleted' \ Deleted :
        /\ \A w \in assigned[m] : att[<<m, w>>] # "none"
        /\ \A r \in reports[m] :
             r.run # NoRun /\ r.run[2] = r.w => <<r.run, r.canceled>> \in noted
<1>1. TypeOK /\ DeliveryInv /\ [Next]_vars => [Durable]_vars
  <2> SUFFICES ASSUME TypeOK, DeliveryInv, [Next]_vars, NEW m \in Deleted' \ Deleted
               PROVE  /\ \A w \in assigned[m] : att[<<m, w>>] # "none"
                      /\ \A r \in reports[m] :
                           r.run # NoRun /\ r.run[2] = r.w => <<r.run, r.canceled>> \in noted
    OBVIOUS
  <2>1. ~BrokerSends
    <3> SUFFICES ASSUME BrokerSends PROVE FALSE
      OBVIOUS
    <3>1. PICK A \in SUBSET Workloads, O \in SUBSET Workloads, R \in SUBSET Reports : Send(A, O, R)
      BY SentTypes
    <3>2. sent' = sent + 1 /\ queue' = queue \cup {sent + 1} /\ sent \in Nat
      BY <3>1 DEF Send, TypeOK
    <3> QED
      BY <3>2 DEF Deleted
  <2>2. queue' # queue \/ sent' # sent
    BY DEF Deleted
  <2>3. Acknowledge
    BY <2>1, <2>2
    DEF Next, Round, EnsureScaleSet, OpenSession, ReceiveFails, ReceiveEmpty, ReceiveWithoutOffers,
        Receive, PersistDelivery, LeaveForRedelivery, ReportsRecorded, RecordReport, AckRequested,
        AckRequestFails, RecordOutcome, Crash, LeaseAttempt, Serve, vars
  <2>4. m = cur /\ pc = "call"
    BY <2>3 DEF Acknowledge, BrokerDeletes, Deleted
  <2> QED
    BY <2>4 DEF DeliveryInv, DurableInv
<1> HIDE DEF Durable
<1>2. Spec => [][Durable]_vars
  BY <1>1, DeliveryInvariant, PTL DEF Spec
<1> QED
  BY <1>2 DEF DeletedIsDurable, Durable

\* A report that names the runner of an attempt of its own workload closes no
\* other attempt, so a late report about a predecessor leaves its successor
\* alone (attemptForObservation).
THEOREM CancelAlwaysHitsItsRun == Spec => CancelHitsItsRun
<1> DEFINE Hits ==
      \A x \in AttemptIds : att[x] = "ready" /\ att'[x] = "canceled"
        => \E r \in left \ left' : r.run # NoRun /\ r.run[2] = r.w => r.run = x
<1>1. TypeOK /\ [Next]_vars => [Hits]_vars
  <2> SUFFICES ASSUME TypeOK, [Next]_vars, NEW x \in AttemptIds, att[x] = "ready", att'[x] = "canceled"
               PROVE  \E r \in left \ left' : r.run # NoRun /\ r.run[2] = r.w => r.run = x
    OBVIOUS
  <2>1. ~(\E y \in AttemptIds : LeaseAttempt(y) \/ \E to \in States : Serve(y, to))
    BY DEF LeaseAttempt, Serve, Moves, TypeOK
  <2>2. ~PersistDelivery
    BY DEF PersistDelivery
  <2>3. ~BrokerSends
    BY SentTypes DEF Send
  <2>4. PICK r \in left : RecordReport(r)
    BY <2>1, <2>2, <2>3
    DEF Next, Round, EnsureScaleSet, OpenSession, ReceiveFails, ReceiveEmpty, ReceiveWithoutOffers,
        Receive, LeaveForRedelivery, ReportsRecorded, AckRequested, AckRequestFails, Acknowledge,
        RecordOutcome, Crash, vars
  <2>5. x \in SubjectOf(r) /\ r \in left \ left'
    BY <2>4 DEF RecordReport
  <2>6. r.run # NoRun /\ r.run[2] = r.w => r.run = x
    BY <2>5 DEF SubjectOf
  <2> QED
    BY <2>5, <2>6
<1> HIDE DEF Hits
<1>2. Spec => [][Hits]_vars
  BY <1>1, DeliveryTypesHold, PTL DEF Spec
<1> QED
  BY <1>2 DEF CancelHitsItsRun, Hits

=============================================================================
