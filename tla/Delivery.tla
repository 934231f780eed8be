------------------------------ MODULE Delivery ------------------------------
(***************************************************************************)
(* One binding's demand cycle: the broker's ordered queue of messages, the *)
(* session it is read through, the transaction that makes a message        *)
(* durable, the reports it carries and the acknowledgement that removes    *)
(* it.  The broker repeats a message until it is deleted; the controller   *)
(* may crash between any two steps.  What a serving does to an attempt     *)
(* meanwhile is reduced to what a delivery can tell apart.                 *)
(***************************************************************************)
EXTENDS Naturals, FiniteSets

CONSTANTS
  Workloads,    \* the provider's job identities
  MaxMessages,  \* bound: messages the broker sends
  MaxQueue,     \* bound: messages waiting at the broker at once
  MaxOffers,    \* bound: workloads offered in one message
  MaxReports,   \* bound: lifecycle reports in one message
  MaxCrashes,   \* bound: how often the controller crashes
  ReopenAfter   \* receive failures that cost the session

ASSUME DeliveryAssumption ==
  /\ {MaxMessages, MaxQueue, MaxOffers, MaxReports, MaxCrashes} \subseteq Nat
  /\ ReopenAfter \in Nat \ {0}

Messages == 1..MaxMessages

\* An attempt is one workload under one delivery.  No runtime is named by 0.
AttemptIds == Messages \X Workloads
NoRun == <<0, 0>>

VARIABLES
  (* the broker *)
  queue, sent,        \* messages not deleted; how many were sent, numbered in order
  assigned, offered,  \* message: workloads committed, workloads offered
  reports,            \* message: what it reports, of a workload and maybe a run
  (* the store *)
  ack, print,         \* delivery: acknowledgement state and fingerprint
  att,                \* attempt: state
  ran,                \* attempts whose runner ran, so that a report may name it
  noted,              \* events recorded for reports: attempt, and whether canceled
  (* the loop *)
  pc, cur, acquired,  \* step, message and grants of the round
  left,               \* reports of the message not recorded in this round
  session, failures,
  crashes

broker == <<queue, sent, assigned, offered, reports>>
books  == <<ack, print, att, ran, noted>>
loop   == <<pc, cur, acquired, left, session, failures>>
vars   == <<broker, books, loop, crashes>>

-----------------------------------------------------------------------------
AckStates == {"none", "pending", "requested", "uncertain", "confirmed"}

\* `leased` stands for the states before the start authorization, `started`
\* for an authorized start whose runner is not up, `running` for one whose
\* runner is, seen by the controller or not; `held` is a review of work that consumed nothing and
\* `unknown` the review of a start whose outcome nobody could prove.
States == {"none", "ready", "leased", "started", "running", "held", "unknown",
           "superseded", "canceled", "settled"}
Open == {"ready", "leased", "started", "running", "held", "unknown"}
Supersedable == {"ready", "leased", "held"}

LoopSteps == {"ensure", "session", "poll", "persist", "events", "request", "call", "confirm", "doubt"}

Reports == [w : Workloads, run : AttemptIds \cup {NoRun}, canceled : BOOLEAN]

TypeOK ==
  /\ queue \in SUBSET Messages /\ sent \in 0..MaxMessages
  /\ assigned \in [Messages -> SUBSET Workloads] /\ offered \in [Messages -> SUBSET Workloads]
  /\ reports \in [Messages -> SUBSET Reports] /\ left \in SUBSET Reports
  /\ ack \in [Messages -> AckStates] /\ print \in [Messages -> SUBSET Workloads]
  /\ att \in [AttemptIds -> States]
  /\ ran \in SUBSET AttemptIds /\ noted \in SUBSET (AttemptIds \X BOOLEAN)
  /\ pc \in LoopSteps /\ cur \in Messages \cup {0} /\ acquired \in SUBSET Workloads
  /\ session \in BOOLEAN /\ failures \in 0..(ReopenAfter - 1)
  /\ crashes \in 0..MaxCrashes

Init ==
  /\ queue = {} /\ sent = 0
  /\ assigned = [m \in Messages |-> {}] /\ offered = [m \in Messages |-> {}]
  /\ reports = [m \in Messages |-> {}]
  /\ ack = [m \in Messages |-> "none"] /\ print = [m \in Messages |-> {}]
  /\ att = [x \in AttemptIds |-> "none"]
  /\ ran = {} /\ noted = {}
  /\ pc = "ensure" /\ cur = 0 /\ acquired = {} /\ left = {} /\ session = FALSE /\ failures = 0
  /\ crashes = 0

-----------------------------------------------------------------------------
(* The broker *)

\* A message assigns, offers and reports.  A workload may be assigned again by
\* a later message; a report may name the runner that had the job.
Send(A, O, R) ==
  /\ sent < MaxMessages /\ Cardinality(queue) < MaxQueue
  /\ sent' = sent + 1
  /\ queue' = queue \cup {sent + 1}
  /\ assigned' = [assigned EXCEPT ![sent + 1] = A]
  /\ offered' = [offered EXCEPT ![sent + 1] = O]
  /\ reports' = [reports EXCEPT ![sent + 1] = R]
  /\ UNCHANGED <<books, loop, crashes>>

\* The subsets of S with at most n members.
UpTo(n, S) == {{}} \cup {{f[i] : i \in 1..n} : f \in [1..n -> S]}

BrokerSends ==
  \E A \in SUBSET Workloads : \E O \in UpTo(MaxOffers, Workloads \ A) :
  \E R \in UpTo(MaxReports, [w : Workloads, run : ran \cup {NoRun}, canceled : BOOLEAN]) :
    Send(A, O, R)

\* The broker hands out its messages in the order it sent them.
Oldest == CHOOSE m \in queue : \A n \in queue : m <= n

-----------------------------------------------------------------------------
(* bindingSupervisor.loop *)

Goto(step) == pc' = step

\* Backing off or giving a message up ends in the next round of the loop.
NextRound == pc' = "session" /\ cur' = 0 /\ acquired' = {} /\ left' = {}

EnsureScaleSet ==
  /\ pc = "ensure" /\ Goto("session")
  /\ UNCHANGED <<broker, books, cur, acquired, left, session, failures, crashes>>

\* With a session the round goes on to poll; a refused open is retried.
OpenSession ==
  /\ pc = "session"
  /\ session' = TRUE /\ Goto("poll")
  /\ UNCHANGED <<broker, books, cur, acquired, left, failures, crashes>>

\* Mutant: a spent session is kept.
CountFailure_KeepsSession == failures' = failures + 1 /\ UNCHANGED session

\* discardSpentSession: a run of failures costs the session, not the binding.
CountFailure ==
  IF failures + 1 < ReopenAfter
    THEN failures' = failures + 1 /\ UNCHANGED session
    ELSE failures' = 0 /\ session' = FALSE

ReceiveFails ==
  /\ pc = "poll" /\ CountFailure /\ NextRound
  /\ UNCHANGED <<broker, books, crashes>>

ReceiveEmpty ==
  /\ pc = "poll" /\ queue = {}
  /\ failures' = 0 /\ NextRound
  /\ UNCHANGED <<broker, books, session, crashes>>

\* The oldest message, with whatever the broker grants of its offers.
Receive(grants) ==
  /\ pc = "poll" /\ queue # {} /\ grants \subseteq offered[Oldest]
  /\ cur' = Oldest /\ acquired' = grants /\ UNCHANGED left
  /\ failures' = 0
  /\ Goto("persist")
  /\ UNCHANGED <<broker, books, session, crashes>>

\* The acquisition failed: the rest of the message is processed unless that
\* was the failure that cost the session.
ReceiveWithoutOffers ==
  /\ pc = "poll" /\ queue # {} /\ offered[Oldest] # {}
  /\ CountFailure
  /\ IF session' THEN cur' = Oldest /\ Goto("persist") /\ UNCHANGED <<acquired, left>>
     ELSE NextRound
  /\ UNCHANGED <<broker, books, crashes>>

Admitted == assigned[cur] \cup acquired
OpenAttemptsOf(w) == {x \in AttemptIds : x[2] = w /\ att[x] \in Open}

\* Attempts of other deliveries in the way of this one.
Conflicts == UNION {{x \in OpenAttemptsOf(w) : x[1] # cur} : w \in Admitted}
Missing   == {w \in Admitted : att[<<cur, w>>] = "none"}

\* Mutant: no index forbids a second open attempt of a workload.
InTheWay_NoIndex == FALSE

\* An insert the partial unique index of open attempts refuses.
InTheWay == \E w \in Missing : \E x \in Conflicts : x[2] = w

\* Mutant: the fingerprint covers what was acquired too.
Fingerprint_Admitted == Admitted

\* The broker's own payload, never what an acquisition happened to grant.
Fingerprint == assigned[cur]

\* A different payload under a known delivery key.
Drift == ack[cur] # "none" /\ print[cur] # Fingerprint

\* Mutant: the sweep takes this delivery's own attempts for predecessors.
Superseded_OwnToo == IF InTheWay THEN Conflicts \cup ({cur} \X (Missing \ {x[2] : x \in Conflicts})) ELSE {}

\* The sweep runs once an insert met an open attempt, over every admitted
\* workload, and leaves this delivery's own attempts alone.
Superseded == IF InTheWay THEN Conflicts ELSE {}

\* SupersedeAttempt matches only what consumed nothing.
Gives(x) == att[x] \in Supersedable

\* persistDelivery: delivery, predecessors and attempts in one transaction.
PersistDelivery ==
  /\ pc = "persist" /\ ~Drift
  /\ \A x \in Superseded : att[x] \in Open => Gives(x)
  /\ att' = [x \in AttemptIds |->
               IF x \in Superseded THEN "superseded"
               ELSE IF x[1] = cur /\ x[2] \in Missing THEN "ready" ELSE att[x]]
  /\ ack' = [ack EXCEPT ![cur] = IF @ = "none" THEN "pending" ELSE @]
  /\ print' = [print EXCEPT ![cur] = IF ack[cur] = "none" THEN Fingerprint ELSE @]
  /\ left' = reports[cur] /\ Goto("events")
  /\ UNCHANGED <<broker, ran, noted, cur, acquired, session, failures, crashes>>

\* Mutant: a message that could not be made durable is acknowledged as well.
LeaveForRedelivery_Ack ==
  /\ pc \in {"persist", "events"} /\ Goto("request")
  /\ UNCHANGED <<broker, books, cur, acquired, left, session, failures, crashes>>

\* The store refused: drift, a predecessor that does not give way, an error;
\* or one of the message's events could not be recorded.
LeaveForRedelivery ==
  /\ pc \in {"persist", "events"} /\ NextRound
  /\ UNCHANGED <<broker, books, session, failures, crashes>>

\* Mutant: a report goes to whatever attempt of the workload is open.
SubjectOf_ByWorkload(r) == OpenAttemptsOf(r.w)

\* attemptForObservation: the workload's open attempt, unless the runner named
\* ran an earlier attempt of the same workload; with none open, the runner's.
SubjectOf(r) ==
  LET open == OpenAttemptsOf(r.w) IN
  IF open # {} /\ (r.run = NoRun \/ r.run[2] # r.w) THEN open
  ELSE IF r.run = NoRun THEN {} ELSE {r.run}

\* recordLifecycleEvents, one report: a cancellation closes its row only if it
\* is ready, the event is recorded either way, and both commit together.
RecordReport(r) ==
  LET subject == SubjectOf(r) IN
  /\ pc = "events" /\ r \in left /\ left' = left \ {r}
  /\ att' = [x \in AttemptIds |->
               IF x \in subject /\ r.canceled /\ att[x] = "ready" THEN "canceled" ELSE att[x]]
  /\ noted' = noted \cup (subject \X {r.canceled})
  /\ UNCHANGED <<broker, ack, print, ran, pc, cur, acquired, session, failures, crashes>>

\* Every report is recorded: on to the acknowledgement.
ReportsRecorded ==
  /\ pc = "events" /\ left = {} /\ Goto("request")
  /\ UNCHANGED <<broker, books, cur, acquired, left, session, failures, crashes>>

\* Mutant: a delivery left in flight by a crash is not asked about again.
AckRequested_NotAgain ==
  /\ pc = "request"
  /\ IF ack[cur] \in {"pending", "uncertain"}
       THEN ack' = [ack EXCEPT ![cur] = "requested"] /\ Goto("call") /\ UNCHANGED <<cur, acquired, left>>
       ELSE NextRound /\ UNCHANGED ack
  /\ UNCHANGED <<broker, print, att, ran, noted, session, failures, crashes>>

\* The in-flight mark commits before the call; a confirmed delivery is skipped.
AckRequested ==
  /\ pc = "request"
  /\ IF ack[cur] # "confirmed"
       THEN ack' = [ack EXCEPT ![cur] = "requested"] /\ Goto("call") /\ UNCHANGED <<cur, acquired, left>>
       ELSE NextRound /\ UNCHANGED ack
  /\ UNCHANGED <<broker, print, att, ran, noted, session, failures, crashes>>

\* The mark could not be written: the message is left for redelivery.
AckRequestFails ==
  /\ pc = "request" /\ NextRound
  /\ UNCHANGED <<broker, books, session, failures, crashes>>

\* DeleteMessage at the broker, which forgets the message.
BrokerDeletes ==
  /\ queue' = queue \ {cur}
  /\ assigned' = [assigned EXCEPT ![cur] = {}] /\ offered' = [offered EXCEPT ![cur] = {}]
  /\ reports' = [reports EXCEPT ![cur] = {}]
  /\ UNCHANGED sent

\* The delete lands or not, and its answer arrives or not.
Acknowledge ==
  /\ pc = "call"
  /\ \/ BrokerDeletes /\ Goto("confirm")
     \/ BrokerDeletes /\ Goto("doubt")
     \/ UNCHANGED broker /\ Goto("doubt")
  /\ UNCHANGED <<books, cur, acquired, left, session, failures, crashes>>

\* Mutant: an ambiguous answer is recorded as a success.
Outcome_Optimistic == "confirmed"

Outcome == IF pc = "confirm" THEN "confirmed" ELSE "uncertain"

\* The outcome is recorded, or the write is lost and only logged.
RecordOutcome ==
  /\ pc \in {"confirm", "doubt"}
  /\ ack' \in {ack, [ack EXCEPT ![cur] = Outcome]}
  /\ NextRound
  /\ UNCHANGED <<broker, print, att, ran, noted, session, failures, crashes>>

Crash ==
  /\ crashes < MaxCrashes /\ crashes' = crashes + 1
  /\ pc' = "ensure" /\ cur' = 0 /\ acquired' = {} /\ left' = {} /\ session' = FALSE /\ failures' = 0
  /\ UNCHANGED <<broker, books>>

-----------------------------------------------------------------------------
(* What a serving and an operator do to an attempt (see Serving) *)

\* A start proven inert is requeued; a person decides about what is held.
Moves == {<<"leased", "started">>, <<"leased", "ready">>, <<"leased", "held">>,
          <<"started", "ready">>, <<"started", "running">>, <<"started", "unknown">>,
          <<"running", "unknown">>, <<"running", "settled">>,
          <<"held", "ready">>, <<"held", "settled">>, <<"unknown", "ready">>, <<"unknown", "settled">>}

\* scheduler.schedule runs on the loop's goroutine, once the scale set is
\* known and between two messages.
LeaseAttempt(x) ==
  /\ pc = "session" /\ att[x] = "ready"
  /\ att' = [att EXCEPT ![x] = "leased"]
  /\ UNCHANGED <<broker, ack, print, ran, noted, loop, crashes>>

Serve(x, to) ==
  /\ <<att[x], to>> \in Moves
  /\ att' = [att EXCEPT ![x] = to]
  /\ ran' = IF to = "running" THEN ran \cup {x} ELSE ran
  /\ UNCHANGED <<broker, ack, print, noted, loop, crashes>>

-----------------------------------------------------------------------------
Round ==
  \/ EnsureScaleSet \/ OpenSession \/ ReceiveFails \/ ReceiveEmpty \/ ReceiveWithoutOffers
  \/ \E grants \in SUBSET Workloads : Receive(grants)
  \/ PersistDelivery \/ LeaveForRedelivery \/ ReportsRecorded
  \/ \E r \in left : RecordReport(r)
  \/ AckRequested \/ AckRequestFails \/ Acknowledge \/ RecordOutcome

Next ==
  \/ BrokerSends \/ Round \/ Crash
  \/ \E x \in AttemptIds : LeaseAttempt(x) \/ \E to \in States : Serve(x, to)

Spec == Init /\ [][Next]_vars

(***************************************************************************)
(* Fairness.  The loop runs; a receive, a persist, a record and a delete   *)
(* that are retried for ever succeed in the end; the provider is up long   *)
(* enough for that, servings end (the retry budget bounds the starts that  *)
(* prove inert) and a person decides about what is held.                   *)
(***************************************************************************)
Lands == pc = "call" /\ Acknowledge /\ queue' # queue

Fairness ==
  /\ WF_vars(Round)
  /\ SF_vars(\E grants \in SUBSET Workloads : Receive(grants))
  /\ SF_vars(PersistDelivery) /\ SF_vars(ReportsRecorded)
  /\ SF_vars(\E r \in left : RecordReport(r))
  /\ SF_vars(AckRequested) /\ SF_vars(Lands)
  /\ SF_vars(\E x \in AttemptIds : Serve(x, "running"))
  /\ SF_vars(\E x \in AttemptIds : Serve(x, "settled"))

FairSpec == Spec /\ Fairness

-----------------------------------------------------------------------------
(* Properties *)

Deleted == (1..sent) \ queue

\* "Persist before acknowledging": a message the broker deletes has left an
\* attempt for every workload it assigned, and an event at the attempt a
\* report names for every report of one of our runners.
DeletedIsDurable ==
  [][\A m \in Deleted' \ Deleted :
       /\ \A w \in assigned[m] : att[<<m, w>>] # "none"
       /\ \A r \in reports[m] :
            r.run # NoRun /\ r.run[2] = r.w => <<r.run, r.canceled>> \in noted]_vars

\* A superseded attempt has a successor: the workload was handed over again by
\* a later delivery, so no accepted workload is closed with nothing to run it
\* (SupersedeOpenAttempt's exceptDelivery).
SupersededHasSuccessor ==
  \A x \in AttemptIds : att[x] = "superseded"
    => \E y \in AttemptIds : y[2] = x[2] /\ y[1] > x[1] /\ att[y] # "none"

\* "never are two attempts of one workload live together" (persistDelivery).
OneOpenAttempt == \A w \in Workloads : Cardinality(OpenAttemptsOf(w)) <= 1

\* A delivery recorded as confirmed is gone at the broker, so the branch that
\* skips a confirmed delivery never skips one the broker still holds.
ConfirmedIsDeleted == \A m \in Messages : ack[m] = "confirmed" => m \in Deleted

\* The same message never reads as contract drift, whatever its redeliveries
\* acquired.
NoFalseDrift == pc = "persist" => ~Drift

\* A cancellation of a run closes no other attempt of that run's workload: a
\* late report about a predecessor leaves its successor alone.
CancelHitsItsRun ==
  [][\A x \in AttemptIds : att[x] = "ready" /\ att'[x] = "canceled"
       => \E r \in left \ left' : r.run # NoRun /\ r.run[2] = r.w => r.run = x]_vars

\* A cancellation closes only an attempt of the workload it names.
CancelNamesItsWorkload ==
  [][\A x \in AttemptIds : att[x] = "ready" /\ att'[x] = "canceled"
       => \E r \in left : r.w = x[2]]_vars

\* Every message is deleted in the end: a crash with an acknowledgement in
\* flight, a lost answer or a predecessor still at work delays the ordered
\* queue and does not block it.
QueueAdvances == \A m \in Messages : m <= sent ~> m \in Deleted

=============================================================================
