--------------------------- MODULE Serving_proofs ---------------------------
(***************************************************************************)
(* Theorems about Serving, for every set of attempts and leases and every  *)
(* parallelism, budget and bound.  A theorem that needs a start never to   *)
(* land late, or a capsule never to be killed, says ~LateStart or ~Kills;  *)
(* the others hold for both settings.                                      *)
(***************************************************************************)
EXTENDS Serving, FiniteSetTheorems, TLAPS

(* The tuples that group variables in UNCHANGED are only abbreviations. *)
USE DEF attemptRow, leaseRow, host, driver, pass, process, admission, history

-----------------------------------------------------------------------------
(* Type correctness *)

\* Every initial value has its type.
LEMMA TypeInit == Init => TypeOK
<1> SUFFICES ASSUME Init PROVE TypeOK
  OBVIOUS
<1>1. /\ astate \in [Attempts -> AttemptStates] /\ aev \in [Attempts -> Evidence]
      /\ ares \in [Attempts -> Resolutions] /\ arunner \in [Attempts -> Leases \cup {NoLease}]
  BY DEF Init, AttemptStates, Evidence, Resolutions
<1>2. /\ lstate \in [Leases -> LeaseStates] /\ lattempt \in [Leases -> Attempts \cup {NoAttempt}]
      /\ lobs \in [Leases -> Establishes \cup {"none"}] /\ owns \in [Leases -> BOOLEAN]
  BY DEF Init, LeaseStates
<1>3. /\ cap \in [Leases -> CapsuleStates] /\ late \in [Leases -> BOOLEAN]
      /\ reg \in [Leases -> Registrations]
  BY DEF Init, CapsuleStates, Registrations
<1>4. /\ pc \in [Drivers -> Steps] /\ obs \in [Drivers -> Observations]
  BY DEF Init, Steps, Observations
<1>5. /\ execs \in [Attempts -> Nat] /\ begun \in [Attempts -> BOOLEAN]
      /\ resolves \in [Attempts -> Nat]
  BY DEF Init
<1> QED
  BY <1>1, <1>2, <1>3, <1>4, <1>5 DEF Init, TypeOK, Phases, CreateOutcomes

\* What the end of the process leaves of the controller's memory has its type.
LEMMA TypeProcessEnds == ASSUME TypeOK, ProcessEnds PROVE TypeOK'
<1>1. pc' \in [Drivers -> Steps] /\ obs' \in [Drivers -> Observations]
  BY DEF ProcessEnds, Steps, Observations
<1>2. phase' \in Phases /\ recLease' \in Leases \cup {NoLease} /\ resuming' \in BOOLEAN
  BY DEF ProcessEnds, Phases
<1>3. restarts' \in Nat /\ credits' \in Nat /\ sched' \in Attempts \cup {NoAttempt}
  BY DEF TypeOK, ProcessEnds
<1>4. stray' \in [Leases -> CreateOutcomes]
  BY DEF TypeOK, ProcessEnds, LoseCreates, CreateOutcomes
<1> QED
  BY <1>1, <1>2, <1>3, <1>4 DEF TypeOK, ProcessEnds

\* A sweep leaves a lease's capsule, start and intents alone, or it takes the
\* capsule of one that it was not to keep.
LEMMA SweepTakes ==
  ASSUME TypeOK, NEW keep, SweepOrphans(keep)
  PROVE  /\ cap' \in [Leases -> CapsuleStates] /\ late' \in [Leases -> BOOLEAN]
         /\ stray' \in [Leases -> CreateOutcomes] /\ owns' \in [Leases -> BOOLEAN]
         /\ \A l \in Leases :
              \/ /\ cap'[l] = cap[l] /\ late'[l] = late[l]
                 /\ stray'[l] = stray[l] /\ owns'[l] = owns[l]
              \/ /\ l \notin keep /\ cap'[l] = "absent" /\ ~late'[l]
                 /\ stray'[l] # "landed" /\ stray'[l] \in {stray[l], "none"}
                 /\ owns'[l] => owns[l]
<1>1. PICK swept \in SUBSET {l \in Leases \ keep : owns[l] \/ cap[l] # "absent"} :
        \E forgotten \in SUBSET swept :
          /\ cap' = [l \in Leases |-> IF l \in swept THEN "absent" ELSE cap[l]]
          /\ late' = [l \in Leases |-> IF l \in swept THEN FALSE ELSE late[l]]
          /\ stray' = [l \in Leases |->
                         IF l \in swept /\ stray[l] = "landed" THEN "none" ELSE stray[l]]
          /\ owns' = [l \in Leases |-> IF l \in forgotten THEN FALSE ELSE owns[l]]
  BY Zenon DEF SweepOrphans
<1>2. PICK forgotten \in SUBSET swept :
          /\ cap' = [l \in Leases |-> IF l \in swept THEN "absent" ELSE cap[l]]
          /\ late' = [l \in Leases |-> IF l \in swept THEN FALSE ELSE late[l]]
          /\ stray' = [l \in Leases |->
                         IF l \in swept /\ stray[l] = "landed" THEN "none" ELSE stray[l]]
          /\ owns' = [l \in Leases |-> IF l \in forgotten THEN FALSE ELSE owns[l]]
  BY <1>1
<1>3. cap' \in [Leases -> CapsuleStates] /\ stray' \in [Leases -> CreateOutcomes]
  BY <1>2 DEF TypeOK, CapsuleStates, CreateOutcomes
<1>4. late' \in [Leases -> BOOLEAN] /\ owns' \in [Leases -> BOOLEAN]
  <2>1. late \in [Leases -> BOOLEAN] /\ owns \in [Leases -> BOOLEAN]
    BY DEF TypeOK
  <2> QED
    BY <1>2, <2>1, Zenon
<1>5. ASSUME NEW l \in Leases
      PROVE  \/ /\ cap'[l] = cap[l] /\ late'[l] = late[l]
                /\ stray'[l] = stray[l] /\ owns'[l] = owns[l]
             \/ /\ l \notin keep /\ cap'[l] = "absent" /\ ~late'[l]
                /\ stray'[l] # "landed" /\ stray'[l] \in {stray[l], "none"}
                /\ owns'[l] => owns[l]
  <2>1. CASE l \in swept
    BY <1>1, <1>2, <2>1
  <2>2. CASE l \notin swept
    BY <1>2, <2>2
  <2> QED
    BY <2>1, <2>2
<1> QED
  BY <1>3, <1>4, <1>5

\* A step of one lease's goroutine keeps the types.
LEMMA TypeGoroutine ==
  ASSUME TypeOK, NEW l \in Leases, Claim(l) \/ Preparation(l) \/ Execution(l)
  PROVE  TypeOK'
<1>1. CASE Claim(l)
  BY <1>1 DEF TypeOK, Claim, Drivers, Step, Steps, PrepareSteps, StartSteps, AdoptSteps, CleanSteps
<1>2. CASE Launch(l)
  BY <1>2
  DEF TypeOK, Launch, Drivers, TransitionLease, LeaseStates, Step, Steps, PrepareSteps, StartSteps,
      AdoptSteps, CleanSteps
<1>3. CASE LeaseRunning(l)
  BY <1>3
  DEF TypeOK, LeaseRunning, Drivers, TransitionLease, LeaseStates, Step, Steps, PrepareSteps,
      StartSteps, AdoptSteps, CleanSteps
<1>4. CASE GenerateJITConfig(l)
  BY <1>4
  DEF TypeOK, GenerateJITConfig, Drivers, Registrations, Step, Steps, PrepareSteps, StartSteps,
      AdoptSteps, CleanSteps
<1>5. CASE RegisterRuntime(l)
  BY <1>5
  DEF TypeOK, RegisterRuntime, Drivers, TransitionLease, LeaseStates, Step, Steps, PrepareSteps,
      StartSteps, AdoptSteps, CleanSteps
<1>6. CASE AdvancePreparing(l)
  BY <1>6
  DEF TypeOK, AdvancePreparing, Drivers, TryAdvance, AttemptStates, Step, Steps, PrepareSteps,
      StartSteps, AdoptSteps, CleanSteps
<1>7. CASE AdvancePrepared(l)
  BY <1>7
  DEF TypeOK, AdvancePrepared, Drivers, TryAdvance, AttemptStates, Step, Steps, PrepareSteps,
      StartSteps, AdoptSteps, CleanSteps
<1>8. CASE AdvanceRunning(l)
  BY <1>8
  DEF TypeOK, AdvanceRunning, Drivers, TryAdvance, AttemptStates, Step, Steps, PrepareSteps,
      StartSteps, AdoptSteps, CleanSteps
<1>9. CASE PlanResources(l)
  BY <1>9
  DEF TypeOK, PlanResources, Drivers, Step, Steps, PrepareSteps, StartSteps, AdoptSteps, CleanSteps
<1>10. CASE CreateCapsule(l)
  BY <1>10
  DEF TypeOK, CreateCapsule, Drivers, CapsuleStates, Step, Steps, PrepareSteps, StartSteps,
      AdoptSteps, CleanSteps
<1>11. CASE BootCapsule(l)
  BY <1>11
  DEF TypeOK, BootCapsule, Drivers, CapsuleStates, Step, Steps, PrepareSteps, StartSteps,
      AdoptSteps, CleanSteps
<1>12. CASE IncompatibleImage(l)
  BY <1>12
  DEF TypeOK, IncompatibleImage, Drivers, CapsuleStates, AttemptStates, Step, Steps, PrepareSteps,
      StartSteps, AdoptSteps, CleanSteps
<1>13. CASE RecordPrepared(l)
  BY <1>13
  DEF TypeOK, RecordPrepared, Drivers, RecordEvidence, Evidence, Step, Steps, PrepareSteps,
      StartSteps, AdoptSteps, CleanSteps
<1>14. CASE RecordStartAuthorized(l)
  BY <1>14
  DEF TypeOK, RecordStartAuthorized, Drivers, RecordEvidence, Evidence, Step, Steps, PrepareSteps,
      StartSteps, AdoptSteps, CleanSteps
<1>15. CASE AuthorizeStart(l)
  BY <1>15
  DEF TypeOK, AuthorizeStart, Drivers, AttemptStates, Step, Steps, PrepareSteps, StartSteps,
      AdoptSteps, CleanSteps
<1>16. CASE Start(l)
  <2>1. pc' \in [Drivers -> Steps]
    BY <1>16 DEF TypeOK, Start, Drivers, Step, Steps, StartSteps
  <2>2. cap' \in [Leases -> CapsuleStates] /\ late' \in [Leases -> BOOLEAN]
    BY <1>16 DEF TypeOK, Start, CapsuleStates
  <2> QED
    BY <1>16, <2>1, <2>2 DEF TypeOK, Start
<1>17. CASE InspectStart(l)
  BY <1>17
  DEF TypeOK, InspectStart, Drivers, InspectExecution, CapsuleStates, Observations,
      TryRecordEvidence, RecordEvidence, Evidence, Step, Steps, PrepareSteps, StartSteps,
      AdoptSteps, CleanSteps
<1>18. CASE RecordRunning(l)
  BY <1>18
  DEF TypeOK, RecordRunning, Drivers, TryRecordEvidence, RecordEvidence, Evidence, Step, Steps,
      PrepareSteps, StartSteps, AdoptSteps, CleanSteps
<1>19. CASE WaitExit(l)
  BY <1>19
  DEF TypeOK, WaitExit, Drivers, TryRecordEvidence, RecordEvidence, Evidence, Observations, Step,
      Steps, PrepareSteps, StartSteps, AdoptSteps, CleanSteps
<1>20. CASE WalkToRunning(l)
  BY <1>20
  DEF TypeOK, WalkToRunning, Drivers, LeaseStates, Step, Steps, PrepareSteps, StartSteps,
      AdoptSteps, CleanSteps
<1>21. CASE Release(l)
  BY <1>21
  DEF TypeOK, Release, Drivers, TransitionThrough, LeaseStates, Step, Steps, PrepareSteps,
      StartSteps, AdoptSteps, CleanSteps
<1> QED
  BY <1>1, <1>2, <1>3, <1>4, <1>5, <1>6, <1>7, <1>8, <1>9, <1>10, <1>11, <1>12, <1>13, <1>14, <1>15,
     <1>16, <1>17, <1>18, <1>19, <1>20, <1>21
  DEF Preparation, Execution

\* A step of a cleanup, by a goroutine or by the reconciler, keeps the types.
LEMMA TypeCleanup ==
  ASSUME TypeOK, NEW d \in Drivers, Cleanup(d) \/ StepFails(d)
  PROVE  TypeOK'
<1>1. CASE Recover(d)
  BY <1>1
  DEF TypeOK, Recover, Drivers, Target, Done, LeaseStates, Step, Steps, PrepareSteps, StartSteps,
      AdoptSteps, CleanSteps
<1>2. CASE Deregister(d)
  BY <1>2
  DEF TypeOK, Deregister, Drivers, Target, ReadBack, Establishes, Observations, Registrations, Step,
      Steps, PrepareSteps, StartSteps, AdoptSteps, CleanSteps
<1>3. CASE RecordStartObservation(d)
  BY <1>3
  DEF TypeOK, RecordStartObservation, Drivers, Target, Step, Steps, PrepareSteps, StartSteps,
      AdoptSteps, CleanSteps
<1>4. CASE NothingToRemove(d)
  BY <1>4
  DEF TypeOK, NothingToRemove, Drivers, Target, Step, Steps, PrepareSteps, StartSteps, AdoptSteps,
      CleanSteps
<1>5. CASE ForgetResource(d)
  BY <1>5
  DEF TypeOK, ForgetResource, Drivers, Target, Step, Steps, PrepareSteps, StartSteps, AdoptSteps,
      CleanSteps
<1>6. CASE RemoveObject(d)
  BY <1>6
  DEF TypeOK, RemoveObject, Drivers, Target, CapsuleStates, CreateOutcomes, Step, Steps, PrepareSteps, StartSteps,
      AdoptSteps, CleanSteps
<1>7. CASE Finalize(d)
  BY <1>7
  DEF TypeOK, Finalize, Drivers, Target, Done, TransitionLease, LeaseStates, DisposeAttempt,
      AttemptStates, Evidence, Resolutions, Step, Steps, PrepareSteps, StartSteps, AdoptSteps,
      CleanSteps
<1>8. CASE Quarantine(d)
  BY <1>8
  DEF TypeOK, Quarantine, Drivers, Target, Failed, TransitionLease, LeaseStates, Step, Steps,
      PrepareSteps, StartSteps, AdoptSteps, CleanSteps
<1>9. CASE ReleaseCreditIfDone(d)
  BY <1>9
  DEF TypeOK, ReleaseCreditIfDone, Drivers, ReleaseCredits, Step, Steps, PrepareSteps, StartSteps,
      AdoptSteps, CleanSteps
<1>10. CASE Unclaim(d)
  BY <1>10
  DEF TypeOK, Unclaim, Drivers, Target, Observations, Step, Steps, PrepareSteps, StartSteps,
      AdoptSteps, CleanSteps
<1>11. CASE StepFails(d)
  BY <1>11
  DEF TypeOK, StepFails, LoseCreates, CreateOutcomes, Drivers, OnError, Failed, Observations, Step, Steps, PrepareSteps,
      StartSteps, AdoptSteps, CleanSteps
<1> QED
  BY <1>1, <1>2, <1>3, <1>4, <1>5, <1>6, <1>7, <1>8, <1>9, <1>10, <1>11 DEF Cleanup

\* A step of the startup pass or of the periodic pass keeps the types.
LEMMA TypeReconcile ==
  ASSUME TypeOK, Reconcile
  PROVE  TypeOK'
<1>1. ASSUME NEW keep \in BOOLEAN, BeginReconcile(keep) PROVE TypeOK'
  BY <1>1 DEF TypeOK, BeginReconcile, Phases, Live
<1>2. CASE FinishReconcile
  <2>1. /\ cap' \in [Leases -> CapsuleStates] /\ late' \in [Leases -> BOOLEAN]
        /\ stray' \in [Leases -> CreateOutcomes] /\ owns' \in [Leases -> BOOLEAN]
    BY <1>2, SweepTakes DEF FinishReconcile
  <2>2. credits' \in Nat
    <3>1. ASSUME NEW read \in SUBSET {l \in resolved : lstate[l] = "released"}
          PROVE  Cardinality(read) \in Nat
      BY ServingAssumption, FS_Subset, FS_CardinalityType DEF TypeOK
    <3> QED
      BY <1>2, <3>1 DEF TypeOK, FinishReconcile, ReleaseCredits
  <2> QED
    BY <1>2, <2>1, <2>2 DEF TypeOK, FinishReconcile, Phases
<1>3. CASE ReconcileFails
  BY <1>3 DEF TypeOK, ReconcileFails, Phases
<1>4. CASE BeginPass
  BY <1>4 DEF TypeOK, BeginPass, Live
<1>5. ASSUME NEW l \in Leases, Adopt(l) PROVE TypeOK'
  BY <1>5 DEF TypeOK, Drivers, Adopt, Step, Steps, PrepareSteps, StartSteps, AdoptSteps, CleanSteps
<1>6. ASSUME NEW l \in Leases, ResolveInterrupted(l) PROVE TypeOK'
  <2>1. InspectExecution(cap[l]) \subseteq Observations /\ "absent" \in Observations
    BY DEF TypeOK, InspectExecution, CapsuleStates, Observations
  <2>2. obs' \in [Drivers -> Observations]
    BY <1>6, <2>1 DEF TypeOK, ResolveInterrupted
  <2>3. aev' \in [Attempts -> Evidence]
    BY <1>6 DEF TypeOK, ResolveInterrupted, TryRecordEvidence, RecordEvidence, Evidence
  <2>4. /\ pc' \in [Drivers -> Steps]
        /\ recLease' \in Leases \cup {NoLease} /\ resuming' \in BOOLEAN
    BY <1>6 DEF TypeOK, ResolveInterrupted, Step, Steps, CleanSteps
  <2> QED
    BY <1>6, <2>2, <2>3, <2>4 DEF TypeOK, ResolveInterrupted
<1>7. ASSUME NEW l \in Leases, RetryStranded(l) PROVE TypeOK'
  BY <1>7
  DEF TypeOK, Drivers, RetryStranded, Step, Steps, PrepareSteps, StartSteps, AdoptSteps, CleanSteps
<1>8. ASSUME NEW l \in Leases, SkipStranded(l) PROVE TypeOK'
  BY <1>8 DEF TypeOK, Drivers, SkipStranded
<1>9. CASE SweepPeriodically
  <2>1. /\ cap' \in [Leases -> CapsuleStates] /\ late' \in [Leases -> BOOLEAN]
        /\ stray' \in [Leases -> CreateOutcomes] /\ owns' \in [Leases -> BOOLEAN]
    BY <1>9, SweepTakes DEF SweepPeriodically
  <2> QED
    BY <1>9, <2>1 DEF TypeOK, SweepPeriodically
<1> QED
  BY <1>1, <1>2, <1>3, <1>4, <1>5, <1>6, <1>7, <1>8, <1>9 DEF Reconcile

\* A step of the process keeps the types.
LEMMA TypeProcess ==
  ASSUME TypeOK, Process
  PROVE  TypeOK'
<1>1. CASE BeginDrain
  BY <1>1 DEF TypeOK, BeginDrain, Drivers, Phases
<1>2. CASE DrainWindowElapses
  BY <1>2 DEF TypeOK, DrainWindowElapses, Drivers, Phases
<1>3. CASE Crash
  BY <1>3, TypeProcessEnds DEF Crash
<1>4. CASE Drained
  BY <1>4, TypeProcessEnds DEF Drained
<1>5. CASE Abandon
  BY <1>5, TypeProcessEnds DEF Abandon
<1> QED
  BY <1>1, <1>2, <1>3, <1>4, <1>5 DEF Process

\* A step of a capsule, of the provider or of an operator keeps the types.
LEMMA TypeOutside ==
  ASSUME TypeOK, (\E l \in Leases : Capsule(l)) \/ (\E a \in Attempts : Outside(a))
  PROVE  TypeOK'
<1>1. ASSUME NEW l \in Leases, Fork(l) PROVE TypeOK'
  BY <1>1 DEF TypeOK, Fork, CapsuleStates, Registrations
<1>2. ASSUME NEW l \in Leases, AbortCapsule(l) PROVE TypeOK'
  BY <1>2 DEF TypeOK, AbortCapsule, CapsuleStates, Registrations
<1>3. ASSUME NEW l \in Leases, RunnerExits(l) PROVE TypeOK'
  BY <1>3 DEF TypeOK, RunnerExits, CapsuleStates, Registrations
<1>4. ASSUME NEW l \in Leases, Kill(l) PROVE TypeOK'
  BY <1>4 DEF TypeOK, Kill, CapsuleStates, Registrations
<1>5. ASSUME NEW l \in Leases, LateStartLands(l) PROVE TypeOK'
  BY <1>5 DEF TypeOK, LateStartLands, CapsuleStates, Registrations
<1>6. ASSUME NEW l \in Leases, TakeJob(l) PROVE TypeOK'
  <2>1. execs' \in [Attempts -> Nat]
    <3>1. CASE lattempt[l] \in Attempts
      BY <1>6, <3>1 DEF TypeOK, TakeJob
    <3>2. CASE lattempt[l] \notin Attempts
      BY <1>6, <3>2 DEF TypeOK, TakeJob
    <3> QED
      BY <3>1, <3>2
  <2> QED
    BY <1>6, <2>1 DEF TypeOK, TakeJob, Registrations
<1>7. ASSUME NEW l \in Leases, ExpireRunner(l) PROVE TypeOK'
  BY <1>7 DEF TypeOK, ExpireRunner, CapsuleStates, Registrations
<1>8. ASSUME NEW a \in Attempts, Deliver(a) PROVE TypeOK'
  BY <1>8 DEF TypeOK, Deliver, AttemptStates, Evidence, Resolutions
<1>9. ASSUME NEW a \in Attempts, Supersede(a) PROVE TypeOK'
  BY <1>9 DEF TypeOK, Supersede, AttemptStates, Evidence, Resolutions
<1>10. ASSUME NEW a \in Attempts, CancelReady(a) PROVE TypeOK'
  BY <1>10 DEF TypeOK, CancelReady, AttemptStates, Evidence, Resolutions
<1>11. ASSUME NEW a \in Attempts, ResolveReviewToReady(a) PROVE TypeOK'
  BY <1>11 DEF TypeOK, ResolveReviewToReady, AttemptStates, Evidence, Resolutions
<1>12. ASSUME NEW a \in Attempts, ResolveReviewToSettled(a) PROVE TypeOK'
  BY <1>12 DEF TypeOK, ResolveReviewToSettled, AttemptStates, Evidence, Resolutions
<1>13. ASSUME NEW l \in Leases, LateCreateLands(l) PROVE TypeOK'
  BY <1>13 DEF TypeOK, LateCreateLands, CapsuleStates, CreateOutcomes
<1> QED
  BY <1>1, <1>2, <1>3, <1>4, <1>5, <1>6, <1>7, <1>8, <1>9, <1>10, <1>11, <1>12, <1>13
  DEF Capsule, Outside

\* Every step keeps the types.
LEMMA TypeStep == TypeOK /\ [Next]_vars => TypeOK'
<1> SUFFICES ASSUME TypeOK, [Next]_vars PROVE TypeOK'
  OBVIOUS
<1>1. CASE UNCHANGED vars
  BY <1>1 DEF TypeOK, vars
<1>2. CASE CreateLeaseFails
  BY <1>2 DEF TypeOK, CreateLeaseFails, ReleaseCredits
<1>3. ASSUME NEW a \in Attempts, Reserve(a) PROVE TypeOK'
  BY <1>3 DEF TypeOK, Reserve
<1>4. ASSUME NEW l \in Leases, CreateLease(l) PROVE TypeOK'
  BY <1>4 DEF TypeOK, CreateLease, Drivers, AttemptStates, LeaseStates, Step, Steps
<1> QED
  BY <1>1, <1>2, <1>3, <1>4, TypeGoroutine, TypeCleanup, TypeReconcile, TypeProcess, TypeOutside
  DEF Next, Admission

\* The rows, the host, the provider and the controller's memory keep their
\* types in every behaviour: among others a lease's start_observation only
\* ever holds what establishes something, and no count goes below zero.
THEOREM TypeCorrect == Spec => []TypeOK
<1> QED
  BY TypeInit, TypeStep, PTL DEF Spec

-----------------------------------------------------------------------------
(* No attempt is stranded *)

\* An attempt stays with its live lease while no attempt newly enters a
\* serving, no lease stops being live and none changes its attempt.
LEMMA KeepsLease ==
  ASSUME NoStranded, UNCHANGED lattempt,
         \A a \in Attempts : astate'[a] \in Served => astate[a] \in Served,
         \A l \in Leases : lstate[l] \in LiveLeaseStates => lstate'[l] \in LiveLeaseStates
  PROVE  NoStranded'
  BY DEF NoStranded, LiveLeasesOf, Live

\* The steps of goroutines and reconciler that write neither an attempt's state
\* nor a lease's state.
LEMMA RowsUntouched ==
  ASSUME \/ \E l \in Leases :
              \/ Claim(l) \/ GenerateJITConfig(l) \/ PlanResources(l) \/ CreateCapsule(l)
              \/ BootCapsule(l) \/ RecordPrepared(l) \/ RecordStartAuthorized(l) \/ Start(l)
              \/ InspectStart(l) \/ RecordRunning(l) \/ WaitExit(l)
         \/ \E d \in Drivers :
              \/ Deregister(d) \/ RecordStartObservation(d) \/ NothingToRemove(d) \/ RemoveObject(d)
              \/ ForgetResource(d) \/ StepFails(d) \/ ReleaseCreditIfDone(d) \/ Unclaim(d)
         \/ \E l \in Leases :
              \/ Fork(l) \/ AbortCapsule(l) \/ RunnerExits(l) \/ Kill(l) \/ LateCreateLands(l)
              \/ LateStartLands(l) \/ TakeJob(l) \/ ExpireRunner(l)
         \/ \E l \in Leases :
              \/ Adopt(l) \/ ResolveInterrupted(l) \/ RetryStranded(l) \/ SkipStranded(l)
         \/ \E a \in Attempts : Reserve(a)
         \/ \E keep \in BOOLEAN : BeginReconcile(keep)
         \/ CreateLeaseFails \/ FinishReconcile \/ ReconcileFails \/ BeginPass
         \/ SweepPeriodically \/ Crash \/ BeginDrain \/ Drained \/ DrainWindowElapses \/ Abandon
  PROVE  UNCHANGED <<astate, lstate, lattempt>>
BY DEF Claim, GenerateJITConfig, PlanResources, CreateCapsule, BootCapsule, RecordPrepared,
     RecordStartAuthorized, Start, InspectStart, RecordRunning, WaitExit, Deregister,
     RecordStartObservation, NothingToRemove, RemoveObject, ForgetResource, StepFails,
     ReleaseCreditIfDone, Unclaim, Fork, AbortCapsule, RunnerExits, Kill, LateCreateLands,
     LateStartLands, TakeJob, ExpireRunner, Adopt, ResolveInterrupted, RetryStranded, SkipStranded, Reserve,
     BeginReconcile, CreateLeaseFails, FinishReconcile, ReconcileFails, BeginPass,
     SweepPeriodically, Crash, BeginDrain, Drained, DrainWindowElapses, Abandon, ProcessEnds

\* Neither a lease's transition before its release nor an attempt's advance
\* strands an attempt.
LEMMA StrandedGoroutine ==
  ASSUME TypeOK, NoStranded, NEW l \in Leases,
         \/ Launch(l) \/ RegisterRuntime(l) \/ AdvancePreparing(l) \/ IncompatibleImage(l)
         \/ AdvancePrepared(l) \/ AuthorizeStart(l) \/ AdvanceRunning(l) \/ LeaseRunning(l)
         \/ WalkToRunning(l) \/ Release(l)
  PROVE  NoStranded'
<1>1. CASE AdvancePreparing(l)
  BY <1>1, KeepsLease DEF TypeOK, AdvancePreparing, TryAdvance, Served
<1>2. CASE AdvancePrepared(l)
  BY <1>2, KeepsLease DEF TypeOK, AdvancePrepared, TryAdvance, Served
<1>3. CASE AdvanceRunning(l)
  BY <1>3, KeepsLease DEF TypeOK, AdvanceRunning, TryAdvance, Served
<1>4. CASE IncompatibleImage(l)
  BY <1>4, KeepsLease DEF TypeOK, IncompatibleImage, Served
<1>5. CASE AuthorizeStart(l)
  BY <1>5, KeepsLease DEF TypeOK, AuthorizeStart, Served, PreAuthorization
<1>6. CASE Launch(l)
  BY <1>6, KeepsLease DEF TypeOK, Launch, TransitionLease, LiveLeaseStates, LeaseStates
<1>7. CASE RegisterRuntime(l)
  BY <1>7, KeepsLease DEF TypeOK, RegisterRuntime, TransitionLease, LiveLeaseStates, LeaseStates
<1>8. CASE LeaseRunning(l)
  BY <1>8, KeepsLease DEF TypeOK, LeaseRunning, TransitionLease, LiveLeaseStates, LeaseStates
<1>9. CASE WalkToRunning(l)
  BY <1>9, KeepsLease DEF TypeOK, WalkToRunning, LiveLeaseStates, LeaseStates
<1>10. CASE Release(l)
  BY <1>10, KeepsLease DEF TypeOK, Release, TransitionThrough, LiveLeaseStates, LeaseStates
<1> QED
  BY <1>1, <1>2, <1>3, <1>4, <1>5, <1>6, <1>7, <1>8, <1>9, <1>10

\* The finalizing transaction releases the lease and takes its attempt out of
\* the states of a serving.
LEMMA StrandedFinalize ==
  ASSUME TypeOK, NoStranded, NEW d \in Drivers, Finalize(d)
  PROVE  NoStranded'
<1> DEFINE l == Target(d)
<1>1. \A k \in Leases \ {l} : lstate'[k] = lstate[k]
  BY DEF TypeOK, Finalize, TransitionLease
<1>2. \A a \in Attempts : astate'[a] \in Served => astate[a] \in Served /\ a # lattempt[l]
  BY DEF TypeOK, Finalize, DisposeAttempt, DispositionOf, Served
<1>3. SUFFICES ASSUME NEW a \in Attempts, astate'[a] \in Served
              PROVE  LiveLeasesOf(a)' # {}
  BY DEF NoStranded
<1>4. PICK k \in Leases : lstate[k] \in LiveLeaseStates /\ lattempt[k] = a
  BY <1>2, <1>3 DEF NoStranded, LiveLeasesOf, Live
<1>5. k # l
  BY <1>2, <1>3, <1>4
<1> QED
  BY <1>1, <1>4, <1>5 DEF LiveLeasesOf, Live, Finalize

\* Admission puts an attempt into a serving together with the lease that ends it.
LEMMA StrandedCreate ==
  ASSUME TypeOK, NoStranded, NEW l \in Leases, CreateLease(l)
  PROVE  NoStranded'
<1>1. SUFFICES ASSUME NEW a \in Attempts, astate'[a] \in Served
              PROVE  \E k \in Leases : lstate'[k] \in LiveLeaseStates /\ lattempt'[k] = a
  BY DEF NoStranded, LiveLeasesOf, Live
<1>2. CASE a = sched
  BY <1>2 DEF TypeOK, CreateLease, LiveLeaseStates, LeaseStates
<1>3. CASE a # sched
  <2>1. astate[a] \in Served
    BY <1>1, <1>3 DEF TypeOK, CreateLease
  <2>2. PICK k \in Leases : lstate[k] \in LiveLeaseStates /\ lattempt[k] = a
    BY <2>1 DEF NoStranded, LiveLeasesOf, Live
  <2>3. k # l
    BY <2>2 DEF CreateLease, LiveLeaseStates
  <2> QED
    BY <2>2, <2>3 DEF TypeOK, CreateLease
<1> QED
  BY <1>2, <1>3

\* Every step keeps every attempt of a serving with a live lease.
LEMMA StrandedStep == TypeOK /\ NoStranded /\ [Next]_vars => NoStranded'
<1> SUFFICES ASSUME TypeOK, NoStranded, [Next]_vars PROVE NoStranded'
  OBVIOUS
<1>1. ASSUME UNCHANGED <<astate, lstate, lattempt>> PROVE NoStranded'
  BY <1>1, KeepsLease
<1>2. ASSUME NEW d \in Drivers, Recover(d) PROVE NoStranded'
  BY <1>2, KeepsLease DEF TypeOK, Recover, LiveLeaseStates, LeaseStates
<1>3. ASSUME NEW d \in Drivers, Quarantine(d) PROVE NoStranded'
  BY <1>3, KeepsLease DEF TypeOK, Quarantine, TransitionLease, LiveLeaseStates, LeaseStates
<1>4. ASSUME NEW a \in Attempts, Outside(a) PROVE NoStranded'
  BY <1>4, KeepsLease
  DEF TypeOK, Outside, Deliver, Supersede, CancelReady, ResolveReviewToReady,
      ResolveReviewToSettled, Served
<1> QED
  BY <1>1, <1>2, <1>3, <1>4, RowsUntouched, StrandedGoroutine, StrandedFinalize, StrandedCreate
  DEF Next, Admission, Preparation, Execution, Cleanup, Capsule, Reconcile, Process, vars

\* Whatever fails and wherever the controller crashes, an attempt in a state of
\* a serving has a live lease: the case resolveStranded and DisposeStranded
\* call unreachable never arises.
THEOREM NeverStranded == Spec => []NoStranded
<1>1. Init => NoStranded
  BY DEF Init, NoStranded, Served
<1> QED
  BY <1>1, TypeCorrect, StrandedStep, PTL DEF Spec

-----------------------------------------------------------------------------
(* Who drives a lease *)

\* A driver at work takes a step of its own and goes on working.
DriverMoves(d) ==
  /\ pc[d] \notin {"idle", "committed"}
  /\ \E s \in Steps \ {"idle", "committed"} : pc' = [pc EXCEPT ![d] = s]
  /\ UNCHANGED <<recLease, todo, claimed, sched, phase, adopting>>
  /\ \A l \in Leases : lstate[l] # "free" => lstate'[l] # "free"

\* What a driver at work does on its own lease disturbs nobody's ownership.
LEMMA MovesKeepOwnership ==
  ASSUME TypeOK, Ownership, NEW d \in Drivers, DriverMoves(d)
  PROVE  Ownership'
<1>1. PICK s \in Steps \ {"idle", "committed"} : pc' = [pc EXCEPT ![d] = s]
  BY DEF DriverMoves
<1>2. /\ pc[d] \notin {"idle", "committed"}
      /\ UNCHANGED <<recLease, todo, claimed, sched, phase, adopting>>
      /\ \A l \in Leases : lstate[l] # "free" => lstate'[l] # "free"
  BY DEF DriverMoves
<1>3. \A e \in Drivers : pc'[e] = IF e = d THEN s ELSE pc[e]
  BY <1>1 DEF TypeOK
<1> QED
  BY <1>2, <1>3, ServingAssumption DEF Ownership, OneDriver, TypeOK, Drivers

\* A step that moves no driver and no claim keeps Ownership.
LEMMA OwnershipFrame ==
  ASSUME TypeOK, Ownership, sched' = NoAttempt \/ phase = "serving" \/ sched' = sched,
         UNCHANGED <<recLease, todo, claimed, phase, adopting, pc, lstate>>
  PROVE  Ownership'
BY DEF Ownership, OneDriver

\* Preparation, execution and failure are moves of the lease's own goroutine.
LEMMA GoroutineMoves ==
  ASSUME TypeOK, NEW l \in Leases, Preparation(l) \/ Execution(l)
  PROVE  DriverMoves(l)
<1> l \in Drivers
  BY DEF Drivers
<1> USE DEF TypeOK, DriverMoves, Step, Steps, PrepareSteps, StartSteps, AdoptSteps, CleanSteps,
            attemptRow, leaseRow, host, driver, pass, process, admission, history
<1>1. CASE Preparation(l)
  BY <1>1 DEF Preparation, Launch, GenerateJITConfig, RegisterRuntime, AdvancePreparing,
              PlanResources, CreateCapsule, BootCapsule, IncompatibleImage, RecordPrepared,
              TransitionLease
<1>2. CASE Execution(l)
  BY <1>2 DEF Execution, AdvancePrepared, AuthorizeStart, RecordStartAuthorized, Start,
              InspectStart, RecordRunning, AdvanceRunning, LeaseRunning, WaitExit,
              WalkToRunning, Release, TransitionLease, TransitionThrough
<1> QED
  BY <1>1, <1>2

\* Cleanup short of giving the lease up is a move of whoever does it.
LEMMA CleanupMoves ==
  ASSUME TypeOK, NEW d \in Drivers, Cleanup(d) \/ StepFails(d), ~Unclaim(d)
  PROVE  DriverMoves(d)
<1> USE DEF TypeOK, DriverMoves, Step, Done, Failed, Steps, PrepareSteps, StartSteps, AdoptSteps,
            CleanSteps, attemptRow, leaseRow, host, driver, pass, process, admission, history
<1>1. CASE Cleanup(d)
  BY <1>1 DEF Cleanup, Recover, Deregister, RecordStartObservation, NothingToRemove, RemoveObject,
              ForgetResource, Finalize, Quarantine, ReleaseCreditIfDone, TransitionLease
<1>2. CASE StepFails(d)
  BY <1>2 DEF StepFails, OnError
<1> QED
  BY <1>1, <1>2

\* Giving a lease up takes the claim of the one who holds it and no other.
LEMMA UnclaimOwnership ==
  ASSUME TypeOK, Ownership, NEW d \in Drivers, Unclaim(d)
  PROVE  Ownership'
<1>1. \A e \in Drivers : pc'[e] = IF e = d THEN "idle" ELSE pc[e]
  BY DEF Unclaim, Step, TypeOK
<1>2. CASE d = Reconciler
  BY <1>1, <1>2, ServingAssumption
  DEF Ownership, OneDriver, Unclaim, TypeOK, Drivers, Target, process, leaseRow
<1>3. CASE d # Reconciler
  BY <1>1, <1>3, ServingAssumption
  DEF Ownership, OneDriver, Unclaim, TypeOK, Drivers, Target, process, leaseRow
<1> QED
  BY <1>2, <1>3

\* A new lease is nobody's but its goroutine's.
LEMMA AdmissionOwnership ==
  ASSUME TypeOK, Ownership, NEW l \in Leases, Admission(l)
  PROVE  Ownership'
<1> USE ServingAssumption
<1>1. CASE CreateLease(l)
  <2>1. /\ \A e \in Drivers : pc'[e] = IF e = l THEN "committed" ELSE pc[e]
        /\ \A k \in Leases : lstate'[k] = IF k = l THEN "reserved" ELSE lstate[k]
    BY <1>1 DEF CreateLease, Step, TypeOK, Drivers
  <2> QED
    BY <1>1, <2>1 DEF CreateLease, Ownership, OneDriver, TypeOK, Drivers, pass, process
<1>2. CASE Claim(l)
  <2>1. \A e \in Drivers : pc'[e] = IF e = l THEN "launch" ELSE pc[e]
    BY <1>2 DEF Claim, Step, TypeOK, Drivers
  <2> QED
    BY <1>2, <2>1 DEF Claim, Ownership, OneDriver, TypeOK, Drivers, pass, process, leaseRow
<1> QED
  BY <1>1, <1>2 DEF Admission

\* The startup pass resolves only what it does not adopt, and the periodic pass
\* takes only what nobody claims and no admission is about to claim.
LEMMA ReconcileOwnership ==
  ASSUME TypeOK, Ownership, Reconcile
  PROVE  Ownership'
<1> USE ServingAssumption
<1>1. ASSUME NEW keep \in BOOLEAN, BeginReconcile(keep) PROVE Ownership'
  BY <1>1 DEF BeginReconcile, Ownership, OneDriver, TypeOK, Drivers, Live, LiveLeaseStates,
              driver, leaseRow, admission
<1>2. ASSUME NEW l \in Leases, Adopt(l) PROVE Ownership'
  <2>1. \A e \in Drivers : pc'[e] = IF e = l THEN "adopt_wait" ELSE pc[e]
    BY <1>2 DEF Adopt, Step, TypeOK, Drivers
  <2> QED
    BY <1>2, <2>1 DEF Adopt, Ownership, OneDriver, TypeOK, Drivers, process, leaseRow
<1>3. ASSUME NEW l \in Leases, ResolveInterrupted(l) PROVE Ownership'
  <2>1. /\ phase = "reconciling" /\ pc[Reconciler] = "idle" /\ l \in todo \ adopting
        /\ todo' = todo \ {l}
        /\ UNCHANGED <<lstate, adopting, phase, claimed, sched>>
    BY <1>3 DEF ResolveInterrupted, process, leaseRow
  <2>2. pc[l] = "idle" /\ lstate[l] # "free"
    BY <2>1 DEF Ownership
  <2>3. CASE recLease' = l /\ \E s \in {"deregister", "recover"} : Step(Reconciler, s)
    <3>1. PICK s \in {"deregister", "recover"} : Step(Reconciler, s)
      BY <2>3
    <3>2. \A e \in Drivers : pc'[e] = IF e = Reconciler THEN s ELSE pc[e]
      BY <3>1 DEF Step, TypeOK
    <3> QED
      BY <2>1, <2>2, <2>3, <3>2 DEF Ownership, OneDriver, TypeOK, Drivers
  <2>4. CASE UNCHANGED <<recLease, pc>>
    BY <2>1, <2>4 DEF Ownership, OneDriver
  <2> QED
    BY <1>3, <2>3, <2>4 DEF ResolveInterrupted
<1>4. ASSUME NEW l \in Leases, RetryStranded(l) PROVE Ownership'
  <2>1. \A e \in Drivers : pc'[e] = IF e = Reconciler THEN "recover" ELSE pc[e]
    BY <1>4 DEF RetryStranded, Step, TypeOK, Drivers
  <2> QED
    BY <1>4, <2>1 DEF RetryStranded, PastGrace, Ownership, OneDriver, TypeOK, Drivers, process, leaseRow
<1>5. ASSUME NEW l \in Leases, SkipStranded(l) PROVE Ownership'
  BY <1>5 DEF SkipStranded, Ownership, OneDriver, driver, leaseRow, process, admission
<1>6. CASE FinishReconcile
  BY <1>6 DEF FinishReconcile, Ownership, OneDriver, driver, pass
<1>7. CASE ReconcileFails
  BY <1>7 DEF ReconcileFails, Ownership, OneDriver, driver, pass, leaseRow, admission
<1>8. CASE BeginPass
  BY <1>8
  DEF BeginPass, Ownership, OneDriver, Live, LiveLeaseStates, driver, leaseRow, process, admission
<1>9. CASE SweepPeriodically
  BY <1>9 DEF SweepPeriodically, Ownership, OneDriver, driver, pass, process, admission
<1> QED
  BY <1>1, <1>2, <1>3, <1>4, <1>5, <1>6, <1>7, <1>8, <1>9 DEF Reconcile

\* A process that ends leaves nobody at work; a drain begins with no pass.
LEMMA ProcessOwnership ==
  ASSUME TypeOK, Ownership, Process
  PROVE  Ownership'
<1> USE ServingAssumption
<1>1. CASE ProcessEnds
  BY <1>1 DEF ProcessEnds, Ownership, OneDriver, Drivers, leaseRow
<1>2. CASE BeginDrain
  BY <1>2 DEF BeginDrain, Ownership, OneDriver, driver, leaseRow, admission
<1>3. CASE DrainWindowElapses
  BY <1>3 DEF DrainWindowElapses, Ownership, OneDriver, driver, pass, leaseRow, admission
<1> QED
  BY <1>1, <1>2, <1>3 DEF Process, Crash, Drained, Abandon

\* Every step keeps Ownership.
LEMMA OwnershipStep == TypeOK /\ Ownership /\ [Next]_vars => Ownership'
<1> SUFFICES ASSUME TypeOK, Ownership, [Next]_vars PROVE Ownership'
  OBVIOUS
<1> USE DEF attemptRow, leaseRow, host, driver, pass, process, admission, history
<1>1. ASSUME NEW l \in Leases, Preparation(l) \/ Execution(l) PROVE Ownership'
  <2> l \in Drivers
    BY DEF Drivers
  <2> QED
    BY <1>1, GoroutineMoves, MovesKeepOwnership
<1>2. ASSUME NEW d \in Drivers, Cleanup(d) \/ StepFails(d) PROVE Ownership'
  BY <1>2, CleanupMoves, UnclaimOwnership, MovesKeepOwnership
<1>3. ASSUME NEW l \in Leases, Capsule(l) PROVE Ownership'
  BY <1>3, OwnershipFrame
  DEF Capsule, Fork, AbortCapsule, RunnerExits, Kill, LateCreateLands, LateStartLands, TakeJob,
      ExpireRunner
<1>4. ASSUME NEW a \in Attempts, Outside(a) PROVE Ownership'
  BY <1>4, OwnershipFrame
  DEF Outside, Deliver, Supersede, CancelReady, ResolveReviewToReady, ResolveReviewToSettled
<1>5. ASSUME NEW a \in Attempts, Reserve(a) PROVE Ownership'
  BY <1>5, OwnershipFrame DEF Reserve
<1>6. CASE CreateLeaseFails
  BY <1>6, OwnershipFrame DEF CreateLeaseFails
<1>7. CASE UNCHANGED vars
  BY <1>7, OwnershipFrame DEF vars
<1> QED
  BY <1>1, <1>2, <1>3, <1>4, <1>5, <1>6, <1>7, AdmissionOwnership, ReconcileOwnership,
     ProcessOwnership DEF Next

\* A lease has one driver at a time: the reconciler never works on one that a
\* goroutine drives, in the startup pass, in the periodic pass or at admission.
THEOREM OneDriverAlways == Spec => []OneDriver
<1>1. Init => Ownership
  BY ServingAssumption DEF Init, Ownership, OneDriver, Drivers
<1>2. Ownership => OneDriver
  BY DEF Ownership
<1> QED
  BY <1>1, <1>2, TypeCorrect, OwnershipStep, PTL DEF Spec

-----------------------------------------------------------------------------
(* What a released lease leaves behind *)

\* A step that touches no capsule and no intent, releases nothing, and moves no
\* driver to a step that relies on either.
Quiet ==
  /\ UNCHANGED <<cap, owns, stray>>
  /\ \A l \in Leases : lstate'[l] \in {"free", "released"} => lstate'[l] = lstate[l]
  /\ \A l \in Leases : pc'[l] \in {"create", "boot"} => pc[l] \in {"create", "boot"}
  /\ \A l \in Leases : pc'[l] \in PrepareSteps \ {"launch"}
                         => pc[l] \in PrepareSteps \ {"launch"} \/ lstate'[l] \notin {"free", "released"}
  /\ \A l \in Leases : pc'[l] \in PrepareSteps \cup {"committed"}
                         => pc[l] \in PrepareSteps \cup {"committed"} \/ lstate[l] = "free"
  /\ \A d \in Drivers : pc'[d] = "forget"
                           => pc[d] = "forget" /\ (d = Reconciler => UNCHANGED recLease)

\* A quiet step keeps IntentCovers.
LEMMA QuietKeepsIntent ==
  ASSUME IntentCovers, Quiet
  PROVE  IntentCovers'
<1>1. ReleasedIsClean'
  BY DEF IntentCovers, ReleasedIsClean, Quiet
<1>2. \A l \in Leases : stray'[l] # "none" =>
        pc'[l] \notin PrepareSteps \cup {"committed"} /\ lstate'[l] # "free"
  BY DEF IntentCovers, Quiet
<1>3. \A l \in Leases : /\ pc'[l] \in {"create", "boot"} => owns'[l]
                        /\ pc'[l] \in PrepareSteps \ {"launch"} => lstate'[l] \notin {"free", "released"}
  BY DEF IntentCovers, Quiet
<1>4. \A d \in Drivers : pc'[d] = "forget" => cap'[Target(d)'] = "absent" \/ stray'[Target(d)'] = "landed"
  BY DEF IntentCovers, Quiet, Target
<1> QED
  BY <1>1, <1>2, <1>3, <1>4 DEF IntentCovers, Quiet

\* A step of the capsule changes a container that was booted into another such.
LEMMA CapsuleKeepsIntent ==
  ASSUME TypeOK, IntentCovers, NEW l \in Leases, cap[l] \notin {"absent", "created"},
         NEW c \in CapsuleStates \ {"absent"}, cap' = [cap EXCEPT ![l] = c],
         UNCHANGED <<owns, stray, lstate, recLease>>,
         \/ UNCHANGED pc
         \/ \E s \in {"started", "inspect"} : pc' = [pc EXCEPT ![l] = s]
  PROVE  IntentCovers'
<1>1. \A k \in Leases : cap'[k] = IF k = l THEN c ELSE cap[k]
  BY DEF TypeOK
<1>2. \A d \in Drivers : pc'[d] = pc[d] \/ pc'[d] \in {"started", "inspect"}
  BY DEF TypeOK, Drivers
<1>3. stray[l] # "landed"
  BY DEF IntentCovers
<1>4. \A d \in Drivers : pc'[d] = "forget" => Target(d)' = Target(d) /\ Target(d) # l
  BY <1>2, <1>3 DEF IntentCovers, Target
<1> QED
  BY <1>1, <1>2, <1>3, <1>4 DEF IntentCovers, ReleasedIsClean, PrepareSteps, Drivers, Target

\* A create that nobody waits for lands: its lease is past its preparation.
LEMMA LandingKeepsIntent ==
  ASSUME TypeOK, Ownership, IntentCovers, NEW l \in Leases, LateCreateLands(l)
  PROVE  IntentCovers'
<1>1. /\ \A k \in Leases : /\ cap'[k] = IF k = l THEN "created" ELSE cap[k]
                           /\ stray'[k] = IF k = l THEN "landed" ELSE stray[k]
      /\ UNCHANGED <<owns, lstate, recLease, pc>>
      /\ stray[l] = "lost"
  BY DEF TypeOK, LateCreateLands, leaseRow, driver, pass
<1>2. \A d \in Drivers : pc'[d] = "forget" => cap'[Target(d)'] = "absent" \/ stray'[Target(d)'] = "landed"
  <2>1. \A d \in Drivers : pc[d] = "forget" => Target(d)' = Target(d) /\ Target(d) \in Leases
    BY <1>1 DEF Ownership, TypeOK, Target, Drivers
  <2> QED
    BY <1>1, <2>1 DEF IntentCovers
<1>3. ReleasedIsClean'
  BY <1>1 DEF IntentCovers, ReleasedIsClean
<1>4. \A k \in Leases : /\ cap'[k] # "absent" => owns'[k] \/ stray'[k] = "landed"
                        /\ stray'[k] = "landed" => cap'[k] = "created"
                        /\ stray'[k] # "none" => stray[k] # "none"
  BY <1>1 DEF IntentCovers
<1> QED
  BY <1>1, <1>2, <1>3, <1>4 DEF IntentCovers

\* A create that is given up on belongs to a live lease, whose driver leaves
\* its preparation with it.
LEMMA LosingKeepsIntent ==
  ASSUME TypeOK, Ownership, IntentCovers, NEW D, LoseCreates(D),
         UNCHANGED <<cap, owns, lstate>>,
         \A l \in Leases : pc'[l] \in PrepareSteps \cup {"committed"} => pc'[l] = pc[l] /\ l \notin D,
         \A d \in Drivers : pc'[d] = "forget"
                              => pc[d] = "forget" /\ (d = Reconciler => UNCHANGED recLease)
  PROVE  IntentCovers'
<1>1. \A l \in Leases : \/ stray'[l] = stray[l]
                        \/ l \in D /\ pc[l] = "create" /\ stray'[l] = "lost"
  BY DEF LoseCreates
<1>2. \A l \in Leases : pc[l] = "create" => stray[l] = "none" /\ lstate[l] # "free"
  BY DEF IntentCovers, PrepareSteps
<1>3. \A l \in Leases : stray'[l] = "landed" <=> stray[l] = "landed"
  BY <1>1, <1>2
<1>4. \A l \in Leases : stray'[l] # "none" =>
        pc'[l] \notin PrepareSteps \cup {"committed"} /\ lstate'[l] # "free"
  BY <1>1, <1>2 DEF IntentCovers
<1>5. \A l \in Leases : /\ pc'[l] \in {"create", "boot"} => owns'[l]
                        /\ pc'[l] \in PrepareSteps \ {"launch"} => lstate'[l] \notin {"free", "released"}
  BY DEF IntentCovers, PrepareSteps
<1>6. \A d \in Drivers : pc'[d] = "forget" => cap'[Target(d)'] = "absent" \/ stray'[Target(d)'] = "landed"
  <2> SUFFICES ASSUME NEW d \in Drivers, pc'[d] = "forget"
               PROVE  cap'[Target(d)'] = "absent" \/ stray'[Target(d)'] = "landed"
    OBVIOUS
  <2>1. Target(d)' = Target(d) /\ (cap[Target(d)] = "absent" \/ stray[Target(d)] = "landed")
    BY DEF IntentCovers, Target
  <2>2. Target(d) \in Leases
    BY DEF Ownership, TypeOK, Target, Drivers
  <2> QED
    BY <1>3, <2>1, <2>2
<1> QED
  BY <1>3, <1>4, <1>5, <1>6 DEF IntentCovers, ReleasedIsClean

\* The capsule is created, and then booted, under an intent, by the only driver
\* of a lease that is not released.
LEMMA BuildKeepsIntent ==
  ASSUME TypeOK, Ownership, IntentCovers, NEW l \in Leases,
         pc[l] \in {"create", "boot"},
         NEW c \in {"created", "waiting"}, cap' = [cap EXCEPT ![l] = c],
         NEW s \in {"boot", "confirm", "recover"}, pc' = [pc EXCEPT ![l] = s],
         s = "boot" \/ pc[l] = "boot",
         UNCHANGED <<owns, stray, lstate, recLease>>
  PROVE  IntentCovers'
<1>1. /\ \A k \in Leases : cap'[k] = IF k = l THEN c ELSE cap[k]
      /\ \A d \in Drivers : pc'[d] = IF d = l THEN s ELSE pc[d]
  BY DEF TypeOK, Drivers
<1>2. owns[l] /\ lstate[l] \notin {"free", "released"} /\ stray[l] = "none"
  BY DEF IntentCovers, PrepareSteps
<1>3. \A d \in Drivers : pc'[d] = "forget" => pc[d] = "forget" /\ Target(d)' = Target(d) /\ Target(d) # l
  <2>1. recLease # l
    BY ServingAssumption DEF Ownership, OneDriver
  <2> QED
    BY <1>1, <2>1 DEF Target
<1> QED
  BY <1>1, <1>2, <1>3 DEF IntentCovers, ReleasedIsClean, PrepareSteps, Drivers

\* Preparation and execution keep IntentCovers.
LEMMA GoroutineKeepsIntent ==
  ASSUME TypeOK, Ownership, IntentCovers, NEW l \in Leases, Preparation(l) \/ Execution(l)
  PROVE  IntentCovers'
<1> l \in Drivers
  BY DEF Drivers
<1> USE DEF Step, attemptRow, leaseRow, host, driver, pass, process, admission, history
<1>1. CASE Launch(l)
  BY <1>1, QuietKeepsIntent, ServingAssumption
  DEF TypeOK, Launch, TransitionLease, Quiet, PrepareSteps, Drivers
<1>2. CASE GenerateJITConfig(l) \/ RegisterRuntime(l) \/ AdvancePreparing(l) \/ RecordPrepared(l)
  BY <1>2, QuietKeepsIntent
  DEF TypeOK, GenerateJITConfig, RegisterRuntime, AdvancePreparing, RecordPrepared,
      TransitionLease, Quiet, PrepareSteps, Drivers
<1>3. CASE PlanResources(l)
  <2>1. /\ owns'[l] /\ \A k \in Leases : owns[k] => owns'[k]
        /\ \A k \in Leases : k # l => owns'[k] = owns[k]
        /\ UNCHANGED <<cap, stray, lstate, recLease>>
        /\ \A d \in Drivers : pc'[d] = IF d = l THEN "create" ELSE pc[d]
        /\ lstate[l] \notin {"free", "released"} /\ stray[l] = "none"
    BY <1>3 DEF TypeOK, PlanResources, IntentCovers, PrepareSteps
  <2> QED
    BY <2>1 DEF IntentCovers, ReleasedIsClean, PrepareSteps, Drivers, Target
<1>4. CASE CreateCapsule(l) \/ BootCapsule(l) \/ IncompatibleImage(l)
  BY <1>4, BuildKeepsIntent DEF CreateCapsule, BootCapsule, IncompatibleImage
<1>5. CASE Start(l)
  <2>1. CASE UNCHANGED cap
    BY <1>5, <2>1, QuietKeepsIntent DEF TypeOK, Start, Quiet, PrepareSteps, Drivers
  <2>2. CASE cap[l] = "waiting" /\ cap' = [cap EXCEPT ![l] = "starting"]
    BY <1>5, <2>2, CapsuleKeepsIntent DEF Start, CapsuleStates
  <2> QED
    BY <1>5, <2>1, <2>2 DEF Start
<1>6. CASE \/ AdvancePrepared(l) \/ AuthorizeStart(l) \/ RecordStartAuthorized(l)
           \/ InspectStart(l) \/ RecordRunning(l) \/ AdvanceRunning(l)
  BY <1>6, QuietKeepsIntent
  DEF TypeOK, AdvancePrepared, AuthorizeStart, RecordStartAuthorized, InspectStart,
      RecordRunning, AdvanceRunning, Quiet, PrepareSteps, Drivers
<1>7. CASE LeaseRunning(l) \/ WaitExit(l) \/ WalkToRunning(l) \/ Release(l)
  BY <1>7, QuietKeepsIntent
  DEF TypeOK, LeaseRunning, WaitExit, WalkToRunning, Release, TransitionLease,
      TransitionThrough, Quiet, PrepareSteps, Drivers
<1> QED
  BY <1>1, <1>2, <1>3, <1>4, <1>5, <1>6, <1>7 DEF Preparation, Execution

\* The cleanup keeps IntentCovers: an intent goes only after its object, and
\* a lease is released only when no intent of it is left.
LEMMA CleanupKeepsIntent ==
  ASSUME TypeOK, Ownership, IntentCovers, NEW d \in Drivers, Cleanup(d) \/ StepFails(d)
  PROVE  IntentCovers'
<1> USE DEF Step, attemptRow, leaseRow, host, driver, pass, process, admission, history
<1>1. pc[d] # "idle" => Target(d) \in Leases
  BY DEF Ownership, TypeOK, Target, Drivers
<1>2. pc[d] # "idle" /\ d = Reconciler => pc[Target(d)] = "idle"
  BY DEF Ownership, OneDriver, Target
<1>3. CASE RemoveObject(d)
  <2>1. /\ \A k \in Leases : /\ cap'[k] = IF k = Target(d) THEN "absent" ELSE cap[k]
                             /\ k # Target(d) => stray'[k] = stray[k]
        /\ \A e \in Drivers : pc'[e] = IF e = d THEN "forget" ELSE pc[e]
        /\ UNCHANGED <<recLease, owns, lstate>>
    BY <1>3 DEF TypeOK, RemoveObject
  <2>2. \A e \in Drivers : Target(e)' = Target(e)
    BY <2>1 DEF Target
  <2>3. \A e \in Drivers : pc'[e] = "forget" => Target(e) \in Leases
    BY <1>1, <1>3, <2>1 DEF RemoveObject, Ownership, TypeOK, Target, Drivers
  <2>4. Target(d) \in Leases
    BY <1>1, <1>3 DEF RemoveObject
  <2>5. stray'[Target(d)] # "landed" /\ stray'[Target(d)] \in {stray[Target(d)], "none"}
    BY <1>3, <2>4 DEF TypeOK, RemoveObject
  <2>6. \A k \in Leases : /\ stray'[k] = "landed" => stray[k] = "landed" /\ k # Target(d)
                          /\ stray'[k] # "none" => stray[k] # "none"
    BY <2>1, <2>5
  <2>7. pc'[Target(d)] \notin PrepareSteps \cup {"committed"}
    BY <1>2, <1>3, <2>1, <2>4 DEF RemoveObject, Target, PrepareSteps, Drivers
  <2>8. \A k \in Leases : cap'[k] # "absent" =>
          k # Target(d) /\ cap[k] # "absent" /\ cap'[k] = cap[k] /\ stray'[k] = stray[k]
    BY <2>1
  <2> QED
    BY <2>1, <2>2, <2>3, <2>6, <2>7, <2>8 DEF IntentCovers, ReleasedIsClean, PrepareSteps, Drivers
<1>4. CASE ForgetResource(d)
  <2>1. /\ \A k \in Leases : owns'[k] = IF k = Target(d) THEN FALSE ELSE owns[k]
        /\ \A e \in Drivers : pc'[e] = IF e = d THEN "finalize" ELSE pc[e]
        /\ UNCHANGED <<recLease, cap, stray, lstate>>
        /\ cap[Target(d)] = "absent" \/ stray[Target(d)] = "landed"
    BY <1>4 DEF TypeOK, ForgetResource, IntentCovers
  <2>2. pc'[Target(d)] \in {"idle", "finalize"}
    BY <1>1, <1>2, <1>4, <2>1 DEF ForgetResource, Target, Drivers
  <2> QED
    BY <2>1, <2>2 DEF IntentCovers, ReleasedIsClean, PrepareSteps, Drivers, Target
<1>5. CASE Finalize(d)
  <2>1. /\ \A k \in Leases : lstate'[k] = IF k = Target(d) THEN "released" ELSE lstate[k]
        /\ \A e \in Drivers : e # d => pc'[e] = pc[e]
        /\ pc'[d] \in {"unclaim", "credit"}
        /\ UNCHANGED <<recLease, cap, stray, owns>>
        /\ ~owns[Target(d)]
    BY <1>5 DEF TypeOK, Finalize, TransitionLease, Done
  <2>2. pc'[Target(d)] \in {"idle", "unclaim", "credit"}
    BY <1>1, <1>2, <1>5, <2>1 DEF Finalize, Target, Drivers
  <2> QED
    BY <2>1, <2>2 DEF IntentCovers, ReleasedIsClean, PrepareSteps, Drivers, Target
<1>6. CASE Recover(d) \/ Quarantine(d)
  BY <1>6, QuietKeepsIntent
  DEF TypeOK, Recover, Quarantine, TransitionLease, Done, Failed, Quiet, PrepareSteps, Drivers
<1>7. CASE \/ Deregister(d) \/ RecordStartObservation(d) \/ NothingToRemove(d)
           \/ ReleaseCreditIfDone(d)
  BY <1>7, QuietKeepsIntent
  DEF TypeOK, Deregister, RecordStartObservation, NothingToRemove, ReleaseCreditIfDone, Quiet,
      PrepareSteps, Drivers
<1>8. CASE Unclaim(d)
  <2>1. \A e \in Drivers : pc'[e] = IF e = d THEN "idle" ELSE pc[e]
    BY <1>8 DEF Unclaim, TypeOK
  <2>2. \A e \in Drivers : pc'[e] = "forget" /\ e = Reconciler => UNCHANGED recLease
    BY <1>8, <2>1 DEF Unclaim
  <2> QED
    BY <1>8, <2>1, <2>2, QuietKeepsIntent DEF Unclaim, Quiet, PrepareSteps, Drivers
<1>9. CASE StepFails(d)
  BY <1>9, LosingKeepsIntent
  DEF TypeOK, StepFails, OnError, Failed, PrepareSteps, Drivers
<1> QED
  BY <1>3, <1>4, <1>5, <1>6, <1>7, <1>8, <1>9 DEF Cleanup

\* A sweep removes only what no goroutine is at work on, at startup because
\* what has a driver was adopted, later because it is live.
LEMMA SweepKeepsIntent ==
  ASSUME TypeOK, Ownership, IntentCovers, NEW keep, SweepOrphans(keep),
         UNCHANGED <<pc, lstate, recLease>>, pc[Reconciler] = "idle",
         \A l \in Leases \ keep : pc[l] \notin {"create", "boot"}
  PROVE  IntentCovers'
<1>1. \A l \in Leases :
        \/ /\ cap'[l] = cap[l] /\ stray'[l] = stray[l] /\ owns'[l] = owns[l]
        \/ /\ l \notin keep /\ cap'[l] = "absent"
           /\ stray'[l] # "landed" /\ stray'[l] \in {stray[l], "none"}
           /\ owns'[l] => owns[l]
  BY SweepTakes
<1>2. ReleasedIsClean'
  BY <1>1 DEF IntentCovers, ReleasedIsClean
<1>3. \A l \in Leases : /\ cap'[l] # "absent" => owns'[l] \/ stray'[l] = "landed"
                        /\ stray'[l] = "landed" => cap'[l] = "created"
                        /\ stray'[l] # "none" => stray[l] # "none"
  BY <1>1 DEF IntentCovers
<1>4. \A l \in Leases : pc[l] \in {"create", "boot"} => owns'[l]
  BY <1>1 DEF IntentCovers, PrepareSteps
<1>5. \A d \in Drivers : pc'[d] = "forget" => cap'[Target(d)'] = "absent" \/ stray'[Target(d)'] = "landed"
  <2> SUFFICES ASSUME NEW d \in Drivers, pc[d] = "forget"
               PROVE  cap'[d] = "absent" \/ stray'[d] = "landed"
    BY DEF Target
  <2>1. d \in Leases /\ Target(d) = d
    BY DEF Drivers, Target
  <2>2. cap[d] = "absent" \/ stray[d] = "landed"
    BY <2>1 DEF IntentCovers
  <2> QED
    BY <1>1, <2>1, <2>2
<1> QED
  BY <1>2, <1>3, <1>4, <1>5 DEF IntentCovers

\* The passes and the process themselves are quiet but for the sweep.
LEMMA PassKeepsIntent ==
  ASSUME TypeOK, Ownership, IntentCovers, Reconcile \/ Process
  PROVE  IntentCovers'
<1> USE DEF Step, attemptRow, leaseRow, host, driver, pass, process, admission, history
<1>1. ASSUME NEW l \in Leases, ResolveInterrupted(l) PROVE IntentCovers'
  <2>1. \A d \in Drivers : \/ pc'[d] = pc[d]
                           \/ d = Reconciler /\ pc'[d] \in {"deregister", "recover"}
    BY <1>1 DEF ResolveInterrupted, TypeOK
  <2>2. UNCHANGED <<cap, owns, stray, lstate>> /\ pc[Reconciler] = "idle"
    BY <1>1 DEF ResolveInterrupted
  <2> QED
    BY <2>1, <2>2, QuietKeepsIntent, ServingAssumption DEF Quiet, Drivers
<1>2. ASSUME NEW l \in Leases, RetryStranded(l) PROVE IntentCovers'
  BY <1>2, QuietKeepsIntent, ServingAssumption DEF TypeOK, RetryStranded, Quiet, Drivers
<1>3. ASSUME NEW l \in Leases, Adopt(l) PROVE IntentCovers'
  BY <1>3, QuietKeepsIntent DEF TypeOK, Adopt, Quiet, Drivers, PrepareSteps
<1>4. CASE ProcessEnds
  BY <1>4, LosingKeepsIntent DEF ProcessEnds, Drivers, PrepareSteps
<1>5. ASSUME UNCHANGED <<cap, owns, stray, lstate, pc, recLease>> PROVE IntentCovers'
  BY <1>5, QuietKeepsIntent DEF Quiet
<1>6. CASE FinishReconcile
  <2>1. \A l \in Leases \ adopting : pc[l] \notin {"create", "boot"}
    BY <1>6 DEF FinishReconcile, Ownership
  <2> QED
    BY <1>6, <2>1, SweepKeepsIntent DEF FinishReconcile
<1>7. CASE SweepPeriodically
  <2>1. \A l \in Leases \ Live : pc[l] \notin {"create", "boot"}
    BY DEF IntentCovers, PrepareSteps, Live, LiveLeaseStates, LeaseStates, TypeOK
  <2> QED
    BY <1>7, <2>1, SweepKeepsIntent DEF SweepPeriodically
<1> QED
  BY <1>1, <1>2, <1>3, <1>4, <1>5, <1>6, <1>7
  DEF Reconcile, Process, BeginReconcile, SkipStranded, ReconcileFails, BeginPass, Crash,
      BeginDrain, Drained, DrainWindowElapses, Abandon

\* Every step keeps IntentCovers.
LEMMA IntentStep == TypeOK /\ Ownership /\ IntentCovers /\ [Next]_vars => IntentCovers'
<1> SUFFICES ASSUME TypeOK, Ownership, IntentCovers, [Next]_vars PROVE IntentCovers'
  OBVIOUS
<1> USE DEF Step, attemptRow, leaseRow, host, driver, pass, process, admission, history
<1>1. ASSUME NEW l \in Leases, CreateLease(l) PROVE IntentCovers'
  BY <1>1, QuietKeepsIntent DEF TypeOK, CreateLease, Quiet, Drivers, PrepareSteps
<1>2. ASSUME NEW l \in Leases, Claim(l) PROVE IntentCovers'
  BY <1>2, QuietKeepsIntent DEF TypeOK, Claim, Quiet, Drivers, PrepareSteps
<1>3. ASSUME UNCHANGED <<cap, owns, stray, lstate, pc, recLease>> PROVE IntentCovers'
  BY <1>3, QuietKeepsIntent DEF Quiet
<1>4. ASSUME NEW l \in Leases, Capsule(l) PROVE IntentCovers'
  <2>1. CASE Fork(l) \/ AbortCapsule(l) \/ RunnerExits(l) \/ Kill(l) \/ LateStartLands(l)
    BY <2>1, CapsuleKeepsIntent
    DEF Fork, AbortCapsule, RunnerExits, Kill, LateStartLands, ContainerRunning, CapsuleStates
  <2> QED
    BY <1>3, <1>4, <2>1, LandingKeepsIntent DEF Capsule, TakeJob, ExpireRunner
<1>5. ASSUME NEW a \in Attempts, Reserve(a) \/ Outside(a) PROVE IntentCovers'
  BY <1>3, <1>5 DEF Reserve, Outside, Deliver, Supersede, CancelReady, ResolveReviewToReady,
                    ResolveReviewToSettled
<1>6. CASE CreateLeaseFails \/ UNCHANGED vars
  BY <1>3, <1>6 DEF CreateLeaseFails, vars
<1> QED
  BY <1>1, <1>2, <1>4, <1>5, <1>6, GoroutineKeepsIntent, CleanupKeepsIntent, PassKeepsIntent
  DEF Next, Admission

\* A released lease has no resource intent and nothing on the host that ever
\* ran, whatever failed, crashed or was retried on the way to its release: a
\* create that lands after it leaves a bare container, which nothing boots.
THEOREM ReleasedIsAlwaysClean == Spec => []ReleasedIsClean
<1>1. Init => Ownership /\ IntentCovers
  BY ServingAssumption
  DEF Init, Ownership, OneDriver, IntentCovers, ReleasedIsClean, Drivers, PrepareSteps
<1>2. IntentCovers => ReleasedIsClean
  BY DEF IntentCovers
<1> QED
  BY <1>1, <1>2, TypeCorrect, OwnershipStep, IntentStep, PTL DEF Spec

-----------------------------------------------------------------------------
(* Leases, their attempts and their drivers *)

\* Steps of a driver at which it is done with its lease, or has none.
Idling == {"idle", "credit", "unclaim"}

\* A lease identifier nobody took has nothing; a lease row names an attempt
\* that was delivered, at most one live lease names it, and only a live lease
\* is worked on.  A pass may take up a lease that was released since it was
\* listed, and then gets no further than `recover`.
LeaseRows ==
  /\ \A l \in Leases : lstate[l] = "free" =>
       /\ cap[l] = "absent" /\ ~late[l] /\ lobs[l] = "none"
       /\ lattempt[l] = NoAttempt /\ pc[l] = "idle"
  /\ \A l \in Leases : lstate[l] # "free" =>
       lattempt[l] \in Attempts /\ astate[lattempt[l]] # "absent"
  /\ \A l, m \in Live : lattempt[l] = lattempt[m] => l = m
  /\ \A l \in Leases : pc[l] \notin Idling => l \in Live
  /\ pc[Reconciler] \in CleanSteps \cup Idling
  /\ pc[Reconciler] \notin Idling \cup {"recover"} => recLease \in Live
  /\ phase = "reconciling" => todo \subseteq Live /\ recLease \notin todo

\* A step that creates, releases and re-assigns no lease, and puts nobody to
\* work on a lease that is not live.
RowsKept ==
  /\ UNCHANGED lattempt
  /\ \A l \in Leases : lstate'[l] = "free" <=> lstate[l] = "free"
  /\ \A l \in Leases : lstate'[l] \in LiveLeaseStates <=> lstate[l] \in LiveLeaseStates
  /\ \A a \in Attempts : astate'[a] = "absent" => astate[a] = "absent"
  /\ \A l \in Leases : lstate[l] = "free" =>
       cap'[l] = "absent" /\ ~late'[l] /\ lobs'[l] = "none" /\ pc'[l] = "idle"
  /\ \A l \in Leases : pc'[l] \notin Idling => l \in Live
  /\ pc'[Reconciler] \in CleanSteps \cup Idling
  /\ pc'[Reconciler] \notin Idling \cup {"recover"} => recLease' \in Live
  /\ phase' = "reconciling" => todo' \subseteq Live /\ recLease' \notin todo'

\* Such a step keeps LeaseRows.
LEMMA KeptRows == ASSUME TypeOK, LeaseRows, RowsKept PROVE LeaseRows'
<1>1. \A l : l \in Live' <=> l \in Live
  BY DEF RowsKept, Live
<1>2. \A l \in Leases : lstate'[l] # "free"
        => lattempt'[l] \in Attempts /\ astate'[lattempt'[l]] # "absent"
  BY DEF RowsKept, LeaseRows
<1> QED
  BY <1>1, <1>2 DEF RowsKept, LeaseRows

\* A step of driver d that touches its lease l, the attempt of l, and of other
\* leases nothing but a registration that ends.
Local(d, l) ==
  /\ \A e \in Drivers : e # d => pc'[e] = pc[e] /\ obs'[e] = obs[e]
  /\ \A m \in Leases : m # l =>
       /\ lstate'[m] = lstate[m] /\ lobs'[m] = lobs[m]
       /\ cap'[m] = cap[m] /\ late'[m] = late[m] /\ stray'[m] = stray[m]
  /\ stray'[l] # "none" => stray[l] # "none" \/ (d = l /\ pc[l] = "create")
  /\ \A a \in Attempts : a # lattempt[l] =>
       astate'[a] = astate[a] /\ aev'[a] = aev[a] /\ ares'[a] = ares[a]
  /\ \A m \in Leases : reg'[m] = "idle" => reg[m] = "idle" \/ (m = l /\ pc[l] = "jit")
  /\ UNCHANGED <<lattempt, phase, todo, execs, begun, resolves>>

\* Where preparation takes a lease's goroutine and its lease, and in which state
\* it leaves the lease's attempt.
LEMMA PreparationLocal ==
  ASSUME TypeOK, NEW l \in Leases, Preparation(l)
  PROVE  /\ Local(l, l) /\ UNCHANGED <<recLease, lobs, late, stray, obs, ares>>
         /\ pc[l] \in PrepareSteps /\ pc'[l] \in PrepareSteps \cup {"advance", "recover"}
         /\ lstate'[l] = lstate[l]
              \/ (lstate[l] \in LiveLeaseStates /\ lstate'[l] \in LiveLeaseStates)
         /\ cap'[l] \in {cap[l], "created", "waiting"}
         /\ \A a \in Attempts : astate'[a] = "absent" => astate[a] = "absent"
<1> l \in Drivers
  BY DEF Drivers
<1> USE DEF Step, Local, TypeOK, PrepareSteps
<1>1. CASE Launch(l) \/ RegisterRuntime(l)
  BY <1>1 DEF Launch, RegisterRuntime, TransitionLease, LiveLeaseStates, LeaseStates
<1>2. CASE GenerateJITConfig(l)
  BY <1>2 DEF GenerateJITConfig
<1>3. CASE AdvancePreparing(l)
  BY <1>3 DEF AdvancePreparing, TryAdvance
<1>4. CASE PlanResources(l)
  BY <1>4 DEF PlanResources
<1>5. CASE CreateCapsule(l) \/ BootCapsule(l)
  BY <1>5 DEF CreateCapsule, BootCapsule
<1>6. CASE IncompatibleImage(l)
  BY <1>6 DEF IncompatibleImage
<1>7. CASE RecordPrepared(l)
  BY <1>7 DEF RecordPrepared, RecordEvidence
<1> QED
  BY <1>1, <1>2, <1>3, <1>4, <1>5, <1>6, <1>7 DEF Preparation

\* The same of the steps from the authorization to the release.
LEMMA ExecutionLocal ==
  ASSUME TypeOK, NEW l \in Leases, Execution(l)
  PROVE  /\ Local(l, l) /\ UNCHANGED <<recLease, lobs, stray, ares>>
         /\ pc[l] \in StartSteps \cup AdoptSteps
         /\ pc'[l] \in StartSteps \cup AdoptSteps \cup {"recover", "remove"}
         /\ lstate'[l] = lstate[l]
              \/ (lstate[l] \in LiveLeaseStates /\ lstate'[l] \in LiveLeaseStates)
         /\ \A a \in Attempts : astate'[a] = "absent" => astate[a] = "absent"
<1> l \in Drivers
  BY DEF Drivers
<1> USE DEF Step, Local, TypeOK, StartSteps, AdoptSteps
<1>1. CASE AdvancePrepared(l) \/ AdvanceRunning(l)
  BY <1>1 DEF AdvancePrepared, AdvanceRunning, TryAdvance
<1>2. CASE AuthorizeStart(l)
  BY <1>2 DEF AuthorizeStart
<1>3. CASE RecordStartAuthorized(l)
  BY <1>3 DEF RecordStartAuthorized, RecordEvidence
<1>4. CASE RecordRunning(l)
  BY <1>4 DEF RecordRunning, TryRecordEvidence, RecordEvidence
<1>5. CASE Start(l)
  BY <1>5 DEF Start
<1>6. CASE InspectStart(l)
  BY <1>6 DEF InspectStart, TryRecordEvidence, RecordEvidence
<1>7. CASE WaitExit(l)
  BY <1>7 DEF WaitExit, TryRecordEvidence, RecordEvidence
<1>8. CASE LeaseRunning(l)
  BY <1>8 DEF LeaseRunning, TransitionLease, LiveLeaseStates, LeaseStates
<1>9. CASE WalkToRunning(l)
  BY <1>9 DEF WalkToRunning, Adoptable, LiveLeaseStates, LeaseStates
<1>10. CASE Release(l)
  BY <1>10 DEF Release, TransitionThrough, LiveLeaseStates, LeaseStates
<1> QED
  BY <1>1, <1>2, <1>3, <1>4, <1>5, <1>6, <1>7, <1>8, <1>9, <1>10 DEF Execution

\* The same of a cleanup, by whichever driver; its target is a lease.
LEMMA CleanupLocal ==
  ASSUME TypeOK, Ownership, NEW d \in Drivers, Cleanup(d) \/ StepFails(d), ~Finalize(d)
  PROVE  /\ Local(d, Target(d)) /\ Target(d) \in Leases /\ pc[d] # "idle"
         /\ UNCHANGED <<astate, aev, ares>>
         /\ cap'[Target(d)] \in {cap[Target(d)], "absent"}
         /\ ~Unclaim(d) => UNCHANGED recLease
         /\ lstate'[Target(d)] = lstate[Target(d)]
              \/ (lstate[Target(d)] \in LiveLeaseStates /\ lstate'[Target(d)] \in LiveLeaseStates)
         /\ pc'[d] \in CleanSteps \cup Idling
<1>1. pc[d] # "idle" => Target(d) \in Leases
  BY DEF Ownership, TypeOK, Target, Drivers
<1> USE DEF Step, Local, TypeOK, CleanSteps, Idling
<1> DEFINE l == Target(d)
<1>2. CASE Recover(d)
  <2>1. /\ lstate' \in {lstate, [lstate EXCEPT ![l] = "cleaning"]}
        /\ lstate' # lstate => lstate[l] \in LiveLeaseStates
    BY <1>1, <1>2 DEF Recover, ValidTransition, transitions, LiveLeaseStates, LeaseStates
  <2> QED
    BY <1>1, <1>2, <2>1 DEF Recover, Done, LiveLeaseStates, LeaseStates
<1>3. CASE Deregister(d)
  BY <1>1, <1>3 DEF Deregister
<1>4. CASE RecordStartObservation(d)
  BY <1>1, <1>4 DEF RecordStartObservation
<1>5. CASE NothingToRemove(d) \/ RemoveObject(d) \/ ForgetResource(d)
  BY <1>1, <1>5 DEF NothingToRemove, RemoveObject, ForgetResource
<1>6. CASE Quarantine(d)
  BY <1>1, <1>6 DEF Quarantine, TransitionLease, Failed, LiveLeaseStates, LeaseStates
<1>7. CASE ReleaseCreditIfDone(d) \/ Unclaim(d)
  BY <1>1, <1>7 DEF ReleaseCreditIfDone, Unclaim
<1>8. CASE StepFails(d)
  <2>1. /\ \A m \in Leases : m # l => stray'[m] = stray[m]
        /\ stray'[l] # "none" => stray[l] # "none" \/ (d = l /\ pc[l] = "create")
    BY <1>1, <1>8, ServingAssumption DEF StepFails, LoseCreates, Target, PrepareSteps
  <2> QED
    BY <1>1, <1>8, <2>1 DEF StepFails, OnError, Failed, PrepareSteps
<1> QED
  BY <1>2, <1>3, <1>4, <1>5, <1>6, <1>7, <1>8 DEF Cleanup

\* A driver that works on its lease keeps LeaseRows.
LEMMA DriverRows ==
  ASSUME TypeOK, Ownership, LeaseRows, NEW d \in Drivers,
         \/ d \in Leases /\ (Preparation(d) \/ Execution(d))
         \/ (Cleanup(d) \/ StepFails(d)) /\ ~Finalize(d)
  PROVE  LeaseRows'
<1> DEFINE l == Target(d)
<1>1. /\ l \in Leases /\ pc[d] # "idle" /\ Local(d, l)
      /\ lstate'[l] = lstate[l] \/ (l \in Live /\ lstate'[l] \in LiveLeaseStates)
      /\ \A a \in Attempts : astate'[a] = "absent" => astate[a] = "absent"
      /\ d = Reconciler => pc'[d] \in CleanSteps \cup Idling
  BY PreparationLocal, ExecutionLocal, CleanupLocal, ServingAssumption
  DEF Target, Live, PrepareSteps, StartSteps, AdoptSteps
<1>2. lstate[l] # "free" /\ (d = Reconciler => pc[l] = "idle")
  BY <1>1, ServingAssumption DEF Ownership, OneDriver, LeaseRows, Target, Drivers
<1>3. d \in Leases /\ pc'[d] \notin Idling => d \in Live
  <2>1. d \in Leases /\ pc[d] \notin Idling => d \in Live
    BY DEF LeaseRows
  <2>2. Cleanup(d) /\ pc[d] \in Idling => pc'[d] \in Idling
    BY DEF Cleanup, Recover, Deregister, RecordStartObservation, NothingToRemove, RemoveObject,
           ForgetResource, Finalize, Quarantine, ReleaseCreditIfDone, Unclaim, Idling, Step, TypeOK
  <2>3. StepFails(d) => pc[d] \notin Idling
    BY DEF StepFails, Idling, PrepareSteps
  <2>4. d \in Leases /\ (Preparation(d) \/ Execution(d)) => pc[d] \notin Idling
    BY PreparationLocal, ExecutionLocal DEF Idling, PrepareSteps, StartSteps, AdoptSteps
  <2> QED
    BY <2>1, <2>2, <2>3, <2>4
<1>4. d = Reconciler /\ pc'[d] \notin Idling \cup {"recover"} => l \in Live
  <2>1. d = Reconciler /\ pc[d] \notin Idling \cup {"recover"} => l \in Live
    BY DEF LeaseRows, Target
  <2>2. Recover(d) /\ pc'[d] \notin Idling => l \in Live
    BY <1>1 DEF Recover, Step, Done, Idling, TypeOK, ValidTransition, transitions, Live,
                LiveLeaseStates, LeaseStates
  <2>3. Cleanup(d) /\ ~Recover(d) /\ pc[d] \in Idling \cup {"recover"} => pc'[d] \in Idling
    BY DEF Cleanup, Deregister, RecordStartObservation, NothingToRemove, RemoveObject,
           ForgetResource, Finalize, Quarantine, ReleaseCreditIfDone, Unclaim, Idling, Step, TypeOK
  <2>4. d = Reconciler /\ StepFails(d) /\ pc[d] \in Idling \cup {"recover"} => pc'[d] \in Idling
    BY DEF StepFails, OnError, Failed, Idling, PrepareSteps, Step, TypeOK
  <2> QED
    BY <2>1, <2>2, <2>3, <2>4, ServingAssumption
<1>5. recLease' \in {recLease, NoLease}
  BY PreparationLocal, ExecutionLocal, CleanupLocal DEF Unclaim
<1>6. pc'[Reconciler] \notin Idling \cup {"recover"} => recLease' \in Live
  <2>1. pc'[Reconciler] \notin Idling \cup {"recover"} /\ d = Reconciler => recLease' = l
    <3>1. Unclaim(d) => pc'[d] = "idle"
      BY DEF Unclaim, Step, TypeOK
    <3> QED
      BY <3>1, CleanupLocal, ServingAssumption DEF Target, Idling
  <2>2. d # Reconciler => recLease' = recLease /\ pc'[Reconciler] = pc[Reconciler]
    <3>1. d # Reconciler => pc'[Reconciler] = pc[Reconciler]
      BY <1>1 DEF Local, Drivers
    <3>2. d # Reconciler /\ Unclaim(d) => recLease' = recLease
      BY DEF Unclaim
    <3> QED
      BY <3>1, <3>2, PreparationLocal, ExecutionLocal, CleanupLocal
  <2> QED
    BY <1>4, <2>1, <2>2 DEF LeaseRows
<1>7. \A m \in Leases : pc'[m] \notin Idling => m \in Live
  BY <1>1, <1>3, ServingAssumption DEF Local, Drivers, LeaseRows
<1>8. pc'[Reconciler] \in CleanSteps \cup Idling
  BY <1>1 DEF Local, Drivers, LeaseRows
<1>9. \A m \in Leases : lstate[m] = "free" => m # l /\ m # d
  BY <1>1, <1>2 DEF LeaseRows
<1>10. RowsKept
  <2>1. /\ \A m \in Leases : lstate'[m] = "free" <=> lstate[m] = "free"
        /\ \A m \in Leases : lstate'[m] \in LiveLeaseStates <=> lstate[m] \in LiveLeaseStates
    BY <1>1, <1>2 DEF Local, Live, LiveLeaseStates
  <2>2. \A m \in Leases : lstate[m] = "free" =>
          cap'[m] = "absent" /\ ~late'[m] /\ lobs'[m] = "none" /\ pc'[m] = "idle"
    BY <1>1, <1>9 DEF Local, LeaseRows, Drivers
  <2>3. phase' = "reconciling" => todo' \subseteq Live /\ recLease' \notin todo'
    BY <1>1, <1>5, ServingAssumption DEF Local, LeaseRows, TypeOK
  <2> QED
    BY <1>1, <1>6, <1>7, <1>8, <2>1, <2>2, <2>3 DEF RowsKept, Local
<1> QED
  BY <1>10, KeptRows

\* The finalizing transaction takes its lease from the live ones and its
\* attempt to no state before its delivery.
LEMMA FinalizeRows ==
  ASSUME TypeOK, Ownership, LeaseRows, NEW d \in Drivers, Finalize(d)
  PROVE  LeaseRows'
<1> DEFINE l == Target(d)
<1>1. /\ l \in Leases /\ l \in Live /\ pc[d] = "finalize" /\ (d = Reconciler => pc[l] = "idle")
      /\ lattempt[l] \in Attempts /\ (d # Reconciler => d = l)
  BY ServingAssumption
  DEF Finalize, Ownership, OneDriver, TypeOK, Target, Drivers, LeaseRows, TransitionLease, Live,
      LiveLeaseStates, LeaseStates
<1>2. /\ \A m \in Leases : lstate'[m] = IF m = l THEN "released" ELSE lstate[m]
      /\ \A e \in Drivers : e # d => pc'[e] = pc[e]
      /\ pc'[d] \in Idling
      /\ UNCHANGED <<lattempt, lobs, cap, late, recLease, todo, phase>>
  BY DEF Finalize, TransitionLease, Step, Done, Idling, TypeOK
<1>3. \A a \in Attempts : astate'[a] = "absent" => astate[a] = "absent"
  BY DEF Finalize, DisposeAttempt, TypeOK
<1>4. \A m : m \in Live' <=> m \in Live /\ m # l
  BY <1>1, <1>2 DEF Live, LiveLeaseStates
<1>5. phase = "reconciling" => l \notin todo
  BY <1>1, <1>2, ServingAssumption DEF Ownership, LeaseRows, Target, Drivers, TypeOK
<1>6. \A m \in Leases : pc'[m] \notin Idling => m \in Live'
  BY <1>1, <1>2, <1>4, ServingAssumption DEF LeaseRows, Drivers, Idling
<1>7. pc'[Reconciler] \notin Idling \cup {"recover"} => recLease' \in Live'
  BY <1>1, <1>2, <1>4, ServingAssumption DEF LeaseRows, Drivers, Idling, Ownership, OneDriver
<1>8. \A m \in Leases : lstate'[m] # "free"
        => lattempt'[m] \in Attempts /\ astate'[lattempt'[m]] # "absent"
  <2>1. \A m \in Leases : lstate'[m] # "free" => lstate[m] # "free"
    BY <1>1, <1>2 DEF Live, LiveLeaseStates
  <2> QED
    BY <1>2, <1>3, <2>1 DEF LeaseRows
<1>9. \A m \in Leases : lstate'[m] = "free" => lstate[m] = "free" /\ m # l /\ m # d
  BY <1>1, <1>2 DEF LeaseRows
<1> QED
  BY <1>2, <1>4, <1>5, <1>6, <1>7, <1>8, <1>9 DEF LeaseRows, Drivers

\* A new lease takes an identifier nobody used, for an attempt without a live
\* lease.
LEMMA AdmissionRows ==
  ASSUME TypeOK, Ownership, LeaseRows, NEW l \in Leases, Admission(l)
  PROVE  LeaseRows'
<1> l \in Drivers /\ l # Reconciler
  BY ServingAssumption DEF Drivers
<1>1. CASE CreateLease(l)
  <2>1. /\ \A m \in Leases : lstate'[m] = IF m = l THEN "reserved" ELSE lstate[m]
        /\ \A m \in Leases : lattempt'[m] = IF m = l THEN sched ELSE lattempt[m]
        /\ \A e \in Drivers : pc'[e] = IF e = l THEN "committed" ELSE pc[e]
        /\ \A a \in Attempts : astate'[a] = IF a = sched THEN "leased" ELSE astate[a]
        /\ UNCHANGED <<lobs, cap, late, recLease, todo, phase>>
        /\ sched \in Attempts /\ lstate[l] = "free"
        /\ \A m \in Live : lattempt[m] # sched
    BY <1>1 DEF CreateLease, Step, TypeOK, LiveLeasesOf, Live
  <2>2. \A m : m \in Live' <=> m \in Live \/ m = l
    BY <2>1 DEF Live, LiveLeaseStates, LeaseStates
  <2>3. \A k, m \in Live' : lattempt'[k] = lattempt'[m] => k = m
    BY <2>1, <2>2 DEF LeaseRows, Live
  <2>4. \A m \in Leases : lstate'[m] # "free"
          => lattempt'[m] \in Attempts /\ astate'[lattempt'[m]] # "absent"
    BY <2>1 DEF LeaseRows
  <2> QED
    BY <2>1, <2>2, <2>3, <2>4 DEF LeaseRows, Drivers
<1>2. CASE Claim(l)
  <2>1. RowsKept
    BY <1>2 DEF Claim, Step, TypeOK, Drivers, LeaseRows, RowsKept, Idling
  <2> QED
    BY <2>1, KeptRows
<1> QED
  BY <1>1, <1>2 DEF Admission

\* The passes take up only live leases but for the one released meanwhile.
LEMMA ReconcileRows ==
  ASSUME TypeOK, Ownership, LeaseRows, Reconcile
  PROVE  LeaseRows'
<1> SUFFICES RowsKept
  BY KeptRows
<1> USE ServingAssumption DEF RowsKept, LeaseRows, Step, TypeOK, Drivers, Idling, CleanSteps
<1>1. ASSUME NEW keep \in BOOLEAN, BeginReconcile(keep) PROVE RowsKept
  BY <1>1 DEF BeginReconcile, Ownership, Live
<1>2. ASSUME NEW l \in Leases, Adopt(l) PROVE RowsKept
  <2>1. l \in Live /\ lstate[l] # "free"
    BY <1>2 DEF Adopt, Live, LiveLeaseStates
  <2> QED
    BY <1>2, <2>1 DEF Adopt
<1>3. ASSUME NEW l \in Leases, ResolveInterrupted(l) PROVE RowsKept
  <2>1. l \in Live /\ lstate[l] # "free"
    BY <1>3 DEF ResolveInterrupted, Live, LiveLeaseStates
  <2>2. /\ UNCHANGED <<lstate, lattempt, astate, cap, late, lobs, phase>>
        /\ \A m \in Leases : pc'[m] = pc[m]
        /\ todo' = todo \ {l} /\ recLease' \in {l, recLease}
        /\ pc'[Reconciler] \in {"idle", "recover", "deregister"}
        /\ pc'[Reconciler] = "deregister" => recLease' = l
        /\ phase = "reconciling"
    BY <1>3 DEF ResolveInterrupted
  <2> QED
    BY <2>1, <2>2
<1>4. ASSUME NEW l \in Leases, RetryStranded(l) PROVE RowsKept
  BY <1>4 DEF RetryStranded
<1>5. ASSUME NEW l \in Leases, SkipStranded(l) PROVE RowsKept
  BY <1>5 DEF SkipStranded
<1>6. CASE FinishReconcile
  <2>1. \A l \in Leases : lstate[l] = "free" => cap'[l] = "absent" /\ ~late'[l]
    BY <1>6, SweepTakes DEF FinishReconcile
  <2> QED
    BY <1>6, <2>1 DEF FinishReconcile
<1>7. CASE ReconcileFails \/ BeginPass
  BY <1>7 DEF ReconcileFails, BeginPass
<1>8. CASE SweepPeriodically
  <2>1. \A l \in Leases : lstate[l] = "free" => cap'[l] = "absent" /\ ~late'[l]
    BY <1>8, SweepTakes DEF SweepPeriodically, Live
  <2> QED
    BY <1>8, <2>1 DEF SweepPeriodically
<1> QED
  BY <1>1, <1>2, <1>3, <1>4, <1>5, <1>6, <1>7, <1>8 DEF Reconcile

\* Every step keeps LeaseRows.
LEMMA RowsStep ==
  TypeOK /\ Ownership /\ IntentCovers /\ LeaseRows /\ [Next]_vars => LeaseRows'
<1> SUFFICES ASSUME TypeOK, Ownership, IntentCovers, LeaseRows, [Next]_vars PROVE LeaseRows'
  OBVIOUS
<1>1. ASSUME NEW l \in Leases, Preparation(l) \/ Execution(l) PROVE LeaseRows'
  BY <1>1, DriverRows DEF Drivers
<1>2. ASSUME NEW d \in Drivers, Cleanup(d) \/ StepFails(d) PROVE LeaseRows'
  BY <1>2, DriverRows, FinalizeRows
<1>3. ASSUME UNCHANGED <<lstate, lattempt, lobs, pc, recLease, todo, phase>>,
             \A a \in Attempts : astate'[a] = "absent" => astate[a] = "absent",
             \A l \in Leases : lstate[l] = "free" /\ cap[l] = "absent" /\ ~late[l]
                                => cap'[l] = "absent" /\ ~late'[l]
      PROVE  LeaseRows'
  BY <1>3, KeptRows DEF RowsKept, LeaseRows
<1>4. ASSUME NEW l \in Leases, Capsule(l) PROVE LeaseRows'
  <2>1. CASE LateCreateLands(l)
    <3>1. lstate[l] # "free"
      BY <2>1 DEF LateCreateLands, IntentCovers
    <3> QED
      BY <1>3, <2>1, <3>1 DEF LateCreateLands, TypeOK
  <2> QED
    BY <1>3, <1>4, <2>1
    DEF Capsule, Fork, AbortCapsule, RunnerExits, Kill, LateStartLands, TakeJob, ExpireRunner,
        TypeOK, ContainerRunning
<1>5. ASSUME NEW a \in Attempts, Reserve(a) \/ Outside(a) PROVE LeaseRows'
  BY <1>3, <1>5
  DEF Reserve, Outside, Deliver, Supersede, CancelReady, ResolveReviewToReady,
      ResolveReviewToSettled, TypeOK
<1>6. CASE CreateLeaseFails \/ UNCHANGED vars
  BY <1>3, <1>6 DEF CreateLeaseFails, vars
<1>7. CASE Process
  <2>1. CASE ProcessEnds
    BY <2>1, KeptRows, ServingAssumption DEF ProcessEnds, RowsKept, LeaseRows, Idling, Drivers
  <2>2. CASE BeginDrain \/ DrainWindowElapses
    BY <2>2, KeptRows DEF BeginDrain, DrainWindowElapses, RowsKept, LeaseRows
  <2> QED
    BY <1>7, <2>1, <2>2 DEF Process, Crash, Drained, Abandon
<1> QED
  BY <1>1, <1>2, <1>4, <1>5, <1>6, <1>7, AdmissionRows, ReconcileRows DEF Next

\* LeaseRows is an invariant.
LEMMA RowsInvariant == Spec => [](TypeOK /\ Ownership /\ IntentCovers /\ LeaseRows)
<1>1. Init => Ownership /\ IntentCovers /\ LeaseRows
  BY ServingAssumption
  DEF Init, Ownership, OneDriver, IntentCovers, ReleasedIsClean, Drivers, PrepareSteps, LeaseRows,
      Idling, Live, LiveLeaseStates
<1> QED
  BY <1>1, TypeCorrect, OwnershipStep, IntentStep, RowsStep, PTL DEF Spec

-----------------------------------------------------------------------------
(* The retry budget *)

\* ServingsWithinBudget, with what keeps it true: an attempt in the queue has a
\* serving of its budget left.
BudgetInv ==
  /\ ServingsWithinBudget
  /\ \A a \in Attempts : astate[a] = "ready" => Servings(a) < RetryBudget + resolves[a]

\* Servings are counted over the finite set of leases.
LEMMA ServingsFinite ==
  ASSUME NEW a
  PROVE  /\ IsFiniteSet({l \in Leases : lattempt[l] = a}) /\ Servings(a) \in Nat
BY ServingAssumption, FS_Subset, FS_CardinalityType DEF Servings

\* A step that admits nothing keeps the budget if what it sends to the queue
\* has a serving left.
LEMMA BudgetFrame ==
  ASSUME BudgetInv, UNCHANGED <<lattempt, resolves>>,
         \A a \in Attempts : astate'[a] = "ready" =>
           astate[a] = "ready" \/ Servings(a) < RetryBudget + resolves[a]
  PROVE  BudgetInv'
<1>1. \A a \in Attempts : Servings(a)' = Servings(a)
  BY DEF Servings
<1> QED
  BY <1>1 DEF BudgetInv, ServingsWithinBudget

\* A new lease is one more serving of an attempt that had one left.
LEMMA BudgetCreate ==
  ASSUME TypeOK, LeaseRows, BudgetInv, NEW l \in Leases, CreateLease(l)
  PROVE  BudgetInv'
<1>1. /\ \A m \in Leases : lattempt'[m] = IF m = l THEN sched ELSE lattempt[m]
      /\ \A a \in Attempts : astate'[a] = IF a = sched THEN "leased" ELSE astate[a]
      /\ UNCHANGED resolves
      /\ sched \in Attempts /\ astate[sched] = "ready" /\ lattempt[l] = NoAttempt
  BY DEF CreateLease, TypeOK, LeaseRows
<1> DEFINE Of(a) == {m \in Leases : lattempt[m] = a}
<1>2. ASSUME NEW a \in Attempts, a = sched PROVE Servings(a)' = Servings(a) + 1
  <2>1. {m \in Leases : lattempt'[m] = a} = Of(a) \cup {l} /\ l \notin Of(a)
    BY <1>1, <1>2, ServingAssumption
  <2>2. IsFiniteSet(Of(a)) /\ Servings(a)' = Cardinality(Of(a) \cup {l})
    BY <2>1, ServingsFinite DEF Servings
  <2>3. Servings(a) = Cardinality(Of(a))
    BY DEF Servings
  <2> HIDE DEF Of
  <2> QED
    BY <2>1, <2>2, <2>3, FS_AddElement
<1>3. ASSUME NEW a \in Attempts, a # sched PROVE Servings(a)' = Servings(a)
  <2>1. {m \in Leases : lattempt'[m] = a} = {m \in Leases : lattempt[m] = a}
    BY <1>1, <1>3, ServingAssumption
  <2> QED
    BY <2>1 DEF Servings
<1>4. \A a \in Attempts : Servings(a)' <= RetryBudget + resolves'[a]
  <2>1. \A a \in Attempts : Servings(a) \in Nat /\ resolves[a] \in Nat /\ RetryBudget \in Nat
    BY ServingsFinite, ServingAssumption DEF TypeOK
  <2>2. \A a \in Attempts : Servings(a)' = IF a = sched THEN Servings(a) + 1 ELSE Servings(a)
    BY <1>2, <1>3
  <2> QED
    BY <1>1, <2>1, <2>2 DEF BudgetInv, ServingsWithinBudget
<1>5. \A a \in Attempts : astate'[a] = "ready" => Servings(a)' < RetryBudget + resolves'[a]
  BY <1>1, <1>3 DEF BudgetInv
<1> QED
  BY <1>4, <1>5 DEF BudgetInv, ServingsWithinBudget

\* The requeue compares the budget, and an operator's decision adds one to it.
LEMMA BudgetStep == TypeOK /\ LeaseRows /\ BudgetInv /\ [Next]_vars => BudgetInv'
<1> SUFFICES ASSUME TypeOK, LeaseRows, BudgetInv, [Next]_vars PROVE BudgetInv'
  OBVIOUS
<1>1. ASSUME UNCHANGED <<astate, lattempt, resolves>> PROVE BudgetInv'
  BY <1>1, BudgetFrame
<1>2. ASSUME NEW l \in Leases, Preparation(l) \/ Execution(l) PROVE BudgetInv'
  <2>1. UNCHANGED <<lattempt, resolves>>
    BY <1>2, PreparationLocal, ExecutionLocal DEF Local
  <2>2. \A a \in Attempts : astate'[a] = "ready" => astate[a] = "ready"
    BY <1>2
    DEF Preparation, Launch, GenerateJITConfig, RegisterRuntime, AdvancePreparing,
        PlanResources, CreateCapsule, BootCapsule, IncompatibleImage, RecordPrepared, Execution,
        AdvancePrepared, AuthorizeStart, RecordStartAuthorized, Start, InspectStart,
        RecordRunning, AdvanceRunning, LeaseRunning, WaitExit, WalkToRunning, Release,
        TryAdvance, TypeOK
  <2> QED
    BY <2>1, <2>2, BudgetFrame
<1>3. ASSUME NEW d \in Drivers, Finalize(d) PROVE BudgetInv'
  <2> DEFINE l == Target(d)
  <2>1. UNCHANGED <<lattempt, resolves>>
    BY <1>3 DEF Finalize
  <2>2. \A a \in Attempts : astate'[a] = "ready" =>
          astate[a] = "ready" \/ Servings(a) < RetryBudget
    BY <1>3 DEF Finalize, DisposeAttempt, TypeOK
  <2>3. \A a \in Attempts : Servings(a) < RetryBudget => Servings(a) < RetryBudget + resolves[a]
    <3>1. \A a \in Attempts : Servings(a) \in Nat /\ resolves[a] \in Nat /\ RetryBudget \in Nat
      BY ServingsFinite, ServingAssumption DEF TypeOK
    <3> QED
      BY <3>1
  <2> QED
    BY <2>1, <2>2, <2>3, BudgetFrame
<1>4. ASSUME NEW d \in Drivers, Cleanup(d) \/ StepFails(d), ~Finalize(d) PROVE BudgetInv'
  BY <1>1, <1>4
  DEF Cleanup, Recover, Deregister, RecordStartObservation, NothingToRemove, RemoveObject,
      ForgetResource, Quarantine, ReleaseCreditIfDone, Unclaim, StepFails
<1>5. ASSUME NEW a \in Attempts, Deliver(a) PROVE BudgetInv'
  <2>1. {l \in Leases : lattempt[l] = a} = {}
    BY <1>5, ServingAssumption DEF Deliver, LeaseRows
  <2>2. Servings(a) = 0
    BY <2>1, FS_EmptySet DEF Servings
  <2> QED
    BY <1>5, <2>2, BudgetFrame, ServingAssumption DEF Deliver, TypeOK
<1>6. ASSUME NEW a \in Attempts, Supersede(a) \/ CancelReady(a) \/ ResolveReviewToSettled(a)
      PROVE  BudgetInv'
  BY <1>6, BudgetFrame DEF Supersede, CancelReady, ResolveReviewToSettled, TypeOK
<1>7. ASSUME NEW a \in Attempts, ResolveReviewToReady(a) PROVE BudgetInv'
  <2>1. \A b \in Attempts : Servings(b)' = Servings(b) /\ Servings(b) \in Nat
    BY <1>7, ServingsFinite DEF ResolveReviewToReady, Servings
  <2>2. \A b \in Attempts : /\ resolves'[b] = IF b = a THEN resolves[b] + 1 ELSE resolves[b]
                            /\ b # a => astate'[b] = astate[b]
    BY <1>7 DEF ResolveReviewToReady, TypeOK
  <2> QED
    BY <2>1, <2>2, ServingAssumption DEF BudgetInv, ServingsWithinBudget, TypeOK
<1>8. ASSUME NEW l \in Leases, Claim(l) \/ Capsule(l) PROVE BudgetInv'
  BY <1>1, <1>8
  DEF Claim, Capsule, Fork, AbortCapsule, RunnerExits, Kill, LateCreateLands, LateStartLands,
      TakeJob, ExpireRunner
<1>9. CASE Reconcile \/ Process
  BY <1>1, <1>9
  DEF Reconcile, BeginReconcile, Adopt, ResolveInterrupted, RetryStranded, SkipStranded,
      FinishReconcile, ReconcileFails, BeginPass, SweepPeriodically, Process, Crash, BeginDrain, Drained,
      DrainWindowElapses, Abandon, ProcessEnds
<1>10. CASE CreateLeaseFails \/ UNCHANGED vars \/ \E a \in Attempts : Reserve(a)
  BY <1>1, <1>10 DEF CreateLeaseFails, Reserve, vars
<1> QED
  BY <1>2, <1>3, <1>4, <1>5, <1>6, <1>7, <1>8, <1>9, <1>10, BudgetCreate DEF Next, Admission, Outside

\* An attempt is served at most RetryBudget times, plus once for every time an
\* operator sent it back, however its servings failed and wherever the
\* controller crashed.
THEOREM ServingsStayWithinBudget == Spec => []ServingsWithinBudget
<1>1. Init => BudgetInv
  <2> SUFFICES ASSUME Init PROVE BudgetInv
    OBVIOUS
  <2>1. \A a \in Attempts : {l \in Leases : lattempt[l] = a} = {}
    BY ServingAssumption DEF Init
  <2>2. \A a \in Attempts : Servings(a) = 0
    BY <2>1, FS_EmptySet DEF Servings
  <2> QED
    BY <2>2, ServingAssumption DEF Init, BudgetInv, ServingsWithinBudget
<1>2. BudgetInv => ServingsWithinBudget
  BY DEF BudgetInv
<1> QED
  BY <1>1, <1>2, RowsInvariant, BudgetStep, PTL DEF Spec

-----------------------------------------------------------------------------
(* What was authorized before a runner could start *)

\* Steps of a goroutine that has not asked its capsule to start.
BeforeStart == PrepareSteps \cup {"committed", "advance", "authorize", "authorized", "start"}

\* Steps between the authorization and the evidence of its outcome.
AfterAuthorization == {"authorized", "start", "inspect", "started"}

Authorized == {"starting", "running"}

\* A capsule whose supervisor was told to start.
Began == {"starting", "running", "exited"}

\* The capsule of lease l is told to start only by its goroutine, after the
\* authorization and its evidence are in the attempt's row, and they stay there
\* while the lease lives; a create that was given up on is told nothing at all.
StartOf(l) ==
  LET a == lattempt[l] IN
  /\ stray[l] # "none" => pc[l] \notin BeforeStart /\ cap[l] \notin Began /\ ~late[l]
  /\ pc[l] \in BeforeStart => cap[l] \notin Began /\ ~late[l]
  /\ pc[l] \in AfterAuthorization => astate[a] \in Authorized
  /\ pc[l] = "start" => aev[a] \notin Retriable
  /\ l \in Live /\ (cap[l] \in Began \/ late[l]) =>
       astate[a] \in Authorized /\ aev[a] \notin Retriable

StartInv == \A l \in Leases : StartOf(l)

\* Recording evidence never makes an attempt retriable again.
LEMMA EvidenceRises ==
  ASSUME TypeOK, NEW a \in Attempts, NEW e \in Evidence, RecordEvidence(a, e),
         NEW b \in Attempts, aev[b] \notin Retriable
  PROVE  aev'[b] \notin Retriable
BY DEF RecordEvidence, evidenceRank, Retriable, Evidence, TypeOK

\* A step that tells no capsule to start, takes no attempt out of its
\* authorization and moves nobody past it.
StartKept ==
  /\ UNCHANGED lattempt
  /\ \A l \in Leases : lstate'[l] \in LiveLeaseStates => lstate[l] \in LiveLeaseStates
  /\ \A l \in Leases :
       /\ pc'[l] \in BeforeStart => pc[l] \in BeforeStart
       /\ pc'[l] \in AfterAuthorization => pc[l] \in AfterAuthorization
       /\ pc'[l] = "start" => pc[l] = "start"
       /\ cap'[l] \in Began \/ late'[l] => cap[l] \in Began \/ late[l]
       /\ stray'[l] # "none" =>
            stray[l] # "none" \/ (pc[l] \in BeforeStart /\ pc'[l] \notin BeforeStart)
  /\ \A a \in Attempts : astate[a] \in Authorized =>
       astate'[a] \in Authorized /\ (aev[a] \notin Retriable => aev'[a] \notin Retriable)

\* Such a step keeps StartInv.
LEMMA KeptStart == ASSUME TypeOK, LeaseRows, StartInv, StartKept PROVE StartInv'
<1> SUFFICES ASSUME NEW l \in Leases PROVE StartOf(l)'
  BY DEF StartInv
<1>1. StartOf(l)
  BY DEF StartInv
<1>2. pc[l] \in AfterAuthorization \/ l \in Live => lattempt[l] \in Attempts
  BY DEF LeaseRows, Live, LiveLeaseStates, Idling, AfterAuthorization
<1>3. pc[l] = "start" => pc[l] \in AfterAuthorization
  BY DEF AfterAuthorization
<1>4. l \in Live' => l \in Live
  BY DEF StartKept, Live
<1> QED
  BY <1>1, <1>2, <1>3, <1>4 DEF StartKept, StartOf

\* A step of one live lease keeps what StartInv says of the others.
LEMMA OthersStart ==
  ASSUME TypeOK, LeaseRows, StartInv, NEW d \in Drivers, NEW l \in Live, d \in {l, Reconciler},
         Local(d, l), NEW m \in Leases, m # l
  PROVE  StartOf(m)'
<1>1. StartOf(m) /\ l \in Leases /\ m # d /\ m \in Drivers
  BY ServingAssumption DEF StartInv, Live, Drivers
<1>2. /\ pc'[m] = pc[m] /\ cap'[m] = cap[m] /\ late'[m] = late[m] /\ lattempt'[m] = lattempt[m]
      /\ stray'[m] = stray[m] /\ (m \in Live' <=> m \in Live)
  BY <1>1 DEF Local, Live
<1>3. m \in Live => astate'[lattempt[m]] = astate[lattempt[m]] /\ aev'[lattempt[m]] = aev[lattempt[m]]
  BY <1>1 DEF Local, LeaseRows, Live, LiveLeaseStates
<1>4. m \notin Live => pc[m] \notin BeforeStart \cup AfterAuthorization
  BY DEF LeaseRows, Idling, BeforeStart, AfterAuthorization, PrepareSteps
<1>5. "start" \in AfterAuthorization
  BY DEF AfterAuthorization
<1> QED
  BY <1>1, <1>2, <1>3, <1>4, <1>5 DEF StartOf

\* Preparation keeps StartInv.
LEMMA PreparationStart ==
  ASSUME TypeOK, LeaseRows, StartInv, NEW l \in Leases, Preparation(l)
  PROVE  StartInv'
<1>1. /\ Local(l, l) /\ l \in Live /\ l \in Drivers /\ StartOf(l)
      /\ pc[l] \in BeforeStart /\ late' = late /\ lattempt' = lattempt /\ stray' = stray
      /\ pc'[l] \notin AfterAuthorization /\ pc'[l] # "start"
      /\ cap'[l] \in {cap[l], "created", "waiting"}
  BY PreparationLocal
  DEF LeaseRows, StartInv, BeforeStart, AfterAuthorization, PrepareSteps, Idling, Drivers, Local
<1>2. StartOf(l)'
  BY <1>1 DEF StartOf, Began
<1> QED
  BY <1>1, <1>2, OthersStart DEF StartInv

\* Execution keeps StartInv: the authorization, then its evidence, then the
\* start.
LEMMA ExecutionStart ==
  ASSUME TypeOK, LeaseRows, StartInv, NEW l \in Leases, Execution(l)
  PROVE  StartInv'
<1>1. /\ Local(l, l) /\ l \in Live /\ l \in Drivers /\ StartOf(l)
      /\ lattempt' = lattempt /\ stray' = stray /\ lattempt[l] \in Attempts
  BY ExecutionLocal
  DEF LeaseRows, StartInv, StartSteps, AdoptSteps, Idling, Drivers, Local, Live, LiveLeaseStates
<1> SUFFICES StartOf(l)'
  BY <1>1, OthersStart DEF StartInv
<1> USE DEF StartOf, Step, TypeOK, BeforeStart, AfterAuthorization, PrepareSteps
<1>2. CASE AdvancePrepared(l) \/ AdvanceRunning(l)
  BY <1>1, <1>2 DEF AdvancePrepared, AdvanceRunning, TryAdvance, Authorized
<1>3. CASE AuthorizeStart(l)
  BY <1>1, <1>3 DEF AuthorizeStart, Authorized
<1>4. CASE RecordStartAuthorized(l)
  <2>1. aev'[lattempt[l]] = "start_authorized"
    BY <1>1, <1>4 DEF RecordStartAuthorized, RecordEvidence
  <2> QED
    BY <1>1, <1>4, <2>1 DEF RecordStartAuthorized, Retriable
<1>5. CASE RecordRunning(l) \/ InspectStart(l) \/ WaitExit(l)
  <2>1. aev[lattempt[l]] \notin Retriable => aev'[lattempt[l]] \notin Retriable
    BY <1>1, <1>5, EvidenceRises
    DEF RecordRunning, InspectStart, WaitExit, TryRecordEvidence, Evidence
  <2>2. /\ UNCHANGED <<cap, late, astate, lstate>>
        /\ pc'[l] \in {"started", "recover", "advance_running", "release", "walk"}
        /\ pc'[l] = "started" => pc[l] = "inspect"
    BY <1>1, <1>5 DEF RecordRunning, InspectStart, WaitExit
  <2> QED
    BY <1>1, <2>1, <2>2 DEF Live
<1>6. CASE Start(l)
  BY <1>1, <1>6 DEF Start
<1>7. CASE LeaseRunning(l) \/ WalkToRunning(l) \/ Release(l)
  BY <1>1, <1>7 DEF LeaseRunning, WalkToRunning, Release
<1> QED
  BY <1>2, <1>3, <1>4, <1>5, <1>6, <1>7 DEF Execution

\* Cleanup keeps StartInv: only the finalizing transaction takes an attempt out
\* of its authorization, and it ends the lease.
LEMMA CleanupStart ==
  ASSUME TypeOK, Ownership, LeaseRows, StartInv, NEW d \in Drivers, Cleanup(d) \/ StepFails(d)
  PROVE  StartInv'
<1> DEFINE l == Target(d)
<1>1. CASE ~Finalize(d)
  <2>1. /\ Local(d, l) /\ l \in Leases /\ UNCHANGED <<astate, aev>> /\ d \in {l, Reconciler}
        /\ lstate'[l] \in LiveLeaseStates => lstate[l] \in LiveLeaseStates
        /\ cap'[l] \in {cap[l], "absent"} /\ pc'[d] \in CleanSteps \cup Idling
    BY <1>1, CleanupLocal DEF Target, Drivers
  <2>2. late'[l] => late[l]
    BY <1>1, <2>1
    DEF Cleanup, Recover, Deregister, RecordStartObservation, NothingToRemove, RemoveObject,
        ForgetResource, Quarantine, ReleaseCreditIfDone, Unclaim, StepFails, TypeOK
  <2>3. \A m \in Leases : \/ pc'[m] = pc[m]
                          \/ pc'[m] \notin BeforeStart \cup AfterAuthorization \cup {"start"}
    BY <2>1, ServingAssumption
    DEF Local, Drivers, CleanSteps, Idling, BeforeStart, AfterAuthorization, PrepareSteps
  <2>4. StartKept
    <3>1. \A m \in Leases : /\ lstate'[m] \in LiveLeaseStates => lstate[m] \in LiveLeaseStates
                            /\ cap'[m] \in Began \/ late'[m] => cap[m] \in Began \/ late[m]
      BY <2>1, <2>2 DEF Local, Began
    <3>2. \A m \in Leases : stray'[m] # "none" =>
            stray[m] # "none" \/ (pc[m] \in BeforeStart /\ pc'[m] \notin BeforeStart)
      BY <2>1 DEF Local, BeforeStart, PrepareSteps, CleanSteps, Idling
    <3> QED
      BY <2>1, <2>3, <3>1, <3>2 DEF StartKept, Local
  <2> QED
    BY <2>4, KeptStart
<1>2. CASE Finalize(d)
  <2>1. /\ l \in Live /\ l \in Leases /\ d \in {l, Reconciler} /\ Local(d, l)
        /\ pc'[l] \in Idling /\ lstate'[l] = "released" /\ UNCHANGED <<stray, cap, late>>
    BY <1>2, ServingAssumption
    DEF Finalize, TransitionLease, DisposeAttempt, Target, Drivers, Live, LiveLeaseStates,
        LeaseStates, Local, Step, Done, Idling, TypeOK, Ownership, OneDriver
  <2>2. ASSUME NEW k \in Leases, k = l PROVE StartOf(k)'
    <3>1. pc'[k] \in Idling /\ lstate'[k] = "released" /\ StartOf(k)
      BY <2>1, <2>2 DEF StartInv
    <3> QED
      BY <2>1, <3>1 DEF StartOf, Idling, BeforeStart, AfterAuthorization, PrepareSteps, Live, LiveLeaseStates
  <2> QED
    BY <2>1, <2>2, OthersStart DEF StartInv
<1> QED
  BY <1>1, <1>2

\* A capsule past its creation belongs to a live lease.
LEMMA CapsuleIsLive ==
  ASSUME TypeOK, IntentCovers, LeaseRows, NEW l \in Leases, cap[l] \notin {"absent", "created"}
  PROVE  l \in Live /\ lattempt[l] \in Attempts
BY DEF IntentCovers, ReleasedIsClean, LeaseRows, Live, LiveLeaseStates, TypeOK

\* Every step keeps StartInv.
LEMMA StartStep ==
  TypeOK /\ Ownership /\ IntentCovers /\ LeaseRows /\ StartInv /\ [Next]_vars => StartInv'
<1> SUFFICES ASSUME TypeOK, Ownership, IntentCovers, LeaseRows, StartInv, [Next]_vars
             PROVE  StartInv'
  OBVIOUS
<1> SUFFICES ASSUME ~(\E l \in Leases : Preparation(l) \/ Execution(l) \/ CreateLease(l)),
                    ~(\E d \in Drivers : Cleanup(d) \/ StepFails(d))
             PROVE  StartKept
  <2>1. ASSUME NEW l \in Leases, CreateLease(l) PROVE StartInv'
    <3>1. /\ \A m \in Leases : lstate'[m] = IF m = l THEN "reserved" ELSE lstate[m]
          /\ \A m \in Leases : lattempt'[m] = IF m = l THEN sched ELSE lattempt[m]
          /\ \A m \in Leases : pc'[m] = IF m = l THEN "committed" ELSE pc[m]
          /\ \A a \in Attempts : a # sched => astate'[a] = astate[a]
          /\ UNCHANGED <<cap, late, stray, aev>>
          /\ sched \in Attempts /\ lstate[l] = "free" /\ l \notin Live
          /\ \A m \in Live : lattempt[m] # sched
      BY <2>1 DEF CreateLease, Step, TypeOK, LiveLeasesOf, Live, Drivers, LiveLeaseStates
    <3>2. StartOf(l)'
      BY <3>1 DEF StartOf, LeaseRows, Began, AfterAuthorization, IntentCovers
    <3>3. ASSUME NEW m \in Leases, m # l PROVE StartOf(m)'
      <4>1. /\ pc'[m] = pc[m] /\ cap'[m] = cap[m] /\ late'[m] = late[m] /\ lattempt'[m] = lattempt[m]
            /\ stray'[m] = stray[m] /\ (m \in Live' <=> m \in Live)
        BY <3>1, <3>3 DEF Live
      <4>2. m \in Live => /\ astate'[lattempt[m]] = astate[lattempt[m]]
                          /\ aev'[lattempt[m]] = aev[lattempt[m]]
        BY <3>1, <3>3 DEF LeaseRows, Live, LiveLeaseStates
      <4>3. m \notin Live => pc[m] \notin BeforeStart \cup AfterAuthorization \cup {"start"}
        BY DEF LeaseRows, Idling, BeforeStart, AfterAuthorization, PrepareSteps
      <4>4. StartOf(m)
        BY DEF StartInv
      <4> QED
        BY <4>1, <4>2, <4>3, <4>4 DEF StartOf, AfterAuthorization
    <3> QED
      BY <3>2, <3>3 DEF StartInv
  <2> QED
    BY <2>1, PreparationStart, ExecutionStart, CleanupStart, KeptStart
<1> USE DEF StartKept
<1>1. ASSUME NEW l \in Leases, Claim(l) PROVE StartKept
  BY <1>1 DEF Claim, Step, TypeOK, BeforeStart, AfterAuthorization, PrepareSteps
<1>2. ASSUME NEW l \in Leases, Capsule(l) PROVE StartKept
  BY <1>2
  DEF Capsule, Fork, AbortCapsule, RunnerExits, Kill, LateCreateLands, LateStartLands, TakeJob,
      ExpireRunner, TypeOK, Began
<1>3. ASSUME NEW a \in Attempts, Reserve(a) \/ Outside(a) PROVE StartKept
  BY <1>3
  DEF Reserve, Outside, Deliver, Supersede, CancelReady, ResolveReviewToReady,
      ResolveReviewToSettled, TypeOK, Authorized, PreAuthorization
<1>4. CASE CreateLeaseFails \/ UNCHANGED vars
  BY <1>4 DEF CreateLeaseFails, vars
<1>5. CASE Process
  BY <1>5
  DEF Process, Crash, BeginDrain, Drained, DrainWindowElapses, Abandon, ProcessEnds, LoseCreates,
      Drivers, BeforeStart, AfterAuthorization, PrepareSteps
<1>6. ASSUME NEW l \in Leases, Adopt(l) PROVE StartKept
  BY <1>6 DEF Adopt, Step, TypeOK, BeforeStart, AfterAuthorization, PrepareSteps
<1>7. ASSUME NEW l \in Leases, ResolveInterrupted(l) PROVE StartKept
  <2>1. UNCHANGED <<lattempt, lstate, cap, late, stray, astate>> /\ \A m \in Leases : pc'[m] = pc[m]
    BY <1>7, ServingAssumption DEF ResolveInterrupted, Step, TypeOK, Drivers
  <2>2. l \in Live /\ lattempt[l] \in Attempts
    BY <1>7 DEF ResolveInterrupted, LeaseRows, Live, LiveLeaseStates
  <2>3. \A a \in Attempts : aev[a] \notin Retriable => aev'[a] \notin Retriable
    BY <1>7, <2>2, EvidenceRises DEF ResolveInterrupted, TryRecordEvidence, Evidence
  <2> QED
    BY <2>1, <2>3
<1>8. ASSUME NEW l \in Leases, RetryStranded(l) \/ SkipStranded(l) PROVE StartKept
  BY <1>8, ServingAssumption DEF RetryStranded, SkipStranded, Step, TypeOK, Drivers
<1>9. CASE FinishReconcile \/ SweepPeriodically
  <2>1. \A l \in Leases : /\ cap'[l] \in Began \/ late'[l] => cap[l] \in Began \/ late[l]
                          /\ stray'[l] # "none" => stray[l] # "none"
    BY <1>9, SweepTakes DEF FinishReconcile, SweepPeriodically, Began
  <2> QED
    BY <1>9, <2>1 DEF FinishReconcile, SweepPeriodically
<1>10. ASSUME NEW keep \in BOOLEAN, BeginReconcile(keep) \/ ReconcileFails \/ BeginPass
       PROVE StartKept
  BY <1>10 DEF BeginReconcile, ReconcileFails, BeginPass
<1> QED
  BY <1>1, <1>2, <1>3, <1>4, <1>5, <1>6, <1>7, <1>8, <1>9, <1>10 DEF Next, Reconcile, Admission

\* StartInv is an invariant.
LEMMA StartInvariant == Spec => [](TypeOK /\ Ownership /\ IntentCovers /\ LeaseRows /\ StartInv)
<1>1. Init => StartInv
  BY DEF Init, StartInv, StartOf, Drivers, BeforeStart, AfterAuthorization, PrepareSteps, Began
<1> QED
  BY <1>1, RowsInvariant, StartStep, PTL DEF Spec

-----------------------------------------------------------------------------
(* No job is taken twice *)

\* A capsule whose runner has not been forked, or never will be.
Unforked == {"created", "waiting", "starting", "aborted"}

\* Somebody concluded that the runner of lease l never owned its job, durably
\* or in a driver's memory.
ProvenInert(l) ==
  \/ lobs[l] \in ProvesInert \/ obs[l] \in ProvesInert
  \/ recLease = l /\ obs[Reconciler] \in ProvesInert

\* The runner of lease l has not taken its job, and never will.
Inert(l) ==
  /\ pc[l] \notin BeforeStart /\ cap[l] \notin {"starting", "running"}
  /\ execs[lattempt[l]] = 0

\* No job is taken before the runner is forked or while its registration is
\* idle, and whoever concludes that none was taken is right, for good.
OnceOf(l) ==
  LET a == lattempt[l] IN
  /\ ~late[l]
  /\ pc[l] \in BeforeStart \cup {"idle"} => obs[l] = "none"
  /\ l \in Live =>
       /\ pc[l] \in BeforeStart \/ cap[l] \in Unforked \/ stray[l] # "none" => execs[a] = 0
       /\ cap[l] = "running" /\ reg[l] = "idle" => execs[a] = 0
       /\ ProvenInert(l) => Inert(l)

\* An attempt whose job was taken is not in the queue, and as long as it is open
\* its row says that its start was authorized.
OnceRow(a) ==
  /\ execs[a] \in {0, 1}
  /\ astate[a] \in {"absent", "ready"} => execs[a] = 0
  /\ astate[a] \in OpenAttempt /\ execs[a] # 0 => aev[a] \notin Retriable

OnceInv ==
  /\ \A l \in Leases : OnceOf(l)
  /\ \A a \in Attempts : OnceRow(a)
  /\ pc[Reconciler] = "idle" => obs[Reconciler] = "none"

\* A step that starts no capsule, takes no job and concludes nothing.
OnceKept ==
  /\ UNCHANGED <<lattempt, lstate, lobs>>
  /\ \A l \in Leases :
       /\ late'[l] => late[l]
       /\ reg'[l] = "idle" => reg[l] = "idle"
       /\ cap'[l] \in {cap[l], "absent"}
       /\ stray'[l] # "none" => stray[l] # "none" \/ pc[l] \in BeforeStart
       /\ \/ obs'[l] = obs[l] /\ pc'[l] = pc[l]
          \/ obs'[l] = "none" /\ (pc'[l] \in BeforeStart => pc[l] \in BeforeStart)
  /\ recLease' = recLease \/ obs'[Reconciler] = "none"
  /\ obs'[Reconciler] = obs[Reconciler] \/ obs'[Reconciler] = "none"
  /\ pc'[Reconciler] = "idle" => obs'[Reconciler] = "none"
  /\ \A a \in Attempts : execs'[a] \in {execs[a], 0}
  /\ \A a \in Attempts : OnceRow(a)'

\* Such a step keeps OnceInv.
LEMMA KeptOnce == ASSUME TypeOK, LeaseRows, OnceInv, OnceKept PROVE OnceInv'
<1> SUFFICES ASSUME NEW l \in Leases PROVE OnceOf(l)'
  BY DEF OnceInv, OnceKept
<1>1. OnceOf(l)
  BY DEF OnceInv
<1>2. (l \in Live)' <=> l \in Live
  BY DEF OnceKept, Live
<1>3. l \in Live => lattempt[l] \in Attempts
  BY DEF LeaseRows, Live, LiveLeaseStates
<1>4. ProvenInert(l)' => ProvenInert(l)
  BY DEF OnceKept, ProvenInert, ProvesInert
<1>5. l \in Live => execs'[lattempt'[l]] \in {execs[lattempt[l]], 0}
  BY <1>3 DEF OnceKept
<1>6. l \in Live /\ Inert(l) => Inert(l)'
  BY <1>5 DEF OnceKept, Inert
<1>7. cap'[l] \in Unforked \cup {"running"} => cap'[l] = cap[l]
  BY DEF OnceKept, Unforked
<1>8. /\ late'[l] => late[l]
      /\ reg'[l] = "idle" => reg[l] = "idle"
      /\ pc'[l] \in BeforeStart => pc[l] \in BeforeStart
      /\ pc'[l] \in BeforeStart \cup {"idle"} => obs'[l] = "none"
      /\ stray'[l] # "none" => stray[l] # "none" \/ pc[l] \in BeforeStart
  BY <1>1 DEF OnceKept, OnceOf
<1> QED
  BY <1>1, <1>2, <1>4, <1>5, <1>6, <1>7, <1>8 DEF OnceOf

\* A step of one driver keeps what OnceInv says of other leases and attempts.
LEMMA OthersOnce ==
  ASSUME TypeOK, LeaseRows, OnceInv, NEW d \in Drivers, NEW l \in Leases, l = Target(d),
         Local(d, l), recLease' \in {recLease, NoLease},
         pc'[Reconciler] = "idle" => d # Reconciler \/ obs'[Reconciler] = "none",
         OnceOf(l)', lattempt[l] \in Attempts => OnceRow(lattempt[l])'
  PROVE  OnceInv'
<1>1. ASSUME NEW m \in Leases, m # l PROVE OnceOf(m)'
  <2>1. m # d /\ m \in Drivers /\ OnceOf(m)
    BY <1>1, ServingAssumption DEF Target, Drivers, OnceInv
  <2>2. /\ pc'[m] = pc[m] /\ obs'[m] = obs[m] /\ cap'[m] = cap[m] /\ late'[m] = late[m]
        /\ lobs'[m] = lobs[m] /\ lattempt'[m] = lattempt[m] /\ execs' = execs
        /\ stray'[m] = stray[m]
        /\ reg'[m] = "idle" => reg[m] = "idle"
        /\ (m \in Live)' <=> m \in Live
    BY <1>1, <2>1 DEF Local, Live
  <2>3. recLease' = m => recLease = m /\ obs'[Reconciler] = obs[Reconciler]
    BY <1>1, ServingAssumption DEF Local, Target, Drivers
  <2>4. ProvenInert(m)' => ProvenInert(m)
    BY <2>2, <2>3 DEF ProvenInert
  <2> QED
    BY <2>1, <2>2, <2>4 DEF OnceOf, Inert
<1>2. ASSUME NEW a \in Attempts, a # lattempt[l] PROVE OnceRow(a)'
  BY <1>2 DEF OnceInv, OnceRow, Local
<1>3. \A a \in Attempts : OnceRow(a)'
  <2>1. ASSUME NEW a \in Attempts, a = lattempt[l] PROVE OnceRow(a)'
    BY <2>1 DEF OnceRow, Local
  <2> QED
    BY <1>2, <2>1
<1>4. pc'[Reconciler] = "idle" => obs'[Reconciler] = "none"
  BY DEF Local, OnceInv, Drivers
<1>5. \A m \in Leases : OnceOf(m)'
  BY <1>1
<1> QED
  BY <1>3, <1>4, <1>5 DEF OnceInv

\* Preparation keeps OnceInv.
LEMMA PreparationOnce ==
  ASSUME TypeOK, LeaseRows, StartInv, OnceInv, NEW l \in Leases, Preparation(l)
  PROVE  OnceInv'
<1>1. /\ Local(l, l) /\ l \in Live /\ l \in Drivers /\ l = Target(l) /\ l # Reconciler /\ OnceOf(l)
      /\ pc[l] \in BeforeStart /\ UNCHANGED <<recLease, lobs, late, obs>>
      /\ pc'[l] # "idle" /\ lattempt[l] \in Attempts /\ execs' = execs /\ lattempt' = lattempt
  BY PreparationLocal, ServingAssumption
  DEF LeaseRows, OnceInv, BeforeStart, PrepareSteps, Idling, Drivers, Local, Target, Live,
      LiveLeaseStates
<1>2. execs[lattempt[l]] = 0 /\ obs[l] = "none" /\ ~ProvenInert(l)
  BY <1>1 DEF OnceOf, Inert
<1>3. ~ProvenInert(l)'
  BY <1>1, <1>2 DEF ProvenInert
<1>4. OnceOf(l)'
  BY <1>1, <1>2, <1>3 DEF OnceOf
<1>5. OnceRow(lattempt[l])'
  BY <1>1, <1>2 DEF OnceRow
<1> QED
  BY <1>1, <1>4, <1>5, OthersOnce

\* Execution keeps OnceInv, when no start takes effect after its inspection.
LEMMA ExecutionOnce ==
  ASSUME ~LateStart, TypeOK, LeaseRows, StartInv, OnceInv, NEW l \in Leases, Execution(l)
  PROVE  OnceInv'
<1> DEFINE a == lattempt[l]
<1>1. /\ Local(l, l) /\ l \in Live /\ l \in Drivers /\ l = Target(l) /\ l # Reconciler /\ OnceOf(l)
      /\ UNCHANGED <<recLease, lobs, stray, execs, lattempt>> /\ a \in Attempts /\ OnceRow(a)
      /\ pc'[l] # "idle"
  BY ExecutionLocal, ServingAssumption
  DEF LeaseRows, OnceInv, StartSteps, AdoptSteps, Idling, Drivers, Local, Target, Live,
      LiveLeaseStates
<1>2. SUFFICES OnceOf(l)' /\ OnceRow(a)'
  BY <1>1, OthersOnce
<1>3. obs'[Reconciler] = obs[Reconciler]
  BY <1>1 DEF Local, Drivers
<1> USE DEF Step, TypeOK
<1>4. CASE pc[l] \in BeforeStart
  <2>1. execs[a] = 0 /\ obs[l] = "none" /\ ~ProvenInert(l)
    BY <1>1, <1>4 DEF OnceOf, Inert
  <2>2. ~InspectStart(l) /\ ~WaitExit(l)
    BY <1>4 DEF InspectStart, WaitExit, BeforeStart, PrepareSteps
  <2>3. UNCHANGED obs /\ ~late'[l]
    BY <1>1, <2>2
    DEF Execution, AdvancePrepared, AuthorizeStart, RecordStartAuthorized, Start, RecordRunning,
        AdvanceRunning, LeaseRunning, WalkToRunning, Release, OnceOf
  <2>4. ~ProvenInert(l)'
    BY <1>1, <2>1, <2>3 DEF ProvenInert
  <2> QED
    BY <1>1, <2>1, <2>3, <2>4 DEF OnceOf, OnceRow
<1>5. CASE pc[l] \notin BeforeStart
  <2>1. /\ UNCHANGED <<cap, late, reg>> /\ pc'[l] \notin BeforeStart
        /\ astate'[a] = astate[a] \/ (astate[a] = "starting" /\ astate'[a] = "running")
        /\ obs'[l] \in ProvesInert
             => obs[l] \in ProvesInert \/ cap[l] \in {"created", "waiting", "aborted"}
    <3>1. CASE AdvancePrepared(l) \/ AuthorizeStart(l) \/ RecordStartAuthorized(l) \/ Start(l)
      BY <1>5, <3>1
      DEF AdvancePrepared, AuthorizeStart, RecordStartAuthorized, Start, BeforeStart
    <3>2. CASE InspectStart(l)
      BY <3>2 DEF InspectStart, InspectExecution, CapsuleStates, ProvesInert, BeforeStart, PrepareSteps
    <3>3. CASE WaitExit(l)
      BY <3>3 DEF WaitExit, ClassifyExit, ProvesInert, BeforeStart, PrepareSteps
    <3>4. CASE AdvanceRunning(l) \/ RecordRunning(l)
      BY <3>4 DEF AdvanceRunning, RecordRunning, TryAdvance, BeforeStart, PrepareSteps
    <3>5. CASE LeaseRunning(l) \/ WalkToRunning(l) \/ Release(l)
      BY <3>5 DEF LeaseRunning, WalkToRunning, Release, BeforeStart, PrepareSteps
    <3> QED
      BY <3>1, <3>2, <3>3, <3>4, <3>5 DEF Execution
  <2>2. aev[a] \notin Retriable => aev'[a] \notin Retriable
    <3>1. ASSUME NEW e \in Evidence, TryRecordEvidence(a, e), aev[a] \notin Retriable
          PROVE  aev'[a] \notin Retriable
      BY <1>1, <3>1, EvidenceRises DEF TryRecordEvidence
    <3>2. UNCHANGED aev \/ \E e \in Evidence : TryRecordEvidence(a, e)
      BY DEF Execution, AdvancePrepared, AuthorizeStart, RecordStartAuthorized, Start, InspectStart,
             RecordRunning, AdvanceRunning, LeaseRunning, WaitExit, WalkToRunning, Release,
             TryRecordEvidence, Evidence
    <3> QED
      BY <3>1, <3>2
  <2>3. ProvenInert(l)' => ProvenInert(l) \/ cap[l] \in {"created", "waiting", "aborted"}
    BY <1>1, <1>3, <2>1 DEF ProvenInert
  <2>4. ProvenInert(l)' => Inert(l)'
    BY <1>1, <1>5, <2>1, <2>3 DEF OnceOf, Inert, Unforked
  <2>5. OnceOf(l)'
    BY <1>1, <2>1, <2>4 DEF OnceOf
  <2> QED
    BY <1>1, <2>1, <2>2, <2>5 DEF OnceRow, OpenAttempt
<1> QED
  BY <1>4, <1>5

\* Cleanup short of the finalizing transaction keeps OnceInv: what is read back
\* and recorded was concluded before, and a refused authorization comes before
\* any start.
LEMMA CleanupOnce ==
  ASSUME TypeOK, Ownership, LeaseRows, StartInv, OnceInv, NEW d \in Drivers,
         Cleanup(d) \/ StepFails(d), ~Finalize(d)
  PROVE  OnceInv'
<1>1. PICK l \in Leases : l = Target(d)
  BY CleanupLocal
<1>2. /\ Local(d, l) /\ UNCHANGED <<astate, aev>> /\ cap'[l] \in {cap[l], "absent"}
      /\ recLease' \in {recLease, NoLease} /\ lattempt' = lattempt /\ execs' = execs
      /\ lstate'[l] \in LiveLeaseStates => lstate[l] \in LiveLeaseStates
      /\ pc'[d] \in CleanSteps \cup Idling /\ pc[d] # "idle"
  BY <1>1, CleanupLocal DEF Unclaim, Local
<1>3. OnceOf(l) /\ StartOf(l) /\ l \in Drivers /\ (d = Reconciler => pc[l] = "idle" /\ recLease = l)
  BY <1>1, <1>2 DEF OnceInv, StartInv, Drivers, Ownership, OneDriver, Target
<1>4. d = l \/ d = Reconciler
  BY <1>1 DEF Target
<1>5. pc'[d] = "idle" => obs'[d] = "none"
  <2>1. Unclaim(d) => obs'[d] = "none"
    BY DEF Unclaim, TypeOK
  <2>2. ~Unclaim(d) => pc'[d] # "idle"
    BY DEF Cleanup, Recover, Deregister, RecordStartObservation, NothingToRemove, RemoveObject,
           ForgetResource, Finalize, Quarantine, ReleaseCreditIfDone, StepFails, OnError, Done,
           Failed, Step, TypeOK
  <2> QED
    BY <2>1, <2>2
<1>6. /\ obs'[d] \in ProvesInert =>
           obs[d] \in ProvesInert \/ lobs[l] \in ProvesInert \/ pc[d] = "authorize"
      /\ lobs'[l] \in ProvesInert => obs[d] \in ProvesInert \/ lobs[l] \in ProvesInert
      /\ late'[l] => late[l]
  <2> USE DEF TypeOK, ProvesInert
  <2>1. CASE Recover(d) \/ RecordStartObservation(d)
    BY <1>1, <2>1 DEF Recover, RecordStartObservation
  <2>2. CASE Deregister(d)
    BY <1>1, <2>2 DEF Deregister, ReadBack
  <2>3. CASE StepFails(d) \/ Unclaim(d)
    BY <2>3 DEF StepFails, Unclaim
  <2>4. CASE NothingToRemove(d) \/ RemoveObject(d) \/ ForgetResource(d) \/ Quarantine(d)
          \/ ReleaseCreditIfDone(d)
    BY <2>4 DEF NothingToRemove, RemoveObject, ForgetResource, Quarantine, ReleaseCreditIfDone
  <2> QED
    BY <2>1, <2>2, <2>3, <2>4 DEF Cleanup
<1>7. pc'[l] \notin BeforeStart
  BY <1>2, <1>3, <1>4, ServingAssumption DEF Local, CleanSteps, Idling, BeforeStart, PrepareSteps
<1>8. pc'[l] = "idle" => obs'[l] = "none"
  BY <1>2, <1>3, <1>4, <1>5, ServingAssumption DEF Local, OnceOf
<1>9. (l \in Live)' => l \in Live
  BY <1>2 DEF Live
<1>10. pc[d] = "authorize" => d = l /\ pc[l] \in BeforeStart
  BY <1>4 DEF LeaseRows, CleanSteps, Idling, BeforeStart
<1>11. ProvenInert(l)' => ProvenInert(l) \/ pc[l] \in BeforeStart
  <2>1. \A e \in Drivers : e # d => obs'[e] = obs[e]
    BY <1>2 DEF Local
  <2>2. Reconciler \in Drivers /\ Reconciler # l
    BY ServingAssumption DEF Drivers
  <2>3. recLease' = l => recLease = l
    BY <1>2, ServingAssumption
  <2> QED
    BY <1>3, <1>4, <1>6, <1>10, <2>1, <2>2, <2>3 DEF ProvenInert
<1>12. (l \in Live)' /\ ProvenInert(l)' => Inert(l)'
  BY <1>2, <1>3, <1>7, <1>9, <1>11 DEF OnceOf, StartOf, Inert, Began
<1>13. (l \in Live)' /\ cap'[l] \in Unforked => execs[lattempt[l]] = 0
  BY <1>2, <1>3, <1>9 DEF OnceOf, Unforked
<1>14. (l \in Live)' /\ cap'[l] = "running" /\ reg'[l] = "idle" => execs[lattempt[l]] = 0
  <2>1. pc[l] = "jit" => pc[l] \in BeforeStart
    BY DEF BeforeStart, PrepareSteps
  <2> QED
    BY <1>2, <1>3, <1>9, <2>1 DEF OnceOf, Local
<1>15. (l \in Live)' /\ stray'[l] # "none" => execs[lattempt[l]] = 0
  BY <1>2, <1>3, <1>9 DEF OnceOf, Local, BeforeStart, PrepareSteps
<1>16. OnceOf(l)'
  BY <1>2, <1>3, <1>6, <1>7, <1>8, <1>12, <1>13, <1>14, <1>15 DEF OnceOf
<1>17. lattempt[l] \in Attempts => OnceRow(lattempt[l])'
  BY <1>2 DEF OnceInv, OnceRow
<1> QED
  BY <1>1, <1>2, <1>5, <1>16, <1>17, OthersOnce

\* A serving is requeued only on a proof, or on evidence, that its job was not
\* taken.
LEMMA RequeueIsUnrun ==
  ASSUME OnceInv, NEW d \in Drivers, NEW l \in Live, l \in Leases, l = Target(d),
         lattempt[l] \in Attempts,
         DispositionOf(astate[lattempt[l]], aev[lattempt[l]], ReadBack(obs[d], lobs[l])) = "requeue"
  PROVE  execs[lattempt[l]] = 0
<1>1. OnceOf(l) /\ OnceRow(lattempt[l])
  BY DEF OnceInv
<1>2. (d = Reconciler /\ recLease = l) \/ d = l
  BY DEF Target
<1>3. ReadBack(obs[d], lobs[l]) \in ProvesInert => execs[lattempt[l]] = 0
  BY <1>1, <1>2 DEF ReadBack, OnceOf, ProvenInert, Inert
<1> QED
  BY <1>1, <1>3 DEF DispositionOf, OnceRow, Served, OpenAttempt

\* What the finalizing transaction does to the attempt's row.
LEMMA FinalizeRow ==
  ASSUME TypeOK, Ownership, LeaseRows, NEW d \in Drivers, Finalize(d), NEW l \in Leases, l = Target(d)
  PROVE  LET a == lattempt[l]
             what == DispositionOf(astate[a], aev[a], ReadBack(obs[d], lobs[l]))
         IN  /\ l \in Live /\ a \in Attempts /\ Local(d, l)
             /\ \/ UNCHANGED <<astate, aev, ares>> /\ what = "nothing"
                \/ astate[a] \in Served /\ astate'[a] = "ready" /\ what = "requeue" /\ ares'[a] = ares[a]
                \/ /\ astate[a] \in Served /\ astate'[a] = "settled" /\ aev'[a] = aev[a]
                   /\ \/ what = "settle_completed" /\ ares'[a] = "completed"
                      \/ what = "settle_started" /\ ares'[a] = "started"
                \/ /\ astate[a] \in Served /\ astate'[a] = "manual_review"
                   /\ aev'[a] = aev[a] /\ ares'[a] = ares[a]
<1> DEFINE a == lattempt[l]
<1> DEFINE what == DispositionOf(astate[a], aev[a], ReadBack(obs[d], lobs[l]))
<1>1. l \in Live /\ a \in Attempts
  BY DEF Finalize, TransitionLease, Live, LiveLeaseStates, LeaseStates, LeaseRows
<1>2. Local(d, l)
  BY DEF Finalize, TransitionLease, DisposeAttempt, Local, TypeOK, Step
<1>3. what # "nothing" => astate[a] \in Served
  BY DEF DispositionOf
<1>4. what \in Dispositions
  BY DEF DispositionOf, Dispositions
<1>5. DisposeAttempt(a, lobs[l], obs[d])
  BY DEF Finalize
<1> HIDE DEF what
<1>6. \/ UNCHANGED <<astate, aev, ares>> /\ what = "nothing"
      \/ astate'[a] = "ready" /\ what = "requeue" /\ ares'[a] = ares[a]
      \/ /\ astate'[a] = "settled" /\ aev'[a] = aev[a]
         /\ \/ what = "settle_completed" /\ ares'[a] = "completed"
            \/ what = "settle_started" /\ ares'[a] = "started"
      \/ what \notin {"nothing"} /\ astate'[a] = "manual_review" /\ aev'[a] = aev[a]
           /\ ares'[a] = ares[a]
  BY <1>1, <1>4, <1>5 DEF DisposeAttempt, TypeOK, what, Dispositions
<1> QED
  BY <1>1, <1>2, <1>3, <1>6 DEF what

\* The finalizing transaction keeps OnceInv.
LEMMA FinalizeOnce ==
  ASSUME TypeOK, Ownership, LeaseRows, StartInv, OnceInv, NEW d \in Drivers, Finalize(d)
  PROVE  OnceInv'
<1>1. PICK l \in Leases : l = Target(d)
  BY DEF Finalize, Ownership, TypeOK, Target, Drivers
<1> DEFINE a == lattempt[l]
<1>2. /\ d \in {l, Reconciler} /\ OnceOf(l)
      /\ lstate'[l] = "released" /\ UNCHANGED <<recLease, obs, late, execs, lattempt>>
      /\ pc'[d] # "idle" /\ pc[d] = "finalize" /\ pc'[d] \in Idling
      /\ \A e \in Drivers : e # d => pc'[e] = pc[e]
      /\ l \in Drivers
  BY <1>1
  DEF Finalize, TransitionLease, Target, Drivers, Step, Done, Idling, TypeOK, OnceInv
<1>3. l \in Live /\ a \in Attempts /\ Local(d, l) /\ OnceRow(a)
  BY <1>1, FinalizeRow DEF OnceInv
<1>4. OnceOf(l)'
  BY <1>2, ServingAssumption DEF OnceOf, Live, LiveLeaseStates, Idling, BeforeStart, PrepareSteps
<1>5. OnceRow(a)'
  <2>1. CASE UNCHANGED <<astate, aev>>
    BY <1>2, <1>3, <2>1 DEF OnceRow
  <2>2. CASE astate'[a] = "ready"
    BY <1>1, <1>2, <1>3, <2>2, FinalizeRow, RequeueIsUnrun DEF OnceRow
  <2>3. CASE astate[a] \in Served /\ astate'[a] \in {"settled", "manual_review"} /\ aev'[a] = aev[a]
    BY <1>2, <1>3, <2>3 DEF OnceRow, Served, OpenAttempt
  <2> QED
    BY <1>1, <2>1, <2>2, <2>3, FinalizeRow
<1> QED
  BY <1>1, <1>2, <1>3, <1>4, <1>5, OthersOnce, ServingAssumption

\* A new lease is for an attempt of the queue, whose job nobody took.
LEMMA CreateOnce ==
  ASSUME TypeOK, Ownership, LeaseRows, OnceInv, NEW l \in Leases, CreateLease(l)
  PROVE  OnceInv'
<1>1. /\ \A m \in Leases : lstate'[m] = IF m = l THEN "reserved" ELSE lstate[m]
      /\ \A m \in Leases : lattempt'[m] = IF m = l THEN sched ELSE lattempt[m]
      /\ \A e \in Drivers : pc'[e] = IF e = l THEN "committed" ELSE pc[e]
      /\ \A a \in Attempts : astate'[a] = IF a = sched THEN "leased" ELSE astate[a]
      /\ UNCHANGED <<cap, stray, late, aev, obs, lobs, reg, recLease, execs>>
      /\ sched \in Attempts /\ astate[sched] = "ready" /\ lstate[l] = "free"
      /\ l # Reconciler /\ l \in Drivers
  BY ServingAssumption DEF CreateLease, Step, TypeOK, Drivers
<1>2. execs[sched] = 0
  BY <1>1 DEF OnceInv, OnceRow
<1>3. OnceOf(l)'
  <2>1. /\ cap[l] = "absent" /\ lobs[l] = "none" /\ pc[l] = "idle" /\ recLease # l
        /\ OnceOf(l)
    BY <1>1, ServingAssumption DEF LeaseRows, Ownership, OnceInv
  <2>2. obs[l] = "none" /\ ~late[l]
    BY <2>1 DEF OnceOf
  <2>3. ~ProvenInert(l)'
    BY <1>1, <2>1, <2>2 DEF ProvenInert, ProvesInert
  <2> QED
    BY <1>1, <1>2, <2>1, <2>2, <2>3 DEF OnceOf
<1>4. ASSUME NEW m \in Leases, m # l PROVE OnceOf(m)'
  <2>1. OnceOf(m) /\ m \in Drivers
    BY DEF OnceInv, Drivers
  <2>2. (m \in Live)' <=> m \in Live
    BY <1>1, <1>4 DEF Live
  <2>3. ProvenInert(m)' <=> ProvenInert(m)
    BY <1>1 DEF ProvenInert
  <2> QED
    BY <1>1, <1>4, <2>1, <2>2, <2>3 DEF OnceOf, Inert
<1>5. \A a \in Attempts : OnceRow(a)'
  BY <1>1, <1>2 DEF OnceInv, OnceRow
<1>6. \A m \in Leases : OnceOf(m)'
  BY <1>3, <1>4
<1>7. pc'[Reconciler] = "idle" => obs'[Reconciler] = "none"
  BY <1>1 DEF OnceInv, Drivers
<1> QED
  BY <1>5, <1>6, <1>7 DEF OnceInv

\* A runner takes its job only once it was forked and while its registration is
\* idle.
LEMMA CapsuleOnce ==
  ASSUME TypeOK, IntentCovers, LeaseRows, StartInv, OnceInv, NEW l \in Leases, Capsule(l)
  PROVE  OnceInv'
<1>1. UNCHANGED <<lattempt, lstate, lobs, pc, obs, recLease, astate, aev>>
  BY DEF Capsule, Fork, AbortCapsule, RunnerExits, Kill, LateCreateLands, LateStartLands, TakeJob,
         ExpireRunner
<1>2. OnceOf(l) /\ StartOf(l)
  BY DEF OnceInv, StartInv
<1>3. (\A m \in Leases : (m \in Live)' <=> m \in Live)
        /\ (\A m \in Leases : ProvenInert(m)' <=> ProvenInert(m))
  BY <1>1 DEF Live, ProvenInert
<1>4. CASE TakeJob(l)
  <2>1. /\ cap[l] = "running" /\ reg[l] = "idle" /\ UNCHANGED <<cap, stray, late>>
        /\ \A m \in Leases : reg'[m] = IF m = l THEN "busy" ELSE reg[m]
    BY <1>4 DEF TakeJob, TypeOK
  <2>2. l \in Live /\ lattempt[l] \in Attempts
    BY <2>1, CapsuleIsLive
  <2>3. execs[lattempt[l]] = 0
    BY <1>2, <2>1, <2>2 DEF OnceOf
  <2>4. \A a \in Attempts : execs'[a] = IF a = lattempt[l] THEN 1 ELSE execs[a]
    BY <1>4, <2>2, <2>3 DEF TakeJob, TypeOK
  <2>5. /\ astate[lattempt[l]] \in Authorized /\ aev[lattempt[l]] \notin Retriable
        /\ pc[l] \notin BeforeStart /\ stray[l] = "none"
    BY <1>2, <2>1, <2>2 DEF StartOf, Began
  <2>6. \A a \in Attempts : OnceRow(a)'
    BY <1>1, <2>4, <2>5 DEF OnceInv, OnceRow, Authorized
  <2>7. OnceOf(l)'
    <3>1. ~ProvenInert(l)
      BY <1>2, <2>1, <2>2 DEF OnceOf, Inert
    <3> QED
      BY <1>1, <1>2, <1>3, <2>1, <2>5, <3>1 DEF OnceOf, Unforked
  <2>8. ASSUME NEW m \in Leases, m # l PROVE OnceOf(m)'
    <3>1. m \in Live => lattempt[m] # lattempt[l] /\ lattempt[m] \in Attempts
      BY <2>2, <2>8 DEF LeaseRows, Live, LiveLeaseStates
    <3>2. OnceOf(m)
      BY DEF OnceInv
    <3> QED
      BY <1>1, <1>3, <2>1, <2>4, <2>8, <3>1, <3>2 DEF OnceOf, Inert
  <2>9. \A m \in Leases : OnceOf(m)'
    BY <2>7, <2>8
  <2> QED
    BY <1>1, <2>6, <2>9 DEF OnceInv
<1>5. CASE ~TakeJob(l)
  <2>1. /\ execs' = execs /\ \A m \in Leases : m # l => cap'[m] = cap[m]
        /\ \A m \in Leases : /\ late'[m] => late[m]
                             /\ reg'[m] = "idle" => reg[m] = "idle"
                             /\ stray'[m] # "none" => stray[m] # "none"
    BY <1>5
    DEF Capsule, Fork, AbortCapsule, RunnerExits, Kill, LateCreateLands, LateStartLands,
        ExpireRunner, TypeOK
  <2>2. /\ ~late[l]
        /\ \/ cap'[l] = cap[l]
           \/ stray[l] # "none" /\ cap'[l] = "created"
           \/ cap[l] \in {"waiting", "starting"} /\ cap'[l] = "aborted"
           \/ cap[l] = "starting" /\ cap'[l] = "running"
           \/ cap'[l] \in {"exited", "killed"}
    BY <1>2, <1>5
    DEF Capsule, Fork, AbortCapsule, RunnerExits, Kill, LateCreateLands, LateStartLands,
        ExpireRunner, TypeOK, OnceOf
  <2>3. ASSUME NEW m \in Leases PROVE OnceOf(m)'
    <3>1. OnceOf(m)
      BY DEF OnceInv
    <3>2. m \in Live =>
            /\ cap'[m] \in Unforked =>
                 pc[m] \in BeforeStart \/ cap[m] \in Unforked \/ stray[m] # "none"
            /\ cap'[m] = "running" /\ cap[m] # "running" => cap[m] \in Unforked
            /\ cap'[m] = "starting" => cap[m] = "starting"
      BY <2>1, <2>2 DEF Unforked
    <3>3. cap'[m] = "running" => cap[m] \in {"starting", "running"}
      BY <2>1, <2>2
    <3> QED
      BY <1>1, <1>3, <2>1, <3>1, <3>2, <3>3 DEF OnceOf, Inert
  <2>4. \A a \in Attempts : OnceRow(a)'
    BY <1>1, <2>1 DEF OnceInv, OnceRow
  <2> QED
    BY <1>1, <2>3, <2>4 DEF OnceInv
<1> QED
  BY <1>4, <1>5

\* The startup pass asks the capsule before it concludes anything.
LEMMA ResolveOnce ==
  ASSUME TypeOK, Ownership, LeaseRows, StartInv, OnceInv, NEW l \in Leases, ResolveInterrupted(l)
  PROVE  OnceInv'
<1>1. /\ UNCHANGED <<lattempt, lstate, lobs, cap, stray, late, reg, astate, execs>>
      /\ \A m \in Leases : pc'[m] = pc[m] /\ obs'[m] = obs[m]
      /\ phase = "reconciling" /\ pc[Reconciler] = "idle" /\ l \in todo \ adopting
  BY ServingAssumption DEF ResolveInterrupted, Step, TypeOK, Drivers
<1>2. l \in Live /\ pc[l] = "idle" /\ lattempt[l] \in Attempts
  BY <1>1 DEF LeaseRows, Ownership, Live, LiveLeaseStates
<1>3. \/ recLease' = l /\ pc'[Reconciler] # "idle"
      \/ UNCHANGED <<recLease, obs, pc>>
  BY DEF ResolveInterrupted, Step, TypeOK, Drivers
<1>4. recLease' = l /\ obs'[Reconciler] \in ProvesInert =>
        obs'[Reconciler] = obs[Reconciler] \/ cap[l] \in {"created", "waiting", "aborted"}
  BY DEF ResolveInterrupted, InspectExecution, CapsuleStates, ProvesInert, TypeOK, Drivers
<1>5. obs[Reconciler] = "none"
  BY <1>1 DEF OnceInv
<1>6. \A m \in Leases : (m \in Live)' <=> m \in Live
  BY <1>1 DEF Live
<1>7. recLease = NoLease
  BY <1>1 DEF Ownership
<1>8. ASSUME NEW m \in Leases PROVE OnceOf(m)'
  <2>1. OnceOf(m)
    BY DEF OnceInv
  <2>2. ProvenInert(m)' =>
          ProvenInert(m) \/ (m = l /\ cap[l] \in {"created", "waiting", "aborted"})
    BY <1>1, <1>3, <1>4, <1>5 DEF ProvenInert, ProvesInert
  <2>3. m \in Live /\ ProvenInert(m)' => Inert(m)
    BY <1>2, <2>1, <2>2 DEF OnceOf, Inert, Unforked, BeforeStart, PrepareSteps
  <2>4. Inert(m) => Inert(m)'
    BY <1>1 DEF Inert
  <2> QED
    BY <1>1, <1>6, <2>1, <2>3, <2>4 DEF OnceOf
<1>9. \A a \in Attempts : OnceRow(a)'
  <2>1. \A a \in Attempts : aev[a] \notin Retriable => aev'[a] \notin Retriable
    BY <1>2, EvidenceRises DEF ResolveInterrupted, TryRecordEvidence, Evidence
  <2> QED
    BY <1>1, <2>1 DEF OnceInv, OnceRow
<1>10. pc'[Reconciler] = "idle" => obs'[Reconciler] = "none"
  BY <1>3, <1>5
<1> QED
  BY <1>8, <1>9, <1>10 DEF OnceInv

\* Every step keeps OnceInv, when no start takes effect after its inspection.
LEMMA OnceStep ==
  ASSUME ~LateStart
  PROVE  TypeOK /\ Ownership /\ IntentCovers /\ LeaseRows /\ StartInv /\ OnceInv /\ [Next]_vars
           => OnceInv'
<1> SUFFICES ASSUME TypeOK, Ownership, IntentCovers, LeaseRows, StartInv, OnceInv, [Next]_vars
             PROVE  OnceInv'
  OBVIOUS
<1> SUFFICES ASSUME ~(\E l \in Leases : \/ Preparation(l) \/ Execution(l) \/ CreateLease(l)
                                        \/ Capsule(l) \/ ResolveInterrupted(l)),
                    ~(\E d \in Drivers : Cleanup(d) \/ StepFails(d))
             PROVE  OnceKept
  BY PreparationOnce, ExecutionOnce, CreateOnce, CapsuleOnce, ResolveOnce, CleanupOnce,
     FinalizeOnce, KeptOnce
<1>1. ASSUME UNCHANGED <<astate, aev, execs>> PROVE \A a \in Attempts : OnceRow(a)'
  BY <1>1 DEF OnceInv, OnceRow
<1>2. pc[Reconciler] = "idle" => obs[Reconciler] = "none"
  BY DEF OnceInv
<1>3. \A l \in Leases : pc[l] \in BeforeStart \cup {"idle"} => obs[l] = "none"
  BY DEF OnceInv, OnceOf
<1> USE DEF OnceKept, Step, TypeOK
<1>4. ASSUME NEW l \in Leases, Claim(l) PROVE OnceKept
  BY <1>1, <1>2, <1>3, <1>4, ServingAssumption DEF Claim, Drivers, BeforeStart, PrepareSteps
<1>5. ASSUME NEW a \in Attempts, Reserve(a) PROVE OnceKept
  BY <1>1, <1>2, <1>5 DEF Reserve
<1>6. ASSUME NEW a \in Attempts, Outside(a) PROVE OnceKept
  <2>1. \A b \in Attempts : OnceRow(b)'
    BY <1>6
    DEF Outside, Deliver, Supersede, CancelReady, ResolveReviewToReady, ResolveReviewToSettled,
        OnceInv, OnceRow, OpenAttempt
  <2> QED
    BY <1>2, <1>6, <2>1
    DEF Outside, Deliver, Supersede, CancelReady, ResolveReviewToReady, ResolveReviewToSettled
<1>7. CASE CreateLeaseFails \/ UNCHANGED vars
  BY <1>1, <1>2, <1>7 DEF CreateLeaseFails, vars
<1>8. CASE ProcessEnds
  BY <1>1, <1>8 DEF ProcessEnds, LoseCreates, Drivers, BeforeStart, PrepareSteps
<1>9. CASE BeginDrain \/ DrainWindowElapses \/ ReconcileFails \/ BeginPass
        \/ \E keep \in BOOLEAN : BeginReconcile(keep)
  BY <1>1, <1>2, <1>9 DEF BeginDrain, DrainWindowElapses, ReconcileFails, BeginPass, BeginReconcile
<1>10. ASSUME NEW l \in Leases, Adopt(l) PROVE OnceKept
  <2>1. pc[l] = "idle"
    BY <1>10 DEF Adopt, Ownership
  <2> QED
    BY <1>1, <1>2, <1>3, <1>10, <2>1, ServingAssumption DEF Adopt, Drivers, BeforeStart, PrepareSteps
<1>11. ASSUME NEW l \in Leases, RetryStranded(l) \/ SkipStranded(l) PROVE OnceKept
  BY <1>1, <1>2, <1>11, ServingAssumption DEF RetryStranded, SkipStranded, Drivers
<1>12. CASE FinishReconcile \/ SweepPeriodically
  <2>1. \A l \in Leases : /\ (late'[l] => late[l]) /\ cap'[l] \in {cap[l], "absent"}
                          /\ stray'[l] # "none" => stray[l] # "none"
    BY <1>12, SweepTakes DEF FinishReconcile, SweepPeriodically
  <2> QED
    BY <1>1, <1>2, <1>12, <2>1 DEF FinishReconcile, SweepPeriodically
<1> QED
  BY <1>4, <1>5, <1>6, <1>7, <1>8, <1>9, <1>10, <1>11, <1>12
  DEF Next, Reconcile, Admission, Process, Crash, Drained, Abandon

\* OnceInv holds at the start.
LEMMA OnceInit == Init => OnceInv
BY DEF Init, OnceInv, OnceOf, OnceRow, Drivers, BeforeStart, PrepareSteps, Live, LiveLeaseStates

\* No job is taken twice between two decisions of an operator, for every number
\* of attempts, leases, crashes and retries, provided a start that reported an
\* error does not take effect after the capsule was inspected.  That proviso is
\* needed: such a start takes the job of an attempt that was already requeued.
THEOREM RunsAtMostOnce ==
  ASSUME ~LateStart
  PROVE  Spec => []AtMostOnce
<1>1. OnceInv => AtMostOnce
  BY DEF OnceInv, OnceRow, AtMostOnce
<1>2. TypeOK /\ Ownership /\ IntentCovers /\ LeaseRows /\ StartInv /\ OnceInv /\ [Next]_vars => OnceInv'
  BY OnceStep
<1> QED
  BY <1>1, <1>2, StartInvariant, OnceInit, PTL DEF Spec

-----------------------------------------------------------------------------
(* The serving machinery implements the contract of an attempt *)

\* Where the contract sees the attempts.
StatusMap == [a \in Attempts |-> StatusOf(a)]

\* A step that moves one attempt's row moves one attempt of the contract.
LEMMA OneStatusMoves ==
  ASSUME NEW a \in Attempts, \A b \in Attempts : b # a => astate'[b] = astate[b]
  PROVE  StatusMap' = [StatusMap EXCEPT ![a] = StatusOf(a)']
<1>1. \A b \in Attempts : b # a => StatusOf(b)' = StatusOf(b)
  BY DEF StatusOf
<1>2. StatusMap' = [b \in Attempts |-> StatusOf(b)']
  BY DEF StatusMap
<1>3. StatusMap = [b \in Attempts |-> StatusOf(b)]
  BY DEF StatusMap
<1> HIDE DEF StatusMap
<1> QED
  BY <1>1, <1>2, <1>3

\* What the contract calls an attempt's state.
LEMMA StatusFacts ==
  ASSUME NEW a \in Attempts
  PROVE  /\ astate[a] = "absent" => StatusOf(a) = "unknown"
         /\ astate[a] = "ready" => StatusOf(a) = "queued"
         /\ astate[a] \in Served => StatusOf(a) = "serving"
         /\ astate[a] = "manual_review" => StatusOf(a) = "held"
         /\ astate[a] \in {"superseded", "canceled"} => StatusOf(a) = "withdrawn"
         /\ astate[a] = "settled" => StatusOf(a) = "closed"
         /\ StatusMap[a] = StatusOf(a)
BY DEF StatusOf, Served, StatusMap

\* A step within one status is none of the contract's.
LEMMA SameStatus ==
  ASSUME UNCHANGED execs,
         \A a \in Attempts : \/ astate'[a] = astate[a]
                             \/ astate[a] \in Served /\ astate'[a] \in Served
  PROVE  UNCHANGED <<StatusMap, execs>>
<1>1. \A a \in Attempts : StatusOf(a)' = StatusOf(a)
  BY DEF StatusOf, Served
<1> QED
  BY <1>1 DEF StatusMap

\* The steps of one attempt that the contract knows.
LEMMA ContractStep ==
  ASSUME NEW a \in Attempts, \A b \in Attempts : b # a => astate'[b] = astate[b],
         \/ /\ UNCHANGED execs
            /\ \/ astate[a] = "absent" /\ astate'[a] = "ready"
               \/ astate[a] = "ready" /\ astate'[a] \in Served
               \/ execs[a] = 0 /\ astate[a] \in Served /\ astate'[a] = "ready"
               \/ /\ execs[a] = 0 /\ astate[a] \in Served \cup {"ready", "manual_review"}
                  /\ astate'[a] \in {"superseded", "canceled"}
               \/ astate[a] \in Served \cup {"ready"} /\ astate'[a] = "manual_review"
               \/ astate[a] \in Served \cup {"manual_review"} /\ astate'[a] = "settled"
         \/ /\ astate[a] \in Served /\ astate'[a] = astate[a] /\ execs[a] = 0
            /\ execs' = [execs EXCEPT ![a] = 1]
         \/ /\ astate[a] = "manual_review" /\ astate'[a] = "ready"
            /\ execs' = [execs EXCEPT ![a] = 0]
  PROVE  Contract!Next
<1>1. StatusMap' = [StatusMap EXCEPT ![a] = StatusOf(a)']
  BY OneStatusMoves
<1>2. /\ astate[a] = "absent" => StatusOf(a) = "unknown"
      /\ astate[a] = "ready" => StatusOf(a) = "queued"
      /\ astate[a] \in Served => StatusOf(a) = "serving"
      /\ astate[a] = "manual_review" => StatusOf(a) = "held"
      /\ StatusMap[a] = StatusOf(a)
  BY StatusFacts
<1>3. /\ astate'[a] = "ready" => StatusOf(a)' = "queued"
      /\ astate'[a] \in Served => StatusOf(a)' = "serving"
      /\ astate'[a] = "manual_review" => StatusOf(a)' = "held"
      /\ astate'[a] \in {"superseded", "canceled"} => StatusOf(a)' = "withdrawn"
      /\ astate'[a] = "settled" => StatusOf(a)' = "closed"
  BY DEF StatusOf, Served
<1>4. /\ [b \in Attempts |-> StatusOf(b)] = StatusMap
      /\ [b \in Attempts |-> StatusOf(b)]' = StatusMap'
  BY DEF StatusMap
<1>5. astate'[a] = astate[a] => StatusMap' = StatusMap
  <2>1. astate'[a] = astate[a] => \A b \in Attempts : StatusOf(b)' = StatusOf(b)
    BY DEF StatusOf
  <2> QED
    BY <2>1 DEF StatusMap
<1> HIDE DEF StatusMap
<1> SUFFICES \/ Contract!Arrive(a) \/ Contract!Serve(a) \/ Contract!Run(a) \/ Contract!Return(a)
             \/ Contract!Withdraw(a) \/ Contract!Hold(a) \/ Contract!Close(a) \/ Contract!Reopen(a)
  BY DEF Contract!Next
<1> QED
  BY <1>1, <1>2, <1>3, <1>4, <1>5
  DEF Contract!Arrive, Contract!Serve, Contract!Run, Contract!Return, Contract!Withdraw,
      Contract!Hold, Contract!Close, Contract!Reopen, Contract!Moves

\* Every step of a serving is a step of the contract or leaves it alone.
LEMMA StepIsContract ==
  TypeOK /\ Ownership /\ IntentCovers /\ LeaseRows /\ StartInv /\ OnceInv /\ [Next]_vars
    => [Contract!Next]_(Contract!vars)
<1> SUFFICES ASSUME TypeOK, Ownership, IntentCovers, LeaseRows, StartInv, OnceInv, [Next]_vars
             PROVE  Contract!Next \/ UNCHANGED <<StatusMap, execs>>
  BY DEF Contract!vars, StatusMap
<1>1. ASSUME NEW l \in Leases, Preparation(l) PROVE Contract!Next \/ UNCHANGED <<StatusMap, execs>>
  <2>1. /\ l \in Live /\ lattempt[l] \in Attempts /\ UNCHANGED execs
        /\ \A b \in Attempts : b # lattempt[l] => astate'[b] = astate[b]
    BY <1>1, PreparationLocal DEF Local, LeaseRows, PrepareSteps, Idling, Live, LiveLeaseStates
  <2>2. CASE IncompatibleImage(l) /\ astate'[lattempt[l]] # astate[lattempt[l]]
    <3>1. /\ astate[lattempt[l]] \in Served \cup {"ready"}
          /\ astate'[lattempt[l]] = "manual_review"
      BY <2>1, <2>2 DEF IncompatibleImage, OpenAttempt, Served, TypeOK
    <3> QED
      BY <2>1, <3>1, ContractStep
  <2>3. CASE astate'[lattempt[l]] = astate[lattempt[l]] \/ ~IncompatibleImage(l)
    <3>1. \/ astate'[lattempt[l]] = astate[lattempt[l]]
          \/ astate[lattempt[l]] \in Served /\ astate'[lattempt[l]] \in Served
      BY <1>1, <2>1, <2>3
      DEF Preparation, Launch, GenerateJITConfig, RegisterRuntime, AdvancePreparing,
          PlanResources, CreateCapsule, BootCapsule, RecordPrepared, TryAdvance, Served, TypeOK
    <3> QED
      BY <2>1, <3>1, SameStatus
  <2> QED
    BY <2>2, <2>3
<1>2. ASSUME NEW l \in Leases, Execution(l) PROVE UNCHANGED <<StatusMap, execs>>
  <2>1. UNCHANGED execs
    BY <1>2, ExecutionLocal DEF Local
  <2>2. \A a \in Attempts : astate'[a] = astate[a] \/ (astate[a] \in Served /\ astate'[a] \in Served)
    BY <1>2
    DEF Execution, AdvancePrepared, AuthorizeStart, RecordStartAuthorized, Start, InspectStart,
        RecordRunning, AdvanceRunning, LeaseRunning, WaitExit, WalkToRunning, Release, TryAdvance,
        Served, PreAuthorization, TypeOK
  <2> QED
    BY <2>1, <2>2, SameStatus
<1>3. ASSUME NEW d \in Drivers, Cleanup(d) \/ StepFails(d), ~Finalize(d)
      PROVE  UNCHANGED <<StatusMap, execs>>
  BY <1>3, CleanupLocal, SameStatus DEF Local
<1>4. ASSUME NEW d \in Drivers, Finalize(d) PROVE Contract!Next \/ UNCHANGED <<StatusMap, execs>>
  <2>1. PICK l \in Leases : l = Target(d)
    BY <1>4 DEF Finalize, Ownership, TypeOK, Target, Drivers
  <2> DEFINE a == lattempt[l]
  <2>2. /\ l \in Live /\ a \in Attempts /\ UNCHANGED execs
        /\ \A b \in Attempts : b # a => astate'[b] = astate[b]
    BY <1>4, <2>1, FinalizeRow DEF Local
  <2>3. CASE UNCHANGED astate
    BY <2>2, <2>3, SameStatus
  <2>4. CASE astate[a] \in Served /\ astate'[a] = "ready"
    <3>1. execs[a] = 0
      BY <1>4, <2>1, <2>2, <2>4, FinalizeRow, RequeueIsUnrun DEF Served
    <3> QED
      BY <2>2, <2>4, <3>1, ContractStep
  <2>5. CASE astate[a] \in Served /\ astate'[a] \in {"settled", "manual_review"}
    BY <2>2, <2>5, ContractStep
  <2> QED
    BY <1>4, <2>1, <2>3, <2>4, <2>5, FinalizeRow
<1>5. ASSUME NEW l \in Leases, CreateLease(l) PROVE Contract!Next
  <2>1. /\ sched \in Attempts /\ UNCHANGED execs /\ astate[sched] = "ready"
        /\ astate'[sched] \in Served /\ \A b \in Attempts : b # sched => astate'[b] = astate[b]
    BY <1>5 DEF CreateLease, TypeOK, Served
  <2> QED
    BY <2>1, ContractStep
<1>6. ASSUME NEW l \in Leases, TakeJob(l) PROVE Contract!Next
  <2>1. l \in Live /\ lattempt[l] \in Attempts
    BY <1>6, CapsuleIsLive DEF TakeJob
  <2>2. execs[lattempt[l]] = 0 /\ astate[lattempt[l]] \in Served
    BY <1>6, <2>1 DEF TakeJob, OnceInv, OnceOf, StartInv, StartOf, Began, Authorized, Served
  <2>3. execs' = [execs EXCEPT ![lattempt[l]] = 1] /\ UNCHANGED astate
    BY <1>6, <2>1, <2>2 DEF TakeJob, TypeOK
  <2> QED
    BY <2>1, <2>2, <2>3, ContractStep
<1>7. ASSUME NEW a \in Attempts, Outside(a) PROVE Contract!Next
  <2>1. /\ \A b \in Attempts : b # a => astate'[b] = astate[b]
        /\ \/ Deliver(a) \/ Supersede(a) \/ CancelReady(a)
           \/ ResolveReviewToReady(a) \/ ResolveReviewToSettled(a)
    BY <1>7
    DEF Outside, Deliver, Supersede, CancelReady, ResolveReviewToReady, ResolveReviewToSettled, TypeOK
  <2>2. CASE Deliver(a) \/ ResolveReviewToSettled(a)
    BY <2>1, <2>2, ContractStep DEF Deliver, ResolveReviewToSettled, TypeOK
  <2>3. CASE ResolveReviewToReady(a)
    BY <2>1, <2>3, ContractStep DEF ResolveReviewToReady, TypeOK
  <2>4. CASE Supersede(a) \/ CancelReady(a)
    <3>1. execs[a] = 0 /\ astate[a] \in Served \cup {"ready", "manual_review"}
      BY <2>4
      DEF Supersede, CancelReady, OnceInv, OnceRow, OpenAttempt, PreAuthorization, Served
    <3> QED
      BY <2>1, <2>4, <3>1, ContractStep DEF Supersede, CancelReady, TypeOK
  <2> QED
    BY <2>1, <2>2, <2>3, <2>4
<1>8. ASSUME NEW l \in Leases, Claim(l) \/ Capsule(l), ~TakeJob(l) PROVE UNCHANGED <<StatusMap, execs>>
  BY <1>8, SameStatus
  DEF Claim, Capsule, Fork, AbortCapsule, RunnerExits, Kill, LateCreateLands, LateStartLands,
      ExpireRunner
<1>9. CASE Reconcile \/ Process
  BY <1>9, SameStatus
  DEF Reconcile, BeginReconcile, Adopt, ResolveInterrupted, RetryStranded, SkipStranded,
      FinishReconcile, ReconcileFails, BeginPass, SweepPeriodically, Process, Crash, BeginDrain,
      Drained, DrainWindowElapses, Abandon, ProcessEnds
<1>10. CASE CreateLeaseFails \/ UNCHANGED vars \/ \E a \in Attempts : Reserve(a)
  BY <1>10, SameStatus DEF CreateLeaseFails, Reserve, vars
<1> QED
  BY <1>1, <1>2, <1>3, <1>4, <1>5, <1>6, <1>7, <1>8, <1>9, <1>10 DEF Next, Admission

\* Leases, capsules, crashes and retries implement AttemptContract: work goes
\* back to the queue, or is withdrawn, only while no runner has taken it, and a
\* runner takes it once, under the proviso of RunsAtMostOnce.
THEOREM ServingHonoursContract ==
  ASSUME ~LateStart
  PROVE  Spec => HonoursContract
<1>1. Init => Contract!Init
  <2> SUFFICES ASSUME Init PROVE Contract!Init
    OBVIOUS
  <2>1. \A a \in Attempts : astate[a] = "absent"
    BY DEF Init
  <2>2. \A a \in Attempts : StatusOf(a) = "unknown"
    BY <2>1, StatusFacts
  <2> QED
    BY <2>2 DEF Init, Contract!Init
<1>2. TypeOK /\ Ownership /\ IntentCovers /\ LeaseRows /\ StartInv /\ OnceInv /\ [Next]_vars => OnceInv'
  BY OnceStep
<1> QED
  BY <1>1, <1>2, StepIsContract, StartInvariant, OnceInit, PTL DEF Spec, HonoursContract, Contract!Spec

\* An attempt whose job was taken and whose runner's exit was observed is not
\* sent back to the queue by its serving, under the proviso of RunsAtMostOnce.
THEOREM ObservedExitStaysFinal ==
  ASSUME ~LateStart
  PROVE  Spec => ObservedExitIsFinal
<1> DEFINE Final == \A a \in Attempts :
                      astate[a] \in Served /\ aev[a] = "exit_observed" /\ execs[a] > 0
                        => astate'[a] # "ready"
<1>1. [Contract!Next]_(Contract!vars) /\ TypeOK /\ [Next]_vars => [Final]_vars
  <2> SUFFICES ASSUME [Contract!Next]_(Contract!vars), TypeOK, NEW a \in Attempts,
                      astate[a] \in Served, execs[a] > 0, astate'[a] = "ready"
               PROVE  FALSE
    OBVIOUS
  <2>1. StatusMap[a] = "serving" /\ StatusMap \in [Attempts -> {StatusOf(b) : b \in Attempts}]
    BY StatusFacts DEF StatusMap
  <2>2. StatusMap'[a] = "queued"
    BY DEF StatusMap, StatusOf, Served
  <2>3. execs[a] # 0
    BY DEF TypeOK
  <2>4. /\ [b \in Attempts |-> StatusOf(b)] = StatusMap
        /\ [b \in Attempts |-> StatusOf(b)]' = StatusMap'
    BY DEF StatusMap
  <2> HIDE DEF StatusMap
  <2>5. StatusMap' # StatusMap
    BY <2>1, <2>2
  <2>6. PICK b \in Attempts :
             \/ Contract!Arrive(b) \/ Contract!Serve(b) \/ Contract!Run(b) \/ Contract!Return(b)
             \/ Contract!Withdraw(b) \/ Contract!Hold(b) \/ Contract!Close(b) \/ Contract!Reopen(b)
    BY <2>4, <2>5 DEF Contract!Next, Contract!vars
  <2> QED
    BY <2>1, <2>2, <2>3, <2>4, <2>6
    DEF Contract!Arrive, Contract!Serve, Contract!Run, Contract!Return, Contract!Withdraw,
        Contract!Hold, Contract!Close, Contract!Reopen, Contract!Moves
<1>2. TypeOK /\ Ownership /\ IntentCovers /\ LeaseRows /\ StartInv /\ OnceInv /\ [Next]_vars => OnceInv'
  BY OnceStep
<1> HIDE DEF Final
<1>3. Spec => [][Final]_vars
  BY <1>1, <1>2, StepIsContract, StartInvariant, OnceInit, PTL DEF Spec
<1> QED
  BY <1>3 DEF ObservedExitIsFinal, Final

-----------------------------------------------------------------------------
(* The row of an attempt tells what its runners did *)

\* A runner that runs, or ended by itself, was forked for its attempt.
RanOf(l) ==
  /\ cap[l] # "killed"
  /\ l \in Live /\ cap[l] \in {"running", "exited"} => begun[lattempt[l]]

\* RowsTellWhatRan for one attempt, with what keeps it true: an exit is observed
\* only of a runner that was forked, evidence of a start comes after the
\* authorization, and a resolution is the end of the row.
RanRow(a) ==
  /\ ares[a] = "completed" \/ aev[a] = "exit_observed" => begun[a]
  /\ ares[a] # "none" => astate[a] = "settled"
  /\ astate[a] \in PreAuthorization \cup {"absent", "ready"} => aev[a] \in Retriable

RanInv == (\A l \in Leases : RanOf(l)) /\ (\A a \in Attempts : RanRow(a))

\* A step that forks no runner, ends none and reopens no attempt keeps RanInv
\* if it keeps the rows.
LEMMA KeptRan ==
  ASSUME RanInv, UNCHANGED <<lattempt, begun>>,
         \A l \in Leases : lstate'[l] \in LiveLeaseStates => lstate[l] \in LiveLeaseStates,
         \A l \in Leases : cap'[l] \in {"running", "exited", "killed"} => cap'[l] = cap[l],
         \A a \in Attempts : RanRow(a)'
  PROVE  RanInv'
BY DEF RanInv, RanOf, Live

\* The rows of other attempts stay as they are.
LEMMA OtherRowsRan ==
  ASSUME RanInv, NEW d \in Drivers, NEW l \in Leases, Local(d, l),
         lattempt[l] \in Attempts, RanRow(lattempt[l])'
  PROVE  \A a \in Attempts : RanRow(a)'
<1>1. ASSUME NEW a \in Attempts, a # lattempt[l] PROVE RanRow(a)'
  BY <1>1 DEF RanInv, RanRow, Local
<1>2. ASSUME NEW a \in Attempts, a = lattempt[l] PROVE RanRow(a)'
  BY <1>2 DEF RanRow, Local
<1> QED
  BY <1>1, <1>2

\* Preparation and execution keep RanInv.
LEMMA GoroutineRan ==
  ASSUME TypeOK, LeaseRows, StartInv, RanInv, NEW l \in Leases, Preparation(l) \/ Execution(l)
  PROVE  RanInv'
<1> DEFINE a == lattempt[l]
<1>1. /\ Local(l, l) /\ l \in Live /\ l \in Drivers /\ a \in Attempts
      /\ UNCHANGED <<lattempt, begun, ares>>
      /\ lstate'[l] \in LiveLeaseStates => lstate[l] \in LiveLeaseStates
      /\ StartOf(l) /\ RanOf(l) /\ RanRow(a)
  BY PreparationLocal, ExecutionLocal
  DEF LeaseRows, StartInv, RanInv, PrepareSteps, StartSteps, AdoptSteps, Idling, Drivers, Local,
      Live, LiveLeaseStates
<1>2. cap'[l] \in {"running", "exited", "killed"} => cap'[l] = cap[l]
  BY PreparationLocal
  DEF Execution, AdvancePrepared, AuthorizeStart, RecordStartAuthorized, Start, InspectStart,
      RecordRunning, AdvanceRunning, LeaseRunning, WaitExit, WalkToRunning, Release, TypeOK
<1>3. RanRow(a)'
  <2> USE DEF RanRow, TypeOK, PreAuthorization
  <2>1. CASE \/ Launch(l) \/ GenerateJITConfig(l) \/ RegisterRuntime(l) \/ PlanResources(l)
             \/ CreateCapsule(l) \/ BootCapsule(l) \/ Start(l) \/ LeaseRunning(l)
             \/ WalkToRunning(l) \/ Release(l)
    BY <1>1, <2>1
    DEF Launch, GenerateJITConfig, RegisterRuntime, PlanResources, CreateCapsule, BootCapsule,
        Start, LeaseRunning, WalkToRunning, Release
  <2>2. CASE IncompatibleImage(l) \/ AdvancePreparing(l) \/ AdvancePrepared(l) \/ AdvanceRunning(l)
    BY <1>1, <2>2
    DEF IncompatibleImage, AdvancePreparing, AdvancePrepared, AdvanceRunning, TryAdvance, OpenAttempt
  <2>3. CASE AuthorizeStart(l)
    BY <1>1, <2>3 DEF AuthorizeStart
  <2>4. CASE RecordPrepared(l)
    BY <1>1, <2>4 DEF RecordPrepared, RecordEvidence, Retriable
  <2>5. CASE RecordStartAuthorized(l) \/ RecordRunning(l)
    <3>1. astate[a] \in Authorized
      BY <1>1, <2>5 DEF RecordStartAuthorized, RecordRunning, StartOf, AfterAuthorization
    <3> QED
      BY <1>1, <2>5, <3>1
      DEF RecordStartAuthorized, RecordRunning, TryRecordEvidence, RecordEvidence, Authorized
  <2>6. CASE InspectStart(l) \/ WaitExit(l)
    <3>1. CASE UNCHANGED aev
      BY <1>1, <2>6, <3>1 DEF InspectStart, WaitExit
    <3>2. CASE aev' # aev
      <4>1. cap[l] \in {"exited", "killed"}
        BY <2>6, <3>2
        DEF InspectStart, InspectExecution, CapsuleStates, WaitExit, ClassifyExit, ContainerStopped
      <4>2. begun[a] /\ astate[a] \in Authorized
        BY <1>1, <4>1 DEF RanOf, StartOf, Began
      <4> QED
        BY <1>1, <2>6, <4>2 DEF InspectStart, WaitExit, Authorized
    <3> QED
      BY <3>1, <3>2
  <2> QED
    BY <2>1, <2>2, <2>3, <2>4, <2>5, <2>6 DEF Preparation, Execution
<1>4. \A b \in Attempts : RanRow(b)'
  BY <1>1, <1>3, OtherRowsRan
<1> QED
  BY <1>1, <1>2, <1>4, KeptRan DEF Local

\* Cleanup keeps RanInv: an attempt is settled as completed on the evidence of
\* an exit, and goes back to the queue without any.
LEMMA CleanupRan ==
  ASSUME TypeOK, Ownership, LeaseRows, RanInv, NEW d \in Drivers, Cleanup(d) \/ StepFails(d)
  PROVE  RanInv'
<1>1. CASE ~Finalize(d)
  <2>1. PICK l \in Leases : l = Target(d)
    BY <1>1, CleanupLocal
  <2>2. /\ Local(d, l) /\ UNCHANGED <<astate, aev, ares, begun, lattempt>>
        /\ lstate'[l] \in LiveLeaseStates => lstate[l] \in LiveLeaseStates
        /\ cap'[l] \in {cap[l], "absent"}
    BY <1>1, <2>1, CleanupLocal DEF Local
  <2>3. \A a \in Attempts : RanRow(a)'
    BY <2>2 DEF RanInv, RanRow
  <2> QED
    BY <2>2, <2>3, KeptRan DEF Local
<1>2. CASE Finalize(d)
  <2>1. PICK l \in Leases : l = Target(d)
    BY <1>2 DEF Finalize, Ownership, TypeOK, Target, Drivers
  <2> DEFINE a == lattempt[l]
  <2>2. /\ l \in Live /\ a \in Attempts /\ Local(d, l) /\ RanRow(a)
        /\ UNCHANGED <<cap, lattempt, begun>> /\ lstate'[l] = "released"
    BY <1>2, <2>1, FinalizeRow DEF RanInv, Finalize, TransitionLease, TypeOK
  <2>3. RanRow(a)'
    <3>1. astate'[a] = "ready" /\ astate[a] \in Served => aev'[a] = "not_started"
      BY <1>2, <2>1, <2>2 DEF Finalize, DisposeAttempt, TypeOK, Served
    <3>2. astate[a] \in Served => ares[a] = "none"
      BY <2>2 DEF RanRow, Served
    <3>3. DispositionOf(astate[a], aev[a], ReadBack(obs[d], lobs[l])) = "settle_completed"
            => aev[a] = "exit_observed"
      BY DEF DispositionOf
    <3> QED
      BY <1>2, <2>1, <2>2, <3>1, <3>2, <3>3, FinalizeRow DEF RanRow, PreAuthorization, Retriable
  <2>4. \A b \in Attempts : RanRow(b)'
    BY <2>2, <2>3, OtherRowsRan
  <2> QED
    BY <2>2, <2>4, KeptRan DEF Local, LiveLeaseStates
<1> QED
  BY <1>1, <1>2

\* Every step keeps RanInv, when a capsule writes its own exit code.
LEMMA RanStep ==
  ASSUME ~Kills
  PROVE  TypeOK /\ Ownership /\ IntentCovers /\ LeaseRows /\ StartInv /\ RanInv /\ [Next]_vars
           => RanInv'
<1> SUFFICES ASSUME TypeOK, Ownership, IntentCovers, LeaseRows, StartInv, RanInv, [Next]_vars
             PROVE  RanInv'
  OBVIOUS
<1>1. ASSUME UNCHANGED <<astate, aev, ares, begun>> PROVE \A a \in Attempts : RanRow(a)'
  BY <1>1 DEF RanInv, RanRow
<1>2. ASSUME UNCHANGED <<astate, aev, ares, begun, lattempt, lstate, cap>> PROVE RanInv'
  BY <1>1, <1>2, KeptRan
<1>3. ASSUME NEW l \in Leases, CreateLease(l) PROVE RanInv'
  <2>1. /\ \A m \in Leases : m # l => lstate'[m] = lstate[m] /\ lattempt'[m] = lattempt[m]
        /\ \A b \in Attempts : astate'[b] = IF b = sched THEN "leased" ELSE astate[b]
        /\ UNCHANGED <<cap, aev, ares, begun>> /\ astate[sched] = "ready" /\ sched \in Attempts
        /\ cap[l] = "absent"
    BY <1>3 DEF CreateLease, TypeOK, LeaseRows
  <2>2. \A m \in Leases : RanOf(m)'
    BY <2>1 DEF RanInv, RanOf, Live
  <2>3. \A b \in Attempts : RanRow(b)'
    BY <2>1 DEF RanInv, RanRow, PreAuthorization
  <2> QED
    BY <2>2, <2>3 DEF RanInv
<1>4. ASSUME NEW l \in Leases, Fork(l) PROVE RanInv'
  <2>1. l \in Live /\ lattempt[l] \in Attempts
    BY <1>4, CapsuleIsLive DEF Fork
  <2>2. /\ \A m \in Leases : cap'[m] = IF m = l THEN "running" ELSE cap[m]
        /\ \A b \in Attempts : begun'[b] = IF b = lattempt[l] THEN TRUE ELSE begun[b]
        /\ UNCHANGED <<lstate, lattempt, astate, aev, ares>>
    BY <1>4 DEF Fork, TypeOK
  <2>3. \A m \in Leases : RanOf(m)'
    <3>1. \A m \in Leases : m \in Live => lattempt[m] \in Attempts
      BY DEF LeaseRows, Live, LiveLeaseStates
    <3> QED
      BY <2>1, <2>2, <3>1 DEF RanInv, RanOf, Live
  <2>4. \A b \in Attempts : RanRow(b)'
    BY <2>2 DEF RanInv, RanRow
  <2> QED
    BY <2>3, <2>4 DEF RanInv
<1>5. ASSUME NEW l \in Leases, Capsule(l), ~Fork(l) PROVE RanInv'
  <2>1. /\ UNCHANGED <<lstate, lattempt, astate, aev, ares, begun>>
        /\ \A m \in Leases : \/ cap'[m] = cap[m]
                             \/ cap'[m] \in {"created", "aborted", "starting"}
                             \/ cap[m] = "running" /\ cap'[m] = "exited"
    BY <1>5
    DEF Capsule, AbortCapsule, RunnerExits, Kill, LateCreateLands, LateStartLands, TakeJob,
        ExpireRunner, TypeOK
  <2>2. \A m \in Leases : RanOf(m)'
    BY <2>1 DEF RanInv, RanOf, Live
  <2> QED
    BY <1>1, <2>1, <2>2 DEF RanInv
<1>6. ASSUME NEW a \in Attempts, ResolveReviewToReady(a) PROVE RanInv'
  <2>1. /\ UNCHANGED <<lstate, lattempt, cap, ares>> /\ astate[a] = "manual_review"
        /\ \A b \in Attempts :
             /\ b # a => astate'[b] = astate[b] /\ aev'[b] = aev[b] /\ begun'[b] = begun[b]
             /\ b = a => astate'[b] = "ready" /\ aev'[b] = "not_started"
    BY <1>6 DEF ResolveReviewToReady, TypeOK
  <2>2. ASSUME NEW m \in Leases PROVE RanOf(m)'
    <3>1. m \in Live /\ cap[m] \in {"running", "exited"} => lattempt[m] # a /\ lattempt[m] \in Attempts
      BY <2>1 DEF StartInv, StartOf, Began, Authorized, LeaseRows, Live, LiveLeaseStates
    <3> QED
      BY <2>1, <3>1 DEF RanInv, RanOf, Live
  <2>3. \A b \in Attempts : RanRow(b)'
    BY <2>1 DEF RanInv, RanRow, Retriable
  <2> QED
    BY <2>2, <2>3 DEF RanInv
<1>7. ASSUME NEW a \in Attempts,
             Deliver(a) \/ Supersede(a) \/ CancelReady(a) \/ ResolveReviewToSettled(a)
      PROVE  RanInv'
  <2>1. UNCHANGED <<lattempt, begun, lstate, cap>>
    BY <1>7 DEF Deliver, Supersede, CancelReady, ResolveReviewToSettled
  <2>2. \A b \in Attempts : RanRow(b)'
    BY <1>7
    DEF Deliver, Supersede, CancelReady, ResolveReviewToSettled, TypeOK, RanInv, RanRow, PreAuthorization
  <2> QED
    BY <2>1, <2>2, KeptRan
<1>8. ASSUME NEW l \in Leases, ResolveInterrupted(l) PROVE RanInv'
  <2>1. /\ UNCHANGED <<lattempt, begun, lstate, cap, astate, ares>>
        /\ aev' # aev => cap[l] \in {"exited", "killed"}
    BY <1>8 DEF ResolveInterrupted, InspectExecution, CapsuleStates, TypeOK
  <2>2. l \in Live /\ lattempt[l] \in Attempts
    BY <1>8 DEF ResolveInterrupted, LeaseRows, Live, LiveLeaseStates
  <2>3. aev' # aev => begun[lattempt[l]] /\ astate[lattempt[l]] \in Authorized
    BY <2>1, <2>2 DEF RanInv, RanOf, StartInv, StartOf, Began
  <2>4. \A b \in Attempts : b # lattempt[l] => aev'[b] = aev[b]
    BY <1>8 DEF ResolveInterrupted, TryRecordEvidence, RecordEvidence, TypeOK
  <2>5. \A b \in Attempts : RanRow(b)'
    BY <2>1, <2>2, <2>3, <2>4 DEF RanInv, RanRow, Authorized, PreAuthorization
  <2> QED
    BY <2>1, <2>5, KeptRan
<1>9. CASE FinishReconcile \/ SweepPeriodically
  <2>1. \A l \in Leases : cap'[l] \in {cap[l], "absent"}
    BY <1>9, SweepTakes DEF FinishReconcile, SweepPeriodically
  <2> QED
    BY <1>1, <1>9, <2>1, KeptRan DEF FinishReconcile, SweepPeriodically
<1>10. CASE \/ \E keep \in BOOLEAN : BeginReconcile(keep)
            \/ \E l \in Leases : Adopt(l) \/ RetryStranded(l) \/ SkipStranded(l) \/ Claim(l)
            \/ ReconcileFails \/ BeginPass \/ Process
            \/ CreateLeaseFails \/ UNCHANGED vars \/ \E a \in Attempts : Reserve(a)
  BY <1>2, <1>10
  DEF BeginReconcile, Adopt, RetryStranded, SkipStranded, Claim, ReconcileFails, BeginPass, Process,
      Crash, BeginDrain, Drained, DrainWindowElapses, Abandon, ProcessEnds, CreateLeaseFails,
      Reserve, vars
<1> QED
  BY <1>3, <1>4, <1>5, <1>6, <1>7, <1>8, <1>9, <1>10, GoroutineRan, CleanupRan
  DEF Next, Admission, Outside, Reconcile

\* An attempt settled as completed had a runner started for it, and the row of
\* one not yet authorized carries no evidence of a start, provided a capsule
\* that stops writes its own exit code: a killed one is read as an exit.
THEOREM RowsAlwaysTellWhatRan ==
  ASSUME ~Kills
  PROVE  Spec => []RowsTellWhatRan
<1>1. Init => RanInv
  BY DEF Init, RanInv, RanOf, RanRow, Live, LiveLeaseStates, Retriable
<1>2. RanInv => RowsTellWhatRan
  BY DEF RanInv, RanRow, RowsTellWhatRan, CompletedMeansRan, UnauthorizedIsRetriable
<1>3. TypeOK /\ Ownership /\ IntentCovers /\ LeaseRows /\ StartInv /\ RanInv /\ [Next]_vars => RanInv'
  BY RanStep
<1> QED
  BY <1>1, <1>2, <1>3, StartInvariant, PTL DEF Spec

-----------------------------------------------------------------------------
(* The credits *)

\* The slot of an admission between its credit and its lease.
Taken == IF sched = NoAttempt THEN {} ELSE {NoLease}

\* Released leases whose driver has not given the credit back yet.
Waiting ==
  {l \in Leases : lstate[l] = "released"
    /\ (pc[l] = "credit" \/ (recLease = l /\ pc[Reconciler] = "credit"))}

\* Whoever a credit is held for.  The startup pass takes one for each lease it
\* comes to, and keeps those it resolved to its end.
Holders ==
  (IF phase = "reconciling" THEN (Live \ todo) \cup resolved ELSE Live) \cup Waiting \cup Taken

\* LiveHoldsCredit, with what keeps it true.
CreditInv ==
  /\ Cardinality(Live \cup Taken) <= Parallelism
  /\ phase # "down" /\ configured => Cardinality(Holders) <= credits
  /\ phase = "reconciling" => pc[Reconciler] # "credit" /\ resolved \cap (adopting \cup todo) = {}

\* One element more is at most one more.
LEMMA OneMore ==
  ASSUME NEW S, IsFiniteSet(S), NEW x
  PROVE  /\ Cardinality(S \cup {x}) \in Nat /\ Cardinality(S \cup {x}) <= Cardinality(S) + 1
         /\ x \notin S => Cardinality(S \cup {x}) = Cardinality(S) + 1
<1>1. Cardinality(S) \in Nat
  BY FS_CardinalityType
<1>2. Cardinality(S \cup {x}) = IF x \in S THEN Cardinality(S) ELSE Cardinality(S) + 1
  BY FS_AddElement
<1> QED
  BY <1>1, <1>2

\* Holders are counted over a finite set.
LEMMA HoldersFinite ==
  ASSUME TypeOK
  PROVE  /\ IsFiniteSet(Live \cup Taken) /\ IsFiniteSet(Holders)
         /\ Cardinality(Live \cup Taken) \in Nat /\ Cardinality(Holders) \in Nat
<1>1. IsFiniteSet(Leases \cup {NoLease})
  BY ServingAssumption, FS_AddElement
<1>2. Live \cup Taken \in SUBSET (Leases \cup {NoLease}) /\ Holders \in SUBSET (Leases \cup {NoLease})
  BY DEF Live, Taken, Holders, Waiting, TypeOK
<1> QED
  BY <1>1, <1>2, FS_Subset, FS_CardinalityType

\* A step that adds no holder and gives no credit back keeps CreditInv.
LEMMA CreditFrame ==
  ASSUME TypeOK, CreditInv, Live' \subseteq Live, Taken' \subseteq Taken,
         phase' # "down" /\ configured' =>
           /\ phase # "down" /\ configured /\ Holders' \subseteq Holders /\ credits' = credits,
         phase' = "reconciling" =>
           pc'[Reconciler] # "credit" /\ resolved' \cap (adopting' \cup todo') = {}
  PROVE  CreditInv'
<1>1. Cardinality(Live' \cup Taken') <= Cardinality(Live \cup Taken)
  <2>1. (Live' \cup Taken') \in SUBSET (Live \cup Taken)
    OBVIOUS
  <2> QED
    BY <2>1, HoldersFinite, FS_Subset
<1>2. Holders' \subseteq Holders => Cardinality(Holders') <= Cardinality(Holders)
  BY HoldersFinite, FS_Subset
<1>3. /\ Cardinality(Live' \cup Taken') \in Nat /\ Cardinality(Live \cup Taken) \in Nat
      /\ Holders' \subseteq Holders => Cardinality(Holders') \in Nat
      /\ Cardinality(Holders) \in Nat
      /\ credits \in Nat /\ Parallelism \in Nat
  <2>1. (Live' \cup Taken') \in SUBSET (Live \cup Taken)
    OBVIOUS
  <2> QED
    BY <2>1, HoldersFinite, FS_Subset, FS_CardinalityType, ServingAssumption DEF TypeOK
<1>4. Cardinality(Live' \cup Taken') <= Parallelism
  BY <1>1, <1>3 DEF CreditInv
<1>5. phase' # "down" /\ configured' => Cardinality(Holders') <= credits'
  BY <1>2, <1>3 DEF CreditInv
<1> QED
  BY <1>4, <1>5 DEF CreditInv

\* Admission: the slot is taken with a credit, becomes the lease, or goes back.
LEMMA AdmissionCredit ==
  ASSUME TypeOK, Ownership, LeaseRows, CreditInv,
         \/ \E a \in Attempts : Reserve(a)
         \/ \E l \in Leases : Admission(l)
         \/ CreateLeaseFails
  PROVE  CreditInv'
<1>1. ASSUME NEW a \in Attempts, Reserve(a) PROVE CreditInv'
  <2>1. /\ phase = "serving" /\ configured /\ Taken = {} /\ Taken' = {NoLease}
        /\ credits < Parallelism /\ credits' = credits + 1
        /\ UNCHANGED <<lstate, phase, configured, pc, recLease, todo, resolved, adopting>>
    BY <1>1, ServingAssumption DEF Reserve, Taken
  <2>2. Live' = Live /\ Waiting' = Waiting
    BY <2>1 DEF Live, Waiting
  <2>3. Holders' = Holders \cup {NoLease} /\ Live \subseteq Holders /\ Live = Live \cup Taken
    BY <2>1, <2>2 DEF Holders
  <2>4. Cardinality(Holders) <= credits
    BY <2>1 DEF CreditInv
  <2>5. /\ IsFiniteSet(Live) /\ IsFiniteSet(Holders)
        /\ Cardinality(Live) \in Nat /\ Cardinality(Holders) \in Nat
    BY <2>3, HoldersFinite
  <2>6. Cardinality(Live) <= Cardinality(Holders)
    BY <2>3, <2>5, FS_Subset
  <2>7. /\ Cardinality(Live \cup {NoLease}) <= Cardinality(Live) + 1
        /\ Cardinality(Holders \cup {NoLease}) <= Cardinality(Holders) + 1
    BY <2>5, OneMore
  <2>8. /\ Cardinality(Live \cup {NoLease}) \in Nat /\ Cardinality(Holders \cup {NoLease}) \in Nat
        /\ credits \in Nat /\ Parallelism \in Nat
    BY <2>5, OneMore, ServingAssumption DEF TypeOK
  <2>9. Cardinality(Live \cup {NoLease}) <= Parallelism
          /\ Cardinality(Holders \cup {NoLease}) <= credits'
    BY <2>1, <2>4, <2>5, <2>6, <2>7, <2>8
  <2> QED
    BY <2>1, <2>2, <2>3, <2>9 DEF CreditInv
<1>2. ASSUME NEW l \in Leases, CreateLease(l) PROVE CreditInv'
  <2>1. /\ Taken = {NoLease} /\ Taken' = {} /\ phase = "serving" /\ lstate[l] = "free"
        /\ \A m \in Leases : lstate'[m] = IF m = l THEN "reserved" ELSE lstate[m]
        /\ \A e \in Drivers : pc'[e] = IF e = l THEN "committed" ELSE pc[e]
        /\ UNCHANGED <<phase, configured, recLease, todo, resolved, adopting, credits>>
    BY <1>2 DEF CreateLease, Taken, Ownership, Step, TypeOK, Drivers
  <2>2. Live' = Live \cup {l} /\ l \notin Live /\ NoLease \notin Live
    BY <2>1, ServingAssumption DEF Live, LiveLeaseStates, LeaseStates
  <2>3. Waiting' = Waiting /\ NoLease \notin Waiting /\ l \notin Waiting
    BY <2>1, ServingAssumption DEF Waiting, Drivers
  <2> DEFINE L == Live
  <2> DEFINE H == Live \cup Waiting
  <2>4. /\ Live \cup Taken = L \cup {NoLease} /\ Live' \cup Taken' = L \cup {l}
        /\ Holders = H \cup {NoLease} /\ Holders' = H \cup {l}
        /\ l \notin L /\ l \notin H /\ NoLease \notin L /\ NoLease \notin H
    BY <2>1, <2>2, <2>3 DEF Holders
  <2>5. IsFiniteSet(L) /\ IsFiniteSet(H)
    BY <2>4, HoldersFinite, FS_Subset
  <2> HIDE DEF L, H
  <2>6. /\ Cardinality(L \cup {l}) = Cardinality(L) + 1 /\ Cardinality(H \cup {l}) = Cardinality(H) + 1
        /\ Cardinality(L \cup {NoLease}) = Cardinality(L) + 1
        /\ Cardinality(H \cup {NoLease}) = Cardinality(H) + 1
    BY <2>4, <2>5, OneMore
  <2> QED
    BY <2>1, <2>4, <2>6 DEF CreditInv
<1>3. ASSUME NEW l \in Leases, Claim(l) PROVE CreditInv'
  <2>1. /\ UNCHANGED <<phase, configured, recLease, todo, resolved, adopting, credits, lstate, sched>>
        /\ \A e \in Drivers : pc'[e] = IF e = l THEN "launch" ELSE pc[e]
        /\ l # Reconciler /\ Reconciler \in Drivers
    BY <1>3, ServingAssumption DEF Claim, Step, TypeOK, Drivers
  <2>2. Live' = Live /\ Taken' = Taken /\ Waiting' \subseteq Waiting
    BY <2>1 DEF Live, Taken, Waiting, Drivers
  <2> QED
    BY <2>1, <2>2, CreditFrame DEF Holders, CreditInv
<1>4. CASE CreateLeaseFails
  <2>1. /\ Taken = {NoLease} /\ Taken' = {} /\ phase = "serving"
        /\ credits' = IF 1 <= credits THEN credits - 1 ELSE 0
        /\ UNCHANGED <<lstate, phase, configured, pc, recLease, todo, resolved, adopting>>
    BY <1>4 DEF CreateLeaseFails, Taken, Ownership, ReleaseCredits
  <2>2. Live' = Live /\ Waiting' = Waiting
    BY <2>1 DEF Live, Waiting
  <2>3. NoLease \in Holders /\ Holders' = Holders \ {NoLease}
    BY <2>1, <2>2, ServingAssumption DEF Holders, Live, Waiting
  <2>4. Cardinality(Holders') = Cardinality(Holders) - 1
    BY <2>3, HoldersFinite, FS_RemoveElement
  <2>5. Cardinality(Live' \cup Taken') <= Cardinality(Live \cup Taken)
          /\ Cardinality(Live' \cup Taken') \in Nat
    <3>1. (Live' \cup Taken') \in SUBSET (Live \cup Taken)
      BY <2>1, <2>2
    <3> QED
      BY <3>1, HoldersFinite, FS_Subset, FS_CardinalityType
  <2>6. /\ Cardinality(Holders) \in Nat /\ Cardinality(Live \cup Taken) \in Nat
        /\ credits \in Nat /\ Parallelism \in Nat
    BY HoldersFinite, ServingAssumption DEF TypeOK
  <2>7. Cardinality(Live' \cup Taken') <= Parallelism
    BY <2>5, <2>6 DEF CreditInv
  <2>8. phase # "down" /\ configured => Cardinality(Holders) - 1 <= credits'
    BY <2>1, <2>6 DEF CreditInv
  <2> QED
    BY <2>1, <2>4, <2>7, <2>8 DEF CreditInv
<1> QED
  BY <1>1, <1>2, <1>3, <1>4 DEF Admission

\* A driver at work holds its credit.
LEMMA GoroutineCredit ==
  ASSUME TypeOK, LeaseRows, CreditInv, NEW l \in Leases, Preparation(l) \/ Execution(l)
  PROVE  CreditInv'
<1>1. UNCHANGED <<configured, resolved, adopting, credits, sched>>
  BY DEF Preparation, Launch, GenerateJITConfig, RegisterRuntime, AdvancePreparing,
      PlanResources, CreateCapsule, BootCapsule, IncompatibleImage, RecordPrepared, Execution,
      AdvancePrepared, AuthorizeStart, RecordStartAuthorized, Start, InspectStart, RecordRunning,
      AdvanceRunning, LeaseRunning, WaitExit, WalkToRunning, Release
<1>2. /\ Local(l, l) /\ UNCHANGED recLease /\ pc'[l] # "credit"
      /\ lstate'[l] = lstate[l] \/ (lstate[l] \in LiveLeaseStates /\ lstate'[l] \in LiveLeaseStates)
  BY PreparationLocal, ExecutionLocal DEF PrepareSteps, StartSteps, AdoptSteps
<1>3. UNCHANGED <<phase, todo>> /\ pc'[Reconciler] = pc[Reconciler]
  BY <1>2, ServingAssumption DEF Local, Drivers
<1>4. Live' = Live /\ Taken' = Taken
  BY <1>1, <1>2 DEF Live, Taken, Local
<1>5. Waiting' \subseteq Waiting
  BY <1>2, <1>3 DEF Waiting, Local, Drivers, LiveLeaseStates
<1> QED
  BY <1>1, <1>3, <1>4, <1>5, CreditFrame DEF Holders, CreditInv

\* A cleanup that does not finalize comes to the credit only with a live lease.
LEMMA CleanupCredit ==
  ASSUME TypeOK, Ownership, LeaseRows, CreditInv, NEW d \in Drivers, Cleanup(d) \/ StepFails(d),
         ~Finalize(d), ~ReleaseCreditIfDone(d)
  PROVE  CreditInv'
<1>1. PICK l \in Leases : l = Target(d)
  BY CleanupLocal
<1>2. UNCHANGED <<configured, resolved, adopting, credits, sched>>
  BY DEF Cleanup, Recover, Deregister, RecordStartObservation, NothingToRemove, RemoveObject,
         ForgetResource, Quarantine, Unclaim, StepFails
<1>3. /\ Local(d, l) /\ recLease' \in {recLease, NoLease} /\ pc[d] # "idle"
      /\ lstate'[l] = lstate[l] \/ (lstate[l] \in LiveLeaseStates /\ lstate'[l] \in LiveLeaseStates)
  BY <1>1, CleanupLocal DEF Unclaim
<1>4. pc'[d] = "credit" => d = l /\ l \in Live
  <2>1. pc'[d] = "credit" => pc[d] \notin Idling
    BY DEF Cleanup, Recover, Deregister, RecordStartObservation, NothingToRemove, RemoveObject,
           ForgetResource, Quarantine, Unclaim, StepFails, Step, TypeOK, Idling, PrepareSteps
  <2>2. d = Reconciler => phase \notin {"abandoning", "draining"}
    BY <1>3 DEF Ownership
  <2>3. d = Reconciler => pc'[d] # "credit"
    BY <2>2
    DEF Cleanup, Recover, Deregister, RecordStartObservation, NothingToRemove, RemoveObject,
        ForgetResource, Quarantine, Unclaim, StepFails, Step, TypeOK, OnError, Failed
  <2> QED
    BY <1>1, <2>1, <2>3 DEF LeaseRows, Target
<1>5. Live' = Live /\ Taken' = Taken
  BY <1>2, <1>3 DEF Live, Taken, Local
<1>6. Waiting' \subseteq Waiting
  <2>1. ASSUME NEW m \in Leases, lstate'[m] = "released", pc'[m] = "credit" PROVE m \in Waiting
    BY <1>3, <1>4, <2>1, ServingAssumption DEF Local, Waiting, Live, LiveLeaseStates, Drivers
  <2>2. ASSUME NEW m \in Leases, lstate'[m] = "released", recLease' = m, pc'[Reconciler] = "credit"
        PROVE  m \in Waiting
    BY <1>3, <1>4, <2>2, ServingAssumption DEF Local, Waiting, Live, LiveLeaseStates, Drivers
  <2> QED
    BY <2>1, <2>2 DEF Waiting
<1>7. UNCHANGED <<phase, todo>>
  BY <1>3 DEF Local
<1>8. phase = "reconciling" => pc'[Reconciler] # "credit"
  BY <1>3, <1>4, ServingAssumption DEF Local, CreditInv, Drivers
<1> QED
  BY <1>2, <1>5, <1>6, <1>7, <1>8, CreditFrame DEF Holders, CreditInv

\* A lease that is released goes on to give its credit back, or leaves it to the
\* end of the startup pass.
LEMMA FinalizeCredit ==
  ASSUME TypeOK, Ownership, LeaseRows, CreditInv, NEW d \in Drivers, Finalize(d)
  PROVE  CreditInv'
<1>1. PICK l \in Leases : l = Target(d)
  BY DEF Finalize, Ownership, TypeOK, Target, Drivers
<1>2. /\ UNCHANGED <<configured, resolved, adopting, credits, sched, recLease, phase, todo>>
      /\ \A m \in Leases : lstate'[m] = IF m = l THEN "released" ELSE lstate[m]
      /\ \A e \in Drivers : pc'[e] = IF e = d THEN Done(d) ELSE pc[e]
      /\ l \in Live /\ pc[d] = "finalize"
  BY <1>1
  DEF Finalize, TransitionLease, Step, TypeOK, Live, LiveLeaseStates, LeaseStates
<1>3. Live' = Live \ {l} /\ Taken' = Taken
  BY <1>2 DEF Live, Taken, LiveLeaseStates
<1>4. Waiting' \subseteq Waiting \cup {l}
  BY <1>1, <1>2, ServingAssumption DEF Waiting, Drivers, Target
<1>5. phase = "reconciling" /\ l \in Waiting' => l \notin todo
  BY <1>1, <1>2, ServingAssumption DEF Waiting, Drivers, Target, Ownership, Done, LeaseRows
<1>6. phase = "reconciling" => pc'[Reconciler] # "credit"
  BY <1>2 DEF CreditInv, Done, Drivers
<1>7. Holders' \subseteq Holders
  BY <1>2, <1>3, <1>4, <1>5 DEF Holders
<1> QED
  BY <1>2, <1>3, <1>6, <1>7, CreditFrame DEF CreditInv

\* The credit that is given back is that of a lease that is held no longer.
LEMMA ReleaseCredit ==
  ASSUME TypeOK, Ownership, LeaseRows, CreditInv, NEW d \in Drivers, ReleaseCreditIfDone(d)
  PROVE  CreditInv'
<1>1. PICK l \in Leases : l = Target(d)
  BY DEF ReleaseCreditIfDone, Ownership, TypeOK, Target, Drivers
<1>2. /\ UNCHANGED <<configured, resolved, adopting, sched, recLease, phase, todo, lstate>>
      /\ \A e \in Drivers : pc'[e] = IF e = d THEN "unclaim" ELSE pc[e]
      /\ pc[d] = "credit" /\ phase # "down" /\ Reconciler \in Drivers /\ l \in Drivers
  BY DEF ReleaseCreditIfDone, Step, TypeOK, Ownership, Drivers
<1>3. Live' = Live /\ Taken' = Taken /\ Waiting' \subseteq Waiting
  BY <1>2 DEF Live, Taken, Waiting, Drivers
<1>4. Holders' \subseteq Holders /\ (phase = "reconciling" => pc'[Reconciler] # "credit")
  BY <1>2, <1>3 DEF Holders, CreditInv
<1>5. CASE UNCHANGED credits
  BY <1>2, <1>3, <1>4, <1>5, CreditFrame DEF CreditInv
<1>6. CASE lstate[l] = "released" /\ configured /\ credits' = IF 1 <= credits THEN credits - 1 ELSE 0
  <2>1. l \in Waiting
    BY <1>1, <1>2, <1>6 DEF Waiting, Target
  <2>2. l \notin Waiting'
    BY <1>1, <1>2, ServingAssumption DEF Waiting, Target, Ownership, OneDriver
  <2>3. l \notin Live /\ l \notin Taken
    BY <1>6, ServingAssumption DEF Live, Taken, LiveLeaseStates
  <2>4. phase = "reconciling" => l \notin resolved
    BY <1>1, <1>2 DEF CreditInv, Target, Ownership
  <2>5. l \in Holders /\ l \notin Holders'
    BY <1>2, <1>3, <2>1, <2>2, <2>3, <2>4 DEF Holders
  <2>6. Holders' \in SUBSET (Holders \ {l})
    BY <1>4, <2>5
  <2>7. IsFiniteSet(Holders \ {l}) /\ Cardinality(Holders \ {l}) = Cardinality(Holders) - 1
    BY <2>5, HoldersFinite, FS_RemoveElement
  <2>8. Cardinality(Holders') <= Cardinality(Holders) - 1 /\ Cardinality(Holders') \in Nat
    BY <2>6, <2>7, FS_Subset, FS_CardinalityType
  <2>9. Cardinality(Holders) \in Nat /\ credits \in Nat
    BY HoldersFinite DEF TypeOK
  <2>10. Cardinality(Holders') <= credits'
    BY <1>2, <1>6, <2>8, <2>9 DEF CreditInv
  <2> QED
    BY <1>2, <1>3, <1>4, <2>10 DEF CreditInv
<1> QED
  BY <1>1, <1>5, <1>6 DEF ReleaseCreditIfDone, ReleaseCredits

\* The startup pass takes a credit for every lease it comes to.
LEMMA TakeUpCredit ==
  ASSUME TypeOK, Ownership, LeaseRows, CreditInv, NEW l \in Leases, Adopt(l) \/ ResolveInterrupted(l)
  PROVE  CreditInv'
<1>1. /\ phase = "reconciling" /\ pc[Reconciler] = "idle" /\ l \in todo /\ todo' = todo \ {l}
      /\ configured => credits' = credits + 1
      /\ UNCHANGED <<lstate, sched, phase, configured, adopting>>
  <2>1. CASE Adopt(l)
    BY <2>1 DEF Adopt
  <2>2. CASE ResolveInterrupted(l)
    BY <2>2 DEF ResolveInterrupted
  <2> QED
    BY <2>1, <2>2
<1>2. Live' = Live /\ Taken' = Taken
  BY <1>1 DEF Live, Taken
<1>3. Waiting' \subseteq Waiting /\ pc'[Reconciler] # "credit"
  BY <1>1, ServingAssumption DEF Adopt, ResolveInterrupted, Step, Waiting, TypeOK, Drivers
<1>4. resolved' \cap (adopting' \cup todo') = {} /\ resolved' \subseteq resolved \cup {l}
  BY <1>1 DEF Adopt, ResolveInterrupted, CreditInv
<1>5. Holders' \in SUBSET (Holders \cup {l})
  BY <1>1, <1>2, <1>3, <1>4 DEF Holders
<1>6. /\ IsFiniteSet(Holders \cup {l}) /\ Cardinality(Holders \cup {l}) \in Nat
      /\ Cardinality(Holders \cup {l}) <= Cardinality(Holders) + 1
  BY HoldersFinite, OneMore, FS_AddElement
<1>7. Cardinality(Holders') <= Cardinality(Holders \cup {l}) /\ Cardinality(Holders') \in Nat
  BY <1>5, <1>6, FS_Subset, FS_CardinalityType
<1>8. Cardinality(Holders) \in Nat /\ credits \in Nat
  BY HoldersFinite DEF TypeOK
<1>9. configured => Cardinality(Holders') <= credits'
  BY <1>1, <1>6, <1>7, <1>8 DEF CreditInv
<1> QED
  BY <1>1, <1>2, <1>3, <1>4, <1>9 DEF CreditInv

\* The credits given back at the end of the startup pass are those of leases it
\* resolved and released, which nothing else holds.
LEMMA FinishCredit ==
  ASSUME TypeOK, Ownership, LeaseRows, CreditInv, FinishReconcile
  PROVE  CreditInv'
<1>1. /\ phase = "reconciling" /\ phase' = "serving" /\ todo = {} /\ pc[Reconciler] = "idle"
      /\ UNCHANGED <<lstate, sched, pc, recLease, todo, adopting, resolved, configured>>
  BY DEF FinishReconcile
<1>2. Live' = Live /\ Taken' = Taken /\ Waiting' = Waiting
  BY <1>1 DEF Live, Taken, Waiting
<1>3. Holders' = Live \cup Waiting \cup Taken /\ Holders = Live \cup resolved \cup Waiting \cup Taken
  BY <1>1, <1>2 DEF Holders
<1>4. ASSUME configured PROVE Cardinality(Holders') <= credits'
  <2>1. PICK read \in SUBSET {l \in resolved : lstate[l] = "released"} :
             ReleaseCredits(Cardinality(read))
    BY <1>4 DEF FinishReconcile
  <2>2. read \in SUBSET Holders /\ read \cap Waiting = {} /\ read \cap Live = {} /\ read \cap Taken = {}
    BY <1>1, <1>3, ServingAssumption
    DEF Waiting, Live, Taken, LiveLeaseStates, CreditInv, Ownership, TypeOK
  <2>3. IsFiniteSet(read) /\ Cardinality(read) \in Nat
    BY <2>2, HoldersFinite, FS_Subset, FS_CardinalityType
  <2>4. Holders' \in SUBSET Holders /\ Holders' \cup read \in SUBSET Holders /\ Holders' \cap read = {}
    BY <1>3, <2>2
  <2>5. IsFiniteSet(Holders') /\ Cardinality(Holders') \in Nat
    BY <2>4, HoldersFinite, FS_Subset, FS_CardinalityType
  <2>6. Cardinality(Holders' \cup read)
          = Cardinality(Holders') + Cardinality(read) - Cardinality(Holders' \cap read)
    BY <2>3, <2>5, FS_Union
  <2>7. Cardinality(Holders' \cap read) = 0
    BY <2>4, FS_EmptySet
  <2>8. Cardinality(Holders' \cup read) <= Cardinality(Holders)
          /\ Cardinality(Holders' \cup read) \in Nat
    BY <2>4, HoldersFinite, FS_Subset, FS_CardinalityType
  <2>9. Cardinality(Holders) <= credits /\ Cardinality(Holders) \in Nat /\ credits \in Nat
    BY <1>1, <1>4, HoldersFinite DEF CreditInv, TypeOK
  <2> QED
    BY <2>1, <2>3, <2>5, <2>6, <2>7, <2>8, <2>9 DEF ReleaseCredits
<1> QED
  BY <1>1, <1>2, <1>4 DEF CreditInv

\* A start counts from nothing: nobody drives a lease and no slot is taken.
LEMMA BeginCredit ==
  ASSUME TypeOK, Ownership, CreditInv, NEW keep \in BOOLEAN, BeginReconcile(keep)
  PROVE  CreditInv'
<1>1. /\ phase = "down" /\ phase' = "reconciling" /\ todo' = Live /\ resolved' = {} /\ sched = NoAttempt
      /\ UNCHANGED <<lstate, sched, pc, recLease, credits>>
      /\ \A d \in Drivers : pc[d] = "idle"
  BY DEF BeginReconcile, Ownership
<1>2. Live' = Live /\ Taken' = Taken /\ Taken = {} /\ Waiting' = {} /\ pc'[Reconciler] = "idle"
  BY <1>1 DEF Live, Taken, Waiting, Drivers
<1>3. Holders' = {} /\ credits \in Nat
  BY <1>1, <1>2 DEF Holders, TypeOK
<1>4. Cardinality(Holders') = 0
  BY <1>3, FS_EmptySet
<1> QED
  BY <1>1, <1>2, <1>3, <1>4 DEF CreditInv

\* Nothing else gives a credit back or adds a holder.
LEMMA PassCredit ==
  ASSUME TypeOK, Ownership, CreditInv,
         \/ ReconcileFails \/ BeginPass \/ SweepPeriodically
         \/ \E l \in Leases : RetryStranded(l) \/ SkipStranded(l)
  PROVE  CreditInv'
<1>1. /\ phase \in {"reconciling", "serving"} /\ phase' \in {"serving", "abandoning"}
      /\ phase = "reconciling" => todo = {}
      /\ UNCHANGED <<lstate, sched, credits, configured>>
  BY DEF ReconcileFails, BeginPass, SweepPeriodically, RetryStranded, SkipStranded
<1>2. Live' = Live /\ Taken' = Taken
  BY <1>1 DEF Live, Taken
<1>3. Waiting' \subseteq Waiting
  BY ServingAssumption
  DEF ReconcileFails, BeginPass, SweepPeriodically, RetryStranded, SkipStranded, Step, Waiting,
      TypeOK, Drivers
<1>4. Holders' \subseteq Holders
  BY <1>1, <1>2, <1>3 DEF Holders
<1> QED
  BY <1>1, <1>2, <1>4, CreditFrame

\* An end of the process forgets every slot; the rows keep their leases.
LEMMA ProcessCredit ==
  ASSUME TypeOK, Ownership, CreditInv, Process
  PROVE  CreditInv'
<1>1. UNCHANGED lstate /\ Live' = Live
  BY DEF Process, Crash, BeginDrain, Drained, DrainWindowElapses, Abandon, ProcessEnds, Live
<1>2. CASE phase' = "down" /\ sched' = NoAttempt
  BY <1>1, <1>2, CreditFrame DEF Taken
<1>3. CASE BeginDrain \/ DrainWindowElapses
  <2>1. /\ phase \in {"serving", "draining"} /\ phase' \in {"draining", "abandoning"}
        /\ UNCHANGED <<sched, credits, configured, pc, recLease>>
    BY <1>3 DEF BeginDrain, DrainWindowElapses
  <2>2. Taken' = Taken /\ Waiting' = Waiting
    BY <1>1, <2>1 DEF Taken, Waiting
  <2> QED
    BY <1>1, <2>1, <2>2, CreditFrame DEF Holders
<1> QED
  BY <1>2, <1>3 DEF Process, Crash, Drained, Abandon, ProcessEnds

\* Every step keeps CreditInv.
LEMMA CreditStep ==
  ASSUME TypeOK, Ownership, LeaseRows, CreditInv, [Next]_vars
  PROVE  CreditInv'
<1>1. CASE (\E a \in Attempts : Outside(a)) \/ (\E l \in Leases : Capsule(l)) \/ UNCHANGED vars
  <2>1. UNCHANGED <<lstate, sched, credits, configured, pc, recLease, phase, todo, adopting, resolved>>
    BY <1>1
    DEF Outside, Deliver, Supersede, CancelReady, ResolveReviewToReady, ResolveReviewToSettled,
        Capsule, Fork, AbortCapsule, RunnerExits, Kill, LateCreateLands, LateStartLands, TakeJob,
        ExpireRunner, vars
  <2>2. Live' = Live /\ Taken' = Taken /\ Waiting' = Waiting
    BY <2>1 DEF Live, Taken, Waiting
  <2> QED
    BY <2>1, <2>2, CreditFrame DEF Holders, CreditInv
<1>2. CASE CreateLeaseFails \/ (\E a \in Attempts : Reserve(a)) \/ (\E l \in Leases : Admission(l))
  BY <1>2, AdmissionCredit
<1>3. CASE \E l \in Leases : Preparation(l) \/ Execution(l)
  BY <1>3, GoroutineCredit
<1>4. CASE \E d \in Drivers : Cleanup(d) \/ StepFails(d)
  BY <1>4, CleanupCredit, FinalizeCredit, ReleaseCredit
<1>5. CASE Reconcile
  BY <1>5, BeginCredit, TakeUpCredit, FinishCredit, PassCredit DEF Reconcile
<1>6. CASE Process
  BY <1>6, ProcessCredit
<1> QED
  BY <1>1, <1>2, <1>3, <1>4, <1>5, <1>6 DEF Next

\* Every live lease, quarantined, adopted and recovered ones included, is covered
\* by an admission credit, and the live leases stay within the tier's parallelism,
\* whatever order crashes, repairs and releases come in, as long as a restart does
\* not lower that parallelism (LiveHoldsCredit).
THEOREM LiveAlwaysHoldsCredit == Spec => []LiveHoldsCredit
<1>1. Init => CreditInv
  <2> SUFFICES ASSUME Init PROVE CreditInv
    OBVIOUS
  <2>1. Live \cup Taken = {} /\ phase = "down" /\ Parallelism \in Nat
    BY ServingAssumption DEF Init, Live, Taken, LiveLeaseStates
  <2>2. Cardinality(Live \cup Taken) = 0
    BY <2>1, FS_EmptySet
  <2> QED
    BY <2>1, <2>2 DEF CreditInv
<1>2. TypeOK /\ Ownership /\ LeaseRows /\ CreditInv /\ [Next]_vars => CreditInv'
  BY CreditStep
<1>3. TypeOK /\ CreditInv => LiveHoldsCredit
  <2> SUFFICES ASSUME TypeOK, CreditInv, phase \in {"serving", "draining", "abandoning"}, configured
               PROVE  Cardinality(Live) <= credits /\ Cardinality(Live) <= Parallelism
    BY DEF LiveHoldsCredit
  <2>1. Live \in SUBSET Holders /\ Live \in SUBSET (Live \cup Taken)
    BY DEF Holders
  <2>2. Cardinality(Live) <= Cardinality(Holders) /\ Cardinality(Live) <= Cardinality(Live \cup Taken)
    BY <2>1, HoldersFinite, FS_Subset
  <2>3. /\ Cardinality(Live) \in Nat /\ Cardinality(Holders) \in Nat
        /\ Cardinality(Live \cup Taken) \in Nat
        /\ credits \in Nat /\ Parallelism \in Nat
    BY <2>1, HoldersFinite, FS_Subset, FS_CardinalityType, ServingAssumption DEF TypeOK
  <2> QED
    BY <2>2, <2>3 DEF CreditInv
<1> QED
  BY <1>1, <1>2, <1>3, RowsInvariant, PTL DEF Spec

=============================================================================
