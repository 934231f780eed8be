------------------------------ MODULE Serving -------------------------------
(***************************************************************************)
(* One binding's servings, from a ready attempt to its disposition: the    *)
(* durable rows (attempt, lease, resource intents), the goroutine that     *)
(* drives each lease, the reconciler that repairs what a crash or a failed *)
(* cleanup left, the capsule on the host and the runner registration at    *)
(* the provider.  A step is one store transaction, one daemon call or one  *)
(* provider call; the controller may crash between any two of them.        *)
(***************************************************************************)
EXTENDS Vocabulary, FiniteSets

CONSTANTS
  Attempts,      \* attempt rows the provider's deliveries may insert
  Leases,        \* lease identifiers the store may hand out (a bound)
  NoAttempt, NoLease, Reconciler,
  Parallelism,   \* admission credits of the binding's tier
  RetryBudget,   \* servings before an automatic requeue becomes a review
  LateStart,     \* may a start that reported an error take effect after the inspection
  Kills,         \* may a capsule die without writing its own exit code
  MaxRestarts,   \* bound: how often the controller may stop or crash
  MaxResolves,   \* bound: how often an operator may send one attempt back
  MaxStrays      \* bound: leases with a create that failed and may take effect late

ASSUME ServingAssumption ==
  /\ NoAttempt \notin Attempts
  /\ NoLease \notin Leases
  /\ Reconciler \notin Leases
  /\ IsFiniteSet(Leases)
  /\ Parallelism \in Nat \ {0} /\ RetryBudget \in Nat \ {0}
  /\ LateStart \in BOOLEAN /\ Kills \in BOOLEAN
  /\ MaxRestarts \in Nat /\ MaxResolves \in Nat /\ MaxStrays \in Nat

VARIABLES
  (* the store *)
  astate, aev, ares,  \* attempt: state, execution_evidence, resolution
  arunner,            \* attempt: the lease whose provider runner id is recorded
  lstate, lattempt,   \* lease: state, attempt_id
  lobs,               \* lease: start_observation
  owns,               \* lease: does it have resource_intents rows
  (* the host and the provider *)
  cap,                \* the capsule container of a lease
  stray,              \* a create of it that failed: it may still take effect
  late,               \* a start exec the daemon has accepted and not yet run
  reg,                \* the runner registration of a lease
  (* the controller's memory *)
  phase, configured, pc, obs, recLease, resuming, todo, adopting, resolved,
  claimed, sched, credits,
  (* history, read by properties and by the bounds only *)
  execs, begun,       \* attempt: jobs taken and did a runner start, since the
                      \* last time an operator sent it back
  resolves, restarts

attemptRow == <<astate, aev, ares, arunner>>
leaseRow   == <<lstate, lattempt, lobs, owns>>
host       == <<cap, stray, late, reg>>
driver     == <<pc, obs>>
pass       == <<recLease, resuming, todo, adopting, resolved>>
process    == <<phase, configured>>
admission  == <<claimed, sched, credits>>
history    == <<execs, begun, resolves, restarts>>
vars == <<attemptRow, leaseRow, host, driver, pass, process, admission, history>>

-----------------------------------------------------------------------------
Drivers == Leases \cup {Reconciler}

\* `booting` and `waiting` classify alike, so they are one state; `killed` is
\* a stop that carries any exit code but the reserved one.
CapsuleStates ==
  {"absent", "created", "waiting", "starting", "running", "exited", "aborted", "killed"}

\* Of a create that reported an error: it may take effect later, or it has.
CreateOutcomes == {"none", "lost", "landed"}

ContainerRunning == {"waiting", "starting", "running"}
ContainerStopped == {"exited", "aborted", "killed"}

Registrations == {"none", "idle", "busy", "gone"}

Phases == {"down", "reconciling", "serving", "draining", "abandoning"}

PrepareSteps == {"launch", "jit", "register", "network", "prepare", "create", "boot", "confirm"}
StartSteps   == {"advance", "authorize", "authorized", "start", "inspect", "started",
                 "advance_running", "to_running", "wait", "release"}
AdoptSteps   == {"adopt_wait", "walk"}
CleanSteps   == {"recover", "deregister", "record", "remove", "forget", "finalize", "quarantine"}
Steps == {"idle", "committed", "credit", "unclaim"}
           \cup PrepareSteps \cup StartSteps \cup AdoptSteps \cup CleanSteps

TypeOK ==
  /\ astate \in [Attempts -> AttemptStates]
  /\ aev \in [Attempts -> Evidence]
  /\ ares \in [Attempts -> Resolutions]
  /\ arunner \in [Attempts -> Leases \cup {NoLease}]
  /\ lstate \in [Leases -> LeaseStates]
  /\ lattempt \in [Leases -> Attempts \cup {NoAttempt}]
  /\ lobs \in [Leases -> Establishes \cup {"none"}]
  /\ owns \in [Leases -> BOOLEAN]
  /\ cap \in [Leases -> CapsuleStates]
  /\ stray \in [Leases -> CreateOutcomes]
  /\ late \in [Leases -> BOOLEAN]
  /\ reg \in [Leases -> Registrations]
  /\ phase \in Phases /\ configured \in BOOLEAN
  /\ pc \in [Drivers -> Steps]
  /\ obs \in [Drivers -> Observations]
  /\ recLease \in Leases \cup {NoLease}
  /\ resuming \in BOOLEAN
  /\ todo \in SUBSET Leases /\ adopting \in SUBSET Leases
  /\ resolved \in SUBSET Leases /\ claimed \in SUBSET Leases
  /\ sched \in Attempts \cup {NoAttempt}
  /\ credits \in Nat
  /\ execs \in [Attempts -> Nat] /\ begun \in [Attempts -> BOOLEAN]
  /\ resolves \in [Attempts -> Nat] /\ restarts \in Nat

-----------------------------------------------------------------------------
(* Helpers *)

Live == {l \in Leases : lstate[l] \in LiveLeaseStates}
LiveLeasesOf(a) == {l \in Live : lattempt[l] = a}
Servings(a) == Cardinality({l \in Leases : lattempt[l] = a})

\* The lease a driver works on: its own, or the one the reconciler took.
Target(d) == IF d = Reconciler THEN recLease ELSE d

Step(d, next) == pc' = [pc EXCEPT ![d] = next]

\* Where a driver goes when its work on the lease returns without an error,
\* and with one.  The startup pass defers its credits to its end; a failed
\* periodic retry returns before the credit is looked at.
Done(d)   == IF d = Reconciler /\ phase = "reconciling" THEN "unclaim" ELSE "credit"
Failed(d) == IF d = Reconciler THEN "unclaim" ELSE "credit"

\* Allocator.Release, n times over: a count never goes below zero.
ReleaseCredits(n) == credits' = IF n <= credits THEN credits - n ELSE 0

TransitionLease(l, from, to) ==
  /\ lstate[l] = from /\ ValidTransition(from, to)
  /\ lstate' = [lstate EXCEPT ![l] = to]

\* Two transitions in one transaction.
TransitionThrough(l, from, via, to) ==
  /\ lstate[l] = from /\ ValidTransition(from, via) /\ ValidTransition(via, to)
  /\ lstate' = [lstate EXCEPT ![l] = to]

\* Evidence only moves up the ladder; recording what is recorded is a no-op.
RecordEvidence(a, e) ==
  /\ evidenceRank[aev[a]] <= evidenceRank[e]
  /\ aev' = [aev EXCEPT ![a] = e]

\* A write whose failure is logged and otherwise ignored.
TryRecordEvidence(a, e) == RecordEvidence(a, e) \/ UNCHANGED aev

\* Advance is observability: it is lost when the store or the CAS refuses it.
TryAdvance(a, from, to) ==
  \/ astate[a] = from /\ astate' = [astate EXCEPT ![a] = to]
  \/ UNCHANGED astate

\* Mutant: `starting` is read as a start that never took effect.
InspectExecution_StartingIsInert(c) ==
  {"unavailable"} \cup
  (CASE c = "absent"               -> {"absent"}
     [] c = "created"              -> {"never_started"}
     [] c \in {"waiting", "aborted", "starting"} -> {"created"}
     [] c = "running"              -> {"running"}
     [] c \in {"exited", "killed"} -> {"exited"})

\* What the daemon and then the supervisor answer about a capsule.
InspectExecution(c) ==
  {"unavailable"} \cup
  (CASE c = "absent"               -> {"absent"}
     [] c = "created"              -> {"never_started"}
     [] c \in {"waiting", "aborted"} -> {"created"}
     [] c = "starting"             -> {}
     [] c = "running"              -> {"running"}
     [] c \in {"exited", "killed"} -> {"exited"})

\* Mutant: a wait that returned counts as an execution, whatever its code.
ClassifyExit_AnyCode(c) == "exited"

\* A stopped capsule's exit code: only the reserved one denies the job.
ClassifyExit(c) == IF c = "aborted" THEN "created" ELSE "exited"

Init ==
  /\ astate = [a \in Attempts |-> "absent"]
  /\ aev = [a \in Attempts |-> "not_started"]
  /\ ares = [a \in Attempts |-> "none"]
  /\ arunner = [a \in Attempts |-> NoLease]
  /\ lstate = [l \in Leases |-> "free"]
  /\ lattempt = [l \in Leases |-> NoAttempt]
  /\ lobs = [l \in Leases |-> "none"]
  /\ owns = [l \in Leases |-> FALSE]
  /\ cap = [l \in Leases |-> "absent"]
  /\ stray = [l \in Leases |-> "none"]
  /\ late = [l \in Leases |-> FALSE]
  /\ reg = [l \in Leases |-> "none"]
  /\ phase = "down" /\ configured = TRUE
  /\ pc = [d \in Drivers |-> "idle"]
  /\ obs = [d \in Drivers |-> "none"]
  /\ recLease = NoLease /\ resuming = FALSE
  /\ todo = {} /\ adopting = {} /\ resolved = {}
  /\ claimed = {} /\ sched = NoAttempt /\ credits = 0
  /\ execs = [a \in Attempts |-> 0] /\ begun = [a \in Attempts |-> FALSE]
  /\ resolves = [a \in Attempts |-> 0] /\ restarts = 0

-----------------------------------------------------------------------------
(* Admission: attemptScheduler.schedule and admit *)

\* The attempt was read as ready; by the time its lease is created it may not
\* be.  A free lease identifier is the model's bound, not the code's guard.
Reserve(a) ==
  /\ phase = "serving" /\ configured /\ sched = NoAttempt
  /\ astate[a] = "ready" /\ credits < Parallelism
  /\ \E l \in Leases : lstate[l] = "free"
  /\ sched' = a /\ credits' = credits + 1
  /\ UNCHANGED <<attemptRow, leaseRow, host, driver, pass, process, claimed, history>>

\* LeaseAttempt: the CAS out of ready and the lease row commit together; the
\* partial index one_live_lease_per_attempt can still refuse the row.
CreateLease(l) ==
  /\ sched # NoAttempt /\ lstate[l] = "free"
  /\ astate[sched] = "ready" /\ LiveLeasesOf(sched) = {}
  /\ astate' = [astate EXCEPT ![sched] = "leased"]
  /\ lstate' = [lstate EXCEPT ![l] = "reserved"]
  /\ lattempt' = [lattempt EXCEPT ![l] = sched]
  /\ sched' = NoAttempt
  /\ Step(l, "committed")
  /\ UNCHANGED <<aev, ares, arunner, lobs, owns, host, obs, pass, process, claimed,
                 credits, history>>

\* A conflict, the index or a store error: the credit goes back.
CreateLeaseFails ==
  /\ sched # NoAttempt
  /\ sched' = NoAttempt /\ ReleaseCredits(1)
  /\ UNCHANGED <<attemptRow, leaseRow, host, driver, pass, process, claimed, history>>

\* The claim follows the commit; the goroutine starts with it held.
Claim(l) ==
  /\ pc[l] = "committed" /\ l \notin claimed
  /\ claimed' = claimed \cup {l}
  /\ Step(l, "launch")
  /\ UNCHANGED <<attemptRow, leaseRow, host, obs, pass, process, sched, credits, history>>

-----------------------------------------------------------------------------
(* leaseExecutor.runCapsule: preparation *)

Launch(l) ==
  /\ pc[l] = "launch"
  /\ TransitionLease(l, "reserved", "provisioning")
  /\ Step(l, "jit")
  /\ UNCHANGED <<attemptRow, lattempt, lobs, owns, host, obs, pass, process, admission, history>>

GenerateJITConfig(l) ==
  /\ pc[l] = "jit"
  /\ reg' = [reg EXCEPT ![l] = "idle"]
  /\ Step(l, "register")
  /\ UNCHANGED <<attemptRow, leaseRow, cap, stray, late, obs, pass, process, admission, history>>

RegisterRuntime(l) ==
  /\ pc[l] = "register"
  /\ TransitionLease(l, "provisioning", "runtime_registered")
  /\ arunner' = [arunner EXCEPT ![lattempt[l]] = l]
  /\ Step(l, "network")
  /\ UNCHANGED <<astate, aev, ares, lattempt, lobs, owns, host, obs, pass, process,
                 admission, history>>

\* The cache lane and the egress snapshot are taken here; neither changes a
\* row of this module, and a refused snapshot is a failure of `prepare`.
AdvancePreparing(l) ==
  /\ pc[l] = "network"
  /\ TryAdvance(lattempt[l], "leased", "preparing")
  /\ Step(l, "prepare")
  /\ UNCHANGED <<aev, ares, arunner, leaseRow, host, obs, pass, process, admission, history>>

\* Mutant: the intent is not written before the effect.
PlanResources_NoIntent(l) ==
  /\ pc[l] = "prepare"
  /\ Step(l, "create")
  /\ UNCHANGED <<attemptRow, leaseRow, host, obs, pass, process, admission, history>>

\* Intent before effect: the row exists before the object it names.
PlanResources(l) ==
  /\ pc[l] = "prepare"
  /\ owns' = [owns EXCEPT ![l] = TRUE]
  /\ Step(l, "create")
  /\ UNCHANGED <<attemptRow, lstate, lattempt, lobs, host, obs, pass, process, admission, history>>

\* The create that was answered; one that was not is a failure of the step,
\* and may take effect all the same, whenever (StepFails, LateCreateLands).
CreateCapsule(l) ==
  /\ pc[l] = "create"
  /\ cap' = [cap EXCEPT ![l] = "created"]
  /\ Step(l, "boot")
  /\ UNCHANGED <<attemptRow, leaseRow, stray, late, reg, obs, pass, process, admission, history>>

\* Started, protocol confirmed, credential delivered: it waits for its start.
BootCapsule(l) ==
  /\ pc[l] = "boot"
  /\ cap' = [cap EXCEPT ![l] = "waiting"]
  /\ Step(l, "confirm")
  /\ UNCHANGED <<attemptRow, leaseRow, stray, late, reg, obs, pass, process, admission, history>>

\* ErrIncompatibleImage: the attempt is held (a lost write is only logged)
\* and the capsule that booted is recovered.
IncompatibleImage(l) ==
  /\ pc[l] = "boot"
  /\ cap' = [cap EXCEPT ![l] = "waiting"]
  /\ \/ /\ astate[lattempt[l]] \in OpenAttempt \ {"manual_review"}
        /\ astate' = [astate EXCEPT ![lattempt[l]] = "manual_review"]
     \/ UNCHANGED astate
  /\ Step(l, "recover")
  /\ UNCHANGED <<aev, ares, arunner, leaseRow, stray, late, reg, obs, pass, process, admission, history>>

RecordPrepared(l) ==
  /\ pc[l] = "confirm"
  /\ RecordEvidence(lattempt[l], "runtime_prepared")
  /\ Step(l, "advance")
  /\ UNCHANGED <<astate, ares, arunner, leaseRow, host, obs, pass, process, admission, history>>

-----------------------------------------------------------------------------
(* leaseExecutor.runCapsule: start, wait and release *)

AdvancePrepared(l) ==
  /\ pc[l] = "advance"
  /\ TryAdvance(lattempt[l], "preparing", "prepared")
  /\ Step(l, "authorize")
  /\ UNCHANGED <<aev, ares, arunner, leaseRow, host, obs, pass, process, admission, history>>

\* The one authoritative edge: the attempt is unresolved and this lease's.
AuthorizeStart(l) ==
  /\ pc[l] = "authorize"
  /\ astate[lattempt[l]] \in PreAuthorization
  /\ lstate[l] # "released"
  /\ astate' = [astate EXCEPT ![lattempt[l]] = "starting"]
  /\ Step(l, "authorized")
  /\ UNCHANGED <<aev, ares, arunner, leaseRow, host, obs, pass, process, admission, history>>

RecordStartAuthorized(l) ==
  /\ pc[l] = "authorized"
  /\ RecordEvidence(lattempt[l], "start_authorized")
  /\ Step(l, "start")
  /\ UNCHANGED <<astate, ares, arunner, leaseRow, host, obs, pass, process, admission, history>>

\* The start exec: it lands and is reported, it lands and its answer is lost,
\* it fails, or (LateStart) it is reported failed and lands later.
Start(l) ==
  /\ pc[l] = "start"
  /\ \/ /\ cap[l] = "waiting"
        /\ cap' = [cap EXCEPT ![l] = "starting"]
        /\ Step(l, "started") \/ Step(l, "inspect")
        /\ UNCHANGED late
     \/ /\ Step(l, "inspect")
        /\ late' = [late EXCEPT ![l] = FALSE]
        /\ UNCHANGED cap
     \/ /\ LateStart /\ cap[l] = "waiting"
        /\ Step(l, "inspect")
        /\ late' = [late EXCEPT ![l] = TRUE]
        /\ UNCHANGED cap
  /\ UNCHANGED <<attemptRow, leaseRow, stray, reg, obs, pass, process, admission, history>>

\* The start reported an error, so the capsule is asked what happened.
InspectStart(l) ==
  /\ pc[l] = "inspect"
  /\ \E o \in InspectExecution(cap[l]) :
       /\ obs' = [obs EXCEPT ![l] = o]
       /\ Step(l, IF o = "running" THEN "started" ELSE "recover")
       /\ IF o = "exited" THEN TryRecordEvidence(lattempt[l], "exit_observed")
                          ELSE UNCHANGED aev
  /\ UNCHANGED <<astate, ares, arunner, leaseRow, host, pass, process, admission, history>>

RecordRunning(l) ==
  /\ pc[l] = "started"
  /\ TryRecordEvidence(lattempt[l], "running_observed")
  /\ Step(l, "advance_running")
  /\ UNCHANGED <<astate, ares, arunner, leaseRow, host, obs, pass, process, admission, history>>

AdvanceRunning(l) ==
  /\ pc[l] = "advance_running"
  /\ TryAdvance(lattempt[l], "starting", "running")
  /\ Step(l, "to_running")
  /\ UNCHANGED <<aev, ares, arunner, leaseRow, host, obs, pass, process, admission, history>>

LeaseRunning(l) ==
  /\ pc[l] = "to_running"
  /\ TransitionLease(l, "runtime_registered", "workload_running")
  /\ Step(l, "wait")
  /\ UNCHANGED <<attemptRow, lattempt, lobs, owns, host, obs, pass, process, admission, history>>

\* WaitExit returned: by the executor that started the capsule (`wait`) or by
\* the successor that adopted it (`adopt_wait`).
WaitExit(l) ==
  /\ pc[l] \in {"wait", "adopt_wait"}
  /\ cap[l] \in ContainerStopped
  /\ IF ClassifyExit(cap[l]) = "exited"
       THEN /\ TryRecordEvidence(lattempt[l], "exit_observed")
            /\ obs' = [obs EXCEPT ![l] = "none"]
            /\ Step(l, IF pc[l] = "wait" THEN "release" ELSE "walk")
       ELSE /\ obs' = [obs EXCEPT ![l] = "created"]
            /\ Step(l, "recover")
            /\ UNCHANGED aev
  /\ UNCHANGED <<astate, ares, arunner, leaseRow, host, pass, process, admission, history>>

\* WalkToRunning: whatever state the crash left, in one transaction.
WalkToRunning(l) ==
  /\ pc[l] = "walk"
  /\ \/ /\ lstate[l] \in Adoptable
        /\ lstate' = [lstate EXCEPT ![l] = "workload_running"]
     \/ UNCHANGED lstate
  /\ Step(l, "release")
  /\ UNCHANGED <<attemptRow, lattempt, lobs, owns, host, obs, pass, process, admission, history>>

\* Manager.Release opens with draining and cleaning in one transaction, then
\* removes and finalizes; by then the goroutine's observation is `none`.
Release(l) ==
  /\ pc[l] = "release"
  /\ TransitionThrough(l, "workload_running", "draining", "cleaning")
  /\ Step(l, "remove")
  /\ UNCHANGED <<attemptRow, lattempt, lobs, owns, host, obs, pass, process, admission, history>>

-----------------------------------------------------------------------------
(* recoverCapsuleFailure, Manager.FinishCleaning and Manager.Finalize; the   *)
(* driver is the lease's own goroutine or the reconciler.                    *)

\* ToCleaning: a lease that is cleaning stays, any other live one is walked
\* there; a released lease has no way back and the call fails.
\* Once the drain window elapsed nothing is undone: what was measured is
\* recorded for the next start and the lease is left as it is.
Recover(d) ==
  LET l == Target(d) IN
  /\ pc[d] = "recover"
  /\ \/ /\ phase # "abandoning"
        /\ \/ lstate[l] = "cleaning"
           \/ ValidTransition(lstate[l], "cleaning")
           \/ ValidTransition(lstate[l], "failed")
        /\ lstate' = [lstate EXCEPT ![l] = "cleaning"]
        /\ Step(d, "deregister")
        /\ UNCHANGED lobs
     \/ /\ phase = "abandoning"
        /\ \/ obs[d] \in Establishes /\ lobs' = [lobs EXCEPT ![l] = obs[d]]
           \/ UNCHANGED lobs
        /\ Step(d, Done(d))
        /\ UNCHANGED lstate
  /\ UNCHANGED <<attemptRow, lattempt, owns, host, obs, pass, process, admission, history>>

\* deregisterAndOverrule: the recorded observation is read back first; a
\* provider that still holds the runner busy overrules the capsule's own
\* account and nothing else.  Any other error leaves both as they are.
Deregister(d) ==
  LET l == Target(d)
      runner == arunner[lattempt[l]]
      measured == ReadBack(obs[d], lobs[l]) IN
  /\ pc[d] = "deregister"
  /\ \/ /\ obs' = [obs EXCEPT ![d] = measured]
        /\ UNCHANGED reg
     \/ /\ configured /\ runner # NoLease /\ reg[runner] = "idle"
        /\ reg' = [reg EXCEPT ![runner] = "gone"]
        /\ obs' = [obs EXCEPT ![d] = measured]
     \/ /\ configured /\ runner # NoLease /\ reg[runner] = "busy"
        /\ obs' = [obs EXCEPT ![d] = IF measured = "created" THEN "running" ELSE measured]
        /\ UNCHANGED reg
  /\ Step(d, "record")
  /\ UNCHANGED <<attemptRow, leaseRow, cap, stray, late, pass, process, admission, history>>

\* Nothing is removed until what was measured is durable.
RecordStartObservation(d) ==
  /\ pc[d] = "record"
  /\ lobs' = [lobs EXCEPT ![Target(d)] =
                IF obs[d] \in Establishes THEN obs[d] ELSE @]
  /\ Step(d, "remove")
  /\ UNCHANGED <<attemptRow, lstate, lattempt, owns, host, obs, pass, process, admission, history>>

\* RemoveResources with no intent left to remove.
NothingToRemove(d) ==
  /\ pc[d] = "remove" /\ ~owns[Target(d)]
  /\ Step(d, "finalize")
  /\ UNCHANGED <<attemptRow, leaseRow, host, obs, pass, process, admission, history>>

\* The object goes first, and an absent one counts as removed.
RemoveObject(d) ==
  /\ pc[d] = "remove" /\ owns[Target(d)]
  /\ cap' = [cap EXCEPT ![Target(d)] = "absent"]
  /\ late' = [late EXCEPT ![Target(d)] = FALSE]
  /\ stray' = [stray EXCEPT ![Target(d)] = IF @ = "landed" THEN "none" ELSE @]
  /\ Step(d, "forget")
  /\ UNCHANGED <<attemptRow, leaseRow, reg, obs, pass, process, admission, history>>

ForgetResource(d) ==
  /\ pc[d] = "forget"
  /\ owns' = [owns EXCEPT ![Target(d)] = FALSE]
  /\ Step(d, "finalize")
  /\ UNCHANGED <<attemptRow, lstate, lattempt, lobs, host, obs, pass, process, admission, history>>

\* Mutant: an outcome nobody can tell is logged and not held.
DisposeAttempt_NoHold(a, recorded, o) ==
  LET what  == DispositionOf(astate[a], aev[a], ReadBack(o, recorded))
      again == what = "requeue" /\ Servings(a) < RetryBudget
  IN
  /\ astate' = [astate EXCEPT ![a] =
                  IF again THEN "ready"
                  ELSE IF what \in {"settle_completed", "settle_started"} THEN "settled"
                  ELSE @]
  /\ aev' = [aev EXCEPT ![a] = IF again THEN "not_started" ELSE @]
  /\ UNCHANGED ares

\* Mutant: the requeue leaves the evidence of the serving behind.
DisposeAttempt_KeepsEvidence(a, recorded, o) ==
  LET what  == DispositionOf(astate[a], aev[a], ReadBack(o, recorded)) IN
  /\ astate' = [astate EXCEPT ![a] =
                  IF what = "nothing" THEN @
                  ELSE IF what = "requeue" /\ Servings(a) < RetryBudget THEN "ready"
                  ELSE IF what \in {"settle_completed", "settle_started"} THEN "settled"
                  ELSE "manual_review"]
  /\ UNCHANGED <<aev, ares>>

\* Mutant: the budget is compared after the serving it should refuse.
DisposeAttempt_BudgetOffByOne(a, recorded, o) ==
  LET what  == DispositionOf(astate[a], aev[a], ReadBack(o, recorded))
      again == what = "requeue" /\ Servings(a) <= RetryBudget
  IN
  /\ astate' = [astate EXCEPT ![a] =
                  IF what = "nothing" THEN @
                  ELSE IF again THEN "ready"
                  ELSE IF what \in {"settle_completed", "settle_started"} THEN "settled"
                  ELSE "manual_review"]
  /\ aev' = [aev EXCEPT ![a] = IF again THEN "not_started" ELSE @]
  /\ UNCHANGED ares

\* disposeAttempt: the effective observation and the row decide; a requeue
\* past the retry budget is a review instead.
DisposeAttempt(a, recorded, o) ==
  LET what  == DispositionOf(astate[a], aev[a], ReadBack(o, recorded))
      again == what = "requeue" /\ Servings(a) < RetryBudget
  IN
  /\ astate' = [astate EXCEPT ![a] =
                  IF what = "nothing" THEN @
                  ELSE IF again THEN "ready"
                  ELSE IF what \in {"settle_completed", "settle_started"} THEN "settled"
                  ELSE "manual_review"]
  /\ aev' = [aev EXCEPT ![a] = IF again THEN "not_started" ELSE @]
  /\ ares' = [ares EXCEPT ![a] =
                IF what = "settle_completed" THEN "completed"
                ELSE IF what = "settle_started" THEN "started" ELSE @]

\* The finalizing transaction: no intent is left, the lease is released and
\* its attempt disposed of together.
Finalize(d) ==
  LET l == Target(d) IN
  /\ pc[d] = "finalize" /\ ~owns[l]
  /\ TransitionLease(l, "cleaning", "released")
  /\ DisposeAttempt(lattempt[l], lobs[l], obs[d])
  /\ Step(d, Done(d))
  /\ UNCHANGED <<arunner, lattempt, lobs, owns, host, obs, pass, process, admission, history>>

Quarantine(d) ==
  /\ pc[d] = "quarantine"
  /\ TransitionLease(Target(d), "cleaning", "quarantined")
  /\ Step(d, Failed(d))
  /\ UNCHANGED <<attemptRow, lattempt, lobs, owns, host, obs, pass, process, admission, history>>

\* Where an error of each step leads.  FinishCleaning is quarantined by its
\* caller on any error; elsewhere only a failed removal is.
OnError(d) ==
  IF pc[d] \in PrepareSteps \cup {"authorize", "authorized", "to_running", "wait", "adopt_wait"}
    THEN "recover"
  ELSE IF pc[d] \in {"remove", "forget"} \/ (resuming /\ d = Reconciler /\ pc[d] \in {"record", "finalize"})
    THEN "quarantine"
  ELSE Failed(d)

\* A create call that ends without an answer says nothing of the object.
LoseCreates(D) ==
  LET room == Cardinality({l \in Leases : stray[l] # "none"}) < MaxStrays IN
  stray' = [l \in Leases |-> IF l \in D /\ pc[l] = "create" /\ room THEN "lost" ELSE stray[l]]

\* A store, daemon or provider call of the step failed, or its guard did; the
\* wait also ends this way at the tier's ceiling.  A refused authorization
\* proves the runner never started.
StepFails(d) ==
  /\ pc[d] \in PrepareSteps \cup {"authorize", "authorized", "to_running", "wait", "adopt_wait",
                                 "release", "recover", "record", "remove", "forget",
                                 "finalize", "quarantine"}
  /\ ~(pc[d] = "recover" /\ phase = "abandoning")
  /\ Step(d, OnError(d))
  /\ obs' = [obs EXCEPT ![d] = IF pc[d] = "authorize" THEN "never_started" ELSE @]
  /\ LoseCreates({d})
  /\ UNCHANGED <<attemptRow, leaseRow, cap, late, reg, pass, process, admission, history>>

\* Mutant: a quarantined lease counts as done.
ReleaseCreditIfDone_Quarantined(d) ==
  /\ pc[d] = "credit"
  /\ \/ lstate[Target(d)] \in {"released", "quarantined"} /\ configured /\ ReleaseCredits(1)
     \/ UNCHANGED credits
  /\ Step(d, "unclaim")
  /\ UNCHANGED <<attemptRow, leaseRow, host, obs, pass, process, claimed, sched, history>>

\* releaseCreditIfDone: only a released lease gives its credit back, and a
\* lease that cannot be read keeps it.
ReleaseCreditIfDone(d) ==
  /\ pc[d] = "credit"
  /\ \/ lstate[Target(d)] = "released" /\ configured /\ ReleaseCredits(1)
     \/ UNCHANGED credits
  /\ Step(d, "unclaim")
  /\ UNCHANGED <<attemptRow, leaseRow, host, obs, pass, process, claimed, sched, history>>

\* ownership.release, last of the deferred calls.
Unclaim(d) ==
  /\ pc[d] = "unclaim"
  /\ claimed' = claimed \ {Target(d)}
  /\ Step(d, "idle")
  /\ obs' = [obs EXCEPT ![d] = "none"]
  /\ recLease' = IF d = Reconciler THEN NoLease ELSE recLease
  /\ resuming' = IF d = Reconciler THEN FALSE ELSE resuming
  /\ UNCHANGED <<attemptRow, leaseRow, host, todo, adopting, resolved, process, sched,
                 credits, history>>

-----------------------------------------------------------------------------
(* reconciler.reconcile: the startup pass *)

\* The daemon is listed, then the live leases; `keep` says whether the
\* binding is still in the configuration this start read.
BeginReconcile(keep) ==
  /\ phase = "down"
  /\ phase' = "reconciling" /\ configured' = keep
  /\ todo' = Live
  /\ adopting' = IF keep THEN {l \in Live : cap[l] \in ContainerRunning /\ lstate[l] \in Adoptable}
                  ELSE {}
  /\ resolved' = {}
  /\ UNCHANGED <<attemptRow, leaseRow, host, driver, recLease, resuming, admission, history>>

Adopt(l) ==
  /\ phase = "reconciling" /\ pc[Reconciler] = "idle"
  /\ l \in todo \cap adopting
  /\ todo' = todo \ {l}
  /\ credits' = credits + 1
  /\ claimed' = claimed \cup {l}
  /\ Step(l, "adopt_wait")
  /\ UNCHANGED <<attemptRow, leaseRow, host, obs, recLease, resuming, adopting, resolved,
                 process, sched, history>>

\* resolveInterrupted: the capsule is asked before it is destroyed, but only
\* about a start that was authorized and whose end was not seen; a release
\* under way is resumed, everything else is recovered.  `draining` and
\* `failed` are only passed through inside a transaction, so no lease is
\* found in them; a store error leaves the lease for the periodic pass.
ResolveInterrupted(l) ==
  LET a == lattempt[l]
      asks == cap[l] # "absent" /\ aev[a] \in {"start_authorized", "running_observed"} IN
  /\ phase = "reconciling" /\ pc[Reconciler] = "idle"
  /\ l \in todo \ adopting
  /\ todo' = todo \ {l} /\ resolved' = resolved \cup {l}
  /\ credits' = IF configured THEN credits + 1 ELSE credits
  /\ \/ \E o \in IF asks THEN InspectExecution(cap[l]) ELSE {"absent"} :
          /\ obs' = [obs EXCEPT ![Reconciler] = o]
          /\ IF o = "exited" THEN TryRecordEvidence(a, "exit_observed") ELSE UNCHANGED aev
          /\ recLease' = l
          /\ resuming' = (lstate[l] = "cleaning")
          /\ Step(Reconciler, IF lstate[l] = "cleaning" THEN "deregister" ELSE "recover")
     \/ UNCHANGED <<obs, aev, recLease, resuming, pc>>
  /\ UNCHANGED <<astate, ares, arunner, leaseRow, host, adopting, process, claimed, sched, history>>

\* sweepOrphans: what the daemon lists of the leases that are not kept goes.
\* Each removal may fail, and the intents of an object go with it only if the
\* store is reached and they carry its id.
SweepOrphans(keep) ==
  \E swept \in SUBSET {l \in Leases \ keep : owns[l] \/ cap[l] # "absent"} :
  \E forgotten \in SUBSET swept :
    /\ cap' = [l \in Leases |-> IF l \in swept THEN "absent" ELSE cap[l]]
    /\ late' = [l \in Leases |-> IF l \in swept THEN FALSE ELSE late[l]]
    /\ stray' = [l \in Leases |-> IF l \in swept /\ stray[l] = "landed" THEN "none" ELSE stray[l]]
    /\ owns' = [l \in Leases |-> IF l \in forgotten THEN FALSE ELSE owns[l]]

\* The startup sweep keeps adopted leases only; then the deferred credits.
FinishReconcile ==
  /\ phase = "reconciling" /\ pc[Reconciler] = "idle" /\ todo = {}
  /\ SweepOrphans(adopting)
  /\ IF configured
       THEN \E read \in SUBSET {l \in resolved : lstate[l] = "released"} :
              ReleaseCredits(Cardinality(read))
       ELSE UNCHANGED credits
  /\ phase' = "serving"
  /\ UNCHANGED <<attemptRow, lstate, lattempt, lobs, reg, driver, pass, configured,
                 claimed, sched, history>>

\* The sweep failed as a whole: Serve marks the adopted capsules abandoned and
\* returns the error.
ReconcileFails ==
  /\ phase = "reconciling" /\ pc[Reconciler] = "idle" /\ todo = {}
  /\ restarts < MaxRestarts
  /\ phase' = "abandoning"
  /\ UNCHANGED <<attemptRow, leaseRow, host, driver, pass, configured, admission, history>>

-----------------------------------------------------------------------------
(* reconciler.retryStranded: the periodic pass *)

BeginPass ==
  /\ phase = "serving" /\ pc[Reconciler] = "idle" /\ todo = {}
  /\ todo' = Live
  /\ UNCHANGED <<attemptRow, leaseRow, host, driver, recLease, resuming, adopting, resolved,
                 process, admission, history>>

\* Mutant: no grace between the commit of a lease and its claim.
PastGrace_None(l) == TRUE

\* Untouched for the grace period: long past the gap between the commit of a
\* lease and its claim, which is all the grace is there to cover.
PastGrace(l) == pc[l] # "committed"

\* Mutant: a quarantined lease is left to an operator.
RetryStranded_NotQuarantined(l) ==
  /\ phase = "serving" /\ pc[Reconciler] = "idle" /\ l \in todo
  /\ PastGrace(l) /\ l \notin claimed /\ lstate[l] # "quarantined"
  /\ claimed' = claimed \cup {l}
  /\ todo' = todo \ {l} /\ recLease' = l /\ resuming' = FALSE
  /\ Step(Reconciler, "recover")
  /\ UNCHANGED <<attemptRow, leaseRow, host, obs, adopting, resolved, process, sched,
                 credits, history>>

RetryStranded(l) ==
  /\ phase = "serving" /\ pc[Reconciler] = "idle" /\ l \in todo
  /\ PastGrace(l) /\ l \notin claimed
  /\ claimed' = claimed \cup {l}
  /\ todo' = todo \ {l} /\ recLease' = l /\ resuming' = FALSE
  /\ Step(Reconciler, "recover")
  /\ UNCHANGED <<attemptRow, leaseRow, host, obs, adopting, resolved, process, sched,
                 credits, history>>

\* Claimed by a goroutine, inside its grace or its removal backoff.
SkipStranded(l) ==
  /\ phase = "serving" /\ pc[Reconciler] = "idle" /\ l \in todo
  /\ todo' = todo \ {l}
  /\ UNCHANGED <<attemptRow, leaseRow, host, driver, recLease, resuming, adopting, resolved,
                 process, admission, history>>

\* The pass ends with a sweep that keeps every live lease.
SweepPeriodically ==
  /\ phase = "serving" /\ pc[Reconciler] = "idle" /\ todo = {}
  /\ SweepOrphans(Live)
  /\ UNCHANGED <<attemptRow, lstate, lattempt, lobs, reg, driver, pass, process, admission, history>>

-----------------------------------------------------------------------------
(* The controller's process *)

\* Everything in memory is gone; the store, the host and the provider stay.
ProcessEnds ==
  /\ restarts < MaxRestarts /\ restarts' = restarts + 1
  /\ phase' = "down"
  /\ pc' = [d \in Drivers |-> "idle"] /\ obs' = [d \in Drivers |-> "none"]
  /\ recLease' = NoLease /\ resuming' = FALSE
  /\ todo' = {} /\ adopting' = {} /\ resolved' = {}
  /\ claimed' = {} /\ sched' = NoAttempt /\ credits' = 0
  /\ LoseCreates(Leases)
  /\ UNCHANGED <<attemptRow, leaseRow, cap, late, reg, configured, execs, begun, resolves>>

Crash == phase \notin {"down", "abandoning"} /\ ProcessEnds

\* The loops have returned: no pass is running and no lease is half admitted.
BeginDrain ==
  /\ phase = "serving" /\ restarts < MaxRestarts
  /\ sched = NoAttempt /\ pc[Reconciler] = "idle"
  /\ \A l \in Leases : pc[l] # "committed"
  /\ phase' = "draining" /\ todo' = {}
  /\ UNCHANGED <<attemptRow, leaseRow, host, driver, recLease, resuming, adopting, resolved,
                 configured, admission, history>>

Drained ==
  /\ phase = "draining" /\ \A l \in Leases : pc[l] = "idle"
  /\ ProcessEnds

DrainWindowElapses ==
  /\ phase = "draining" /\ \E l \in Leases : pc[l] # "idle"
  /\ phase' = "abandoning"
  /\ UNCHANGED <<attemptRow, leaseRow, host, driver, pass, configured, admission, history>>

\* Serve returns with goroutines still at work, and the process exits.
Abandon == phase = "abandoning" /\ ProcessEnds

-----------------------------------------------------------------------------
(* The capsule's supervisor and the runner *)

Fork(l) ==
  /\ cap[l] = "starting"
  /\ cap' = [cap EXCEPT ![l] = "running"]
  /\ begun' = [begun EXCEPT ![lattempt[l]] = TRUE]
  /\ UNCHANGED <<attemptRow, leaseRow, stray, late, reg, driver, pass, process, admission,
                 execs, resolves, restarts>>

\* A stop or a failed fork before the runner owns the job: the reserved code.
AbortCapsule(l) ==
  /\ cap[l] \in {"waiting", "starting"}
  /\ cap' = [cap EXCEPT ![l] = "aborted"]
  /\ UNCHANGED <<attemptRow, leaseRow, stray, late, reg, driver, pass, process, admission, history>>

\* The runner ends; the provider learns of a finished job, or keeps holding
\* the runner of a crashed one busy.
RunnerExits(l) ==
  /\ cap[l] = "running"
  /\ cap' = [cap EXCEPT ![l] = "exited"]
  /\ \/ reg[l] = "busy" /\ reg' = [reg EXCEPT ![l] = "gone"]
     \/ UNCHANGED reg
  /\ UNCHANGED <<attemptRow, leaseRow, stray, late, driver, pass, process, admission, history>>

\* SIGKILL, an OOM kill or a host that lost power: no code of its own.
Kill(l) ==
  /\ Kills /\ cap[l] \in ContainerRunning
  /\ cap' = [cap EXCEPT ![l] = "killed"]
  /\ UNCHANGED <<attemptRow, leaseRow, stray, late, reg, driver, pass, process, admission, history>>

\* The daemon gets to a create nobody waits for any more, be it after the
\* object was removed, its intent forgotten and the lease released.
LateCreateLands(l) ==
  /\ stray[l] = "lost" /\ cap[l] = "absent"
  /\ cap' = [cap EXCEPT ![l] = "created"]
  /\ stray' = [stray EXCEPT ![l] = "landed"]
  /\ UNCHANGED <<attemptRow, leaseRow, late, reg, driver, pass, process, admission, history>>

LateStartLands(l) ==
  /\ late[l] /\ cap[l] = "waiting"
  /\ cap' = [cap EXCEPT ![l] = "starting"]
  /\ late' = [late EXCEPT ![l] = FALSE]
  /\ UNCHANGED <<attemptRow, leaseRow, stray, reg, driver, pass, process, admission, history>>

(* The provider *)

TakeJob(l) ==
  /\ cap[l] = "running" /\ reg[l] = "idle"
  /\ reg' = [reg EXCEPT ![l] = "busy"]
  /\ execs' = [execs EXCEPT ![lattempt[l]] = @ + 1]
  /\ UNCHANGED <<attemptRow, leaseRow, cap, stray, late, driver, pass, process, admission,
                 begun, resolves, restarts>>

\* A busy registration nobody answers for expires.
ExpireRunner(l) ==
  /\ reg[l] = "busy" /\ cap[l] # "running"
  /\ reg' = [reg EXCEPT ![l] = "gone"]
  /\ UNCHANGED <<attemptRow, leaseRow, cap, stray, late, driver, pass, process, admission, history>>

Deliver(a) ==
  /\ phase = "serving" /\ configured /\ astate[a] = "absent"
  /\ astate' = [astate EXCEPT ![a] = "ready"]
  /\ UNCHANGED <<aev, ares, arunner, leaseRow, host, driver, pass, process, admission, history>>

\* Mutant: a redelivery replaces whatever is open.
Supersede_AnyOpen(a) ==
  /\ phase = "serving" /\ configured /\ astate[a] \in OpenAttempt
  /\ astate' = [astate EXCEPT ![a] = "superseded"]
  /\ UNCHANGED <<aev, ares, arunner, leaseRow, host, driver, pass, process, admission, history>>

\* A redelivery replaces an open attempt that consumed nothing.
Supersede(a) ==
  /\ phase = "serving" /\ configured
  /\ astate[a] \in PreAuthorization \cup {"ready", "manual_review"} /\ aev[a] \in Retriable
  /\ astate' = [astate EXCEPT ![a] = "superseded"]
  /\ UNCHANGED <<aev, ares, arunner, leaseRow, host, driver, pass, process, admission, history>>

CancelReady(a) ==
  /\ phase = "serving" /\ configured /\ astate[a] = "ready"
  /\ astate' = [astate EXCEPT ![a] = "canceled"]
  /\ UNCHANGED <<aev, ares, arunner, leaseRow, host, driver, pass, process, admission, history>>

(* The operator: through the maintenance socket, or offline *)

ResolveReviewToReady(a) ==
  /\ phase \in {"serving", "down"} /\ astate[a] = "manual_review"
  /\ resolves[a] < MaxResolves /\ resolves' = [resolves EXCEPT ![a] = @ + 1]
  /\ astate' = [astate EXCEPT ![a] = "ready"]
  /\ aev' = [aev EXCEPT ![a] = "not_started"]
  /\ execs' = [execs EXCEPT ![a] = 0] /\ begun' = [begun EXCEPT ![a] = FALSE]
  /\ UNCHANGED <<ares, arunner, leaseRow, host, driver, pass, process, admission, restarts>>

ResolveReviewToSettled(a) ==
  /\ phase \in {"serving", "down"} /\ astate[a] = "manual_review"
  /\ astate' = [astate EXCEPT ![a] = "settled"]
  /\ ares' = [ares EXCEPT ![a] = "operator"]
  /\ UNCHANGED <<aev, arunner, leaseRow, host, driver, pass, process, admission, history>>

-----------------------------------------------------------------------------
Admission(l) == CreateLease(l) \/ Claim(l)

Preparation(l) ==
  \/ Launch(l) \/ GenerateJITConfig(l) \/ RegisterRuntime(l) \/ AdvancePreparing(l)
  \/ PlanResources(l) \/ CreateCapsule(l) \/ BootCapsule(l) \/ IncompatibleImage(l)
  \/ RecordPrepared(l)

Execution(l) ==
  \/ AdvancePrepared(l) \/ AuthorizeStart(l) \/ RecordStartAuthorized(l) \/ Start(l)
  \/ InspectStart(l) \/ RecordRunning(l) \/ AdvanceRunning(l) \/ LeaseRunning(l)
  \/ WaitExit(l) \/ WalkToRunning(l) \/ Release(l)

Cleanup(d) ==
  \/ Recover(d) \/ Deregister(d) \/ RecordStartObservation(d) \/ NothingToRemove(d)
  \/ RemoveObject(d) \/ ForgetResource(d) \/ Finalize(d) \/ Quarantine(d)
  \/ ReleaseCreditIfDone(d) \/ Unclaim(d)

Reconcile ==
  \/ \E keep \in BOOLEAN : BeginReconcile(keep)
  \/ \E l \in Leases : Adopt(l) \/ ResolveInterrupted(l) \/ RetryStranded(l) \/ SkipStranded(l)
  \/ FinishReconcile \/ ReconcileFails \/ BeginPass \/ SweepPeriodically

Process == Crash \/ BeginDrain \/ Drained \/ DrainWindowElapses \/ Abandon

Capsule(l) ==
  \/ Fork(l) \/ AbortCapsule(l) \/ RunnerExits(l) \/ Kill(l)
  \/ LateCreateLands(l) \/ LateStartLands(l) \/ TakeJob(l) \/ ExpireRunner(l)

Outside(a) ==
  \/ Deliver(a) \/ Supersede(a) \/ CancelReady(a)
  \/ ResolveReviewToReady(a) \/ ResolveReviewToSettled(a)

Next ==
  \/ CreateLeaseFails
  \/ \E a \in Attempts : Reserve(a) \/ Outside(a)
  \/ \E l \in Leases : Admission(l) \/ Preparation(l) \/ Execution(l) \/ Capsule(l)
  \/ \E d \in Drivers : Cleanup(d) \/ StepFails(d)
  \/ Reconcile
  \/ Process

Spec == Init /\ [][Next]_vars

(***************************************************************************)
(* Fairness.  A goroutine is scheduled: whatever its step is, it returns    *)
(* or fails (every call it makes has a deadline, and the wait has the       *)
(* tier's ceiling).  A host that is up starts the controller again, and its *)
(* startup pass and its periodic pass advance.  A call that the periodic    *)
(* pass retries for ever succeeds in the end (the goroutine of a lease only *)
(* tries once), and a lease nobody claims is not inside its grace or its    *)
(* backoff in every pass.                                                   *)
(***************************************************************************)
DriverSteps(d) ==
  \/ Cleanup(d) \/ StepFails(d)
  \/ d \in Leases /\ (Claim(d) \/ Preparation(d) \/ Execution(d))

Fairness ==
  /\ \A d \in Drivers : WF_vars(DriverSteps(d))
  /\ WF_vars(\E keep \in BOOLEAN : BeginReconcile(keep))
  /\ WF_vars(\E l \in Leases : Adopt(l) \/ ResolveInterrupted(l))
  /\ WF_vars(FinishReconcile \/ ReconcileFails) /\ WF_vars(Drained) /\ WF_vars(Abandon)
  /\ WF_vars(BeginPass)
  /\ WF_vars(\E l \in Leases : RetryStranded(l) \/ SkipStranded(l))
  /\ \A l \in Leases : SF_vars(RetryStranded(l))
  /\ SF_vars(Recover(Reconciler)) /\ SF_vars(RecordStartObservation(Reconciler))
  /\ SF_vars(NothingToRemove(Reconciler) \/ RemoveObject(Reconciler))
  /\ SF_vars(ForgetResource(Reconciler)) /\ SF_vars(Finalize(Reconciler))

FairSpec == Spec /\ Fairness

-----------------------------------------------------------------------------
(* Properties *)

\* At most one runner takes the job of an attempt between two decisions of an
\* operator, across crashes, abandoned drains, retried cleanups and requeues:
\* what AuthorizeStart, the inspection before any removal and dispositionOf
\* are there for.
AtMostOnce == \A a \in Attempts : execs[a] <= 1

\* No attempt is left in a state of a serving without a live lease to end that
\* serving: lease and attempt change in one transaction at both ends, and
\* resolveStranded calls the contrary case unreachable.
NoStranded == \A a \in Attempts : astate[a] \in Served => LiveLeasesOf(a) # {}

\* A released lease, whose credit can be handed to other work, has no resource
\* intent and nothing on the host that ever ran: at most the bare container of
\* a create that was given up on and landed afterwards, which is the sweep's
\* (intent before effect, object before intent, Finalize refuses while an
\* intent is left, sweepOrphans takes what a crash stranded).
ReleasedIsClean ==
  \A l \in Leases : lstate[l] = "released" =>
    ~owns[l] /\ (cap[l] # "absent" => cap[l] = "created" /\ stray[l] = "landed")

\* The reconciler never works on a lease a goroutine drives: the claim, the
\* grace between a lease's commit and its claim, and the split of the startup
\* pass into adopted and interrupted leases.
OneDriver == recLease # NoLease => pc[recLease] = "idle"

\* OneDriver, with what keeps it true: a goroutine past its claim owns its
\* lease, an adopted capsule is not resolved by the startup pass that adopted
\* it, and neither pass outlives its phase.
Ownership ==
  /\ OneDriver
  /\ recLease = NoLease <=> pc[Reconciler] = "idle"
  /\ recLease # NoLease => lstate[recLease] # "free"
  /\ \A l \in todo : lstate[l] # "free"
  /\ \A l \in Leases : pc[l] \notin {"idle", "committed"} => l \in claimed
  /\ sched # NoAttempt => phase = "serving"
  /\ phase = "down" => \A d \in Drivers : pc[d] = "idle"
  /\ phase \in {"draining", "abandoning"} => pc[Reconciler] = "idle"
  /\ phase = "reconciling" => \A l \in Leases : pc[l] # "idle" => l \in adopting \ todo

\* ReleasedIsClean, with what keeps it true: an intent covers every capsule but
\* one that landed late, and every capsule about to be created; what landed
\* late is booted by nobody, since the preparation that asked for it is over;
\* an intent is forgotten only once its object is gone, and a lease under
\* preparation is live.
IntentCovers ==
  /\ ReleasedIsClean
  /\ \A l \in Leases : cap[l] # "absent" => owns[l] \/ stray[l] = "landed"
  /\ \A l \in Leases : stray[l] = "landed" => cap[l] = "created"
  /\ \A l \in Leases : stray[l] # "none" =>
       pc[l] \notin PrepareSteps \cup {"committed"} /\ lstate[l] # "free"
  /\ \A l \in Leases : pc[l] \in {"create", "boot"} => owns[l]
  /\ \A l \in Leases : pc[l] \in PrepareSteps \ {"launch"} => lstate[l] \notin {"free", "released"}
  /\ \A d \in Drivers :
       pc[d] = "forget" => cap[Target(d)] = "absent" \/ stray[Target(d)] = "landed"

\* Every live lease, quarantined and recovered ones included, is covered by an
\* admission credit, and together they stay within the tier's parallelism,
\* whatever order credits are released in and across restarts under the same
\* configuration: one that lowers the parallelism adopts more than it admits.
LiveHoldsCredit ==
  phase \in {"serving", "draining", "abandoning"} /\ configured
    => Cardinality(Live) <= credits /\ Cardinality(Live) <= Parallelism

\* Automatic retries stop at the budget: an attempt has at most RetryBudget
\* servings plus one for every time an operator sent it back.
ServingsWithinBudget ==
  \A a \in Attempts : Servings(a) <= RetryBudget + resolves[a]

\* An attempt settled as completed had a runner start for it ("Any code but
\* the reserved one means the runner owned the job", ClassifyExit).
CompletedMeansRan == \A a \in Attempts : ares[a] = "completed" => begun[a]

\* The row of an attempt that is queued or not yet authorized never carries
\* evidence of a start: the authorization commits before the evidence, and
\* every way back to ready resets it (RequeueAttempt's comment).
UnauthorizedIsRetriable ==
  \A a \in Attempts : astate[a] \in PreAuthorization \cup {"ready"} => aev[a] \in Retriable

\* An attempt's row tells truly, across crashes and retries, what its runners
\* did: completed only if one started, and retriable evidence as long as none
\* was authorized (ClassifyExit, RequeueAttempt).
RowsTellWhatRan == CompletedMeansRan /\ UnauthorizedIsRetriable

\* An attempt whose runner took the job and whose exit was observed is not
\* sent back to the queue by the serving that observed it.
ObservedExitIsFinal ==
  [][\A a \in Attempts :
       astate[a] \in Served /\ aev[a] = "exit_observed" /\ execs[a] > 0
         => astate'[a] # "ready"]_vars

\* The serving machinery implements the contract of an attempt: a return to
\* the queue, a supersede and a cancellation happen only to work that no
\* runner took, and a second runner only after an operator's decision.
StatusOf(a) ==
  CASE astate[a] = "absent"        -> "unknown"
    [] astate[a] = "ready"         -> "queued"
    [] astate[a] \in Served        -> "serving"
    [] astate[a] = "manual_review" -> "held"
    [] astate[a] \in {"superseded", "canceled"} -> "withdrawn"
    [] OTHER                       -> "closed"

Contract == INSTANCE AttemptContract WITH
  status <- [a \in Attempts |-> StatusOf(a)], runs <- execs

\* Every step of a serving is a step of AttemptContract or leaves it alone.
HonoursContract == Contract!Spec

\* Every live lease is released in the end, whatever step of its serving
\* failed or crashed: the recovery, the startup pass and the periodic pass
\* leave no lease in a state nobody comes back to.
LeaseResolves == \A l \in Leases : l \in Live ~> lstate[l] = "released"

=============================================================================
