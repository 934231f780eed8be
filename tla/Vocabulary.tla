----------------------------- MODULE Vocabulary -----------------------------
(***************************************************************************)
(* The durable vocabulary of one serving and the pure decisions over it:   *)
(* the lease machine (internal/store/lease.go), the attempt states and     *)
(* their evidence ladder (internal/store/serving.go, evidence.go), what an *)
(* observation establishes (internal/assignment) and which disposition a   *)
(* finished serving gets (internal/lease/lease.go).  No state lives here.  *)
(***************************************************************************)
EXTENDS Naturals

(* ------------------------------ attempts ------------------------------ *)

\* `absent` is a row not inserted yet; the others are the persisted states.
AttemptStates ==
  {"absent", "ready", "leased", "preparing", "prepared", "starting", "running",
   "manual_review", "superseded", "settled", "canceled"}

\* The states the partial index one_open_attempt_per_workload covers.
OpenAttempt ==
  {"ready", "leased", "preparing", "prepared", "starting", "running", "manual_review"}

\* servedByThisLease: states only a live serving puts an attempt in.
Served == {"leased", "preparing", "prepared", "starting", "running"}

\* The states AuthorizeAttemptStart and RequeueAttempt accept.
PreAuthorization == {"leased", "preparing", "prepared"}

\* What a settled attempt was settled as; `none` while it is not settled.
Resolutions == {"none", "completed", "started", "operator"}

(* ------------------------------ evidence ------------------------------ *)

Evidence ==
  {"not_started", "runtime_prepared", "start_authorized", "running_observed", "exit_observed"}

evidenceRank ==
  [not_started |-> 0, runtime_prepared |-> 1, start_authorized |-> 2,
   running_observed |-> 3, exit_observed |-> 4]

Retriable == {"not_started", "runtime_prepared"}

(* ---------------------------- observations ---------------------------- *)

Observations ==
  {"none", "created", "never_started", "running", "exited", "absent", "unavailable"}

\* Observations that say something about whether the workload began.
Establishes == {"created", "never_started", "running", "exited"}

\* The two proofs that the runner never owned the job.
ProvesInert == {"created", "never_started"}

\* What a decision reads when this pass measured nothing the lease did not.
ReadBack(obs, recorded) ==
  IF obs \notin Establishes /\ recorded \in Establishes THEN recorded ELSE obs

(* -------------------------------- leases ------------------------------ *)

\* `free` is an identifier no row uses yet.
LeaseStates ==
  {"free", "reserved", "provisioning", "runtime_registered", "workload_running",
   "draining", "cleaning", "released", "failed", "quarantined"}

LiveLeaseStates == LeaseStates \ {"free", "released"}

\* The whole lease machine.  Cleaning cannot fail: it ends released or
\* quarantined, and only a cleaning retry leaves quarantine.
transitions ==
  {<<"reserved", "provisioning">>, <<"reserved", "failed">>,
   <<"provisioning", "runtime_registered">>, <<"provisioning", "failed">>,
   <<"runtime_registered", "workload_running">>, <<"runtime_registered", "draining">>,
   <<"runtime_registered", "failed">>,
   <<"workload_running", "draining">>, <<"workload_running", "failed">>,
   <<"draining", "cleaning">>, <<"draining", "failed">>,
   <<"cleaning", "released">>, <<"cleaning", "quarantined">>,
   <<"failed", "cleaning">>, <<"quarantined", "cleaning">>}

ValidTransition(from, to) == <<from, to>> \in transitions

\* A lease still executing; one past draining is being unwound.
Adoptable == {"reserved", "provisioning", "runtime_registered", "workload_running"}

(* ----------------------------- disposition ---------------------------- *)

Dispositions == {"nothing", "requeue", "settle_completed", "settle_started", "review"}

\* dispositionOf: the proof first, then the evidence, then the observation.
DispositionOf(state, evidence, obs) ==
  IF state \notin Served                THEN "nothing"
  ELSE IF obs \in ProvesInert           THEN "requeue"
  ELSE IF evidence = "exit_observed"    THEN "settle_completed"
  ELSE IF evidence = "running_observed" THEN "settle_started"
  ELSE IF evidence \in Retriable        THEN "requeue"
  ELSE IF obs = "running"               THEN "settle_started"
  ELSE "review"

=============================================================================
