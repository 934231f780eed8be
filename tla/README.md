# Runpool: specifications, checks and proofs

Runpool turns jobs a provider (GitHub Actions) hands to a scale set into
disposable capsules on one Docker host. One controller process owns a SQLite
store; everything else (daemon, provider, capsules) is outside it and may fail
or answer late. This directory holds TLA+ modules of that system, TLC
configurations that check them on small instances, and TLAPS proofs. Paths are
relative to the repository root (`src/`).

## Inventory

| part | state it keeps | operations | hard behaviour |
|---|---|---|---|
| binding loop (`internal/app/delivery.go`) | session, failure count, message in hand | ensure scale set, open session, poll, persist, record reports, acknowledge | redelivery, lost answers, a crash with an acknowledgement in flight |
| scheduler (`scheduler.go`) | none of its own | reserve a credit, lease a ready attempt, claim it | commit and claim are two steps |
| executor (`runtime.go`) | one goroutine per lease | prepare, authorize, start, wait, release, recover | every call may fail or succeed unseen |
| lease manager (`internal/lease/lease.go`) | none; transactions over the store | release, recover, remove, finalize, quarantine | cleanup interrupted anywhere |
| reconciler (`reconcile.go`) | the lease in hand | startup repair, periodic pass, sweep | races the goroutines |
| ownership (`leaseownership.go`) | set of claimed leases, in memory | claim, release, abandon | lost with the process |
| allocator (`internal/allocator`) | credits, published and pending capacity, discovery holder | reserve, adopt, release, begin and complete a poll | two possible values after a lost answer |
| store (`internal/store`) | attempts, leases, intents, deliveries, events, lanes | compare-and-swap transitions | atomicity is the transaction's, and no more |
| capsule, supervisor (`internal/capsule`, `cmd/capsule-supervisor`) | container, supervisor state, runner | create, boot, start, inspect, exit | a start that takes effect after it was reported failed |
| provider (`internal/githubactions`; external) | runner registrations, message queue, offers | register, deregister, send, delete, acquire | at-least-once, late reports |
| operator (`internal/command`, `opsocket.go`) | none | resolve a review | races the periodic pass |
| cache lanes (`internal/cache`) | rows and the volumes they name | acquire, return, plan and run a collection | a collection planned before a lane was leased |
| disk pressure (`internal/disk`, `monitor.go`) | level, gate, durable verdict | measure, decide, apply, save, collect | hysteresis; a verdict applied and not saved |
| network sandbox (`internal/netsandbox`) | the deny set in force | discover, reload or close gateways, confirm a launch | a change that lands between a launch's copy and its gateway |
| egress gateway (`internal/gateway`, `internal/egress`) | ruleset, document, pools, open transfers, slots | install, close, dial, relay, recheck | two installers; a policy revoked under a running transfer |
| scale sets (`bindings.go`, `githubactions/client.go`) | one row per binding | look up, intend, create, record, delete | a create whose answer is lost |
| maintenance (`command/cleanup.go`, `command/gc.go`) | none | sweep, purge, collect under the state lock | an object that will not go |
| configuration, credentials, doctor, release tooling | none while serving | read, check, print | none |

Interactions. The loop writes deliveries and attempts and calls the scheduler
on its own goroutine. The scheduler commits a lease and starts the executor's
goroutine. Executor and reconciler meet only in the store, in the ownership set
and in the allocator. The capsule is reached through the daemon: creation
before an intent is recorded is impossible, and an answer may be lost. The
provider is reached by the loop (messages) and by the executor
(registrations).

What makes each part correct:

- serving: one job is taken at most once between two decisions of a person; no
  attempt is left in service without a live lease; a released lease owns nothing,
  and nothing of it ever runs; a lease has one driver; every lease is released in the end;
- deliveries: what the broker has forgotten is durable here; one open attempt
  per workload; a superseded attempt has a successor; the queue advances;
- trail: every decision has its event, in an order that makes sense;
- allocator: what sessions may hold together stays within the limits whatever
  answer was lost, the plan is the max-min fair one of the inputs in force, and
  the discovery credit reaches every binding;
- lanes: a lane has one lease, collection never takes a leased one, and takes no
  more than the target needs;
- pressure: admission opens only on a durable verdict, an emergency ends only
  with room to spare, and a host that recovered admits again;
- resources: every object has an intent or a lease behind it or is swept, and no
  sweep takes a live lease's;
- sandbox and gateway: a capsule starts under the deny set in force, a subnet
  that appears is denied everywhere in the end, relay and kernel agree, and a
  revoked destination is cut;
- scale sets: what this instance made it can account for, and what it refused it
  does not adopt.

## Modules

| module | models | size of a step |
|---|---|---|
| `Vocabulary` | states, evidence ladder, lease transitions, dispositions | operators |
| `Serving` | executor, lease manager, reconciler, ownership, credits, capsule, registrations | one transaction, daemon call or provider call |
| `AttemptContract` | what serving promises about one accepted attempt | abstract |
| `AttemptTrail` | the append-only events of one attempt | one transaction |
| `Delivery` | the loop of one binding, the broker's queue and the delivery rows | one transaction or broker call |
| `Totals` | sums over finite sets, smaller and larger of two numbers | operators |
| `AllocationPlan` | the plan: water-filling in a tier and over the instance, the discovery announcement | operators |
| `Allocator` | the credit books, the loops' sessions and polls, the broker's side | one allocator call or broker answer |
| `CacheLanes` | jobs, lanes, volumes and the collector | one transaction or daemon call |
| `DiskPressure` | the monitor's pass | one measurement, application or write |
| `Resources` | intents and objects of leases, sweeps, cleanup, uninstall | one transaction or daemon call |
| `Sandbox` | discovery, the record in force, gateways, launches | one daemon call or exec |
| `Gateway` | installers, the relay's policy and pools, transfers, slots | one file or kernel operation, dial or close |
| `EgressPolicy` | validation of a policy and what it means to relay and kernel | one install |
| `ScaleSets` | one binding's set at the provider and its row | one provider call or transaction |
| `Serving_proofs`, `Delivery_proofs`, `Resources_proofs`, `Totals_proofs`, `AllocationPlan_proofs`, `Allocator_proofs`, `Store_proofs` (`AttemptTrail`, `CacheLanes`, `MCBooks`), `Host_proofs` (`DiskPressure`, `Sandbox`, `Gateway`, `EgressPolicy`, `ScaleSets`, `MCHost`) | theorems | |
| `MCServing`, `MCDelivery`, `MCBooks`, `MCHost` | instances for TLC | |

`Serving`. The store's rows are `astate`, `aev`, `ares`, `arunner` (attempt) and
`lstate`, `lattempt`, `lobs`, `owns` (lease and its resource intents). A driver
is the goroutine of a lease or the reconciler; `pc` is the call it makes next,
named after the stages of `runCapsule` and of the recovery. `StepFails` is the
error return of every call that has one, and sends the driver where the code's
error path sends it. A crash (`ProcessEnds`) loses `pc`, `claimed`, `credits`
and the pass in hand and keeps rows, capsules and registrations. The drain, its
window and `abandonUnfinished` are actions, so a driver may still take a step
after the process has given it up. A lease's containers, networks and volumes
are one object `cap` with one intent `owns`. A create whose call failed, or was cut
off with the process, may take effect at any later time (`stray`, `LateCreateLands`),
after the cleanup removed, forgot and released too; what lands then is swept at the
next startup or at the end of a periodic pass (`SweepOrphans`, `SweepPeriodically`).
`execs` and `begun` are history: jobs taken, and whether a runner was forked,
since the attempt was last sent back.

`AttemptContract` has only a status and a count of runs. An attempt that was
superseded or canceled is `withdrawn`, which it may become only while no runner has
taken it; one that was settled is `closed`, which has no such condition. `HonoursContract`
instantiates it with `status` computed from the row and `runs` from `execs`, and
requires every step of `Serving` to be a step of it or to leave it unchanged.

`AttemptTrail` keeps one attempt's event keys as a sequence. A key carries a
lease, a count or nothing; `RecordEvent` is the insert with
`ON CONFLICT DO NOTHING`, `RecordRepeatableEvent` the sequenced insert.

`Delivery`. `queue` is what the broker has not deleted of the messages it numbers in
order (`Oldest` is received first), `ack` and `print` the delivery
rows, `att` the attempts of one binding, reduced to what a delivery can tell
apart: before the start authorization, after it, running, held with nothing
consumed, held with an unknown outcome. `Moves` is what servings and operators
do to them. Scheduling happens on the loop's own goroutine, so `LeaseAttempt`
waits for the step between two messages. `PersistDelivery` is one transaction:
delivery, supersessions and inserts. Each report is a transaction of its own.
The broker grants any subset of the offers on each receive; a deletion may land
with its answer lost.

`Allocator`. `active`, `demand`, `held`, `published`, `pending` and `known` are the
fields of a binding, `poolActive`, `poolRemote` and `poolUnknown` the totals the code
keeps beside them, `capacity` what the broker would act on. The books start held and
the cursor at its first binding. The controller measures the disk before it adopts, so
its Adopt may move the cursor at once; here the release of the hold and the holder's
work move it, to the same states.
`CompletePoll` and `SetAssignedDemand`, which the loop calls one after the other for a
message, are one step (`PollAnswered`). A poll is begun, may
reach the broker, and is answered, empty or failed; a failed one may have reached
it. Poll ids and discovery generations become one bit of the poll in flight:
whether the cursor has moved since. The cursor is the binding that holds a ring's
discovery credit, where the code keeps its index. `AllocationPlan` translates
`buildPlan`; `FairPlan` says without the algorithm what a plan owes: max-min
fairness (`MaxMinFair`), one discovery credit for each ring, and the limits.

`CacheLanes`. Ages are an order (`recent`) and the cutoff of a collection is any
prefix of it. The daemon's listing, the reading of the rows, each deletion of a row
and each removal of a volume are separate steps; jobs run between them.

`DiskPressure`. `NextLevel` is `Next` over facts in small units; `step` separates
what `pass` does in sequence, so a restart may fall between the level, the gate and
the row.

`Resources`. A lease's objects are created in `CreateOrder` under intents that go
through the store's states, and removed in `RemovalOrder`. A create that was lost
may land at any later time. `confirmed` are the objects whose intent carries the
daemon's id: a sweep hands `ForgetResource` the id it listed, which finds the intent of
a volume (its name is its id) and of a confirmed network or container, and leaves
that of an unconfirmed one to the recovery of its lease. A startup adopts any subset
of the live leases whose container exists, since running, configured and adoptable
are not told apart here. `house` is the state lock: a controller under repair,
one serving, or a command.

`Sandbox`. `force` is the record (`state`), `world` what discovery would find,
`pass` the holder of the refresh slot, a launch its copy of the set. A reload or a
removal may take effect unanswered. A rediscovery that failed has given the slot back
before it closes gateways, so its closing is a variable of its own (`closing`):
launches and confirmations take the slot in between, and only the next tick waits for
it. `behind` is history: gateways that a failed
pass or a restart left with another set than the record's.

`Gateway`. A document is its set of denied destinations. Installers take the lock,
build, apply to the kernel and replace the document; the relay reads the document
when it dials, chooses a pool or rechecks. Two simplifications: a pooled request dials
only when its pool has no idle connection at all, where `net/http` looks per host and
may race a dial with a connection that becomes idle (the dial is there, under fewer
circumstances); and a plain request that is refused ends its client's connection,
which the server would keep for a next request (a next request is a new transfer
here). `EgressPolicy` has addresses as bit
vectors and prefixes as an address with a number of leading bits; the tables of
`egress.go` are parameters. The deny set is the baseline, the host's subnets and the
operator's `denyCIDRs`, any of which may be all of IPv4 (`config/validate.go:389`).

`ScaleSets`. The row is absent, an intention or an id. Others may take or remove the
name between any two calls. By the time somebody removes a set by hand or an
uninstall runs, a create that was lost has taken effect or never will.

`Allocator`, `CacheLanes`, `AttemptTrail` share no variable, nor do the six parts of
`MCHost`: their runs let a behaviour pick one part at the start, so that a run is
the sum of the parts and not their product. Each property speaks of one part only
and is trivially true in the others' behaviours.

## Runs

| run | instance | shows |
|---|---|---|
| `crash` | 1 attempt, 2 leases, 1 credit, budget 2, 1 crash or drain, 1 operator retry | safety of the rows, one driver per lease, a credit for every live lease, and the contract, with a stop at any step |
| `contention` | 2 attempts, 2 leases, 1 credit, budget 1, late starts, no stop | live leases within the tier's credits, servings within the retry budget, with the periodic pass |
| `live` | 1 lease, 1 restart, kills, a create that lands late, fairness | every live lease is released, and leaves nothing but what a late create makes |
| `late_start` | late starts allowed | **violated**: `ObservedExitIsFinal` (finding 1) |
| `delivery_again` | 1 workload, 3 messages, 1 report each | reassignment, late cancellation, nothing deleted that is not durable |
| `delivery_pair` | 2 workloads, 2 messages, an offer, 1 crash | supersession with several workloads, acknowledgement outcomes, no false drift |
| `delivery_queue` | 1 workload, 2 messages waiting, 1 crash, a session reopened after 3 failures, fairness | the queue advances |
| `delivery_cancel` | 2 workloads, 2 messages | **violated**: `CancelNamesItsWorkload` (finding 2) |
| `books` | 2 bindings in 2 tiers under an instance limit, 2 jobs owed to each, 1 replaced controller; 1 attempt served 3 times; 3 jobs on 2 lanes | capacity, discovery and fairness of the plan; what the trail keeps; lanes against a collection |
| `discovery_parked` | as `books` | **violated**: `PointerNotParked` (finding 3) |
| `host` | disk facts around every floor; 1 lease with 3 objects, 2 stops; 1 launch, 2 subnets, 2 changes, 1 restart; 2 transfers, 2 installs; addresses of 4 bits with every allow and a deny of all of them; 3 scale sets, 3 ends | pressure, resources, sandbox, gateway, policy, scale sets |
| `sandbox_restart` | as `host` | **violated**: `RecordedHasReached` (finding 4) |

Some properties are conjunctions of named parts, each with its own comment in the
module: `RowsTellWhatRan` (`Serving`), `BooksAgree` (`Allocator`), `TrailIsTrue`
(`AttemptTrail`), `LanesAreSafe` and `CollectionIsExact` (`CacheLanes`),
`RemovalsAreSafe` (`Resources`), `GatewayAgrees` and `RevocationHolds` (`Gateway`),
`PolicyIsSound` (`EgressPolicy`). Every part has a mutant of the code that breaks it,
except `SlotsAreHeld`, whose mutant breaks the type invariant first.

Why the bounds are enough to be interesting. Two leases let an attempt be
requeued, or sent back by a person, and served again. One stop is a crash, a
clean drain or an abandoned one at any of the steps; two let the repair itself
be interrupted. Two attempts on one credit is the smallest
contention. Three messages about one workload are an assignment, a reassignment
and a late report about the first; two workloads in one message are what a
partly conflicting message needs. `MaxQueue = 1` loses no safety behaviour: the
broker serves only the head, and a message sent later may say anything one sent
earlier could. The code reopens a session after three failures in a row
(`serve.go:108`), and so does `delivery_queue`; the other deliveries reopen it after
the first, to keep states few: a failed poll touches no row, so three in a row leave
the same rows as one. Two bindings in tiers of one and two credits, under a limit of two, are the
smallest instance in which both limits bind and a credit has to be handed from one
session to another, and two jobs owed to each make them compete for the second
credit. Tiers without an instance limit, several bindings in a tier and credits left
over after a level are not in this instance; the theorems about the plan and the
allocator cover any bindings, tiers and limits. Three jobs of two pools on lanes of
different weight let a lane be
leased, returned, evicted and leased by another job during one collection. The
floors of `host` put a reserve above the soft floor and leave a band of one unit, so
that every comparison of `Next` has facts on both sides. One lease with a network, a
volume and a container is what the order of removal and a late create need; a sweep
meets it committed, ending and released. One launch is enough for the sandbox: the
slot serialises launches, and the other holder is the periodic pass. Sixteen
addresses hold every kind of range of the tables next to each other; the theorems
about `EgressPolicy` hold for any width. Three sets are one of a stranger and two of
this instance.
Leases are symmetric in the safety runs of `Serving`, workloads in
`delivery_pair`; no liveness run uses symmetry.
`CHECK_DEADLOCK FALSE` is set for deliveries, `books` and `host`, whose behaviours
end when the bounded surroundings do nothing more; `Serving` is checked for deadlock.

Environment. `LateStart` and `Kills` are what the code cannot exclude and its
comments assume away. `AtMostOnce`, `RowsTellWhatRan` and the contract are
checked with both off; the proofs show that the first and the last need only the
first off, and `RowsTellWhatRan` only the second. `contention` has late starts, `live`
has kills, and the other theorems about `Serving` hold for either value of both.
`MaxStrays` bounds the leases with a failed create that may still take effect. It is
one in `live`, which asks what a release leaves, and none in `crash` and `contention`,
whose states it would multiply; the theorems hold for every bound.

Fairness. In `Serving`: every call has a deadline, so a goroutine's step returns
or fails (weak); the host restarts the controller and its passes run (weak); a
call the periodic pass repeats for ever succeeds in the end, and a lease is not
inside its grace or backoff in every pass (strong). Nothing is assumed of the
single try of a lease's own goroutine. In `Delivery`: the loop runs (weak);
receive, persist, record, mark and delete succeed when they are retried for ever
(strong); a start gets somewhere and a serving or a held attempt ends (strong:
the retry budget bounds the starts that prove inert, and a person decides about
what is held). The other liveness properties are about a system that is left in
peace from some moment on, which an action of its own begins (`quiet`, `recovered`,
`settled`, `steady`, `undisturbed`): before it anything may fail any number of times
within the bounds, after it calls succeed. Then `Allocator` needs its loops to run
and unused sessions to expire at the broker; `DiskPressure`, `Sandbox` and
`ScaleSets` need their pass, which a ticker or a retrying loop starts again;
`Resources` needs whoever unwinds a lease, the sweeps and a controller that is
started again; `Gateway` needs the recheck of its poll interval and the handler to
return. All of these are weak.

## Findings

1. `late_start`. `Release` (`internal/lease/lease.go:108`) passes no observation, so
   `dispositionFor` reads back the `created` an earlier recovery recorded, and an
   adopted capsule's observed exit is requeued.
2. `delivery_cancel`. With no open attempt of the workload a cancellation names,
   the fallback to the runner's attempt (`internal/app/delivery.go:610`) closes a
   ready attempt of another workload: a runner provisioned for one workload ran
   another, its own attempt was held and sent back by a person, and the other
   workload is canceled late.
3. `discovery_parked`. `advanceDiscoveryFrom` (`internal/allocator/allocator.go:664`)
   is called when the holder changes. A holder that takes work while nobody else is
   silent keeps the pointer, and a binding that falls silent afterwards announces
   zero until the holder is silent again.
4. `sandbox_restart`. `netsandbox.New` (`internal/netsandbox/netsandbox.go:139`)
   records its first build as in force without telling the gateways it adopts. A
   subnet that appeared while no controller ran stays reachable from them until
   discovery changes again. `AppearedIsDenied` therefore leaves out gateways in
   `behind`.

Divergences without a run of their own:

- `ClassifyExit` (`internal/capsule/observation.go:95`) takes every code but the
  reserved one for the runner's, so a capsule killed while it waits and adopted by a
  restarted controller is settled as completed though nothing ran. With
  `Kills = TRUE` in `MCServing_crash.cfg` TLC shows it as a violation of
  `CompletedMeansRan`, a part of `RowsTellWhatRan`.
- The key `evidence:<rung>` (`internal/store/evidence.go:204`) does not name the
  serving, so a second serving's advances are dropped although
  `internal/store/query/attempts.sql:180` says they are kept. `AttemptTrail` leaves
  these events out.
- `ensureScaleSet` overwrites a recorded id by an intention once the recorded set is
  gone. If a stranger then takes the name, the process that recorded the id refuses
  the set and its successor, which reads an intention, adopts it. `RefusedStaysRefused`
  is therefore about sets met while none of this instance's was removed.
- A comment of the sweep (`internal/app/reconcile.go:390`) and one of the store
  (`internal/store/leasetx.go:212`) speak of an intent left with a
  released lease, beyond every retry.
  `BooksMatchHost` says there is none, and it is proved: `Finalize` refuses while an
  intent is left (`internal/lease/lease.go:185`), and a lease released by an earlier
  process had none either. A row the sweep did not get to forget belongs to a live lease,
  whose recovery removes an object that is already gone and forgets the row.
- `ForgetResource` (`internal/lease/lease.go:580`) is documented to see to it that a row
  does not outlive its object. Called by the sweep it is given an id, and does not find
  the row of a network or container whose creation was never confirmed; that row
  stays until its lease is recovered.

## Proofs

Every invariant that carries a proof was first checked by TLC, on the runs' instances
or on others of their size. Each proof has the same shape: the invariant holds
initially, one lemma or step per action or group of actions keeps it, and it implies
the property.

`Serving_proofs` proves, for every set of attempts, every finite set of leases and
every parallelism, retry budget and bound (`ServingAssumption`):

- `TypeCorrect`: `Spec => []TypeOK`. Inductive as it stands, one lemma per group of
  actions.
- `NeverStranded`: `Spec => []NoStranded`. Inductive given the types: a step either
  leaves attempts and leases alone (`RowsUntouched`), or moves them while their
  lease stays live (`KeepsLease`), or is one of the two transactions that change
  both, creation and finalization.
- `OneDriverAlways`: `Spec => []OneDriver`. Not inductive. A claim says nothing about
  who took it, so `Ownership` adds that a goroutine past its claim owns its lease,
  that startup repair only meets goroutines it adopted itself, that a reconciler
  at work has a lease and neither pass outlives its phase. Every step of a driver
  that does not end it is one shape (`DriverMoves`), which keeps `Ownership`
  whatever the step does to the rows.
- `ReleasedIsAlwaysClean`: `Spec => []ReleasedIsClean`: a released lease owns no intent,
  and what is on the host for it is at most the bare container of a create that was
  given up on and landed late, never one that was booted. Not inductive. `IntentCovers`
  adds that an intent covers every other capsule and every creation in progress, that
  what landed late has nobody left who would boot it, that an intent is forgotten only
  after its object, and that a lease under preparation is not released. The last
  part needs `Ownership`: the reconciler that would release the lease is not
  working on one a goroutine prepares.
- `ServingsStayWithinBudget`: `Spec => []ServingsWithinBudget`. `BudgetInv` adds that an
  attempt in the queue has a serving left. From here on the proofs use `LeaseRows`
  (at most one live lease names an attempt, only live leases are worked on, a lease
  nobody took has nothing) and `Local`, the footprint of a driver's step.
- `RunsAtMostOnce`: `Spec => []AtMostOnce`, provided `~LateStart`. Two further
  invariants. `StartInv`: a capsule is told to start only after the authorization and
  its evidence are in the row, and they stay there while the lease lives. `OnceInv`:
  no job is taken before the fork or while the registration is idle, and a driver or
  a row that says "nothing ran" (`ProvenInert`) is right and stays right (`Inert`:
  the capsule cannot start any more). The second half is what a requeue rests on,
  and it is false with late starts: TLC then finds two runners for one attempt.
- `ServingHonoursContract`: `Spec => HonoursContract`, with the same proviso: the
  initial states map to those of `AttemptContract`, and every step to a step of it or
  to none (`StepIsContract`, from `OnceInv`). A supersession or cancellation maps to
  `Withdraw` alone, so it is proved to find no runner that took the attempt.
- `ObservedExitStaysFinal`: `Spec => ObservedExitIsFinal`, with the same proviso, from
  the contract. The run `late_start` shows that the proviso cannot be dropped.
- `RowsAlwaysTellWhatRan`: `Spec => []RowsTellWhatRan`, provided `~Kills` (a killed
  capsule is read as an exit, whatever it had begun). `RanInv` adds that a capsule
  that runs or exited was forked and that an exit is recorded of such a one only.
- `LiveAlwaysHoldsCredit`: `Spec => []LiveHoldsCredit`, with any number of restarts
  under one parallelism (a configuration that lowers it adopts more than it admits, as
  `reportAdoption` says). Credits are a number, so
  `CreditInv` names whom they are held for (`Holders`): live leases, released ones
  whose driver has not given the credit back, an admission between its credit and
  its lease, and, during startup repair, the leases the pass has come to and those it
  resolved, whose credits go back together at its end. There are never fewer credits
  than holders; the proof counts with the library's facts about finite sets.

`Delivery_proofs`, for every set of workloads and every bound (`DeliveryAssumption`):

- `DeliveryTypesHold`, `OneAttemptIsOpen`, `SupersededAlwaysHasSuccessor`,
  `ConfirmedIsAlwaysDeleted`, `DriftIsNeverFalse`, `DeletedIsAlwaysDurable` and
  `CancelAlwaysHitsItsRun`: every safety property of the runs. One invariant:
  `QueueInv` (what is left of the messages are the last ones, and the loop works on
  the oldest), `RowsInv` (a row is made from the oldest message only, with its own
  fingerprint, and confirmed once that is gone), `AttemptsInv` (an attempt comes with
  its delivery; hence what a delivery replaces is older than it) and `DurableInv`
  (past each step of the loop, what the step makes durable is).

`Resources_proofs`, for every set of leases and every order of creation that names no
kind twice (`ResourcesAssumption`, as the launcher creates each object once):

- `BooksAlwaysMatchHost` and `RemovalsAreAlwaysSafe`. `MadeInv` is the heart: an object
  is asked for at most once, so what a sweep has listed or the daemon may still
  create was made for a lease that exists, and a create that was lost is no object a
  sweep has seen. `BooksInv` says that a lease that is over has no intent and that what
  exists or is asked for of a live one has its own.
  `SweepInv` ties a sweep to the holder of the lock and to the leases
  it keeps; `DriverInv` says which states of a lease its driver's step allows.

- `ResourcesTypes`: `ResourcesSpec => []ResourcesTypeOK`, inductive with the same
  invariant.

`Totals_proofs`. `Total` is a fold over a set, so what it computes is a recursion over
data. Its lemmas (adding or removing one element, a change in one place, a pointwise
order, parts of a set) hold for every function to the integers and
every finite set. The argument is first-order: the recursion has one solution on every
finite set, because a smallest set on which it had none would lose an element.

`AllocationPlan_proofs`, for every sequence of bindings, every tier with a binding,
every parallelism and every instance limit, none included (`PlanAssumption`):

- `AllocationIsFair`: what `buildPlan` gives out is max-min fair. The binary search
  returns the largest level whose credits the budget pays for; filling to it leaves
  nobody above one who may still rise; what is left is less than the number of those
  at the level, and goes to the first of them. Under an instance limit the level is
  one for all tiers, each capped by its own budget.
- `PlansAreFair`: with the discovery credits added, the plan is a `FairPlan`.

`Allocator_proofs`, for the same constants and every bound:

- `AllocatorTypes`, `BooksStayTrue`: `AllocatorSpec => []BooksAgree`. `SessionInv` relates
  a binding's books to its loop's step and to the session at the broker; `TotalsInv`
  says that every running total is the sum it stands for.
- `RemoteCapacityIsBounded`: `AllocatorSpec => []RemoteWithinLimits`. The capacity in
  force is bounded only through the books, and the books may forget a session that the
  broker still has. `ExposureInv` bounds, over all bindings, the larger of what the
  session holds and what the books reserve. A poll is clamped to what that leaves,
  and nothing is asked for while a session is unaccounted for.
- `PlansStayFair`: `AllocatorSpec => []PlanIsFair`, from `PlansAreFair` and from
  `PlanIsCurrent`, a published plan being that of the inputs in force.

`Store_proofs`, about `AttemptTrail` for every number of servings, budget and decisions
(`TrailAssumption`):

- `TrailTypes` and `TrailStaysTrue`: `TrailSpec => []TrailIsTrue`. `TrailInv` has three
  parts: `Account` (every fact that was counted is in the trail, counted events have no
  gap, holds and decisions take turns, and what names a lease names one that was taken
  or ended), `RowAgrees` (what the state of the row says of the last of them) and
  `LeasesInOrder` (leases are numbered as they are taken, and one lives at most).

about `CacheLanes` for every set of jobs, pools, sizes and limits (`LanesAssumption`;
no job is called `none` or `free`, the two other values of a row):

- `LanesAreAlwaysSafe` and `PassAlwaysCollects`. `CollectInv` says that a volume a
  collection is to remove belongs to no row, and that one it listed without a row is
  still to be removed or failed; that needs `MintedInv`, ids are handed out once, and
  `HeldInv`, a job keeps its row until it gives it back.
- `PlanAlwaysMeetsTarget`: a collection takes as many of the least recently used free
  lanes as the target needs and no more, by the facts about sums.
  `CollectionsAreExact` is the conjunction of both.
- `LanesTypes`. `OrderInv` adds that the order of use names lanes that have a row, each
  once.

and about their composition with the allocator:

- `BooksAreTheirParts` (`BooksSpec` implies the specification of each part) and
  `BooksTypes`. What is proved of a part therefore holds of what the run `books` checks.

`Host_proofs`, about `Sandbox` for every set of leases and subnets:

- `ForceIsAlwaysCarried` and `SandboxTypes`. `CarriedInv` says what a gateway carries at
  each step of the slot's holder: the record, the copy of a launch that will still
  compare it, or the set being applied. A closing without the slot only adds to what a
  gateway denies, so it is harmless at each of these steps.
  `BoxesMadeInv` that a gateway is made with its
  launch's copy.

about `Gateway` for every set of transfers, destinations, documents and slots
(`GatewayAssumption`):

- `GatewayAlwaysAgrees` and `DeniedIsNeverDialled`. `LayersInv` says when ruleset and
  document may differ, `PoolInv` that no connection of a pool is older than what a
  request with that pool has seen (it needs `CountersInv`: a new pool has an id no
  connection has), `SlotsInv` that the open connections are counted.

- `GatewayKeepsTypes`. `PolicyBounds`, `InstallBounds` and `PoolBounds` bound documents,
  generations and pools by the installs and connections that made them.

about `EgressPolicy` for every width, every table of ranges and every
configuration, a deny of all of IPv4 included (`EgressAssumption`; the link-local
range has at least one bit):

- `LayersAlwaysMatch`, `LinkLocalIsAlwaysNamed`, `WithheldRangesAlwaysStay`,
  `ClosedAlwaysReachesNothing`. The inductive part is `Accepted`: the policy in force
  passed validation and denies the baseline, or is the closed one. Each theorem is
  then a fact about prefixes of bits. `ClosedAlwaysReachesNothing` is about the deny set
  `denyAllSuccessor` makes, which no configuration makes: it lacks the link-local range.
- `PolicyIsAlwaysSound`, their conjunction: `EgressSpec => []PolicyIsSound`.

about `DiskPressure` for every choice of floors, watermarks and bounds that
`PressureAssumption` allows:

- `OpenIsAlwaysDurable` and `EmergencyAlwaysEndsClear`. Neither is inductive: what the
  gate and the row may be depends on where the pass is. `PressureInv` says, per
  step, which levels the decided verdict may have given the level in force, what is
  saved already and when the facts of the pass cleared the floors, and that a
  durable emergency is the level in force once it has been read.

about `ScaleSets` for every bound:

- `OwnSetIsAlwaysAccounted`. `SetInv` adds that an intention precedes every create in
  hand or lost, and that the id in hand and the id known are of the set at the name
  unless one was removed.
- `RefusedAlwaysStaysRefused`. `RefusedInv` adds that ids only grow, so a refused set
  does not come back under another id, and that until a set is removed no answer in
  hand is of a refused one.

and about their composition with `Resources`:

- `HostIsItsParts` (`HostSpec` implies the specification of each of the six parts) and
  `HostTypes`.

Every invariant and every action property that a passing run checks is a theorem. Only
model-checked is liveness under fairness, which is out of the prover's reach:
`LeaseResolves`, `QueueAdvances`, `EveryoneLooks`, `AdmissionReopens`, `LeftoversGo`,
`AppearedIsDenied`, `BindingIsEnsured` and the liveness half of `RevocationHolds`
(`RevokedStops`; the other half is `DeniedIsNeverDialled`).

## Not modelled

Docker and provider wire formats, HTTP parsing and header handling of the relay,
the gateway's name resolution (`dns.go`), configuration, credentials, migration and
locking, release tooling, `doctor` and `status`: I/O, or one document decoded with no
state. The capsule supervisor inside its container (start file, inner daemon) beyond
the states the controller sees. Provider statistics, session conflicts and the
translation of a message; what the broker answers to a second acquisition of an offer
that was granted before a crash (`githubactions/session.go:93`) is not in the
repository. Paging of the ready queue. Retention of deliveries and
attempts. `Serving` is not composed with `Resources`, `CacheLanes` or `Sandbox`: what
each needs of a lease is in it as an action (`CapsuleRemoved`, `LeaseCommits`,
`LaunchEnds`).

## Plan

Done: `Vocabulary`, `Serving`, `AttemptContract`, `AttemptTrail`, `Delivery`; then
`Allocator` with `AllocationPlan`, `Resources`, `CacheLanes`, `DiskPressure`, `Sandbox`,
`Gateway`, `EgressPolicy`, `ScaleSets`; theorems about all of them.

Left, in this order:

1. An abstract `Capacity` that `Allocator` implements.
2. `Supervisor`: the start file, the inner daemon and the exit codes, with `Serving`'s
   capsule as its abstraction.
3. `Scheduling`: paging of the ready queue and fairness between attempts; message
   translation and grants as operators.

## Running

    tlc -workers 2 -config MCServing_crash.cfg MCServing
    tlc -workers 2 -config MCBooks.cfg MCBooks
    tlc -workers 2 -config MCHost.cfg MCHost
    tlapm Serving_proofs.tla
    tlapm Allocator_proofs.tla
    tlapm Store_proofs.tla
    tlapm Host_proofs.tla
