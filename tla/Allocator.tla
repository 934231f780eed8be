------------------------------ MODULE Allocator ------------------------------
(***************************************************************************)
(* The credit books of one controller and the capacity its sessions may    *)
(* hold at the broker.  Every binding has a loop that opens a session,     *)
(* announces a capacity with a poll and learns, or does not learn, what    *)
(* became of it.  A poll reserves the larger of the old and the new value  *)
(* until its outcome is known.  The broker's side survives a crash of the  *)
(* controller; the books do not.                                           *)
(*                                                                         *)
(* The counters of poll ids and of discovery generations are reduced to    *)
(* what they are compared for: whether the poll in flight was begun under  *)
(* the cursor position in force.                                           *)
(***************************************************************************)
EXTENDS AllocationPlan

CONSTANTS
  MaxDemand,   \* bound: jobs the provider commits to a binding
  MaxAdopted,  \* bound: leases of a binding found at startup
  MaxCrashes   \* bound: how often the controller is replaced

ASSUME AllocatorAssumption ==
  MaxDemand \in Nat /\ MaxAdopted \in Nat /\ MaxCrashes \in Nat

VARIABLES
  (* the books *)
  active, demand, held,          \* binding: capsules; jobs owed; the instance-wide hold
  published, pending, known,     \* binding: confirmed capacity; reserved by a poll; session accounted for
  poolActive, poolRemote, poolUnknown,   \* the tiers' running totals
  cursor,                        \* ring: the discovery holder
  plan,                          \* the published plan, or NoPlan
  (* the loops *)
  pc, poll,                      \* binding: step; the poll in flight
  (* the broker *)
  session, capacity,             \* binding: a live session; the capacity in force in it
  crashes,
  quiet                          \* whether the instance has fallen silent and no call fails any more

books  == <<active, demand, held, published, pending, known, poolActive, poolRemote, poolUnknown,
            cursor, plan>>
broker == <<session, capacity>>
allocatorVars == <<books, pc, poll, broker, crashes, quiet>>

NoPlan == [b \in {} |-> 0]
NoPoll == [capacity |-> 0, discovery |-> FALSE, current |-> FALSE]
NoPending == -1

AllocatorTypeOK ==
  /\ active \in [Bindings -> Nat] /\ demand \in [Bindings -> 0..MaxDemand] /\ held \in BOOLEAN
  /\ published \in [Bindings -> Nat] /\ pending \in [Bindings -> Nat \cup {NoPending}]
  /\ known \in [Bindings -> BOOLEAN]
  /\ poolActive \in [Tiers -> Nat] /\ poolRemote \in [Tiers -> Nat] /\ poolUnknown \in [Tiers -> Nat]
  /\ cursor \in [Rings -> Bindings] /\ \A r \in Rings : cursor[r] \in Ring(r)
  /\ plan \in [Bindings -> Nat] \cup {NoPlan}
  /\ pc \in [Bindings -> {"closed", "open", "sent", "reached", "spent"}]
  /\ poll \in [Bindings -> [capacity : Nat, discovery : BOOLEAN, current : BOOLEAN]]
  /\ session \in [Bindings -> BOOLEAN] /\ capacity \in [Bindings -> Nat]
  /\ crashes \in 0..MaxCrashes /\ quiet \in BOOLEAN

TotalOf(pool) == Total(pool, Tiers)

-----------------------------------------------------------------------------
(* The discovery credit *)

\* The first binding of the ring in registration order.
FirstHolder(r) == CHOOSE b \in Ring(r) : \A c \in Ring(r) : Position(b) <= Position(c)

\* Mutant: the search for the next holder begins with the holder.
NextDiscovery_FromHolder(r, act, dem, hld, holder) ==
  LET silent == {b \in Ring(r) : Silent(b, act, dem, hld)}
      distance(b) == (Position(b) - Position(holder)) % Len(Order)
  IN  IF silent = {} THEN holder
      ELSE CHOOSE b \in silent : \A c \in silent : distance(b) <= distance(c)

\* The next silent binding of the ring after the holder, in registration order
\* and round; the holder itself when there is no other.
NextDiscovery(r, act, dem, hld, holder) ==
  LET silent == {b \in Ring(r) : Silent(b, act, dem, hld)}
      distance(b) == (Position(b) - Position(holder) - 1) % Len(Order)
  IN  IF silent = {} THEN holder
      ELSE CHOOSE b \in silent : \A c \in silent : distance(b) <= distance(c)

\* advanceDiscoveryFrom for every binding of keys: a holder that no longer
\* qualifies passes the pointer on.
Advanced(keys, act, dem, hld, cur) ==
  [r \in Rings |->
     IF cur[r] \in keys /\ ~Silent(cur[r], act, dem, hld)
       THEN NextDiscovery(r, act, dem, hld, cur[r]) ELSE cur[r]]

\* A pointer that moved is a new generation: polls begun before it are stale.
Restamp(moved, p) ==
  [b \in Bindings |-> [p[b] EXCEPT !.current = @ /\ RingOf(b) \notin moved]]

\* The inputs of the plan change: it is discarded, and the holder checked.
ChangeInputs(keys, act, dem, hld) ==
  LET cur == Advanced(keys, act, dem, hld, cursor)
  IN  /\ active' = act /\ demand' = dem /\ held' = hld
      /\ cursor' = cur
      /\ poll' = Restamp({r \in Rings : cur[r] # cursor[r]}, poll)
      /\ plan' = NoPlan

-----------------------------------------------------------------------------
(* Remote capacity *)

EffectivePublished(b) == Greater(published[b], pending[b])

\* Mutant: the total follows the confirmed capacity and not the possible one.
ChangeRemoteCapacity_Confirmed(b, pub, pend) ==
  /\ published' = [published EXCEPT ![b] = pub]
  /\ pending' = [pending EXCEPT ![b] = pend]
  /\ poolRemote' = [poolRemote EXCEPT ![TierOf[b]] = @ + pub - published[b]]

\* changeRemoteCapacity: the totals follow the binding's possible value.
ChangeRemoteCapacity(b, pub, pend) ==
  /\ published' = [published EXCEPT ![b] = pub]
  /\ pending' = [pending EXCEPT ![b] = pend]
  /\ poolRemote' = [poolRemote EXCEPT ![TierOf[b]] = @ + Greater(pub, pend) - EffectivePublished(b)]

SetRemoteKnown(b, k) ==
  /\ known' = [known EXCEPT ![b] = k]
  /\ poolUnknown' = [poolUnknown EXCEPT ![TierOf[b]] =
                       @ + (IF known[b] = k THEN 0 ELSE IF k THEN -1 ELSE 1)]

RemoteStateKnown(b) ==
  IF Global > 0 THEN TotalOf(poolUnknown) = 0 ELSE poolUnknown[TierOf[b]] = 0

\* Mutant: only the confirmed capacity of the others is subtracted.
ClampPublished_ConfirmedOnly(b, desired) ==
  LET others(S) == Total(published, S \ {b})
  IN  IF desired <= 0 THEN 0
      ELSE Lesser(desired, Lesser(Greater(0, Parallelism[TierOf[b]] - others(Members(TierOf[b]))),
             IF Global > 0 THEN Greater(0, Global - others(Bindings)) ELSE desired))

ClampPublished(b, desired) ==
  LET current == EffectivePublished(b)
      tierAvailable == Greater(0, Parallelism[TierOf[b]] - (poolRemote[TierOf[b]] - current))
      globalAvailable == Greater(0, Global - (TotalOf(poolRemote) - current))
  IN  IF desired <= 0 THEN 0
      ELSE Lesser(desired, IF Global > 0 THEN Lesser(tierAvailable, globalAvailable) ELSE tierAvailable)

-----------------------------------------------------------------------------
(* The start of a process.  The bindings are registered with unknown         *)
(* sessions and closed admission, and the leases found are adopted whatever  *)
(* the limits say.                                                           *)

Adopt(found) ==
  /\ active' = found
  /\ poolActive' = [t \in Tiers |-> Total(found, Members(t))]

Register ==
  /\ known' = [b \in Bindings |-> FALSE]
  /\ poolUnknown' = [t \in Tiers |-> Cardinality(Members(t))]
  /\ published' = [b \in Bindings |-> 0] /\ pending' = [b \in Bindings |-> NoPending]
  /\ poolRemote' = [t \in Tiers |-> 0]

AllocatorInit ==
  /\ \E found \in [Bindings -> 0..MaxAdopted] :
       active = found /\ poolActive = [t \in Tiers |-> Total(found, Members(t))]
  /\ demand = [b \in Bindings |-> 0] /\ held = TRUE
  /\ known = [b \in Bindings |-> FALSE] /\ poolUnknown = [t \in Tiers |-> Cardinality(Members(t))]
  /\ published = [b \in Bindings |-> 0] /\ pending = [b \in Bindings |-> NoPending]
  /\ poolRemote = [t \in Tiers |-> 0]
  /\ cursor = [r \in Rings |-> FirstHolder(r)] /\ plan = NoPlan
  /\ pc = [b \in Bindings |-> "closed"] /\ poll = [b \in Bindings |-> NoPoll]
  /\ session = [b \in Bindings |-> FALSE] /\ capacity = [b \in Bindings |-> 0]
  /\ crashes = 0 /\ quiet = FALSE

\* The controller ends, with its sessions closed or left to the broker, and
\* another takes over.  Leases may have been released meanwhile.  While every
\* binding is held nothing moves the cursor off the first.
Replaced ==
  /\ ~quiet /\ crashes < MaxCrashes /\ crashes' = crashes + 1 /\ UNCHANGED quiet
  /\ \E left \in SUBSET {b \in Bindings : session[b]} :
       /\ session' = [b \in Bindings |-> b \in left]
       /\ capacity' = [b \in Bindings |-> IF b \in left THEN capacity[b] ELSE 0]
  /\ \E found \in [Bindings -> 0..Max({active[b] : b \in Bindings})] :
       (\A b \in Bindings : found[b] <= active[b]) /\ Adopt(found)
  /\ Register
  /\ demand' = [b \in Bindings |-> 0] /\ held' = TRUE
  /\ cursor' = [r \in Rings |-> FirstHolder(r)] /\ plan' = NoPlan
  /\ pc' = [b \in Bindings |-> "closed"] /\ poll' = [b \in Bindings |-> NoPoll]

-----------------------------------------------------------------------------
(* The loop of a binding *)

Step(b, s) == pc' = [pc EXCEPT ![b] = s]

SetAssignedDemand(b, n) ==
  IF n = demand[b] THEN UNCHANGED <<active, demand, held, cursor, plan, poll>>
  ELSE ChangeInputs(IF n > 0 THEN {b} ELSE {}, active, [demand EXCEPT ![b] = n], held)

\* The broker accepts one session per binding; the backlog it reports is
\* published, or left as it was when it reports none.
OpenSession(b, n) ==
  /\ pc[b] = "closed" /\ ~session[b] /\ (quiet => n = 0)
  /\ session' = [session EXCEPT ![b] = TRUE] /\ capacity' = [capacity EXCEPT ![b] = 0]
  /\ ChangeRemoteCapacity(b, 0, NoPending) /\ SetRemoteKnown(b, TRUE)
  /\ SetAssignedDemand(b, n)
  /\ Step(b, "open")
  /\ UNCHANGED <<poolActive, crashes, quiet>>

\* A session nobody uses expires at the broker.
SessionExpires(b) ==
  /\ pc[b] = "closed" /\ session[b]
  /\ session' = [session EXCEPT ![b] = FALSE] /\ capacity' = [capacity EXCEPT ![b] = 0]
  /\ UNCHANGED <<books, pc, poll, crashes, quiet>>

CurrentPlan == IF plan = NoPlan THEN BuildPlan(active, demand, held, cursor) ELSE plan

DiscoveryAnnouncement(b, n) ==
  /\ n > 0 /\ Silent(b, active, demand, held)
  /\ cursor[RingOf(b)] = b

BeginPoll(b) ==
  LET desired == IF RemoteStateKnown(b) THEN CurrentPlan[b] ELSE 0
      n == ClampPublished(b, desired)
  IN  /\ pc[b] = "open" /\ pending[b] = NoPending
      /\ plan' = IF RemoteStateKnown(b) THEN CurrentPlan ELSE plan
      /\ ChangeRemoteCapacity(b, published[b], n)
      /\ poll' = [poll EXCEPT ![b] = [capacity |-> n, discovery |-> DiscoveryAnnouncement(b, n),
                                      current |-> DiscoveryAnnouncement(b, n)]]
      /\ Step(b, "sent")
      /\ UNCHANGED <<active, demand, held, known, poolActive, poolUnknown, cursor, broker, crashes, quiet>>

\* The announcement reaches the broker; its answer is still to come.
PollReaches(b) ==
  /\ pc[b] = "sent" /\ session[b]
  /\ capacity' = [capacity EXCEPT ![b] = poll[b].capacity]
  /\ Step(b, "reached")
  /\ UNCHANGED <<books, poll, session, crashes, quiet>>

\* The holder's own empty poll moves the pointer on.
RotateDiscovery(b) ==
  LET r == RingOf(b)
      next == NextDiscovery(r, active, demand, held, cursor[r])
  IN  IF poll[b].discovery /\ poll[b].current /\ cursor[r] = b
        THEN /\ cursor' = [cursor EXCEPT ![r] = next]
             /\ plan' = IF next # cursor[r] THEN NoPlan ELSE plan
             /\ poll' = [Restamp({r}, poll) EXCEPT ![b] = NoPoll]
        ELSE UNCHANGED <<cursor, plan>> /\ poll' = [poll EXCEPT ![b] = NoPoll]

PollEmpty(b) ==
  /\ pc[b] = "reached"
  /\ ChangeRemoteCapacity(b, poll[b].capacity, NoPending)
  /\ RotateDiscovery(b)
  /\ Step(b, "open")
  /\ UNCHANGED <<active, demand, held, known, poolActive, poolUnknown, broker, crashes, quiet>>

\* A message: what it commits to the binding is its demand from now on.
PollAnswered(b, n) ==
  /\ pc[b] = "reached" /\ ~quiet
  /\ ChangeRemoteCapacity(b, poll[b].capacity, NoPending)
  /\ LET cleared == [poll EXCEPT ![b] = NoPoll] IN
       IF n = demand[b] THEN UNCHANGED <<active, demand, held, cursor, plan>> /\ poll' = cleared
       ELSE LET dem == [demand EXCEPT ![b] = n]
                cur == Advanced(IF n > 0 THEN {b} ELSE {}, active, dem, held, cursor)
            IN  /\ demand' = dem /\ cursor' = cur /\ plan' = NoPlan
                /\ poll' = Restamp({r \in Rings : cur[r] # cursor[r]}, cleared)
                /\ UNCHANGED <<active, held>>
  /\ Step(b, "open")
  /\ UNCHANGED <<known, poolActive, poolUnknown, broker, crashes, quiet>>

\* Mutant: a failed poll is taken for one that changed nothing.
PollFails_Forgets(b, next) ==
  /\ pc[b] \in {"sent", "reached"} /\ ~quiet
  /\ ChangeRemoteCapacity(b, published[b], NoPending)
  /\ poll' = [poll EXCEPT ![b] = NoPoll]
  /\ Step(b, next)
  /\ UNCHANGED <<active, demand, held, known, poolActive, poolUnknown, cursor, plan, broker, crashes, quiet>>

\* A failed poll may have reached the broker all the same.  The failures in a
\* row are few enough for another try, or cost the session.
PollFails(b, next) ==
  /\ pc[b] \in {"sent", "reached"} /\ ~quiet
  /\ ChangeRemoteCapacity(b, Greater(published[b], poll[b].capacity), NoPending)
  /\ poll' = [poll EXCEPT ![b] = NoPoll]
  /\ Step(b, next)
  /\ UNCHANGED <<active, demand, held, known, poolActive, poolUnknown, cursor, plan, broker, crashes, quiet>>

\* The session is given up.  A close that was not confirmed may have landed.
DiscardSession(b, confirmed) ==
  /\ pc[b] = "spent"
  /\ \E closed \in {TRUE, confirmed} :
       /\ session' = [session EXCEPT ![b] = @ /\ ~closed]
       /\ capacity' = [capacity EXCEPT ![b] = IF closed THEN 0 ELSE @]
  /\ ChangeRemoteCapacity(b, IF confirmed THEN 0 ELSE EffectivePublished(b), NoPending)
  /\ SetRemoteKnown(b, confirmed)
  /\ Step(b, "closed")
  /\ UNCHANGED <<active, demand, held, poolActive, cursor, plan, poll, crashes, quiet>>

-----------------------------------------------------------------------------
(* The scheduler, the leases and the disk monitor *)

TryReserve(b) ==
  /\ ~held /\ ~quiet
  /\ poolActive[TierOf[b]] < Parallelism[TierOf[b]]
  /\ Global > 0 => TotalOf(poolActive) < Global
  /\ poolActive' = [poolActive EXCEPT ![TierOf[b]] = @ + 1]
  /\ ChangeInputs({b}, [active EXCEPT ![b] = @ + 1], demand, held)
  /\ UNCHANGED <<published, pending, known, poolRemote, poolUnknown, pc, broker, crashes, quiet>>

\* Mutant: the plan published before the release stays in force.
Release_KeepsPlan(b) ==
  /\ active[b] > 0
  /\ active' = [active EXCEPT ![b] = @ - 1]
  /\ poolActive' = [poolActive EXCEPT ![TierOf[b]] = @ - 1]
  /\ UNCHANGED <<demand, held, published, pending, known, poolRemote, poolUnknown, cursor, plan,
                 pc, poll, broker, crashes, quiet>>

Release(b) ==
  /\ active[b] > 0
  /\ poolActive' = [poolActive EXCEPT ![TierOf[b]] = @ - 1]
  /\ ChangeInputs({}, [active EXCEPT ![b] = @ - 1], demand, held)
  /\ UNCHANGED <<published, pending, known, poolRemote, poolUnknown, pc, broker, crashes, quiet>>

\* A thaw checks every ring's holder again.
Hold(h) ==
  /\ h # held /\ ~quiet
  /\ ChangeInputs(IF h THEN {} ELSE Bindings, active, demand, h)
  /\ UNCHANGED <<poolActive, published, pending, known, poolRemote, poolUnknown, pc, broker, crashes, quiet>>

\* A reader of the plan builds and publishes it.
ReadPlan ==
  /\ plan = NoPlan /\ plan' = CurrentPlan
  /\ UNCHANGED <<active, demand, held, published, pending, known, poolActive, poolRemote, poolUnknown,
                 cursor, pc, poll, broker, crashes, quiet>>

\* From some moment on nothing is owed, nothing runs and every call is answered.
FallsQuiet ==
  /\ ~quiet /\ quiet' = TRUE /\ \A b \in Bindings : Silent(b, active, demand, held)
  /\ UNCHANGED <<books, pc, poll, broker, crashes>>

Loop(b) ==
  \/ \E n \in 0..MaxDemand : OpenSession(b, n) \/ PollAnswered(b, n)
  \/ BeginPoll(b) \/ PollReaches(b) \/ PollEmpty(b)
  \/ \E next \in {"open", "spent"} : PollFails(b, next)
  \/ \E confirmed \in BOOLEAN : DiscardSession(b, confirmed)

AllocatorNext ==
  \/ \E b \in Bindings : Loop(b) \/ SessionExpires(b) \/ TryReserve(b) \/ Release(b)
  \/ \E h \in BOOLEAN : Hold(h)
  \/ ReadPlan \/ Replaced \/ FallsQuiet

AllocatorSpec == AllocatorInit /\ [][AllocatorNext]_allocatorVars

\* Every step of a loop moves it to another step, and only an open has to wait.
LoopMoves(b) ==
  /\ pc[b] = "closed" => ~session[b]
  /\ \E s \in {"closed", "open", "sent", "reached", "spent"} \ {pc[b]} : Step(b, s)

\* The loops run, and the broker lets a session go that nobody uses.
AllocatorFairness ==
  \A b \in Bindings :
    WF_pc(LoopMoves(b)) /\ WF_allocatorVars(SessionExpires(b))

AllocatorLive == AllocatorSpec /\ AllocatorFairness

-----------------------------------------------------------------------------
(* Properties *)

\* The capacity the broker may act on, over all sessions of all processes,
\* stays within the tier's limit and the instance's: no two sessions spend one
\* credit, whatever answer was lost and whoever opened the session
\* (clampPublished, CompletePoll, SessionClosed, Register).
RemoteWithinLimits ==
  /\ \A t \in Tiers : Total(capacity, Members(t)) <= Parallelism[t]
  /\ Global > 0 => Total(capacity, Bindings) <= Global

\* What a session of this process holds is never more than the books reserve
\* for it, so an answer that was lost is not forgotten (effectivePublished).
BooksCoverBroker ==
  \A b \in Bindings : (known[b] \/ pc[b] # "closed") => capacity[b] <= EffectivePublished(b)

\* The running totals agree with the bindings they summarise after any
\* sequence of calls (changeRemoteCapacity, setRemoteKnown, TryReserve, Release).
TotalsAgree ==
  \A t \in Tiers :
    /\ poolActive[t] = Total(active, Members(t))
    /\ poolRemote[t] = Total([b \in Bindings |-> EffectivePublished(b)], Members(t))
    /\ poolUnknown[t] = Cardinality({b \in Members(t) : ~known[b]})

\* A published plan is the plan of the inputs in force: whatever changes an
\* input discards it (invalidatePlan).
PlanIsCurrent == plan # NoPlan => plan = BuildPlan(active, demand, held, cursor)

\* The books agree with what they stand for after any sequence of calls, lost
\* answers and replaced controllers: with the broker's sessions, with their own
\* totals and with the plan that is published from them (CompletePoll,
\* SessionClosed, changeRemoteCapacity, invalidatePlan).
BooksAgree == BooksCoverBroker /\ TotalsAgree /\ PlanIsCurrent

\* A published plan is max-min fair for the work that runs and is owed as it is
\* read, one silent binding of each ring may look, and no limit is passed but by
\* capsules that run already (waterFill, allocateTier, allocateGlobal,
\* setTierDiscovery).
PlanIsFair == plan # NoPlan => FairPlan(plan, active, demand, held)

\* In an instance that has fallen quiet every binding is given sight of its
\* queue again and again: the credit rotates, the former holder's announcement
\* is withdrawn first, and no answer lost, session left behind or work done
\* before stops it (rotateDiscovery, clampPublished).
EveryoneLooks == \A b \in Bindings : quiet ~> poll[b].discovery

\* A binding that is not silent never keeps the pointer while a silent one
\* waits (advanceDiscoveryFrom and the thaw of Hold).
PointerNotParked ==
  \A r \in Rings :
    (\E b \in Ring(r) : Silent(b, active, demand, held)) => Silent(cursor[r], active, demand, held)
=============================================================================
