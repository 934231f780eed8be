-------------------------- MODULE Resources_proofs --------------------------
(***************************************************************************)
(* Theorems about Resources, for any leases, any order in which the kinds  *)
(* of object are made, and any number of ends and commands.                *)
(***************************************************************************)
EXTENDS Resources, TLAPS

USE ResourcesAssumption

Kinds == {"container", "network", "volume"}
Making == {"plan", "mark", "call"}
Over == {"released", "pruned", "purged"}
LeaseStates == {"none", "live", "ending"} \cup Over
DriverType ==
  [at : {"none", "plan", "mark", "call", "confirm", "run", "queue", "delete", "remove", "forget",
         "finalize"},
   kind : ObjectKinds \cup {"none"}]
IntentStates == {"none", "planned", "creating", "present", "cleanup_pending", "deleting"}
SweepModes == {"none", "startup", "periodic", "cleanup", "uninstall"}
SweepType ==
  [mode : SweepModes, at : 0..4, seen : SUBSET ResObjects, keep : SUBSET ResLeases,
   gone : SUBSET ResObjects, last : SUBSET ResObjects]

-----------------------------------------------------------------------------
(* The inductive invariant *)

ResTypes ==
  /\ rlease \in [ResLeases -> LeaseStates] /\ driver \in [ResLeases -> DriverType]
  /\ intent \in [ResObjects -> IntentStates] /\ object \subseteq ResObjects /\ sent \subseteq ResObjects
  /\ sweep \in SweepType /\ house \in {"down", "repair", "serving", "command"}

\* Only a lease that is not over is driven, by a controller; its objects are
\* made while it is live and removed once it is ending, and a create is sent
\* only with its intent on record.
DriverOk(l) ==
  /\ driver[l].at = "none" => driver[l] = NoDriver
  /\ driver[l].at # "none" => rlease[l] \in LiveStates /\ house \in {"serving", "repair"}
  /\ driver[l].at \in Making \cup {"confirm"} => rlease[l] = "live" /\ driver[l].kind \in ObjectKinds
  /\ driver[l].at \in {"delete", "remove", "forget", "finalize"} => rlease[l] = "ending"
  /\ driver[l].at \in {"remove", "forget"} => driver[l].kind \in ObjectKinds
  /\ driver[l].at = "call" => intent[InHand(l)] # "none"

DriverInv == \A l \in ResLeases : DriverOk(l)

\* Where a kind comes in the order of creation.
Place(k) == CHOOSE n \in DOMAIN CreateOrder : CreateOrder[n] = k

\* An object nobody has asked for yet.
Unmade(x) ==
  \/ rlease[x[1]] = "none"
  \/ driver[x[1]].at \in Making /\ Place(driver[x[1]].kind) <= Place(x[2])
  \/ driver[x[1]].at = "confirm" /\ Place(driver[x[1]].kind) < Place(x[2])

\* Every object is made at most once: what the daemon has, what may still
\* appear and what a sweep has listed was asked for, and no two of the first
\* two, nor of the last two, are one object.
MadeInv ==
  /\ \A x \in object \cup sent \cup sweep.seen : ~Unmade(x)
  /\ sent \cap (object \cup sweep.seen) = {}

\* BooksMatchHost, and the same of what may still appear.
BooksInv ==
  /\ \A l \in ResLeases : rlease[l] \in Over => IntentsOf(l) = {}
  /\ \A x \in object \cup sent : rlease[x[1]] = "live" => intent[x] # "none"

ModeHolder ==
  [startup |-> "repair", periodic |-> "serving", cleanup |-> "command", uninstall |-> "command"]

\* A sweep runs under the holder of the lock; what it may take belongs to no
\* lease that is live, or that is driven at startup; what it has taken is gone.
SweepInv ==
  /\ (sweep.at = 0) = (sweep.mode = "none")
  /\ sweep.at > 0 => house = ModeHolder[sweep.mode]
  /\ sweep.at < 2 => sweep.seen = {}
  /\ sweep.at < 3 => sweep.gone = {}
  /\ sweep.last \subseteq sweep.gone /\ sweep.gone \subseteq sweep.seen
  /\ sweep.last \cap object = {}
  /\ sweep.mode \in {"cleanup", "uninstall"} => sweep.gone \cap object = {}
  /\ sweep.mode = "uninstall" /\ sweep.at > 2 => sweep.keep = {}
  /\ sweep.mode = "startup" => \A l \in ResLeases \ sweep.keep : driver[l] = NoDriver
  /\ sweep.mode \in {"periodic", "cleanup"} /\ sweep.at > 2 =>
       \A x \in sweep.seen : x[1] \in sweep.keep \/ rlease[x[1]] \in Over

ResInv == ResTypes /\ DriverInv /\ MadeInv /\ BooksInv /\ SweepInv
-----------------------------------------------------------------------------
(* The kinds of object and their two orders *)

\* Every kind has one place in the order of creation, and the next kind made
\* is the one at the next place.
LEMMA PlaceFacts ==
  /\ ObjectKinds \subseteq Kinds /\ "none" \notin ObjectKinds
  /\ CreateOrder[1] \in ObjectKinds
  /\ \A k \in ObjectKinds : Place(k) \in 1..Len(CreateOrder) /\ CreateOrder[Place(k)] = k
  /\ \A j, k \in ObjectKinds : Place(j) = Place(k) => j = k
  /\ \A k \in ObjectKinds :
       NextKind(k) # "none" => NextKind(k) \in ObjectKinds /\ Place(NextKind(k)) = Place(k) + 1
<1>1. /\ Len(CreateOrder) \in Nat \ {0} /\ DOMAIN CreateOrder = 1..Len(CreateOrder)
      /\ \A i \in 1..Len(CreateOrder) : CreateOrder[i] \in Kinds
  BY DEF Kinds
<1>2. /\ ObjectKinds \subseteq Kinds /\ CreateOrder[1] \in ObjectKinds
      /\ \A i \in 1..Len(CreateOrder) : CreateOrder[i] \in ObjectKinds
  BY <1>1 DEF ObjectKinds
<1>3. "none" \notin ObjectKinds
  BY <1>2 DEF Kinds
<1>4. ASSUME NEW k \in ObjectKinds PROVE Place(k) \in 1..Len(CreateOrder) /\ CreateOrder[Place(k)] = k
  <2>1. \E n \in DOMAIN CreateOrder : CreateOrder[n] = k
    BY DEF ObjectKinds
  <2> QED
    BY <1>1, <2>1 DEF Place
<1>5. \A j, k \in ObjectKinds : Place(j) = Place(k) => j = k
  BY <1>4
<1>6. ASSUME NEW k \in ObjectKinds, NextKind(k) # "none"
      PROVE  NextKind(k) \in ObjectKinds /\ Place(NextKind(k)) = Place(k) + 1
  <2>1. NextKind(k) = IF Place(k) = Len(CreateOrder) THEN "none" ELSE CreateOrder[Place(k) + 1]
    BY DEF NextKind, Place
  <2>2. Place(k) + 1 \in 1..Len(CreateOrder) /\ NextKind(k) = CreateOrder[Place(k) + 1]
    BY <1>1, <1>4, <1>6, <2>1
  <2>3. NextKind(k) \in ObjectKinds
    BY <1>2, <2>2
  <2>4. Place(NextKind(k)) \in DOMAIN CreateOrder
          /\ CreateOrder[Place(NextKind(k))] = CreateOrder[Place(k) + 1]
    BY <1>1, <1>4, <2>2, <2>3
  <2> QED
    BY <1>1, <2>2, <2>3, <2>4
<1> QED
  BY <1>2, <1>3, <1>4, <1>5, <1>6

\* A removal takes a member of the set it chooses from.
LEMMA FirstIsMember == ASSUME NEW S \in SUBSET ResObjects, S # {} PROVE FirstToGo(S) \in S
<1>1. \A x \in S : x[2] \in Kinds
  BY PlaceFacts DEF ResObjects
<1>2. ASSUME NEW k \in Kinds, NEW x \in S, x[2] = k, \A y \in S : RemovalOrder[k] <= RemovalOrder[y[2]]
      PROVE  FirstToGo(S) \in S
  BY <1>2 DEF FirstToGo
<1>3. CASE \E x \in S : x[2] = "container"
  BY <1>1, <1>2, <1>3 DEF Kinds, RemovalOrder
<1>4. CASE (\E x \in S : x[2] = "network") /\ ~(\E x \in S : x[2] = "container")
  BY <1>1, <1>2, <1>4 DEF Kinds, RemovalOrder
<1>5. CASE (\A x \in S : x[2] = "volume")
  BY <1>2, <1>5 DEF Kinds, RemovalOrder
<1> QED
  BY <1>1, <1>3, <1>4, <1>5 DEF Kinds

-----------------------------------------------------------------------------
(* The steps of a lease *)

\* What a step of one lease leaves alone.
LeaseFrame(l) ==
  /\ sweep' = sweep /\ house' = house
  /\ \A m \in ResLeases \ {l} : rlease'[m] = rlease[m] /\ driver'[m] = driver[m]
  /\ \A x \in ResObjects : x[1] # l =>
       /\ intent'[x] = intent[x]
       /\ (x \in object' <=> x \in object) /\ (x \in sent' <=> x \in sent)

\* Every step of a lease keeps the types and touches that lease only.
LEMMA LeaseTyped ==
  ASSUME ResTypes, DriverInv, NEW l \in ResLeases, LeaseStep(l)
  PROVE  ResTypes' /\ LeaseFrame(l)
<1>0. /\ rlease \in [ResLeases -> LeaseStates] /\ driver \in [ResLeases -> DriverType]
      /\ intent \in [ResObjects -> IntentStates] /\ object \subseteq ResObjects
      /\ sent \subseteq ResObjects
      /\ sweep \in SweepType /\ house \in {"down", "repair", "serving", "command"}
  BY DEF ResTypes
<1>1. sweep' = sweep /\ house' = house
  BY DEF LeaseStep, LeaseCommits, PlanResource, MarkResourceCreating, MarkResourcePresent,
         CreateObject, Unwind, MarkResourceCleanup, MarkResourceDeleting, RemoveObject,
         ForgetResource, CleanupFails, FinalizeLease, RetryLease, PruneLease
<1>2. \/ rlease' = rlease
      \/ \E s \in LeaseStates : rlease' = [rlease EXCEPT ![l] = s]
  BY DEF LeaseStep, LeaseCommits, PlanResource, MarkResourceCreating, MarkResourcePresent,
         CreateObject, Unwind, MarkResourceCleanup, MarkResourceDeleting, RemoveObject,
         ForgetResource, CleanupFails, FinalizeLease, RetryLease, PruneLease, LeaseStates, Over
<1>3. rlease' \in [ResLeases -> LeaseStates] /\ \A m \in ResLeases \ {l} : rlease'[m] = rlease[m]
  BY <1>0, <1>2
<1>4. driver[l].at \in Making \cup {"confirm", "remove", "forget"} =>
        InHand(l) \in ResObjects /\ driver[l].kind \in ObjectKinds
  BY DEF DriverInv, DriverOk, Making, InHand, ResObjects
<1>5. driver' = driver \/ \E d \in DriverType : driver' = [driver EXCEPT ![l] = d]
  <2>0. driver[l].kind \in ObjectKinds \cup {"none"}
    BY <1>0 DEF DriverType
  <2>1. CASE LeaseCommits(l)
    BY <2>1, PlaceFacts DEF LeaseCommits, Drive, DriverType
  <2>2. CASE PlanResource(l) \/ MarkResourceCreating(l) \/ RemoveObject(l) \/ ForgetResource(l)
    BY <2>0, <2>2 DEF PlanResource, MarkResourceCreating, RemoveObject, ForgetResource, Drive, DriverType
  <2>3. CASE MarkResourcePresent(l)
    <3>1. driver[l].kind \in ObjectKinds
      BY <1>4, <2>3 DEF MarkResourcePresent, DriverAt
    <3>2. CASE NextKind(driver[l].kind) = "none"
      BY <2>3, <3>2 DEF MarkResourcePresent, Drive, DriverType
    <3>3. CASE NextKind(driver[l].kind) # "none"
      <4>1. NextKind(driver[l].kind) \in ObjectKinds
        BY <3>1, <3>3, PlaceFacts
      <4> QED
        BY <2>3, <3>3, <4>1 DEF MarkResourcePresent, Drive, DriverType
    <3> QED
      BY <3>2, <3>3
  <2>4. CASE \E outcome \in {"made", "lost", "refused"} : CreateObject(l, outcome)
    BY <2>0, <2>4 DEF CreateObject, Drive, DriverType
  <2>5. CASE Unwind(l) \/ MarkResourceCleanup(l) \/ CleanupFails(l) \/ FinalizeLease(l) \/ RetryLease(l)
    BY <2>5
    DEF Unwind, MarkResourceCleanup, CleanupFails, FinalizeLease, RetryLease, Drive, LeaveLease,
        NoDriver, DriverType
  <2>6. CASE MarkResourceDeleting(l)
    <3>1. CASE IntentsOf(l) = {}
      BY <2>6, <3>1 DEF MarkResourceDeleting, Drive, DriverType
    <3>2. CASE IntentsOf(l) # {}
      <4>1. FirstToGo(IntentsOf(l)) \in IntentsOf(l)
        BY <3>2, FirstIsMember DEF IntentsOf
      <4>2. FirstToGo(IntentsOf(l))[2] \in ObjectKinds
        BY <4>1 DEF IntentsOf, ResObjects
      <4> QED
        BY <2>6, <3>2, <4>2 DEF MarkResourceDeleting, Drive, DriverType
    <3> QED
      BY <3>1, <3>2
  <2>7. CASE PruneLease(l)
    BY <2>7 DEF PruneLease
  <2> QED
    BY <2>1, <2>2, <2>3, <2>4, <2>5, <2>6, <2>7 DEF LeaseStep
<1>6. driver' \in [ResLeases -> DriverType] /\ \A m \in ResLeases \ {l} : driver'[m] = driver[m]
  BY <1>0, <1>5
<1>7. intent' \in [ResObjects -> IntentStates] /\ \A x \in ResObjects : x[1] # l
        => intent'[x] = intent[x]
  <2>1. CASE intent' = intent
    BY <1>0, <2>1
  <2>2. ASSUME NEW x \in ResObjects, x[1] = l, NEW s \in IntentStates, intent' = [intent EXCEPT ![x] = s]
        PROVE  intent' \in [ResObjects -> IntentStates] /\ \A y \in ResObjects : y[1] # l
          => intent'[y] = intent[y]
    BY <1>0, <2>2
  <2>3. CASE PlanResource(l) \/ MarkResourceCreating(l) \/ MarkResourcePresent(l) \/ ForgetResource(l)
    <3>1. InHand(l) \in ResObjects /\ InHand(l)[1] = l
      BY <1>4, <2>3
      DEF PlanResource, MarkResourceCreating, MarkResourcePresent, ForgetResource, DriverAt, Making,
          InHand
    <3>2. \E s \in IntentStates : intent' = [intent EXCEPT ![InHand(l)] = s]
      BY <2>3
      DEF PlanResource, MarkResourceCreating, MarkResourcePresent, ForgetResource, SetIntent,
          IntentStates
    <3> QED
      BY <2>2, <3>1, <3>2
  <2>4. CASE MarkResourceDeleting(l)
    <3>1. CASE IntentsOf(l) = {}
      BY <2>1, <2>4, <3>1 DEF MarkResourceDeleting
    <3>2. CASE IntentsOf(l) # {}
      <4>1. FirstToGo(IntentsOf(l)) \in IntentsOf(l)
        BY <3>2, FirstIsMember DEF IntentsOf
      <4>2. intent' = [intent EXCEPT ![FirstToGo(IntentsOf(l))] = "deleting"]
        BY <2>4, <3>2 DEF MarkResourceDeleting, SetIntent
      <4> QED
        BY <2>2, <4>1, <4>2 DEF IntentsOf, IntentStates
    <3> QED
      BY <3>1, <3>2
  <2>5. CASE MarkResourceCleanup(l)
    BY <1>0, <2>5 DEF MarkResourceCleanup, IntentsOf, IntentStates
  <2> QED
    BY <2>1, <2>3, <2>4, <2>5
    DEF LeaseStep, LeaseCommits, CreateObject, Unwind, RemoveObject, CleanupFails, FinalizeLease,
        RetryLease, PruneLease
<1>8. /\ object' \subseteq ResObjects /\ sent' \subseteq ResObjects
      /\ \A x \in ResObjects : x[1] # l
           => (x \in object' <=> x \in object) /\ (x \in sent' <=> x \in sent)
  <2>1. CASE RemoveObject(l) \/ \E outcome \in {"made", "lost", "refused"} : CreateObject(l, outcome)
    <3>1. InHand(l) \in ResObjects /\ InHand(l)[1] = l
      BY <1>4, <2>1 DEF RemoveObject, CreateObject, DriverAt, Making, InHand
    <3>2. /\ object' \in {object, object \cup {InHand(l)}, object \ {InHand(l)}}
          /\ sent' \in {sent, sent \cup {InHand(l)}}
      BY <2>1 DEF RemoveObject, CreateObject
    <3> QED
      BY <1>0, <3>1, <3>2
  <2>2. CASE UNCHANGED <<object, sent>>
    BY <1>0, <2>2
  <2> QED
    BY <2>1, <2>2
    DEF LeaseStep, LeaseCommits, PlanResource, MarkResourceCreating, MarkResourcePresent, Unwind,
        MarkResourceCleanup, MarkResourceDeleting, ForgetResource, CleanupFails, FinalizeLease,
        RetryLease, PruneLease
<1> QED
  BY <1>0, <1>1, <1>3, <1>6, <1>7, <1>8 DEF ResTypes, LeaseFrame

\* What becomes of the driver in a step of its lease.
LEMMA LeaseMoves ==
  ASSUME ResTypes, DriverInv, NEW l \in ResLeases, LeaseStep(l)
  PROVE  DriverInv'
<1>0. /\ rlease \in [ResLeases -> LeaseStates] /\ driver \in [ResLeases -> DriverType]
      /\ intent \in [ResObjects -> IntentStates] /\ DriverOk(l)
  BY DEF ResTypes, DriverInv
<1>1. ResTypes' /\ LeaseFrame(l)
  BY LeaseTyped
<1>2. ASSUME NEW m \in ResLeases \ {l} PROVE DriverOk(m)'
  <2>1. /\ driver'[m] = driver[m] /\ rlease'[m] = rlease[m] /\ house' = house /\ DriverOk(m)
        /\ driver[m].at = "call" => InHand(m) \in ResObjects /\ InHand(m)[1] # l
    BY <1>1 DEF LeaseFrame, DriverInv, DriverOk, Making, InHand, ResObjects
  <2>2. driver[m].at = "call" => intent'[InHand(m)] = intent[InHand(m)]
    BY <1>1, <2>1 DEF LeaseFrame
  <2> QED
    BY <2>1, <2>2 DEF DriverOk, InHand
<1>3. DriverOk(l)'
  <2>1. CASE LeaseCommits(l)
    <3>1. rlease'[l] = "live" /\ driver'[l] = [at |-> "plan", kind |-> CreateOrder[1]]
            /\ house' = "serving"
      BY <1>0, <2>1 DEF LeaseCommits, Drive
    <3> QED
      BY <3>1, PlaceFacts DEF DriverOk, Making, LiveStates
  <2>2. CASE PlanResource(l)
    <3>1. /\ driver[l].at = "plan" /\ rlease' = rlease /\ house' = house
          /\ driver'[l] = [at |-> "mark", kind |-> driver[l].kind]
      BY <1>0, <2>2 DEF PlanResource, Drive, DriverAt
    <3> QED
      BY <1>0, <3>1 DEF DriverOk, Making
  <2>3. CASE MarkResourceCreating(l)
    <3>1. /\ driver[l].at = "mark" /\ rlease' = rlease /\ house' = house
          /\ driver'[l] = [at |-> "call", kind |-> driver[l].kind]
          /\ intent' = [intent EXCEPT ![InHand(l)] = "creating"]
      BY <1>0, <2>3 DEF MarkResourceCreating, Drive, DriverAt, SetIntent
    <3>2. InHand(l) \in ResObjects /\ InHand(l)' = InHand(l)
      BY <1>0, <3>1 DEF InHand, DriverOk, Making, ResObjects
    <3>3. intent'[InHand(l)'] # "none"
      BY <1>0, <3>1, <3>2
    <3> QED
      BY <1>0, <3>1, <3>3 DEF DriverOk, Making
  <2>4. CASE \E outcome \in {"made", "lost", "refused"} : CreateObject(l, outcome)
    <3>1. /\ driver[l].at = "call" /\ rlease' = rlease /\ house' = house
          /\ \/ driver'[l] = [at |-> "confirm", kind |-> driver[l].kind]
             \/ driver'[l] = [at |-> "queue", kind |-> "none"]
      BY <1>0, <2>4 DEF CreateObject, Drive, DriverAt
    <3> QED
      BY <1>0, <3>1 DEF DriverOk, Making
  <2>5. CASE MarkResourcePresent(l)
    <3>1. /\ driver[l].at = "confirm" /\ rlease' = rlease /\ house' = house
          /\ \/ driver'[l] = [at |-> "run", kind |-> "none"]
             \/ /\ NextKind(driver[l].kind) # "none"
                /\ driver'[l] = [at |-> "plan", kind |-> NextKind(driver[l].kind)]
      BY <1>0, <2>5 DEF MarkResourcePresent, Drive, DriverAt
    <3> QED
      BY <1>0, <3>1, PlaceFacts DEF DriverOk, Making
  <2>6. CASE Unwind(l) \/ RetryLease(l)
    <3>1. /\ driver[l].at # "none" \/ (rlease[l] \in LiveStates /\ house = "serving")
          /\ rlease' = rlease /\ house' = house /\ driver'[l] = [at |-> "queue", kind |-> "none"]
      BY <1>0, <2>6 DEF Unwind, RetryLease, Drive
    <3> QED
      BY <1>0, <3>1 DEF DriverOk, Making
  <2>7. CASE MarkResourceCleanup(l)
    <3>1. /\ driver[l].at = "queue" /\ rlease'[l] = "ending" /\ house' = house
          /\ driver'[l] = [at |-> "delete", kind |-> "none"]
      BY <1>0, <2>7 DEF MarkResourceCleanup, Drive, DriverAt
    <3> QED
      BY <1>0, <3>1 DEF DriverOk, Making, LiveStates
  <2>8. CASE MarkResourceDeleting(l)
    <3>1. driver[l].at = "delete" /\ rlease' = rlease /\ house' = house
      BY <2>8 DEF MarkResourceDeleting, DriverAt
    <3>2. CASE IntentsOf(l) = {}
      BY <1>0, <2>8, <3>1, <3>2 DEF MarkResourceDeleting, Drive, DriverOk, Making
    <3>3. CASE IntentsOf(l) # {}
      <4>1. FirstToGo(IntentsOf(l)) \in IntentsOf(l)
        BY <3>3, FirstIsMember DEF IntentsOf
      <4>2. FirstToGo(IntentsOf(l))[2] \in ObjectKinds
        BY <4>1 DEF IntentsOf, ResObjects
      <4>3. driver'[l] = [at |-> "remove", kind |-> FirstToGo(IntentsOf(l))[2]]
        BY <1>0, <2>8, <3>3 DEF MarkResourceDeleting, Drive
      <4> QED
        BY <1>0, <3>1, <4>2, <4>3 DEF DriverOk, Making
    <3> QED
      BY <3>2, <3>3
  <2>9. CASE RemoveObject(l)
    <3>1. /\ driver[l].at = "remove" /\ rlease' = rlease /\ house' = house
          /\ driver'[l] = [at |-> "forget", kind |-> driver[l].kind]
      BY <1>0, <2>9 DEF RemoveObject, Drive, DriverAt
    <3> QED
      BY <1>0, <3>1 DEF DriverOk, Making
  <2>10. CASE ForgetResource(l)
    <3>1. /\ driver[l].at = "forget" /\ rlease' = rlease /\ house' = house
          /\ driver'[l] = [at |-> "delete", kind |-> "none"]
      BY <1>0, <2>10 DEF ForgetResource, Drive, DriverAt
    <3> QED
      BY <1>0, <3>1 DEF DriverOk, Making
  <2>11. CASE CleanupFails(l) \/ FinalizeLease(l)
    <3>1. driver'[l] = NoDriver
      BY <1>0, <2>11 DEF CleanupFails, FinalizeLease, LeaveLease
    <3> QED
      BY <3>1 DEF DriverOk, Making, NoDriver
  <2>12. CASE PruneLease(l)
    <3>1. rlease[l] = "released" /\ driver' = driver
      BY <2>12 DEF PruneLease
    <3>2. driver[l] = NoDriver
      BY <1>0, <3>1 DEF DriverOk, LiveStates
    <3> QED
      BY <3>1, <3>2 DEF DriverOk, Making, NoDriver
  <2> QED
    BY <2>1, <2>2, <2>3, <2>4, <2>5, <2>6, <2>7, <2>8, <2>9, <2>10, <2>11, <2>12 DEF LeaseStep
<1> QED
  BY <1>2, <1>3 DEF DriverInv

\* What was asked for is never unmade again.
LEMMA LeaseMakesOnce ==
  ASSUME ResTypes, DriverInv, NEW l \in ResLeases, LeaseStep(l), NEW x \in ResObjects, ~Unmade(x)
  PROVE  ~Unmade(x)'
<1>0. /\ rlease \in [ResLeases -> LeaseStates] /\ driver \in [ResLeases -> DriverType] /\ DriverOk(l)
      /\ x[1] \in ResLeases /\ x[2] \in ObjectKinds
  BY DEF ResTypes, DriverInv, ResObjects
<1>1. CASE x[1] # l
  <2>1. rlease'[x[1]] = rlease[x[1]] /\ driver'[x[1]] = driver[x[1]]
    BY <1>0, <1>1, LeaseTyped DEF LeaseFrame
  <2> QED
    BY <2>1 DEF Unmade
<1>2. CASE x[1] = l
  <2>0. rlease[l] # "none"
    BY <1>2 DEF Unmade
  <2>1. rlease'[l] # "none"
    BY <1>0, <2>0
    DEF LeaseStep, LeaseCommits, PlanResource, MarkResourceCreating, MarkResourcePresent,
        CreateObject, Unwind, MarkResourceCleanup, MarkResourceDeleting, RemoveObject,
        ForgetResource, CleanupFails, FinalizeLease, RetryLease, PruneLease
  <2>2. CASE PlanResource(l) \/ MarkResourceCreating(l)
    <3>1. driver[l].at \in Making /\ driver'[l].at \in Making /\ driver'[l].kind = driver[l].kind
      BY <1>0, <2>2 DEF PlanResource, MarkResourceCreating, Drive, DriverAt, Making
    <3> QED
      BY <1>2, <2>1, <3>1 DEF Unmade, Making
  <2>3. CASE \E outcome \in {"made", "lost", "refused"} : CreateObject(l, outcome)
    <3>1. /\ driver[l].at = "call"
          /\ \/ driver'[l] = [at |-> "confirm", kind |-> driver[l].kind]
             \/ driver'[l] = [at |-> "queue", kind |-> "none"]
      BY <1>0, <2>3 DEF CreateObject, Drive, DriverAt
    <3>2. Place(driver[l].kind) \in Int /\ Place(x[2]) \in Int
      BY <1>0, <3>1, PlaceFacts DEF DriverOk, Making
    <3> QED
      BY <1>2, <2>1, <3>1, <3>2 DEF Unmade, Making
  <2>4. CASE MarkResourcePresent(l)
    <3>1. /\ driver[l].at = "confirm"
          /\ \/ driver'[l] = [at |-> "run", kind |-> "none"]
             \/ /\ NextKind(driver[l].kind) # "none"
                /\ driver'[l] = [at |-> "plan", kind |-> NextKind(driver[l].kind)]
      BY <1>0, <2>4 DEF MarkResourcePresent, Drive, DriverAt
    <3>2. /\ Place(driver[l].kind) \in Int /\ Place(x[2]) \in Int
          /\ NextKind(driver[l].kind) # "none"
               => Place(NextKind(driver[l].kind)) = Place(driver[l].kind) + 1
      BY <1>0, <3>1, PlaceFacts DEF DriverOk, Making
    <3> QED
      BY <1>2, <2>1, <3>1, <3>2 DEF Unmade, Making
  <2>5. CASE driver' = driver
    BY <1>2, <2>1, <2>5 DEF Unmade
  <2>6. CASE driver'[l].at \notin Making \cup {"confirm"}
    BY <1>2, <2>1, <2>6 DEF Unmade
  <2>7. CASE \/ Unwind(l) \/ MarkResourceCleanup(l) \/ MarkResourceDeleting(l) \/ RemoveObject(l)
             \/ ForgetResource(l) \/ CleanupFails(l) \/ FinalizeLease(l) \/ RetryLease(l)
    <3>1. driver'[l].at \notin Making \cup {"confirm"}
      BY <1>0, <2>7
      DEF Unwind, MarkResourceCleanup, MarkResourceDeleting, RemoveObject, ForgetResource, CleanupFails,
          FinalizeLease, RetryLease, Drive, LeaveLease, NoDriver, Making
    <3> QED
      BY <2>6, <3>1
  <2> QED
    BY <2>0, <2>2, <2>3, <2>4, <2>5, <2>7 DEF LeaseStep, LeaseCommits, PruneLease
<1> QED
  BY <1>1, <1>2

\* An object joins the daemon, or what may still appear, once and when nobody
\* had asked for it; all other steps of a lease only take objects away.
LEMMA LeaseMade ==
  ASSUME ResTypes, DriverInv, MadeInv, NEW l \in ResLeases, LeaseStep(l)
  PROVE  MadeInv'
<1>0. /\ driver \in [ResLeases -> DriverType] /\ DriverOk(l) /\ object \subseteq ResObjects
      /\ sent \subseteq ResObjects /\ sweep.seen \subseteq ResObjects /\ sweep' = sweep
  BY LeaseTyped DEF ResTypes, DriverInv, SweepType, LeaseFrame
<1>1. CASE \E outcome \in {"made", "lost", "refused"} : CreateObject(l, outcome)
  <2>1. /\ driver[l].at = "call" /\ rlease' = rlease
        /\ \/ object' = object /\ sent' = sent
           \/ /\ object' = object \cup {InHand(l)} /\ sent' = sent
              /\ driver'[l] = [at |-> "confirm", kind |-> driver[l].kind]
           \/ /\ sent' = sent \cup {InHand(l)} /\ object' = object
              /\ driver'[l] = [at |-> "queue", kind |-> "none"]
    BY <1>0, <1>1 DEF CreateObject, Drive, DriverAt
  <2>2. /\ driver[l].kind \in ObjectKinds /\ rlease[l] = "live" /\ InHand(l) \in ResObjects
        /\ Place(driver[l].kind) \in Int
    BY <1>0, <2>1, PlaceFacts DEF DriverOk, Making, InHand, ResObjects
  <2>3. Unmade(InHand(l))
    BY <2>1, <2>2 DEF Unmade, InHand, Making
  <2>4. InHand(l) \notin object \cup sent \cup sweep.seen
    BY <2>3 DEF MadeInv
  <2>5. \A x \in ResObjects : x = InHand(l) /\ (sent' # sent \/ object' # object) => ~Unmade(x)'
    BY <2>1, <2>2 DEF Unmade, InHand, Making
  <2>6. \A x \in object \cup sent \cup sweep.seen : ~Unmade(x)'
    BY <1>0, LeaseMakesOnce DEF MadeInv
  <2>7. \A x \in object' \cup sent' \cup sweep'.seen : ~Unmade(x)'
    <3> SUFFICES ASSUME NEW x \in object' \cup sent' \cup sweep'.seen PROVE ~Unmade(x)'
      OBVIOUS
    <3>1. CASE x \in object \cup sent \cup sweep.seen
      BY <2>6, <3>1
    <3>2. CASE x \notin object \cup sent \cup sweep.seen
      <4>1. x = InHand(l) /\ (sent' # sent \/ object' # object)
        BY <1>0, <2>1, <3>2
      <4> QED
        BY <2>2, <2>5, <4>1
    <3> QED
      BY <3>1, <3>2
  <2>8. sent' \cap (object' \cup sweep'.seen) = {}
    BY <1>0, <2>1, <2>4 DEF MadeInv
  <2> QED
    BY <2>7, <2>8 DEF MadeInv
<1>2. CASE ~\E outcome \in {"made", "lost", "refused"} : CreateObject(l, outcome)
  <2>1. object' \subseteq object /\ sent' = sent
    BY <1>2
    DEF LeaseStep, LeaseCommits, PlanResource, MarkResourceCreating, MarkResourcePresent, Unwind,
        MarkResourceCleanup, MarkResourceDeleting, RemoveObject, ForgetResource, CleanupFails,
        FinalizeLease, RetryLease, PruneLease
  <2>2. \A x \in object \cup sent \cup sweep.seen : ~Unmade(x)'
    BY <1>0, LeaseMakesOnce DEF MadeInv
  <2> QED
    BY <1>0, <2>1, <2>2 DEF MadeInv
<1> QED
  BY <1>1, <1>2

\* An intent is recorded only for a lease that is not over and forgotten only
\* once its lease is ending, and a create finds its intent on record.
LEMMA LeaseBooks ==
  ASSUME ResTypes, DriverInv, MadeInv, BooksInv, NEW l \in ResLeases, LeaseStep(l)
  PROVE  BooksInv'
<1>0. /\ rlease \in [ResLeases -> LeaseStates] /\ driver \in [ResLeases -> DriverType] /\ DriverOk(l)
      /\ intent \in [ResObjects -> IntentStates] /\ object \subseteq ResObjects
      /\ sent \subseteq ResObjects
  BY DEF ResTypes, DriverInv
<1>1. LeaseFrame(l) /\ ResTypes'
  BY LeaseTyped
<1>2. ASSUME NEW m \in ResLeases, m # l, rlease'[m] \in Over PROVE IntentsOf(m)' = {}
  <2>1. IntentsOf(m) = {} /\ \A x \in ResObjects : x[1] = m => intent'[x] = intent[x]
    BY <1>1, <1>2 DEF LeaseFrame, BooksInv
  <2> QED
    BY <2>1 DEF IntentsOf
<1>3. ASSUME NEW x \in object' \cup sent', x[1] # l, rlease'[x[1]] = "live" PROVE intent'[x] # "none"
  <2>1. x \in ResObjects
    BY <1>1 DEF ResTypes
  <2>2. x \in object \cup sent /\ rlease[x[1]] = "live" /\ intent'[x] = intent[x]
    BY <1>1, <1>3, <2>1 DEF LeaseFrame, ResObjects
  <2> QED
    BY <2>2 DEF BooksInv
<1>4. ASSUME rlease'[l] \in Over PROVE IntentsOf(l)' = {}
  <2>1. CASE FinalizeLease(l) \/ PruneLease(l)
    BY <2>1 DEF FinalizeLease, PruneLease, IntentsOf
  <2>2. CASE ~(FinalizeLease(l) \/ PruneLease(l))
    <3>1. rlease[l] \in Over /\ driver[l].at = "none"
      BY <1>0, <1>4, <2>2
      DEF LeaseStep, LeaseCommits, PlanResource, MarkResourceCreating, MarkResourcePresent,
          CreateObject, Unwind, MarkResourceCleanup, MarkResourceDeleting, RemoveObject,
          ForgetResource, CleanupFails, RetryLease, Over, DriverOk, LiveStates
    <3>2. FALSE
      BY <2>2, <3>1
      DEF LeaseStep, LeaseCommits, PlanResource, MarkResourceCreating, MarkResourcePresent,
          CreateObject, Unwind, MarkResourceCleanup, MarkResourceDeleting, RemoveObject,
          ForgetResource, CleanupFails, RetryLease, Over, DriverAt, LiveStates
    <3> QED
      BY <3>2
  <2> QED
    BY <2>1, <2>2
<1>5. ASSUME NEW x \in object' \cup sent', x[1] = l, rlease'[l] = "live" PROVE intent'[x] # "none"
  <2>0. x \in ResObjects
    BY <1>1 DEF ResTypes
  <2>1. CASE LeaseCommits(l)
    <3>1. x \in object \cup sent /\ rlease[l] = "none"
      BY <1>5, <2>1 DEF LeaseCommits
    <3> QED
      BY <1>5, <3>1 DEF MadeInv, Unmade
  <2>2. CASE \E outcome \in {"made", "lost", "refused"} : CreateObject(l, outcome)
    <3>1. /\ x \in object \cup sent \cup {InHand(l)} /\ intent' = intent /\ rlease' = rlease
          /\ intent[InHand(l)] # "none"
      BY <1>0, <2>2 DEF CreateObject, DriverOk, DriverAt
    <3> QED
      BY <1>5, <3>1 DEF BooksInv
  <2>3. CASE PlanResource(l) \/ MarkResourceCreating(l) \/ MarkResourcePresent(l)
    <3>1. /\ x \in object \cup sent /\ rlease' = rlease
          /\ \E s \in IntentStates \ {"none"} : intent' = [intent EXCEPT ![InHand(l)] = s]
      BY <2>3 DEF PlanResource, MarkResourceCreating, MarkResourcePresent, SetIntent, IntentStates
    <3>2. intent[x] # "none"
      BY <1>5, <3>1 DEF BooksInv
    <3> QED
      BY <1>0, <2>0, <3>1, <3>2
  <2>4. CASE MarkResourceCleanup(l) \/ MarkResourceDeleting(l) \/ RemoveObject(l) \/ ForgetResource(l)
             \/ FinalizeLease(l) \/ PruneLease(l)
    BY <1>0, <1>5, <2>4
    DEF MarkResourceCleanup, MarkResourceDeleting, RemoveObject, ForgetResource, FinalizeLease,
        PruneLease, DriverAt, DriverOk
  <2>5. CASE Unwind(l) \/ CleanupFails(l) \/ RetryLease(l)
    BY <1>5, <2>5 DEF Unwind, CleanupFails, RetryLease, BooksInv
  <2> QED
    BY <2>1, <2>2, <2>3, <2>4, <2>5 DEF LeaseStep
<1>6. \A m \in ResLeases : rlease'[m] \in Over => IntentsOf(m)' = {}
  <2> SUFFICES ASSUME NEW m \in ResLeases, rlease'[m] \in Over PROVE IntentsOf(m)' = {}
    OBVIOUS
  <2>1. CASE m # l
    BY <1>2, <2>1
  <2>2. CASE m = l
    BY <1>4, <2>2 DEF IntentsOf
  <2> QED
    BY <2>1, <2>2
<1> QED
  BY <1>3, <1>5, <1>6 DEF BooksInv

\* A lease that commits, ends or is released while a sweep works disturbs
\* nothing the sweep relies on.
LEMMA LeaseSweep ==
  ASSUME ResTypes, DriverInv, MadeInv, SweepInv, NEW l \in ResLeases, LeaseStep(l)
  PROVE  SweepInv'
<1>0. /\ rlease \in [ResLeases -> LeaseStates] /\ driver \in [ResLeases -> DriverType] /\ DriverOk(l)
      /\ object \subseteq ResObjects /\ sweep \in SweepType
  BY DEF ResTypes, DriverInv
<1>1. LeaseFrame(l) /\ sweep' = sweep /\ house' = house
  BY LeaseTyped DEF LeaseFrame
<1>2. sweep.seen \cap object' \subseteq object
  <2> SUFFICES ASSUME NEW x \in sweep.seen, x \in object', x \notin object PROVE FALSE
    OBVIOUS
  <2>1. x = InHand(l) /\ driver[l].at = "call" /\ rlease[l] = "live" /\ driver[l].kind \in ObjectKinds
    BY <1>0
    DEF LeaseStep, LeaseCommits, PlanResource, MarkResourceCreating, MarkResourcePresent,
        CreateObject, Unwind, MarkResourceCleanup, MarkResourceDeleting, RemoveObject,
        ForgetResource, CleanupFails, FinalizeLease, RetryLease, PruneLease, DriverAt, DriverOk,
        Making
  <2>2. Place(driver[l].kind) \in Int
    BY <2>1, PlaceFacts
  <2>3. Unmade(InHand(l))
    BY <2>1, <2>2 DEF Unmade, InHand, Making
  <2> QED
    BY <2>1, <2>3 DEF MadeInv
<1>3. sweep.last \cap object' = {}
        /\ (sweep.mode \in {"cleanup", "uninstall"} => sweep.gone \cap object' = {})
  BY <1>2 DEF SweepInv
<1>4. ASSUME NEW m \in ResLeases, driver[m] = NoDriver, house = "repair" PROVE driver'[m] = NoDriver
  <2>1. CASE m # l
    BY <1>1, <1>4, <2>1 DEF LeaseFrame
  <2>2. CASE m = l
    BY <1>0, <1>4, <2>2
    DEF LeaseStep, LeaseCommits, PlanResource, MarkResourceCreating, MarkResourcePresent,
        CreateObject, Unwind, MarkResourceCleanup, MarkResourceDeleting, RemoveObject,
        ForgetResource, CleanupFails, FinalizeLease, RetryLease, PruneLease, DriverAt, NoDriver
  <2> QED
    BY <2>1, <2>2
<1>5. ASSUME NEW m \in ResLeases, rlease[m] \in Over PROVE rlease'[m] \in Over
  <2>1. CASE m # l
    BY <1>1, <1>5, <2>1 DEF LeaseFrame
  <2>2. CASE m = l
    BY <1>0, <1>5, <2>2
    DEF LeaseStep, LeaseCommits, PlanResource, MarkResourceCreating, MarkResourcePresent,
        CreateObject, Unwind, MarkResourceCleanup, MarkResourceDeleting, RemoveObject,
        ForgetResource, CleanupFails, FinalizeLease, RetryLease, PruneLease, DriverAt, DriverOk,
        LiveStates, Over
  <2> QED
    BY <2>1, <2>2
<1>6. sweep.mode = "startup" => sweep.at > 0 /\ house = "repair"
  BY <1>0 DEF SweepInv, SweepType, ModeHolder
<1>7. \A x \in sweep.seen : x[1] \in ResLeases
  BY <1>0 DEF SweepType, ResObjects
<1> QED
  BY <1>1, <1>3, <1>4, <1>5, <1>6, <1>7 DEF SweepInv

-----------------------------------------------------------------------------
(* The process and the sweep *)

\* With no controller nobody drives a lease.
LEMMA NobodyDrives ==
  ASSUME ResTypes, DriverInv, house \in {"down", "command"}
  PROVE  \A l \in ResLeases : driver[l] = NoDriver
  BY DEF DriverInv, DriverOk

\* A step of the process or of the sweep that changes no lease and no intent,
\* and makes nothing.
QuietStep ==
  /\ UNCHANGED <<rlease, intent, sent>> /\ object' \subseteq object
  /\ sweep' \in SweepType /\ sweep'.seen \subseteq object \cup sweep.seen
  /\ house' \in {"down", "repair", "serving", "command"}
  /\ driver' = driver \/ driver' = [l \in ResLeases |-> NoDriver]
  /\ house' \in {"serving", "repair"} \/ house' = house \/ \A l \in ResLeases : driver'[l] = NoDriver

\* Such a step keeps the books and all that holds of the leases.
LEMMA QuietKeeps ==
  ASSUME ResTypes, DriverInv, MadeInv, BooksInv, QuietStep
  PROVE  ResTypes' /\ DriverInv' /\ MadeInv' /\ BooksInv'
<1>0. /\ rlease' = rlease /\ intent' = intent /\ sent' = sent /\ object' \subseteq object
      /\ sweep' \in SweepType /\ sweep'.seen \subseteq object \cup sweep.seen
      /\ object \subseteq ResObjects /\ sent \subseteq ResObjects /\ sweep.seen \subseteq ResObjects
      /\ driver \in [ResLeases -> DriverType]
  BY DEF QuietStep, ResTypes, SweepType
<1>1. NoDriver \in DriverType
  BY DEF NoDriver, DriverType
<1>2. ResTypes'
  BY <1>0, <1>1 DEF ResTypes, QuietStep
<1>3. \A l \in ResLeases : driver'[l] = driver[l] \/ driver'[l] = NoDriver
  BY DEF QuietStep
<1>4. ASSUME NEW l \in ResLeases PROVE DriverOk(l)'
  <2>1. CASE driver'[l] = NoDriver
    BY <2>1 DEF DriverOk, NoDriver, Making
  <2>2. CASE driver'[l] = driver[l] /\ driver'[l] # NoDriver
    <3>1. DriverOk(l) /\ (house' \in {"serving", "repair"} \/ house' = house)
      BY <2>2 DEF DriverInv, QuietStep
    <3> QED
      BY <1>0, <2>2, <3>1 DEF DriverOk, InHand
  <2> QED
    BY <1>3, <2>1, <2>2
<1>5. ASSUME NEW x \in object \cup sent \cup sweep.seen PROVE ~Unmade(x)'
  <2>1. ~Unmade(x) /\ x[1] \in ResLeases
    BY <1>0 DEF MadeInv, ResObjects
  <2> QED
    BY <1>0, <1>3, <2>1 DEF Unmade, NoDriver, Making
<1>6. MadeInv'
  BY <1>0, <1>5 DEF MadeInv
<1>7. BooksInv'
  <2>1. \A l : IntentsOf(l)' = IntentsOf(l)
    BY <1>0 DEF IntentsOf
  <2> QED
    BY <1>0, <2>1 DEF BooksInv
<1> QED
  BY <1>2, <1>4, <1>6, <1>7 DEF DriverInv

\* Which step of the sweep comes at which place.
LEMMA SweepPlaces ==
  ASSUME sweep \in SweepType
  PROVE  /\ SweepAt("list") <=> sweep.at = 1
         /\ SweepAt("live") <=> sweep.at = 2
         /\ SweepAt("remove") <=> sweep.at = 3
         /\ SweepAt("forget") <=> sweep.at = 4
  BY DEF SweepAt, SweepOrder, SweepType

\* The sweep with these fields.
SweepRec(m, a, s, k, g, t) == [mode |-> m, at |-> a, seen |-> s, keep |-> k, gone |-> g, last |-> t]

\* Its fields, and that it is a sweep when they are typed.
LEMMA SweepRecord ==
  ASSUME NEW m \in SweepModes, NEW a \in 0..4, NEW s \in SUBSET ResObjects, NEW k \in SUBSET ResLeases,
         NEW g \in SUBSET ResObjects, NEW t \in SUBSET ResObjects, NEW w, w = SweepRec(m, a, s, k, g, t)
  PROVE  /\ w \in SweepType
         /\ w.mode = m /\ w.at = a /\ w.seen = s /\ w.keep = k /\ w.gone = g /\ w.last = t
  BY DEF SweepType, SweepRec

\* A sweep is the record of its fields, and they are typed.
LEMMA SweepFields ==
  ASSUME sweep \in SweepType
  PROVE  /\ sweep = SweepRec(sweep.mode, sweep.at, sweep.seen, sweep.keep, sweep.gone, sweep.last)
         /\ sweep.mode \in SweepModes /\ sweep.at \in 0..4 /\ sweep.seen \in SUBSET ResObjects
         /\ sweep.keep \in SUBSET ResLeases /\ sweep.gone \in SUBSET ResObjects
         /\ sweep.last \in SUBSET ResObjects
  BY DEF SweepType, SweepRec

\* A sweep begins having seen nothing: at startup once every lease that is not
\* adopted is let go, and a command only when no controller runs.
LEMMA SweepBegins ==
  ASSUME ResInv,
         StartupSweep \/ PeriodicSweep \/ \E mode \in {"cleanup", "uninstall"} : Maintenance(mode)
  PROVE  ResInv'
<1>0. /\ ResTypes /\ DriverInv /\ MadeInv /\ BooksInv /\ SweepInv /\ sweep \in SweepType
      /\ house \in {"down", "repair", "serving", "command"}
  BY DEF ResInv, ResTypes
<1>1. sweep \in SweepType
  BY <1>0
<1>2. /\ sweep.seen \in SUBSET ResObjects /\ sweep.keep \in SUBSET ResLeases
      /\ sweep.gone \in SUBSET ResObjects
       /\ sweep.last \in SUBSET ResObjects /\ 1 \in 0..4 /\ {} \in SUBSET ResObjects
       /\ {} \in SUBSET ResLeases
       /\ {"startup", "periodic", "cleanup", "uninstall"} \subseteq SweepModes
  BY <1>1, SweepFields DEF SweepModes
<1>3. /\ sweep' \in SweepType /\ sweep'.at = 1 /\ sweep'.mode # "none"
      /\ house' = ModeHolder[sweep'.mode]
      /\ sweep'.seen = {} /\ sweep'.gone = {} /\ sweep'.last = {}
      /\ sweep'.mode = "startup" => \A l \in ResLeases \ sweep'.keep : driver[l] = NoDriver
  <2>1. CASE StartupSweep
    <3>1. /\ sweep' = [sweep EXCEPT !.mode = "startup", !.at = 1] /\ house' = "repair" /\ sweep.at = 0
          /\ \A l \in ResLeases : l \in sweep.keep \/ driver[l] = NoDriver
      BY <2>1 DEF StartupSweep
    <3>2. sweep' = SweepRec("startup", 1, sweep.seen, sweep.keep, sweep.gone, sweep.last)
      BY <1>1, <3>1 DEF SweepType, SweepRec
    <3>3. sweep.seen = {} /\ sweep.gone = {} /\ sweep.last = {}
      BY <1>0, <3>1 DEF SweepInv
    <3>4. /\ sweep' \in SweepType /\ sweep'.mode = "startup" /\ sweep'.at = 1 /\ sweep'.seen = sweep.seen
          /\ sweep'.gone = sweep.gone /\ sweep'.last = sweep.last /\ sweep'.keep = sweep.keep
      BY <3>2, <1>2, SweepRecord
    <3> QED
      BY <3>1, <3>3, <3>4 DEF ModeHolder
  <2>2. CASE PeriodicSweep
    <3>1. sweep' = SweepRec("periodic", 1, {}, {}, {}, {})
      BY <2>2 DEF PeriodicSweep, NoSweep, SweepRec
    <3>2. /\ sweep' \in SweepType /\ sweep'.mode = "periodic" /\ sweep'.at = 1 /\ sweep'.seen = {}
          /\ sweep'.gone = {} /\ sweep'.last = {}
      BY <3>1, <1>2, SweepRecord
    <3> QED
      BY <2>2, <3>2 DEF PeriodicSweep, ModeHolder
  <2>3. ASSUME NEW mode \in {"cleanup", "uninstall"}, Maintenance(mode)
        PROVE  sweep' = SweepRec(mode, 1, {}, {}, {}, {}) /\ house' = "command"
    BY <2>3 DEF Maintenance, NoSweep, SweepRec
  <2>4. CASE \E mode \in {"cleanup", "uninstall"} : Maintenance(mode)
    <3>1. PICK mode \in {"cleanup", "uninstall"} : Maintenance(mode)
      BY <2>4
    <3>2. sweep' = SweepRec(mode, 1, {}, {}, {}, {}) /\ house' = "command"
      BY <2>3, <3>1
    <3>3. /\ sweep' \in SweepType /\ sweep'.mode = mode /\ sweep'.at = 1 /\ sweep'.seen = {}
          /\ sweep'.gone = {} /\ sweep'.last = {}
      BY <3>2, <1>2, SweepRecord
    <3> QED
      BY <3>2, <3>3 DEF ModeHolder
  <2> QED
    BY <2>1, <2>2, <2>4
<1>4. QuietStep
  <2>1. house' \in {"serving", "repair"} \/ \A l \in ResLeases : driver[l] = NoDriver
    BY <1>0, NobodyDrives DEF StartupSweep, PeriodicSweep, Maintenance
  <2> QED
    BY <1>0, <1>3, <2>1 DEF QuietStep, StartupSweep, PeriodicSweep, Maintenance
<1>5. driver' = driver /\ object' = object
  BY DEF StartupSweep, PeriodicSweep, Maintenance
<1>6. SweepInv'
  BY <1>3, <1>5 DEF SweepInv
<1> QED
  BY <1>0, <1>4, <1>6, QuietKeeps DEF ResInv

\* The listing comes first: what it shows belongs to leases that had committed
\* by then, so the leases that are live afterwards cover what may be in use.
LEMMA SweepReads == ASSUME ResInv, ListObjects \/ ReadLive PROVE ResInv'
<1>0. /\ ResTypes /\ DriverInv /\ MadeInv /\ BooksInv /\ SweepInv /\ sweep \in SweepType
      /\ object \subseteq ResObjects /\ rlease \in [ResLeases -> LeaseStates]
      /\ house \in {"down", "repair", "serving", "command"}
      /\ \A x \in sweep.seen : x \in ResObjects /\ x[1] \in ResLeases /\ ~Unmade(x)
  BY DEF ResInv, ResTypes, SweepType, ResObjects, MadeInv
<1>1. /\ sweep \in SweepType /\ sweep.mode \in SweepModes /\ sweep.seen \in SUBSET ResObjects
      /\ sweep.keep \in SUBSET ResLeases /\ sweep.gone \in SUBSET ResObjects
      /\ sweep.last \in SUBSET ResObjects
      /\ 2 \in 0..4 /\ 3 \in 0..4 /\ object \in SUBSET ResObjects
  BY <1>0, SweepFields
<1>2. CASE ListObjects
  <2>1. /\ sweep.at = 1 /\ sweep' = [sweep EXCEPT !.at = @ + 1, !.seen = object]
        /\ UNCHANGED <<rlease, driver, intent, object, sent, house>>
    BY <1>0, <1>2, SweepPlaces DEF ListObjects
  <2>2. /\ sweep'.at = 2 /\ sweep'.seen = object /\ sweep'.mode = sweep.mode /\ sweep'.keep = sweep.keep
        /\ sweep'.gone = sweep.gone /\ sweep'.last = sweep.last /\ sweep' \in SweepType
    <3>1. sweep \in SweepType /\ sweep' = [sweep EXCEPT !.at = 2, !.seen = object]
      BY <1>1, <2>1
    <3>2. sweep' = SweepRec(sweep.mode, 2, object, sweep.keep, sweep.gone, sweep.last)
      BY <3>1 DEF SweepType, SweepRec
    <3> QED
      BY <1>1, <3>2, SweepRecord
  <2>3. sweep.gone = {} /\ sweep.last = {}
    BY <1>0, <2>1 DEF SweepInv
  <2>4. QuietStep
    BY <1>0, <2>1, <2>2 DEF QuietStep
  <2>5. SweepInv'
    BY <1>0, <2>1, <2>2, <2>3 DEF SweepInv
  <2> QED
    BY <1>0, <2>4, <2>5, QuietKeeps DEF ResInv
<1>3. CASE ReadLive
  <2> DEFINE k == CASE sweep.mode = "startup" -> sweep.keep
                    [] sweep.mode = "uninstall" -> {}
                    [] OTHER -> LiveLeases
  <2>1. /\ sweep.at = 2 /\ sweep' = [sweep EXCEPT !.at = @ + 1, !.keep = k]
        /\ UNCHANGED <<rlease, driver, intent, object, sent, house>>
    BY <1>0, <1>3, SweepPlaces DEF ReadLive
  <2>2. /\ k \in SUBSET ResLeases
        /\ sweep.mode = "startup" => k = sweep.keep
        /\ sweep.mode = "uninstall" => k = {}
        /\ sweep.mode \in {"periodic", "cleanup"} => k = LiveLeases
    BY <1>0 DEF SweepType, LiveLeases
  <2> HIDE DEF k
  <2>3. /\ sweep'.at = 3 /\ sweep'.seen = sweep.seen /\ sweep'.mode = sweep.mode /\ sweep'.keep = k
        /\ sweep'.gone = sweep.gone /\ sweep'.last = sweep.last /\ sweep' \in SweepType
    <3>1. sweep \in SweepType /\ sweep' = [sweep EXCEPT !.at = 3, !.keep = k]
      BY <1>1, <2>1
    <3>2. sweep' = SweepRec(sweep.mode, 3, sweep.seen, k, sweep.gone, sweep.last)
      BY <3>1 DEF SweepType, SweepRec
    <3> QED
      BY <1>1, <2>2, <3>2, SweepRecord
  <2>4. sweep.gone = {} /\ sweep.last = {}
    BY <1>0, <2>1 DEF SweepInv
  <2>5. QuietStep
    BY <1>0, <2>1, <2>3 DEF QuietStep
  <2>6. \A x \in sweep.seen : x[1] \in LiveLeases \/ rlease[x[1]] \in Over
    BY <1>0 DEF LiveLeases, LiveStates, LeaseStates, Unmade
  <2>7. SweepInv'
    BY <1>0, <2>1, <2>2, <2>3, <2>4, <2>6 DEF SweepInv
  <2> QED
    BY <1>0, <2>5, <2>7, QuietKeeps DEF ResInv
<1> QED
  BY <1>2, <1>3

\* No sweep in progress satisfies all that is asked of one.
LEMMA NoSweepFacts ==
  /\ NoSweep \in SweepType /\ NoSweep.mode = "none" /\ NoSweep.at = 0 /\ NoSweep.seen = {}
  /\ NoSweep.gone = {} /\ NoSweep.last = {}
<1>1. NoSweep = SweepRec("none", 0, {}, {}, {}, {})
  BY DEF NoSweep, SweepRec
<1>2. "none" \in SweepModes /\ 0 \in 0..4 /\ {} \in SUBSET ResObjects /\ {} \in SUBSET ResLeases
  BY DEF SweepModes
<1> QED
  BY <1>1, <1>2, SweepRecord

\* What is removed was listed and belongs to no lease that is kept; a command
\* that could not remove an object stops there.
LEMMA SweepRemoves == ASSUME ResInv, RemoveSwept \/ RemoveSweptFails PROVE ResInv'
<1>0. /\ ResTypes /\ DriverInv /\ MadeInv /\ BooksInv /\ SweepInv /\ sweep \in SweepType
      /\ object \subseteq ResObjects /\ house \in {"down", "repair", "serving", "command"}
  BY DEF ResInv, ResTypes
<1>1. /\ sweep \in SweepType /\ sweep.mode \in SweepModes /\ sweep.seen \in SUBSET ResObjects
      /\ sweep.keep \in SUBSET ResLeases /\ sweep.gone \in SUBSET ResObjects
      /\ sweep.last \in SUBSET ResObjects
      /\ 3 \in 0..4 /\ 4 \in 0..4
  BY <1>0, SweepFields
<1>2. sweep.at = 3 /\ LeftToSweep # {}
  BY <1>0, SweepPlaces DEF RemoveSwept, RemoveSweptFails
<1> DEFINE y == FirstToGo(LeftToSweep)
<1>3. y \in sweep.seen /\ y \in ResObjects
  <2>1. LeftToSweep \in SUBSET ResObjects
    BY <1>1 DEF LeftToSweep
  <2>2. y \in LeftToSweep
    BY <1>2, <2>1, FirstIsMember
  <2> QED
    BY <1>1, <2>2 DEF LeftToSweep
<1>4. CASE RemoveSwept
  <2> DEFINE a == IF sweep.mode \in {"startup", "periodic"} THEN 4 ELSE 3
  <2>1. /\ sweep' = [sweep EXCEPT !.gone = sweep.gone \cup {y}, !.last = {y}, !.at = a]
        /\ object' = object \ {y} /\ UNCHANGED <<rlease, driver, intent, sent, house>>
    BY <1>2, <1>4 DEF RemoveSwept
  <2>2. a \in {3, 4} /\ sweep.gone \cup {y} \in SUBSET ResObjects /\ {y} \in SUBSET ResObjects
    BY <1>1, <1>3
  <2> HIDE DEF a, y
  <2>3. /\ sweep'.at = a /\ sweep'.seen = sweep.seen /\ sweep'.mode = sweep.mode
        /\ sweep'.keep = sweep.keep
        /\ sweep'.gone = sweep.gone \cup {y} /\ sweep'.last = {y} /\ sweep' \in SweepType
    <3>1. sweep' = SweepRec(sweep.mode, a, sweep.seen, sweep.keep, sweep.gone \cup {y}, {y})
      BY <1>1, <2>1 DEF SweepType, SweepRec
    <3> QED
      BY <1>1, <2>2, <3>1, SweepRecord
  <2>4. QuietStep
    BY <1>0, <2>1, <2>3 DEF QuietStep
  <2>5. SweepInv'
    BY <1>0, <1>2, <1>3, <2>1, <2>2, <2>3 DEF SweepInv
  <2> QED
    BY <1>0, <2>4, <2>5, QuietKeeps DEF ResInv
<1>5. CASE RemoveSweptFails /\ sweep.mode \in {"startup", "periodic"}
  <2>1. /\ sweep' = [sweep EXCEPT !.gone = sweep.gone \cup {y}]
        /\ UNCHANGED <<rlease, driver, intent, object, sent, house>>
    BY <1>5 DEF RemoveSweptFails
  <2>2. sweep.gone \cup {y} \in SUBSET ResObjects
    BY <1>1, <1>3
  <2> HIDE DEF y
  <2>3. /\ sweep'.at = 3 /\ sweep'.seen = sweep.seen /\ sweep'.mode = sweep.mode
        /\ sweep'.keep = sweep.keep
        /\ sweep'.gone = sweep.gone \cup {y} /\ sweep'.last = sweep.last /\ sweep' \in SweepType
    <3>1. sweep' = SweepRec(sweep.mode, 3, sweep.seen, sweep.keep, sweep.gone \cup {y}, sweep.last)
      BY <1>1, <1>2, <2>1 DEF SweepType, SweepRec
    <3> QED
      BY <1>1, <2>2, <3>1, SweepRecord
  <2>4. QuietStep
    BY <1>0, <2>1, <2>3 DEF QuietStep
  <2>5. SweepInv'
    BY <1>0, <1>2, <1>3, <1>5, <2>1, <2>2, <2>3 DEF SweepInv
  <2> QED
    BY <1>0, <2>4, <2>5, QuietKeeps DEF ResInv
<1>6. CASE RemoveSweptFails /\ sweep.mode \notin {"startup", "periodic"}
  <2>1. sweep' = NoSweep /\ house' = "down" /\ UNCHANGED <<rlease, driver, intent, object, sent>>
    BY <1>6 DEF RemoveSweptFails
  <2>2. house = "command"
    BY <1>0, <1>1, <1>2, <1>6 DEF SweepInv, SweepModes, ModeHolder
  <2>3. \A l \in ResLeases : driver[l] = NoDriver
    BY <1>0, <2>2, NobodyDrives
  <2>4. QuietStep
    BY <2>1, <2>3, NoSweepFacts DEF QuietStep
  <2>5. SweepInv'
    BY <2>1, NoSweepFacts DEF SweepInv
  <2> QED
    BY <1>0, <2>4, <2>5, QuietKeeps DEF ResInv
<1> QED
  BY <1>4, <1>5, <1>6

\* An intent is forgotten once its object is gone, and an object that is gone
\* does not come back.
LEMMA SweepForgets == ASSUME ResInv, ForgetSwept PROVE ResInv'
<1>0. /\ ResTypes /\ DriverInv /\ MadeInv /\ BooksInv /\ SweepInv /\ sweep \in SweepType
      /\ intent \in [ResObjects -> IntentStates] /\ object \subseteq ResObjects
      /\ sent \subseteq ResObjects
      /\ driver \in [ResLeases -> DriverType]
  BY DEF ResInv, ResTypes
<1>1. /\ sweep \in SweepType /\ sweep.mode \in SweepModes /\ sweep.seen \in SUBSET ResObjects
      /\ sweep.keep \in SUBSET ResLeases /\ sweep.gone \in SUBSET ResObjects
      /\ sweep.last \in SUBSET ResObjects
      /\ 3 \in 0..4 /\ {} \in SUBSET ResObjects
  BY <1>0, SweepFields
<1> DEFINE found == {x \in sweep.last : x \in confirmed \/ x[2] = "volume"}
<1>2. /\ sweep.at = 4 /\ sweep' = [sweep EXCEPT !.at = 3, !.last = {}]
      /\ intent' = [x \in ResObjects |-> IF x \in found THEN "none" ELSE intent[x]]
      /\ UNCHANGED <<rlease, driver, object, sent, house>>
  <2>1. sweep.at = 4
    BY <1>0, SweepPlaces DEF ForgetSwept
  <2>2. sweep.at - 1 = 3
    BY <2>1
  <2> QED
    BY <2>1, <2>2 DEF ForgetSwept
<1> found \subseteq sweep.last
  OBVIOUS
<1> HIDE DEF found
<1>3. /\ sweep'.at = 3 /\ sweep'.seen = sweep.seen /\ sweep'.mode = sweep.mode
      /\ sweep'.keep = sweep.keep
      /\ sweep'.gone = sweep.gone /\ sweep'.last = {} /\ sweep' \in SweepType
  <2>1. sweep' = SweepRec(sweep.mode, 3, sweep.seen, sweep.keep, sweep.gone, {})
    BY <1>1, <1>2 DEF SweepType, SweepRec
  <2> QED
    BY <1>1, <2>1, SweepRecord
<1>4. sweep.last \cap (object \cup sent) = {} /\ sweep.last \subseteq sweep.seen
  BY <1>0 DEF SweepInv, MadeInv
<1>5. ResTypes'
  BY <1>0, <1>2, <1>3 DEF ResTypes, IntentStates
<1>6. ASSUME NEW l \in ResLeases PROVE DriverOk(l)'
  <2>1. DriverOk(l) /\ driver' = driver /\ rlease' = rlease /\ house' = house
    BY <1>0, <1>2 DEF DriverInv
  <2>2. ASSUME driver[l].at = "call" PROVE intent'[InHand(l)] # "none"
    <3>1. driver[l].kind \in ObjectKinds /\ InHand(l) \in ResObjects /\ intent[InHand(l)] # "none"
      BY <2>1, <2>2 DEF DriverOk, Making, InHand, ResObjects
    <3>2. Place(driver[l].kind) \in Int
      BY <3>1, PlaceFacts
    <3>3. Unmade(InHand(l))
      BY <2>2, <3>2 DEF Unmade, InHand, Making
    <3>4. InHand(l) \notin sweep.last
      BY <1>0, <1>4, <3>3 DEF MadeInv
    <3> QED
      BY <1>2, <3>1, <3>4
  <2> QED
    BY <2>1, <2>2 DEF DriverOk, InHand
<1>7. MadeInv'
  BY <1>0, <1>2, <1>3 DEF MadeInv, Unmade
<1>8. BooksInv'
  <2>1. \A l \in ResLeases : IntentsOf(l) = {} => IntentsOf(l)' = {}
    BY <1>2 DEF IntentsOf
  <2>2. \A x \in object \cup sent : intent'[x] = intent[x]
    BY <1>0, <1>2, <1>4
  <2> QED
    BY <1>0, <1>2, <2>1, <2>2 DEF BooksInv
<1>9. SweepInv'
  BY <1>0, <1>2, <1>3 DEF SweepInv
<1> QED
  BY <1>5, <1>6, <1>7, <1>8, <1>9 DEF ResInv, DriverInv

\* A sweep or a process that ends leaves no sweep behind.  The uninstall that
\* is done forgets every lease and every intent.
LEMMA SweepEnds == ASSUME ResInv, SweepFails \/ EndSweep \/ ControllerEnds PROVE ResInv'
<1>0. /\ ResTypes /\ DriverInv /\ MadeInv /\ BooksInv /\ SweepInv /\ sweep \in SweepType
      /\ house \in {"down", "repair", "serving", "command"} /\ rlease \in [ResLeases -> LeaseStates]
      /\ object \subseteq ResObjects /\ sent \subseteq ResObjects
  BY DEF ResInv, ResTypes
<1>1. sweep' = NoSweep
  BY DEF SweepFails, EndSweep, ControllerEnds
<1>2. SweepInv'
  BY <1>1, NoSweepFacts DEF SweepInv
<1>3. (SweepFails \/ EndSweep)
        => sweep.mode # "none" /\ house = ModeHolder[sweep.mode] /\ sweep.mode \in SweepModes
  <2>1. (SweepFails \/ EndSweep) => sweep.at > 0
    BY DEF SweepFails, EndSweep, SweepDone, SweepAt
  <2>2. sweep.mode \in SweepModes
    BY <1>0 DEF SweepType
  <2> QED
    BY <1>0, <2>1, <2>2 DEF SweepInv
<1>4. CASE ControllerEnds
  <2>1. QuietStep
    BY <1>1, <1>4, NoSweepFacts DEF QuietStep, ControllerEnds
  <2> QED
    BY <1>0, <1>2, <2>1, QuietKeeps DEF ResInv
<1>5. CASE SweepFails
  <2>1. sweep.mode \notin {"startup", "periodic"} => \A l \in ResLeases : driver[l] = NoDriver
    BY <1>0, <1>3, <1>5, NobodyDrives DEF SweepModes, ModeHolder
  <2>2. QuietStep
    BY <1>0, <1>1, <1>5, <2>1, NoSweepFacts DEF QuietStep, SweepFails
  <2> QED
    BY <1>0, <1>2, <2>2, QuietKeeps DEF ResInv
<1>6. CASE EndSweep /\ sweep.mode # "uninstall"
  <2>1. sweep.mode \notin {"startup", "periodic"} => \A l \in ResLeases : driver[l] = NoDriver
    BY <1>0, <1>3, <1>6, NobodyDrives DEF SweepModes, ModeHolder
  <2>2. QuietStep
    BY <1>0, <1>1, <1>6, <2>1, NoSweepFacts DEF QuietStep, EndSweep
  <2> QED
    BY <1>0, <1>2, <2>2, QuietKeeps DEF ResInv
<1>7. CASE EndSweep /\ sweep.mode = "uninstall"
  <2>1. /\ rlease' = [l \in ResLeases |-> IF rlease[l] = "none" THEN "none" ELSE "purged"]
        /\ intent' = [x \in ResObjects |-> "none"] /\ house' = "down"
        /\ UNCHANGED <<driver, object, sent>>
    BY <1>7 DEF EndSweep
  <2>2. \A l \in ResLeases : driver[l] = NoDriver
    BY <1>0, <1>3, <1>7, NobodyDrives DEF ModeHolder
  <2>3. ResTypes'
    BY <1>0, <1>1, <2>1, NoSweepFacts DEF ResTypes, LeaseStates, Over, IntentStates
  <2>4. DriverInv'
    BY <2>1, <2>2 DEF DriverInv, DriverOk, NoDriver, Making
  <2>5. \A x \in object \cup sent : rlease[x[1]] # "none" /\ x[1] \in ResLeases
          /\ rlease'[x[1]] = "purged"
    BY <1>0, <2>1 DEF MadeInv, Unmade, ResObjects
  <2>6. MadeInv'
    BY <1>0, <1>1, <2>1, <2>2, <2>5, NoSweepFacts DEF MadeInv, Unmade, NoDriver, Making
  <2>7. BooksInv'
    <3>1. \A l \in ResLeases : IntentsOf(l)' = {}
      BY <2>1 DEF IntentsOf
    <3> QED
      BY <2>1, <2>5, <3>1 DEF BooksInv
  <2> QED
    BY <1>2, <2>3, <2>4, <2>6, <2>7 DEF ResInv
<1> QED
  BY <1>4, <1>5, <1>6, <1>7

\* A controller that starts drives the leases that are not over, and makes
\* nothing for them.
LEMMA BeginKeeps == ASSUME ResInv, ControllerBegins PROVE ResInv'
<1>0. /\ ResTypes /\ DriverInv /\ MadeInv /\ BooksInv /\ SweepInv
      /\ rlease \in [ResLeases -> LeaseStates]
      /\ object \subseteq ResObjects /\ sent \subseteq ResObjects
      /\ intent \in [ResObjects -> IntentStates]
  BY DEF ResInv, ResTypes
<1>1. PICK adopted \in SUBSET ResLeases :
        /\ driver' = [l \in ResLeases |-> IF rlease[l] \notin LiveStates THEN NoDriver
                        ELSE [at |-> IF l \in adopted THEN "run" ELSE "queue", kind |-> "none"]]
        /\ sweep' = [NoSweep EXCEPT !.keep = adopted]
  <2>1. PICK some \in SUBSET {l \in ResLeases : rlease[l] = "live" /\ <<l, "container">> \in object} :
          /\ driver' = [l \in ResLeases |-> IF rlease[l] \notin LiveStates THEN NoDriver
                          ELSE [at |-> IF l \in some THEN "run" ELSE "queue", kind |-> "none"]]
          /\ sweep' = [NoSweep EXCEPT !.keep = some]
    BY Zenon DEF ControllerBegins
  <2>2. some \in SUBSET ResLeases
    BY <2>1
  <2> QED
    BY <2>1, <2>2, Zenon
<1>2. /\ driver' = [l \in ResLeases |-> IF rlease[l] \notin LiveStates THEN NoDriver
                      ELSE [at |-> IF l \in adopted THEN "run" ELSE "queue", kind |-> "none"]]
      /\ sweep' = [NoSweep EXCEPT !.keep = adopted] /\ house' = "repair"
      /\ UNCHANGED <<rlease, intent, object, sent>>
  BY <1>1 DEF ControllerBegins
<1>3. /\ sweep' \in SweepType /\ sweep'.mode = "none" /\ sweep'.at = 0 /\ sweep'.seen = {}
      /\ sweep'.gone = {} /\ sweep'.last = {}
  <2>1. sweep' = SweepRec("none", 0, {}, adopted, {}, {})
    BY <1>2 DEF NoSweep, SweepRec
  <2>2. "none" \in SweepModes /\ 0 \in 0..4 /\ {} \in SUBSET ResObjects
    BY DEF SweepModes
  <2>3. adopted \in SUBSET ResLeases
    OBVIOUS
  <2> QED
    BY <2>1, <2>2, <2>3, SweepRecord
<1>4. \A l \in ResLeases :
        /\ driver'[l] \in {NoDriver, [at |-> "run", kind |-> "none"], [at |-> "queue", kind |-> "none"]}
        /\ driver'[l] # NoDriver => rlease[l] \in LiveStates
  BY <1>2
<1>5. ResTypes'
  <2>1. /\ NoDriver \in DriverType /\ [at |-> "run", kind |-> "none"] \in DriverType
        /\ [at |-> "queue", kind |-> "none"] \in DriverType
    BY DEF DriverType, NoDriver
  <2>2. driver' \in [ResLeases -> DriverType]
    BY <1>2, <2>1
  <2> QED
    BY <1>0, <1>2, <1>3, <2>2 DEF ResTypes
<1>6. DriverInv'
  BY <1>2, <1>4 DEF DriverInv, DriverOk, NoDriver, Making
<1>7. MadeInv'
  <2>1. \A x \in object \cup sent : x[1] \in ResLeases /\ ~Unmade(x)'
    BY <1>0, <1>2, <1>4 DEF MadeInv, Unmade, Making, NoDriver, ResObjects
  <2> QED
    BY <1>0, <1>2, <1>3, <2>1 DEF MadeInv
<1>8. BooksInv'
  BY <1>0, <1>2 DEF BooksInv, IntentsOf
<1>9. SweepInv'
  BY <1>3 DEF SweepInv
<1> QED
  BY <1>5, <1>6, <1>7, <1>8, <1>9 DEF ResInv

\* A create that takes effect late makes an object no sweep has listed.
LEMMA LateKeeps == ASSUME ResInv, NEW x \in ResObjects, LateCreate(x) PROVE ResInv'
<1>0. /\ ResTypes /\ DriverInv /\ MadeInv /\ BooksInv /\ SweepInv
      /\ object \subseteq ResObjects /\ sent \subseteq ResObjects
  BY DEF ResInv, ResTypes
<1>1. /\ x \in sent /\ sent' = sent \ {x} /\ object' = object \cup {x}
      /\ UNCHANGED <<rlease, driver, intent, sweep, house>>
  BY DEF LateCreate
<1>2. ResTypes'
  BY <1>0, <1>1 DEF ResTypes
<1>3. DriverInv'
  BY <1>0, <1>1 DEF DriverInv, DriverOk, InHand
<1>4. MadeInv'
  BY <1>0, <1>1 DEF MadeInv, Unmade
<1>5. BooksInv'
  BY <1>0, <1>1 DEF BooksInv, IntentsOf
<1>6. x \notin sweep.seen
  BY <1>0, <1>1 DEF MadeInv
<1>7. SweepInv'
  BY <1>0, <1>1, <1>6 DEF SweepInv
<1> QED
  BY <1>2, <1>3, <1>4, <1>5, <1>7 DEF ResInv

-----------------------------------------------------------------------------
(* The theorems *)

\* The invariant holds while nothing was made yet.
LEMMA ResInitInv == ResourcesInit => ResInv
<1> SUFFICES ASSUME ResourcesInit PROVE ResInv
  OBVIOUS
<1>1. NoDriver \in DriverType
  BY DEF NoDriver, DriverType
<1>2. ResTypes
  BY <1>1, NoSweepFacts DEF ResTypes, ResourcesInit, LeaseStates, IntentStates
<1>3. DriverInv
  BY DEF ResourcesInit, DriverInv, DriverOk, NoDriver, Making
<1>4. MadeInv /\ SweepInv
  BY NoSweepFacts DEF ResourcesInit, MadeInv, SweepInv
<1>5. BooksInv
  BY DEF ResourcesInit, BooksInv, Over
<1> QED
  BY <1>2, <1>3, <1>4, <1>5 DEF ResInv

\* Every step keeps the invariant.
LEMMA ResNextInv == ResInv /\ [ResourcesNext]_resVars => ResInv'
<1> SUFFICES ASSUME ResInv, [ResourcesNext]_resVars PROVE ResInv'
  OBVIOUS
<1>1. ASSUME NEW l \in ResLeases, LeaseStep(l) PROVE ResInv'
  BY <1>1, LeaseTyped, LeaseMoves, LeaseMade, LeaseBooks, LeaseSweep DEF ResInv
<1>2. ASSUME NEW x \in ResObjects, LateCreate(x) PROVE ResInv'
  BY <1>2, LateKeeps
<1>3. CASE ControllerEnds \/ ControllerBegins \/ SweepStep
  BY <1>3, SweepEnds, BeginKeeps, SweepBegins, SweepReads, SweepRemoves, SweepForgets DEF SweepStep
<1>4. CASE FaultsEnd \/ UNCHANGED resVars
  <2>1. UNCHANGED <<rlease, driver, intent, object, sent, sweep, house>>
    BY <1>4 DEF FaultsEnd, resVars
  <2> QED
    BY <2>1
    DEF ResInv, ResTypes, DriverInv, DriverOk, InHand, MadeInv, Unmade, BooksInv, IntentsOf,
        SweepInv
<1> QED
  BY <1>1, <1>2, <1>3, <1>4 DEF ResourcesNext

\* Whatever is lost, late, swept or cut short, a lease that is over owns no
\* intent and every object of one that is made or runs is recorded (create,
\* finalize, sweepOrphans, PruneLeaseHistory).
THEOREM BooksAlwaysMatchHost == ResourcesSpec => []BooksMatchHost
<1>1. ResInv => BooksMatchHost
  BY DEF ResInv, BooksInv, BooksMatchHost, Over
<1> QED
  BY <1>1, ResInitInv, ResNextInv, PTL DEF ResourcesSpec

\* What a sweep takes belonged to no lease in use at that moment, and an
\* uninstall purges its books only when everything it listed is gone
\* (sweepOrphans, runCleanup, runUninstall).
THEOREM RemovalsAreAlwaysSafe == ResourcesSpec => RemovalsAreSafe
<1> DEFINE Spares ==
      \A x \in object \ object' : sweep' # sweep =>
        CASE sweep.mode \in {"periodic", "cleanup"} -> rlease[x[1]] \notin LiveStates
          [] sweep.mode = "startup" -> driver[x[1]] = NoDriver
          [] OTHER -> TRUE
    Purges ==
      (sweep.mode = "uninstall" /\ \E l \in ResLeases : rlease'[l] = "purged" /\ rlease[l] # "purged") =>
        sweep.seen \cap object = {}
<1>1. ASSUME ResInv, [ResourcesNext]_resVars PROVE [Spares]_resVars
  <2>0. /\ ResTypes /\ SweepInv /\ sweep \in SweepType /\ sweep.seen \subseteq ResObjects
    BY <1>1 DEF ResInv, ResTypes, SweepType
  <2>1. CASE RemoveSwept
    <3> DEFINE y == FirstToGo(LeftToSweep)
    <3>1. sweep.at = 3 /\ LeftToSweep # {} /\ object' = object \ {y}
      BY <2>0, <2>1, SweepPlaces DEF RemoveSwept
    <3>2. y \in LeftToSweep
      <4>1. LeftToSweep \in SUBSET ResObjects
        BY <2>0 DEF LeftToSweep
      <4> QED
        BY <3>1, <4>1, FirstIsMember
    <3> HIDE DEF y
    <3>3. y \in sweep.seen /\ y[1] \in ResLeases \ sweep.keep
      BY <2>0, <3>2 DEF LeftToSweep, ResObjects
    <3>4. sweep.mode \in {"periodic", "cleanup"} => rlease[y[1]] \in Over
      BY <2>0, <3>1, <3>3 DEF SweepInv
    <3>5. sweep.mode = "startup" => driver[y[1]] = NoDriver
      BY <2>0, <3>3 DEF SweepInv
    <3>6. \A x \in object \ object' : x = y
      BY <3>1
    <3> QED
      BY <3>4, <3>5, <3>6 DEF Over, LiveStates
  <2>2. CASE object \subseteq object' \/ sweep' = sweep
    BY <2>2
  <2>3. CASE \E l \in ResLeases : LeaseStep(l)
    BY <1>1, <2>2, <2>3, LeaseTyped DEF ResInv, LeaseFrame
  <2> QED
    BY <1>1, <2>1, <2>2, <2>3
    DEF ResourcesNext, LateCreate, ControllerEnds, ControllerBegins, FaultsEnd, SweepStep,
        StartupSweep, PeriodicSweep, Maintenance, ListObjects, ReadLive, RemoveSweptFails,
        ForgetSwept, SweepFails, EndSweep, resVars
<1>2. ASSUME ResInv, [ResourcesNext]_resVars PROVE [Purges]_resVars
  <2>0. /\ ResTypes /\ DriverInv /\ SweepInv /\ sweep \in SweepType
        /\ rlease \in [ResLeases -> LeaseStates]
        /\ sweep.seen \subseteq ResObjects
    BY <1>2 DEF ResInv, ResTypes, SweepType
  <2>1. CASE EndSweep
    <3>1. SUFFICES ASSUME sweep.mode = "uninstall" PROVE sweep.seen \cap object = {}
      OBVIOUS
    <3>2. sweep.at = 3 /\ LeftToSweep = {}
      BY <2>0, <2>1, SweepPlaces DEF EndSweep, SweepDone
    <3>3. sweep.keep = {} /\ sweep.gone \cap object = {}
      BY <2>0, <3>1, <3>2 DEF SweepInv
    <3> QED
      BY <3>2, <3>3 DEF LeftToSweep
  <2>2. CASE \A l \in ResLeases : rlease'[l] = "purged" => rlease[l] = "purged"
    BY <2>2
  <2>3. CASE \E l \in ResLeases : LeaseStep(l)
    <3>1. \A l \in ResLeases : rlease'[l] = "purged" => rlease[l] = "purged"
      BY <2>0, <2>3
      DEF LeaseStep, LeaseCommits, PlanResource, MarkResourceCreating, MarkResourcePresent,
          CreateObject, Unwind, MarkResourceCleanup, MarkResourceDeleting, RemoveObject,
          ForgetResource, CleanupFails, FinalizeLease, RetryLease, PruneLease
    <3> QED
      BY <2>2, <3>1
  <2> QED
    BY <1>2, <2>1, <2>2, <2>3
    DEF ResourcesNext, LateCreate, ControllerEnds, ControllerBegins, FaultsEnd, SweepStep,
        StartupSweep, PeriodicSweep, Maintenance, ListObjects, ReadLive, RemoveSwept,
        RemoveSweptFails, ForgetSwept, SweepFails, resVars
<1> HIDE DEF Spares, Purges
<1>3. ResourcesSpec => [][Spares]_resVars
  BY <1>1, ResInitInv, ResNextInv, PTL DEF ResourcesSpec
<1>4. ResourcesSpec => [][Purges]_resVars
  BY <1>2, ResInitInv, ResNextInv, PTL DEF ResourcesSpec
<1> QED
  BY <1>3, <1>4 DEF RemovalsAreSafe, SweepSparesLive, PurgeAfterRemoval, Spares, Purges

\* How often a process ended, whether faults have, and which intents carry an
\* id stay what they may be.
Counted == stops \in 0..MaxStops /\ settled \in BOOLEAN /\ confirmed \subseteq ResObjects

\* Every step keeps them so.
LEMMA CountedNext == ResInv /\ Counted /\ [ResourcesNext]_resVars => Counted'
<1> SUFFICES ASSUME ResInv, Counted, [ResourcesNext]_resVars PROVE Counted'
  OBVIOUS
<1>1. ASSUME stops' = stops, settled' = settled, confirmed' \subseteq confirmed PROVE Counted'
  BY <1>1 DEF Counted
<1>0. ASSUME NEW l \in ResLeases, MarkResourcePresent(l) PROVE Counted'
  <2>1. InHand(l) \in ResObjects
    BY <1>0 DEF MarkResourcePresent, DriverAt, ResInv, DriverInv, DriverOk, InHand, ResObjects
  <2> QED
    BY <1>0, <2>1 DEF MarkResourcePresent, Counted
<1>2. ASSUME NEW l \in ResLeases, LeaseStep(l) PROVE Counted'
  BY <1>0, <1>1, <1>2
  DEF LeaseStep, LeaseCommits, PlanResource, MarkResourceCreating, CreateObject, Unwind,
      MarkResourceCleanup, MarkResourceDeleting, RemoveObject, ForgetResource, CleanupFails, FinalizeLease,
      RetryLease, PruneLease
<1>3. ASSUME NEW x \in ResObjects, LateCreate(x) PROVE Counted'
  BY <1>1, <1>3 DEF LateCreate
<1>4. CASE ControllerEnds
  BY <1>4 DEF ControllerEnds, Counted
<1>5. CASE ControllerBegins
  BY <1>1, <1>5 DEF ControllerBegins
<1>6. CASE FaultsEnd
  BY <1>6 DEF FaultsEnd, Counted
<1>7. CASE SweepStep
  <2>1. ASSUME NEW mode \in {"cleanup", "uninstall"}, Maintenance(mode) PROVE Counted'
    BY <2>1 DEF Maintenance, Counted
  <2>2. CASE \/ StartupSweep \/ PeriodicSweep \/ ListObjects \/ ReadLive \/ RemoveSwept \/ RemoveSweptFails
             \/ ForgetSwept \/ SweepFails \/ EndSweep
    BY <1>1, <2>2
    DEF StartupSweep, PeriodicSweep, ListObjects, ReadLive, RemoveSwept, RemoveSweptFails, ForgetSwept,
        SweepFails, EndSweep
  <2> QED
    BY <1>7, <2>1, <2>2 DEF SweepStep
<1>8. CASE UNCHANGED resVars
  BY <1>1, <1>8 DEF resVars
<1> QED
  BY <1>2, <1>3, <1>4, <1>5, <1>6, <1>7, <1>8 DEF ResourcesNext

\* Leases, intents, objects, the sweep and the process keep their types
\* (ResourcesTypeOK).
THEOREM ResourcesTypes == ResourcesSpec => []ResourcesTypeOK
<1>1. ResInv /\ Counted => ResourcesTypeOK
  BY DEF ResInv, ResTypes, Counted, ResourcesTypeOK, LeaseStates, Over, DriverType, IntentStates, SweepType,
         SweepModes
<1>2. ResourcesInit => Counted
  <2>1. ResourcesInit => stops \in 0..MaxStops
    BY DEF ResourcesInit
  <2>2. ResourcesInit => settled \in BOOLEAN
    BY Zenon DEF ResourcesInit
  <2>3. ResourcesInit => confirmed \subseteq ResObjects
    BY DEF ResourcesInit
  <2> QED
    BY <2>1, <2>2, <2>3 DEF Counted
<1> QED
  BY <1>1, <1>2, ResInitInv, ResNextInv, CountedNext, PTL DEF ResourcesSpec
=============================================================================
