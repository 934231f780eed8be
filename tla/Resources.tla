----------------------------- MODULE Resources ------------------------------
(***************************************************************************)
(* The daemon's objects and the intents that record them.  A lease's       *)
(* objects are made one by one, each under an intent committed first, and  *)
(* removed one by one, each intent forgotten once its object is gone.  A   *)
(* create whose answer was lost may still take effect later.  What no      *)
(* lease can account for any more is taken by a sweep: at startup, again   *)
(* and again while serving, or by the operator's cleanup and uninstall,    *)
(* which need the state lock and so run only while no controller does.     *)
(***************************************************************************)
EXTENDS Integers, Sequences, FiniteSets, FiniteSetsExt

CONSTANTS
  ResLeases,    \* leases
  CreateOrder,  \* kinds of object in the order they are made
  MaxStops      \* bound: ends of a process, and maintenance commands

ASSUME ResourcesAssumption ==
  /\ CreateOrder \in Seq({"container", "network", "volume"}) /\ CreateOrder # <<>>
  /\ \A i, j \in DOMAIN CreateOrder : CreateOrder[i] = CreateOrder[j] => i = j
  /\ MaxStops \in Nat

VARIABLES
  rlease,      \* lease |-> none, live (may be adopted), ending, released, pruned or purged
  driver,      \* lease |-> the step of whoever drives it and the object in hand
  intent,      \* object |-> state of its intent
  confirmed,   \* objects whose intent carries the daemon's id
  object,      \* objects the daemon has
  sent,        \* creates whose answer was lost and that may still take effect
  sweep,       \* the sweep in progress
  house,       \* who holds the state lock: nobody, a controller, a command
  stops,
  settled      \* whether the daemon and the store have stopped failing

resVars == <<rlease, driver, intent, confirmed, object, sent, sweep, house, stops, settled>>

ObjectKinds == {CreateOrder[i] : i \in DOMAIN CreateOrder}
ResObjects == ResLeases \X ObjectKinds
LiveStates == {"live", "ending"}
NoDriver == [at |-> "none", kind |-> "none"]
NoSweep == [mode |-> "none", at |-> 0, seen |-> {}, keep |-> {}, gone |-> {}, last |-> {}]
RemovalOrder == [container |-> 1, network |-> 2, volume |-> 3]
IntentsOf(l) == {x \in ResObjects : x[1] = l /\ intent[x] # "none"}
FirstToGo(S) == CHOOSE x \in S : \A y \in S : RemovalOrder[x[2]] <= RemovalOrder[y[2]]

ResourcesTypeOK ==
  /\ rlease \in [ResLeases -> {"none", "live", "ending", "released", "pruned", "purged"}]
  /\ driver \in [ResLeases -> [at : {"none", "plan", "mark", "call", "confirm", "run", "queue", "delete",
                                     "remove", "forget", "finalize"}, kind : ObjectKinds \cup {"none"}]]
  /\ intent \in [ResObjects -> {"none", "planned", "creating", "present", "cleanup_pending", "deleting"}]
  /\ confirmed \subseteq ResObjects /\ object \subseteq ResObjects /\ sent \subseteq ResObjects
  /\ sweep.mode \in {"none", "startup", "periodic", "cleanup", "uninstall"} /\ sweep.at \in 0..4
  /\ sweep.seen \cup sweep.gone \cup sweep.last \subseteq ResObjects /\ sweep.keep \subseteq ResLeases
  /\ house \in {"down", "repair", "serving", "command"} /\ stops \in 0..MaxStops
  /\ settled \in BOOLEAN

ResourcesInit ==
  /\ rlease = [l \in ResLeases |-> "none"] /\ driver = [l \in ResLeases |-> NoDriver]
  /\ intent = [x \in ResObjects |-> "none"] /\ confirmed = {} /\ object = {} /\ sent = {}
  /\ sweep = NoSweep /\ house = "serving" /\ stops = 0 /\ settled = FALSE

-----------------------------------------------------------------------------
(* Making and removing the objects of a lease *)

DriverAt(l, s) == driver[l].at = s
InHand(l) == <<l, driver[l].kind>>
Drive(l, s, k) == driver' = [driver EXCEPT ![l] = [at |-> s, kind |-> k]]
LeaveLease(l) == driver' = [driver EXCEPT ![l] = NoDriver]
SetIntent(x, s) == intent' = [intent EXCEPT ![x] = s]
NextKind(k) == LET i == CHOOSE n \in DOMAIN CreateOrder : CreateOrder[n] = k
               IN  IF i = Len(CreateOrder) THEN "none" ELSE CreateOrder[i + 1]

LeaseCommits(l) ==
  /\ house = "serving" /\ rlease[l] = "none" /\ rlease' = [rlease EXCEPT ![l] = "live"]
  /\ Drive(l, "plan", CreateOrder[1])
  /\ UNCHANGED <<intent, confirmed, object, sent, sweep, house, stops, settled>>

\* Mutant: the object is asked for before its intent is durable.
PlanResource_None(l) ==
  /\ DriverAt(l, "plan") /\ Drive(l, "call", driver[l].kind)
  /\ UNCHANGED <<rlease, intent, confirmed, object, sent, sweep, house, stops, settled>>

PlanResource(l) ==
  /\ DriverAt(l, "plan") /\ SetIntent(InHand(l), "planned") /\ Drive(l, "mark", driver[l].kind)
  /\ UNCHANGED <<rlease, confirmed, object, sent, sweep, house, stops, settled>>

MarkResourceCreating(l) ==
  /\ DriverAt(l, "mark") /\ SetIntent(InHand(l), "creating") /\ Drive(l, "call", driver[l].kind)
  /\ UNCHANGED <<rlease, confirmed, object, sent, sweep, house, stops, settled>>

\* The create call: the object is there (a taken name is adopted when its
\* labels prove it ours), it is refused, or the answer is lost.
CreateObject(l, outcome) ==
  /\ DriverAt(l, "call")
  /\ object' = IF outcome = "made" THEN object \cup {InHand(l)} ELSE object
  /\ sent' = IF outcome = "lost" THEN sent \cup {InHand(l)} ELSE sent
  /\ IF outcome = "made" THEN Drive(l, "confirm", driver[l].kind) ELSE Drive(l, "queue", "none")
  /\ UNCHANGED <<rlease, intent, confirmed, sweep, house, stops, settled>>

MarkResourcePresent(l) ==
  LET k == NextKind(driver[l].kind) IN
  /\ DriverAt(l, "confirm") /\ SetIntent(InHand(l), "present")
  /\ confirmed' = confirmed \cup {InHand(l)}
  /\ IF k = "none" THEN Drive(l, "run", "none") ELSE Drive(l, "plan", k)
  /\ UNCHANGED <<rlease, object, sent, sweep, house, stops, settled>>

\* A write that failed, or the end of the job: the lease is unwound.
Unwind(l) ==
  /\ driver[l].at \in {"plan", "mark", "confirm", "run"} /\ Drive(l, "queue", "none")
  /\ UNCHANGED <<rlease, intent, confirmed, object, sent, sweep, house, stops, settled>>

\* Every intent of the lease is queued, confirmed or not.
MarkResourceCleanup(l) ==
  /\ DriverAt(l, "queue") /\ rlease' = [rlease EXCEPT ![l] = "ending"]
  /\ intent' = [x \in ResObjects |-> IF x \in IntentsOf(l) /\ intent[x] # "deleting"
                                    THEN "cleanup_pending" ELSE intent[x]]
  /\ Drive(l, "delete", "none")
  /\ UNCHANGED <<confirmed, object, sent, sweep, house, stops, settled>>

MarkResourceDeleting(l) ==
  LET x == FirstToGo(IntentsOf(l)) IN
  /\ DriverAt(l, "delete")
  /\ IF IntentsOf(l) = {} THEN Drive(l, "finalize", "none") /\ UNCHANGED intent
     ELSE SetIntent(x, "deleting") /\ Drive(l, "remove", x[2])
  /\ UNCHANGED <<rlease, confirmed, object, sent, sweep, house, stops, settled>>

\* Removed, or proved absent by its name.
RemoveObject(l) ==
  /\ DriverAt(l, "remove") /\ object' = object \ {InHand(l)} /\ Drive(l, "forget", driver[l].kind)
  /\ UNCHANGED <<rlease, intent, confirmed, sent, sweep, house, stops, settled>>

ForgetResource(l) ==
  /\ DriverAt(l, "forget") /\ SetIntent(InHand(l), "none") /\ confirmed' = confirmed \ {InHand(l)}
  /\ Drive(l, "delete", "none")
  /\ UNCHANGED <<rlease, object, sent, sweep, house, stops, settled>>

\* A removal that failed books its backoff; so does any write that failed.
CleanupFails(l) ==
  /\ driver[l].at \in {"queue", "delete", "remove", "forget", "finalize"} /\ ~settled /\ LeaveLease(l)
  /\ UNCHANGED <<rlease, intent, confirmed, object, sent, sweep, house, stops, settled>>

FinalizeLease(l) ==
  /\ DriverAt(l, "finalize") /\ IntentsOf(l) = {}
  /\ rlease' = [rlease EXCEPT ![l] = "released"] /\ LeaveLease(l)
  /\ UNCHANGED <<intent, confirmed, object, sent, sweep, house, stops, settled>>

\* The periodic pass takes a lease nobody drives once its backoff is over.
RetryLease(l) ==
  /\ house = "serving" /\ rlease[l] \in LiveStates /\ driver[l] = NoDriver /\ Drive(l, "queue", "none")
  /\ UNCHANGED <<rlease, intent, confirmed, object, sent, sweep, house, stops, settled>>

\* Retention forgets a released lease that owns no intent.
PruneLease(l) ==
  /\ house = "serving" /\ rlease[l] = "released" /\ IntentsOf(l) = {}
  /\ rlease' = [rlease EXCEPT ![l] = "pruned"]
  /\ UNCHANGED <<driver, intent, confirmed, object, sent, sweep, house, stops, settled>>

LateCreate(x) ==
  /\ x \in sent /\ sent' = sent \ {x} /\ object' = object \cup {x}
  /\ UNCHANGED <<rlease, driver, intent, confirmed, sweep, house, stops, settled>>

-----------------------------------------------------------------------------
(* The process *)

ControllerEnds ==
  /\ house \in {"serving", "repair"} /\ stops < MaxStops /\ stops' = stops + 1
  /\ house' = "down" /\ driver' = [l \in ResLeases |-> NoDriver] /\ sweep' = NoSweep
  /\ UNCHANGED <<rlease, intent, confirmed, object, sent, settled>>

\* A lease whose capsule runs, for a binding still configured, is adopted;
\* every other live one is unwound.
ControllerBegins ==
  /\ house = "down" /\ house' = "repair"
  /\ \E adopted \in SUBSET {l \in ResLeases : rlease[l] = "live" /\ <<l, "container">> \in object} :
       /\ driver' = [l \in ResLeases |-> IF rlease[l] \notin LiveStates THEN NoDriver
                       ELSE [at |-> IF l \in adopted THEN "run" ELSE "queue", kind |-> "none"]]
       /\ sweep' = [NoSweep EXCEPT !.keep = adopted]
  /\ UNCHANGED <<rlease, intent, confirmed, object, sent, stops, settled>>

\* From some moment on no call fails.
FaultsEnd ==
  /\ ~settled /\ settled' = TRUE
  /\ UNCHANGED <<rlease, driver, intent, confirmed, object, sent, sweep, house, stops>>

-----------------------------------------------------------------------------
(* The sweep *)

\* Mutant: the live leases are read before the daemon is listed.
SweepOrder_LiveFirst == <<"live", "list", "remove", "forget">>

SweepOrder == <<"list", "live", "remove", "forget">>

SweepAt(s) == sweep.at > 0 /\ SweepOrder[sweep.at] = s

\* The startup sweep waits for the leases that are unwound.
StartupSweep ==
  /\ house = "repair" /\ sweep.at = 0
  /\ \A l \in ResLeases : l \in sweep.keep \/ driver[l] = NoDriver
  /\ sweep' = [sweep EXCEPT !.mode = "startup", !.at = 1]
  /\ UNCHANGED <<rlease, driver, intent, confirmed, object, sent, house, stops, settled>>

PeriodicSweep ==
  /\ house = "serving" /\ sweep = NoSweep /\ sweep' = [NoSweep EXCEPT !.mode = "periodic", !.at = 1]
  /\ UNCHANGED <<rlease, driver, intent, confirmed, object, sent, house, stops, settled>>

\* A command that applies its plan takes the lock.
Maintenance(mode) ==
  /\ house = "down" /\ stops < MaxStops /\ stops' = stops + 1
  /\ house' = "command" /\ sweep' = [NoSweep EXCEPT !.mode = mode, !.at = 1]
  /\ UNCHANGED <<rlease, driver, intent, confirmed, object, sent, settled>>

ListObjects ==
  /\ SweepAt("list") /\ sweep' = [sweep EXCEPT !.at = @ + 1, !.seen = object]
  /\ UNCHANGED <<rlease, driver, intent, confirmed, object, sent, house, stops, settled>>

\* Mutant: a lease counts as live as long as it has a row.
LiveLeases_Any == {l \in ResLeases : rlease[l] \notin {"none", "pruned", "purged"}}

LiveLeases == {l \in ResLeases : rlease[l] \in LiveStates}

\* At startup what was adopted, for uninstall nothing, else every live lease.
ReadLive ==
  /\ SweepAt("live")
  /\ sweep' = [sweep EXCEPT !.at = @ + 1,
                 !.keep = CASE sweep.mode = "startup" -> @
                            [] sweep.mode = "uninstall" -> {}
                            [] OTHER -> LiveLeases]
  /\ UNCHANGED <<rlease, driver, intent, confirmed, object, sent, house, stops, settled>>

LeftToSweep == {x \in sweep.seen \ sweep.gone : x[1] \notin sweep.keep}

\* Containers first.  The sweeps forget the intent next, the commands do not.
RemoveSwept ==
  LET x == FirstToGo(LeftToSweep) IN
  /\ SweepAt("remove") /\ LeftToSweep # {} /\ object' = object \ {x}
  /\ sweep' = [sweep EXCEPT !.gone = @ \cup {x}, !.last = {x},
                 !.at = IF sweep.mode \in {"startup", "periodic"} THEN @ + 1 ELSE @]
  /\ UNCHANGED <<rlease, driver, intent, confirmed, sent, house, stops, settled>>

\* Mutant: an uninstall goes on past an object that would not go.
RemoveSweptFails_GoesOn ==
  /\ SweepAt("remove") /\ LeftToSweep # {} /\ ~settled
  /\ sweep' = [sweep EXCEPT !.gone = @ \cup {FirstToGo(LeftToSweep)}] /\ house' = house
  /\ UNCHANGED <<rlease, driver, intent, confirmed, object, sent, stops, settled>>

\* A sweep leaves an object that will not go to the next one; a command stops.
RemoveSweptFails ==
  /\ SweepAt("remove") /\ LeftToSweep # {} /\ ~settled
  /\ IF sweep.mode \in {"startup", "periodic"}
       THEN sweep' = [sweep EXCEPT !.gone = @ \cup {FirstToGo(LeftToSweep)}] /\ house' = house
       ELSE sweep' = NoSweep /\ house' = "down"
  /\ UNCHANGED <<rlease, driver, intent, confirmed, object, sent, stops, settled>>

\* The sweep names the object by its id.  That finds the intent of a container
\* or a network only if the id was recorded; a volume's id is its name.
ForgetSwept ==
  LET found == {x \in sweep.last : x \in confirmed \/ x[2] = "volume"} IN
  /\ SweepAt("forget")
  /\ intent' = [x \in ResObjects |-> IF x \in found THEN "none" ELSE intent[x]]
  /\ confirmed' = confirmed \ found
  /\ sweep' = [sweep EXCEPT !.at = @ - 1, !.last = {}]
  /\ UNCHANGED <<rlease, driver, object, sent, house, stops, settled>>

\* A listing or a write that fails ends the sweep, and at startup the start.
SweepFails ==
  /\ SweepAt("list") \/ SweepAt("live") \/ SweepAt("forget")
  /\ ~settled
  /\ sweep' = NoSweep
  /\ house' = IF sweep.mode = "periodic" THEN house ELSE "down"
  /\ driver' = IF sweep.mode = "startup" THEN [l \in ResLeases |-> NoDriver] ELSE driver
  /\ UNCHANGED <<rlease, intent, confirmed, object, sent, stops, settled>>

SweepDone == SweepAt("remove") /\ LeftToSweep = {}

\* A command that is done gives the lock back; an uninstall first purges the
\* rows in one transaction.
EndSweep ==
  /\ SweepDone /\ sweep' = NoSweep
  /\ house' = IF sweep.mode \in {"startup", "periodic"} THEN "serving" ELSE "down"
  /\ IF sweep.mode = "uninstall"
       THEN /\ rlease' = [l \in ResLeases |-> IF rlease[l] = "none" THEN "none" ELSE "purged"]
            /\ intent' = [x \in ResObjects |-> "none"] /\ confirmed' = {}
       ELSE UNCHANGED <<rlease, intent, confirmed>>
  /\ UNCHANGED <<driver, object, sent, stops, settled>>

LeaseStep(l) ==
  \/ LeaseCommits(l) \/ PlanResource(l) \/ MarkResourceCreating(l) \/ MarkResourcePresent(l)
  \/ \E outcome \in {"made", "lost", "refused"} : CreateObject(l, outcome)
  \/ Unwind(l) \/ MarkResourceCleanup(l) \/ MarkResourceDeleting(l) \/ RemoveObject(l)
  \/ ForgetResource(l) \/ CleanupFails(l) \/ FinalizeLease(l) \/ RetryLease(l) \/ PruneLease(l)

SweepStep ==
  \/ StartupSweep \/ PeriodicSweep \/ ListObjects \/ ReadLive \/ RemoveSwept \/ RemoveSweptFails
  \/ ForgetSwept \/ SweepFails \/ EndSweep
  \/ \E mode \in {"cleanup", "uninstall"} : Maintenance(mode)

ResourcesNext ==
  \/ \E l \in ResLeases : LeaseStep(l)
  \/ \E x \in ResObjects : LateCreate(x)
  \/ ControllerEnds \/ ControllerBegins \/ SweepStep \/ FaultsEnd

ResourcesSpec == ResourcesInit /\ [][ResourcesNext]_resVars

\* Whoever drives a lease goes on with its removal, a controller that ended is
\* started again, and the sweep runs on a ticker.
RemovalStep(l) ==
  \/ Unwind(l) \/ MarkResourceCleanup(l) \/ MarkResourceDeleting(l) \/ RemoveObject(l)
  \/ ForgetResource(l) \/ FinalizeLease(l)

SweepGoesOn ==
  StartupSweep \/ PeriodicSweep \/ ListObjects \/ ReadLive \/ RemoveSwept \/ ForgetSwept \/ EndSweep

ResourcesFairness ==
  /\ \A l \in ResLeases : WF_resVars(RemovalStep(l))
  /\ WF_resVars(SweepGoesOn) /\ WF_resVars(ControllerBegins)

-----------------------------------------------------------------------------
(* Properties *)

\* No sweep or cleanup takes an object from a lease that is live, and the
\* startup sweep none from a capsule it adopted, whatever commits while it
\* works (the order of sweepOrphans, the keep set of runCleanup).
SweepSparesLive ==
  [][\A x \in object \ object' : sweep' # sweep =>
       CASE sweep.mode \in {"periodic", "cleanup"} -> rlease[x[1]] \notin LiveStates
         [] sweep.mode = "startup" -> driver[x[1]] = NoDriver
         [] OTHER -> TRUE]_resVars

\* A lease that is over owns no intent, and the objects of one that is made or
\* runs are all recorded: an intent a sweep could not forget belongs to a
\* lease whose own recovery still comes (create, finalize, PruneLeaseHistory).
BooksMatchHost ==
  /\ \A l \in ResLeases : rlease[l] \in {"released", "pruned", "purged"} => IntentsOf(l) = {}
  /\ \A x \in object : rlease[x[1]] = "live" => intent[x] # "none"

\* An uninstall purges the books only when everything it listed is gone.
PurgeAfterRemoval ==
  [][(sweep.mode = "uninstall" /\ \E l \in ResLeases : rlease'[l] = "purged" /\ rlease[l] # "purged") =>
       sweep.seen \cap object = {}]_resVars

\* No removal goes too far: a sweep spares what is in use, and an uninstall
\* keeps the books of what would not go (sweepOrphans, runCleanup, runUninstall).
RemovalsAreSafe == SweepSparesLive /\ PurgeAfterRemoval

\* Once calls have stopped failing, an object whose lease is over is swept in
\* the end, however late it was made (sweepPeriodically).
LeftoversGo ==
  \A x \in ResObjects : (settled /\ x \in object /\ rlease[x[1]] \in {"released", "pruned"}) ~> (x \notin object)
=============================================================================
