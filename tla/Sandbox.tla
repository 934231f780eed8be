------------------------------ MODULE Sandbox ------------------------------
(***************************************************************************)
(* The egress policy of the restricted profile.  The deny set is found     *)
(* from the host again and again, put into the gateways that relay, and    *)
(* recorded as in force; a launch is cut from the record and proves its    *)
(* own gateway before its capsule may start.  One slot serialises passes   *)
(* and confirmations; a rediscovery that failed gives it back before it    *)
(* closes every gateway, and launches go on meanwhile.  Every call to the  *)
(* daemon may fail, with or without its effect, and the controller may be  *)
(* replaced at any step.                                                   *)
(***************************************************************************)
EXTENDS Integers, FiniteSets

CONSTANTS
  BoxLeases,    \* launches
  Subnets,      \* networks that may appear on the host beyond the baseline
  MaxChanges,   \* bound: changes of the host's networks and of the uplink
  MaxRestarts   \* bound: replacements of the controller

ASSUME SandboxAssumption == MaxChanges \in Nat /\ MaxRestarts \in Nat

VARIABLES
  world,     \* networks on the host now, and the uplink's incarnation
  force,     \* the recorded snapshot
  gateway,   \* lease: its gateway and the deny set it carries
  launch,    \* lease: step of its launch and the sandbox it was handed
  pass,      \* the holder of the slot and what it does
  closing,   \* a failed rediscovery's closing of every gateway, without the slot
  behind,    \* history: gateways a failed install or a restart left with another set
  changes, restarts,
  steady     \* whether the host has stopped changing and the daemon failing

boxVars == <<world, force, gateway, launch, pass, closing, behind, changes, restarts, steady>>

Everything == Subnets \cup {"everything"}
SandboxOf(deny, uplink) == [deny |-> deny, uplink |-> uplink]
NoSandbox == SandboxOf({}, -1)
NoPass == [by |-> "none", mode |-> "none", at |-> "none", next |-> NoSandbox,
           todo |-> {}, failed |-> {}, open |-> FALSE]
NoClosing == [at |-> "none", todo |-> {}]

SandboxTypeOK ==
  LET sandboxes == [deny : SUBSET Subnets, uplink : -1..MaxChanges] IN
  /\ world \in sandboxes /\ force \in sandboxes
  /\ gateway \in [BoxLeases -> [at : {"none", "created", "running", "gone"}, deny : SUBSET Everything]]
  /\ launch \in [BoxLeases -> [at : {"idle", "asks", "given", "prepared", "confirms", "confirmed",
                                     "started", "over"}, box : sandboxes]]
  /\ pass \in [by : BoxLeases \cup {"none", "watch"}, mode : {"none", "refresh", "confirm"},
               at : {"none", "build", "list", "reload", "close"}, next : sandboxes,
               todo : SUBSET BoxLeases, failed : SUBSET BoxLeases, open : BOOLEAN]
  /\ closing \in [at : {"none", "list", "close"}, todo : SUBSET BoxLeases]
  /\ behind \subseteq BoxLeases
  /\ changes \in 0..MaxChanges /\ restarts \in 0..MaxRestarts /\ steady \in BOOLEAN

SandboxInit ==
  /\ world = SandboxOf({}, 0) /\ force = SandboxOf({}, 0)
  /\ gateway = [l \in BoxLeases |-> [at |-> "none", deny |-> {}]]
  /\ launch = [l \in BoxLeases |-> [at |-> "idle", box |-> NoSandbox]]
  /\ pass = NoPass /\ closing = NoClosing
  /\ behind = {} /\ changes = 0 /\ restarts = 0 /\ steady = FALSE

Running == {l \in BoxLeases : gateway[l].at = "running"}
Started == {l \in BoxLeases : launch[l].at = "started"}
Gone == [at |-> "gone", deny |-> {}]

\* A launch that is past its confirmation has no use for its copy.
LaunchAt(l, s) ==
  launch' = [launch EXCEPT ![l] =
               [at |-> s, box |-> IF s \in {"started", "over"} THEN NoSandbox ELSE @.box]]

-----------------------------------------------------------------------------
(* Comparing deny sets, as sets of prefixes. *)

ClassifyPolicy(inForce, next) ==
  LET added == next \ inForce # {}
      dropped == inForce \ next # {}
  IN  IF added THEN IF dropped THEN "mixed" ELSE "restriction"
      ELSE IF dropped THEN "relaxation" ELSE "unchanged"

\* Mutant: a change that also removes denies is taken for a relaxation.
Restricts_Strict(change) == change = "restriction"

Restricts(change) == change \in {"restriction", "mixed"}

SameSandbox(a, b) == ClassifyPolicy(a.deny, b.deny) = "unchanged" /\ a.uplink = b.uplink

-----------------------------------------------------------------------------
(* The slot *)

HoldSlot(by, mode, at) == pass = NoPass /\ pass' = [NoPass EXCEPT !.by = by, !.mode = mode, !.at = at]

\* The periodic rediscovery, one at a time: the last one has closed what it had to.
Watch ==
  /\ closing = NoClosing /\ HoldSlot("watch", "refresh", "build")
  /\ UNCHANGED <<world, force, gateway, launch, closing, behind, changes, restarts, steady>>

\* A launch refreshes the set before it takes its copy of it.
ForLaunch(l) ==
  /\ launch[l].at = "idle" /\ HoldSlot(l, "refresh", "build") /\ LaunchAt(l, "asks")
  /\ UNCHANGED <<world, force, gateway, closing, behind, changes, restarts, steady>>

\* Mutant: a launch does not look at its gateway again.
ConfirmLaunch_Skips(l) ==
  /\ launch[l].at = "prepared" /\ LaunchAt(l, "confirmed")
  /\ UNCHANGED <<world, force, gateway, pass, closing, behind, changes, restarts, steady>>

\* Before the start the launch compares its copy with the record, under the
\* slot, and installs the record into its own gateway when they differ.
ConfirmLaunch(l) ==
  /\ launch[l].at = "prepared" /\ pass = NoPass
  /\ IF SameSandbox(launch[l].box, force) THEN LaunchAt(l, "confirmed") /\ UNCHANGED pass
     ELSE /\ pass' = [NoPass EXCEPT !.by = l, !.mode = "confirm", !.at = "list", !.next = force]
          /\ LaunchAt(l, "confirms")
  /\ UNCHANGED <<world, force, gateway, closing, behind, changes, restarts, steady>>

\* What the holder's own operation returns: nil.
Succeeds ==
  /\ pass' = NoPass /\ UNCHANGED closing
  /\ CASE pass.by = "watch" -> UNCHANGED launch
       [] pass.by # "watch" /\ pass.mode = "confirm" -> LaunchAt(pass.by, "confirmed")
       [] OTHER -> launch' = [launch EXCEPT ![pass.by] = [at |-> "given", box |-> force']]

\* An error: the slot is given back.  A rediscovery then closes every gateway; a
\* launch is over.
Fails ==
  /\ pass' = NoPass
  /\ IF pass.by = "watch" THEN closing' = [NoClosing EXCEPT !.at = "list"] /\ UNCHANGED launch
     ELSE LaunchAt(pass.by, "over") /\ UNCHANGED closing

-----------------------------------------------------------------------------
(* A pass *)

BuildSandbox ==
  /\ pass.at = "build" /\ UNCHANGED <<world, gateway, force, behind, changes, restarts, steady>>
  /\ IF SameSandbox(force, world) THEN Succeeds
     ELSE pass' = [pass EXCEPT !.at = "list", !.next = world] /\ UNCHANGED <<launch, closing>>

\* Discovery, or the listing of the gateways, cannot be had.
DaemonFails ==
  /\ pass.at \in {"build", "list"} /\ ~steady /\ Fails
  /\ UNCHANGED <<world, force, gateway, behind, changes, restarts, steady>>

\* The gateways that relay now; a confirmation wants its own.
OwnedContainers ==
  /\ pass.at = "list"
  /\ LET found == IF pass.mode = "confirm" THEN Running \cap {pass.by} ELSE Running IN
     IF pass.mode = "confirm" /\ found = {} THEN Fails
     ELSE pass' = [pass EXCEPT !.at = "reload", !.todo = found] /\ UNCHANGED <<launch, closing>>
  /\ UNCHANGED <<world, force, gateway, behind, changes, restarts, steady>>

\* One gateway takes the new set, or does not, and answers, or does not.
ReloadGateway(l, took, answered) ==
  /\ pass.at = "reload" /\ l \in pass.todo
  /\ took => l \in Running
  /\ steady /\ l \in Running => took /\ answered
  /\ gateway' = IF took THEN [gateway EXCEPT ![l].deny = pass.next.deny] ELSE gateway
  /\ behind' = IF took /\ pass.next = force THEN behind \ {l} ELSE behind
  /\ IF took /\ answered THEN pass' = [pass EXCEPT !.todo = @ \ {l}] /\ UNCHANGED <<launch, closing>>
     ELSE IF pass.mode = "confirm" THEN Fails
     ELSE pass' = [pass EXCEPT !.todo = @ \ {l}, !.failed = @ \cup {l}] /\ UNCHANGED <<launch, closing>>
  /\ UNCHANGED <<world, force, changes, restarts, steady>>

\* Mutant: the new set is recorded although a gateway would not go.
Replace_Anyway(open) == TRUE

\* A restriction that neither reached a gateway nor removed it is not recorded.
Replace(open) == ~open

RecordForce == force' = pass.next /\ behind' = behind \cap pass.failed

\* Every gateway has answered.  A relaxation that did not land is left; a
\* restriction that did not land closes those gateways.
Reloaded ==
  /\ pass.at = "reload" /\ pass.todo = {}
  /\ IF pass.mode = "confirm" THEN Succeeds /\ UNCHANGED <<force, behind>>
     ELSE IF pass.failed = {} \/ ~Restricts(ClassifyPolicy(force.deny, pass.next.deny))
       THEN RecordForce /\ Succeeds
     ELSE pass' = [pass EXCEPT !.at = "close"] /\ UNCHANGED <<force, launch, closing, behind>>
  /\ UNCHANGED <<world, gateway, changes, restarts, steady>>

\* Closed from inside if it takes that, then removed; the gateway may be there
\* still, and may relay still.
CloseGateway(l, closed, removed) ==
  gateway' = IF removed \/ gateway[l] = Gone THEN [gateway EXCEPT ![l] = Gone]
             ELSE [gateway EXCEPT ![l].deny = IF closed THEN Everything ELSE @]

\* A gateway that did not take the restriction; its removal may not be confirmed.
CloseFailed(l, closed, removed, confirmed) ==
  /\ pass.at = "close" /\ l \in pass.failed
  /\ confirmed => removed
  /\ steady => confirmed
  /\ CloseGateway(l, closed, removed)
  /\ pass' = [pass EXCEPT !.failed = @ \ {l}, !.open = @ \/ ~confirmed]
  /\ UNCHANGED <<world, force, launch, closing, behind, changes, restarts, steady>>

\* The books move only when no such gateway is left.
Closed ==
  /\ pass.at = "close" /\ pass.failed = {}
  /\ IF Replace(pass.open) THEN RecordForce /\ Succeeds
     ELSE Fails /\ behind' = behind \cup Running /\ UNCHANGED force
  /\ UNCHANGED <<world, gateway, changes, restarts, steady>>

-----------------------------------------------------------------------------
(* A failed rediscovery closes every gateway, while the slot is free for others *)

\* The gateways that relay now, if they can be listed.
ListToClose ==
  /\ closing.at = "list"
  /\ \/ closing' = [at |-> "close", todo |-> Running]
     \/ ~steady /\ closing' = NoClosing
  /\ UNCHANGED <<world, force, gateway, launch, pass, behind, changes, restarts, steady>>

CloseListed(l, closed, removed) ==
  /\ closing.at = "close" /\ l \in closing.todo
  /\ steady => removed
  /\ CloseGateway(l, closed, removed)
  /\ closing' = [closing EXCEPT !.todo = @ \ {l}]
  /\ UNCHANGED <<world, force, launch, pass, behind, changes, restarts, steady>>

\* What could not be closed is logged, and the ticker is waited for again.
ClosedListed ==
  /\ closing.at = "close" /\ closing.todo = {} /\ closing' = NoClosing
  /\ UNCHANGED <<world, force, gateway, launch, pass, behind, changes, restarts, steady>>

-----------------------------------------------------------------------------
(* A launch and its gateway *)

\* The gateway is created with the copy the launch was handed.
CreateGateway(l) ==
  /\ launch[l].at = "given" /\ gateway[l].at = "none"
  /\ gateway' = [gateway EXCEPT ![l] = [at |-> "created", deny |-> launch[l].box.deny]]
  /\ UNCHANGED <<world, force, launch, pass, closing, behind, changes, restarts, steady>>

StartGateway(l) ==
  /\ launch[l].at = "given" /\ gateway[l].at = "created"
  /\ gateway' = [gateway EXCEPT ![l].at = "running"]
  /\ UNCHANGED <<world, force, launch, pass, closing, behind, changes, restarts, steady>>

Prepared(l) ==
  /\ launch[l].at = "given" /\ gateway[l].at = "running" /\ LaunchAt(l, "prepared")
  /\ UNCHANGED <<world, force, gateway, pass, closing, behind, changes, restarts, steady>>

StartCapsule(l) ==
  /\ launch[l].at = "confirmed" /\ LaunchAt(l, "started")
  /\ UNCHANGED <<world, force, gateway, pass, closing, behind, changes, restarts, steady>>

\* The job ends, or a step of the launch failed: everything of the lease goes.
LaunchEnds(l) ==
  /\ launch[l].at \in {"given", "prepared", "confirmed", "started"} \/ gateway[l].at \in {"created", "running"}
  /\ launch[l].at \notin {"asks", "confirms"}
  /\ LaunchAt(l, "over") /\ gateway' = [gateway EXCEPT ![l] = Gone]
  /\ UNCHANGED <<world, force, pass, closing, behind, changes, restarts, steady>>

-----------------------------------------------------------------------------
(* The surroundings *)

HostChanges(nets, lost) ==
  /\ ~steady /\ changes < MaxChanges /\ changes' = changes + 1
  /\ nets # world.deny <=> ~lost
  /\ world' = SandboxOf(nets, IF lost THEN world.uplink + 1 ELSE world.uplink)
  /\ UNCHANGED <<force, gateway, launch, pass, closing, behind, restarts, steady>>

\* Started capsules are adopted, the rest is recovered; the first build of the
\* new process is its record, and no gateway is told.
ControllerRestarts ==
  /\ ~steady /\ restarts < MaxRestarts /\ restarts' = restarts + 1
  /\ pass' = NoPass /\ closing' = NoClosing /\ force' = world
  /\ launch' = [l \in BoxLeases |-> IF launch[l].at \in {"started", "idle"} THEN launch[l]
                                    ELSE [at |-> "over", box |-> NoSandbox]]
  /\ gateway' = [l \in BoxLeases |-> IF launch[l].at \in {"started", "idle"} THEN gateway[l]
                                     ELSE Gone]
  /\ behind' = behind \cup (Running \cap Started)
  /\ UNCHANGED <<world, changes, steady>>

\* From some moment on the host stays as it is and the daemon answers.
HostSteadies ==
  /\ ~steady /\ steady' = TRUE
  /\ UNCHANGED <<world, force, gateway, launch, pass, closing, behind, changes, restarts>>

LaunchStep(l) ==
  \/ ForLaunch(l) \/ ConfirmLaunch(l) \/ CreateGateway(l) \/ StartGateway(l) \/ Prepared(l)
  \/ StartCapsule(l) \/ LaunchEnds(l)

BoxPass ==
  \/ BuildSandbox \/ DaemonFails \/ OwnedContainers \/ Reloaded \/ Closed
  \/ \E l \in BoxLeases, took, answered \in BOOLEAN : ReloadGateway(l, took, answered)
  \/ \E l \in BoxLeases, closed, removed, confirmed \in BOOLEAN : CloseFailed(l, closed, removed, confirmed)

CloseGateways ==
  \/ ListToClose \/ ClosedListed
  \/ \E l \in BoxLeases, closed, removed \in BOOLEAN : CloseListed(l, closed, removed)

SandboxNext ==
  \/ Watch \/ BoxPass \/ CloseGateways
  \/ \E l \in BoxLeases : LaunchStep(l)
  \/ \E nets \in SUBSET Subnets, lost \in BOOLEAN : HostChanges(nets, lost)
  \/ ControllerRestarts \/ HostSteadies

SandboxSpec == SandboxInit /\ [][SandboxNext]_boxVars

\* The ticker comes again, and every call of a pass or a closing is bounded in time.
SandboxFairness == WF_boxVars(Watch) /\ WF_boxVars(BoxPass) /\ WF_boxVars(CloseGateways)

-----------------------------------------------------------------------------
(* Properties *)

\* While nobody holds the slot, a started capsule's gateway denies all that the
\* record denies, whatever raced its launch, a failed rediscovery that closes
\* gateways without the slot included, unless an install that failed halfway or
\* a restart left it behind (ConfirmLaunch, applyPolicy, closeGateways).
ForceIsCarried ==
  pass = NoPass =>
    \A l \in Started \cap Running : l \in behind \/ force.deny \subseteq gateway[l].deny

\* The record of a restriction reached every gateway that relays: nothing is
\* recorded that a gateway was never given (applyPolicy, New).
RecordedHasReached ==
  pass = NoPass => \A l \in Started \cap Running : force.deny \subseteq gateway[l].deny

\* Once the host has come to rest, every network on it is denied to every
\* capsule that started and was not left behind, and stays so (Watch).
AppearedIsDenied ==
  steady ~> [](\A l \in Started \cap Running : l \in behind \/ world.deny \subseteq gateway[l].deny)
============================================================================
