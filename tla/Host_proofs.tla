--------------------------- MODULE Host_proofs -----------------------------
(***************************************************************************)
(* Theorems about what the controller keeps in order outside itself:       *)
(* DiskPressure, Sandbox, Gateway, EgressPolicy and ScaleSets, for every   *)
(* value of their constants.                                               *)
(***************************************************************************)
EXTENDS MCHost, Resources_proofs, FiniteSetTheorems

-----------------------------------------------------------------------------
(***************************************************************************)
(* DiskPressure, for every floor, budget and watermark                     *)
(***************************************************************************)

USE DEF Levels, Emergency, AdmissionClosed, SetPressure

OpenLevels == {"normal", "high"}

\* What holds between any two steps of a pass: an open level is a durable one,
\* a verdict that closes is in force before it is saved, and a durable
\* emergency is the level in force from the moment it was read back.
PressureInv ==
  /\ PressureTypeOK /\ OpenIsDurable
  /\ level \in OpenLevels => stored \in OpenLevels
  /\ (step \in {"apply", "gate"} /\ next \in OpenLevels) => stored \in OpenLevels
  /\ step = "gate" => level = next
  /\ step \in {"apply", "gate", "save"} => next # "unknown"
  /\ (step = "save" /\ next \notin OpenLevels) => (gate /\ level = next)
  /\ (step \in {"hold", "doubt"}) => level = "unknown"
  /\ step = "doubt" => gate
  /\ (stored \in Emergency /\ step # "boot") => level \in Emergency
  /\ (step = "save" /\ next \in OpenLevels /\ level \in Emergency) => clear

\* A verdict is one of the four a measurement can give.
LEMMA NextLevelType ==
  ASSUME NEW prev, NEW f PROVE NextLevel(prev, f) \in {"hard", "soft", "high", "normal"}
BY DEF NextLevel

\* An emergency is left only by facts that clear every floor by its band.
LEMMA NextLevelClears ==
  ASSUME NEW prev \in Emergency, NEW f \in Facts, NextLevel(prev, f) \in OpenLevels
  PROVE  Clears(f)
BY PressureAssumption DEF NextLevel, Clears, Facts, Band, InodeBand, SoftFloor, OpenLevels

\* The invariant holds at the first start.
LEMMA PressureInvInit == PressureInit => PressureInv
BY DEF PressureInit, PressureInv, PressureTypeOK, OpenIsDurable, OpenLevels

\* A measurement keeps the invariant.
LEMMA PressureInvMeasure ==
  ASSUME PressureInv, NEW f \in Facts, Measure(f) PROVE PressureInv'
<1>1. next' \in {"hard", "soft", "high", "normal"}
  BY NextLevelType DEF Measure
<1>2. clear' \in BOOLEAN
  BY DEF Measure, Clears
<1>3. (level \in Emergency /\ next' \in OpenLevels) => clear'
  BY NextLevelClears DEF Measure, Clears
<1>4. /\ step = "idle" /\ saved' = FALSE
      /\ step' = (IF AdmissionClosed(level) /\ ~AdmissionClosed(next') THEN "save" ELSE "apply")
      /\ UNCHANGED <<level, gate, stored, recovered>>
  BY DEF Measure
<1> QED
  BY <1>1, <1>2, <1>3, <1>4 DEF PressureInv, PressureTypeOK, OpenIsDurable, OpenLevels

\* Every step keeps the invariant.
LEMMA PressureInvNext == PressureInv /\ [PressureNext]_pressureVars => PressureInv'
<1> SUFFICES ASSUME PressureInv, [PressureNext]_pressureVars PROVE PressureInv'
  OBVIOUS
<1> USE DEF PressureInv, PressureTypeOK, OpenIsDurable, OpenLevels
<1>1. CASE Resume
  BY <1>1 DEF Resume
<1>2. CASE HoldUnknown
  BY <1>2 DEF HoldUnknown
<1>3. CASE ApplyLevel
  BY <1>3 DEF ApplyLevel
<1>4. CASE ApplyGate
  BY <1>4 DEF ApplyGate
<1>5. CASE CollectGarbage
  BY <1>5 DEF CollectGarbage
<1>6. CASE Persist
  BY <1>6 DEF Persist, OpensAdmission
<1>7. ASSUME NEW f \in Facts, Measure(f) PROVE PressureInv'
  BY <1>7, PressureInvMeasure
<1>8. ASSUME NEW ok \in BOOLEAN, SaveUnknown(ok) PROVE PressureInv'
  BY <1>8 DEF SaveUnknown
<1>9. CASE MeasureFails
  BY <1>9 DEF MeasureFails
<1>10. CASE PersistFails
  BY <1>10 DEF PersistFails
<1>11. CASE ControllerReplaced
  BY <1>11 DEF ControllerReplaced
<1>12. CASE HostRecovers
  BY <1>12 DEF HostRecovers
<1>13. CASE UNCHANGED pressureVars
  BY <1>13 DEF pressureVars
<1> QED
  BY <1>1, <1>2, <1>3, <1>4, <1>5, <1>6, <1>7, <1>8, <1>9, <1>10, <1>11, <1>12, <1>13
  DEF PressureNext, PressurePass

\* Credit is handed out only under a durable verdict that opens admission,
\* whatever fails and whenever the controller is replaced (pass, resume).
THEOREM OpenIsAlwaysDurable == PressureSpec => []OpenIsDurable
<1>1. PressureInv => OpenIsDurable
  BY DEF PressureInv
<1> QED
  BY <1>1, PressureInvInit, PressureInvNext, PTL DEF PressureSpec

\* A durable emergency gives way only to facts that clear every floor by its
\* band, for every floor and watermark (Next, resume, the failure path of pass).
THEOREM EmergencyAlwaysEndsClear == PressureSpec => EmergencyEndsClear
<1> DEFINE Ends == (stored \in Emergency /\ ~AdmissionClosed(stored') /\ stored' # stored) => clear
<1>1. ASSUME PressureInv, PressureInv', [PressureNext]_pressureVars
      PROVE  [Ends]_pressureVars
  <2> SUFFICES ASSUME stored \in Emergency, ~AdmissionClosed(stored'), stored' # stored
               PROVE  clear
    OBVIOUS
  <2>1. CASE Persist
    BY <1>1, <2>1 DEF Persist, PressureInv, PressureTypeOK, OpenLevels
  <2>2. ASSUME NEW ok \in BOOLEAN, SaveUnknown(ok) PROVE clear
    BY <2>2 DEF SaveUnknown
  <2>3. CASE UNCHANGED stored
    BY <2>3
  <2>4. Persist \/ (\E ok \in BOOLEAN : SaveUnknown(ok)) \/ UNCHANGED stored
    BY <1>1 DEF PressureNext, PressurePass, Resume, HoldUnknown, ApplyLevel, ApplyGate, CollectGarbage,
                Measure, MeasureFails, PersistFails, ControllerReplaced, HostRecovers, pressureVars
  <2> QED
    BY <2>1, <2>2, <2>3, <2>4
<1> QED
  BY <1>1, PressureInvInit, PressureInvNext, PTL DEF PressureSpec, EmergencyEndsClear

HIDE DEF Levels, Emergency, AdmissionClosed, SetPressure

-----------------------------------------------------------------------------
(***************************************************************************)
(* Sandbox, for any launches, networks, changes and replacements           *)
(***************************************************************************)

Sandboxes == [deny : SUBSET Subnets, uplink : Int]
GatewayType == [at : {"none", "created", "running", "gone"}, deny : SUBSET Everything]
LaunchType ==
  [at : {"idle", "asks", "given", "prepared", "confirms", "confirmed", "started", "over"},
   box : Sandboxes]
PassType ==
  [by : BoxLeases \cup {"none", "watch"}, mode : {"none", "refresh", "confirm"},
   at : {"none", "build", "list", "reload", "close"}, next : Sandboxes,
   todo : SUBSET BoxLeases, failed : SUBSET BoxLeases, open : BOOLEAN]

\* The types, without the bounds.
BoxTypes ==
  /\ world \in Sandboxes /\ force \in Sandboxes
  /\ gateway \in [BoxLeases -> GatewayType] /\ launch \in [BoxLeases -> LaunchType] /\ pass \in PassType

\* Who holds the slot is at the step that belongs to it.
SlotInv ==
  /\ pass = NoPass <=> pass.at = "none"
  /\ pass.mode = "none" <=> pass.at = "none"
  /\ pass.mode = "confirm" => /\ pass.by \in BoxLeases /\ launch[pass.by].at = "confirms"
                              /\ pass.at \in {"list", "reload"} /\ pass.next = force
  /\ (pass.mode = "refresh" /\ pass.by # "watch") => pass.by \in BoxLeases /\ launch[pass.by].at = "asks"
  /\ pass.at # "reload" => pass.todo = {}
  /\ pass.at # "close" => ~pass.open

\* A launch has a gateway from when it was handed its copy, made with that copy.
BoxesMadeInv ==
  \A l \in BoxLeases :
    /\ launch[l].at \in {"idle", "asks"} => gateway[l].at \notin {"created", "running"}
    /\ (launch[l].at = "given" /\ gateway[l].at = "created")
         => launch[l].box.deny \subseteq gateway[l].deny

\* The launches whose gateway relays for a capsule, or is to.
Bound == {l \in Running : launch[l].at \in {"given", "prepared", "confirmed", "started"}}

Carries(l) == l \in behind \/ force.deny \subseteq gateway[l].deny
AsMade(l)  == launch[l].at \in {"given", "prepared"} /\ launch[l].box.deny \subseteq gateway[l].deny
HasNext(l) == pass.next.deny \subseteq gateway[l].deny

\* A pass that is putting a new set into the gateways.
Applying == pass.mode = "refresh" /\ pass.at \in {"reload", "close"}

\* A gateway carries the record, or what a launch that will compare the two was
\* handed; while a new set is applied, those that took it carry that, and those
\* that would not may carry either.
CarriedInv ==
  /\ ~Applying => \A l \in Bound : Carries(l) \/ AsMade(l)
  /\ Applying => \A l \in Bound :
       /\ l \in pass.todo => Carries(l) \/ AsMade(l)
       /\ l \in pass.failed => Carries(l) \/ AsMade(l) \/ HasNext(l)
       /\ l \notin pass.todo \cup pass.failed => AsMade(l) \/ HasNext(l) \/ pass.open
  /\ (pass.mode = "confirm" /\ pass.at = "reload" /\ pass.by \notin pass.todo) =>
       (gateway[pass.by].at = "running" => force.deny \subseteq gateway[pass.by].deny)

BoxInv == BoxTypes /\ SlotInv /\ BoxesMadeInv /\ CarriedInv

-----------------------------------------------------------------------------
(* The steps' shared pieces *)

LaunchSteps == {"idle", "asks", "given", "prepared", "confirms", "confirmed", "started", "over"}

\* What the record of no pass under way says.
LEMMA NoPassFacts ==
  /\ NoPass \in PassType /\ NoSandbox \in Sandboxes
  /\ NoPass.at = "none" /\ NoPass.mode = "none" /\ NoPass.by = "none" /\ NoPass.todo = {}
  /\ NoPass.failed = {}
  /\ ~NoPass.open
  BY DEF NoPass, NoSandbox, SandboxOf, PassType, Sandboxes

\* One launch moves, and keeps its copy unless it has no more use for it.
LEMMA LaunchAtFacts ==
  ASSUME BoxTypes, NEW l \in BoxLeases, NEW s \in LaunchSteps, LaunchAt(l, s)
  PROVE  /\ launch' \in [BoxLeases -> LaunchType] /\ launch'[l].at = s
         /\ s \notin {"started", "over"} => launch'[l].box = launch[l].box
         /\ \A m \in BoxLeases : m # l => launch'[m] = launch[m]
<1>1. launch[l] \in LaunchType
  BY DEF BoxTypes
<1>2. [at |-> s, box |-> IF s \in {"started", "over"} THEN NoSandbox ELSE launch[l].box] \in LaunchType
  BY <1>1, NoPassFacts DEF LaunchType, LaunchSteps
<1> QED
  BY <1>2 DEF LaunchAt, BoxTypes

\* A new holder of the slot begins with nothing done.
LEMMA NewHolder ==
  ASSUME NEW by \in BoxLeases \cup {"watch"}, NEW mode \in {"refresh", "confirm"},
         NEW at \in {"build", "list"},
         NEW goal \in Sandboxes,
         pass' \in {[NoPass EXCEPT !.by = by, !.mode = mode, !.at = at, !.next = goal],
                    [NoPass EXCEPT !.by = by, !.mode = mode, !.at = at]}
  PROVE  /\ pass' \in PassType /\ pass'.by = by /\ pass'.mode = mode /\ pass'.at = at
         /\ pass'.todo = {} /\ pass'.failed = {} /\ ~pass'.open
         /\ pass' = [NoPass EXCEPT !.by = by, !.mode = mode, !.at = at, !.next = goal]
              => pass'.next = goal
         /\ pass' # NoPass
<1>1. [NoPass EXCEPT !.by = by, !.mode = mode, !.at = at].at = at
  BY DEF NoPass
<1>2. [NoPass EXCEPT !.by = by, !.mode = mode, !.at = at, !.next = goal].at = at
  BY DEF NoPass
<1>3. pass' # NoPass
  BY <1>1, <1>2, NoPassFacts
<1>4. CASE pass' = [NoPass EXCEPT !.by = by, !.mode = mode, !.at = at]
  BY <1>3, <1>4, NoPassFacts DEF NoPass, PassType, NoSandbox, SandboxOf, Sandboxes
<1>5. CASE pass' = [NoPass EXCEPT !.by = by, !.mode = mode, !.at = at, !.next = goal]
  BY <1>3, <1>5, NoPassFacts DEF NoPass, PassType, NoSandbox, SandboxOf, Sandboxes
<1> QED
  BY <1>4, <1>5

\* A pass that succeeds gives the slot back; its launch is confirmed, or handed
\* the record (ConfirmLaunch, ForLaunch).
LEMMA SucceedsFacts ==
  ASSUME BoxTypes, SlotInv, pass.mode \in {"refresh", "confirm"}, force' \in Sandboxes, Succeeds
  PROVE  /\ pass' = NoPass /\ launch' \in [BoxLeases -> LaunchType]
         /\ \A l \in BoxLeases :
              \/ launch'[l] = launch[l]
              \/ l = pass.by /\ pass.mode = "confirm" /\ launch'[l].at = "confirmed"
              \/ /\ l = pass.by /\ pass.mode = "refresh" /\ launch[l].at = "asks"
                 /\ launch'[l] = [at |-> "given", box |-> force']
<1>1. CASE pass.by = "watch"
  BY <1>1 DEF Succeeds, BoxTypes
<1>2. CASE pass.by # "watch" /\ pass.mode = "confirm"
  <2>1. pass.by \in BoxLeases /\ LaunchAt(pass.by, "confirmed")
    BY <1>2 DEF Succeeds, SlotInv
  <2> QED
    BY <1>2, <2>1, LaunchAtFacts DEF Succeeds, LaunchSteps
<1>3. CASE pass.by # "watch" /\ pass.mode = "refresh"
  <2>1. pass.by \in BoxLeases /\ launch[pass.by].at = "asks"
    BY <1>3 DEF SlotInv
  <2>2. launch' = [launch EXCEPT ![pass.by] = [at |-> "given", box |-> force']]
    BY <1>3 DEF Succeeds
  <2>3. [at |-> "given", box |-> force'] \in LaunchType
    BY DEF LaunchType
  <2> QED
    BY <1>3, <2>1, <2>2, <2>3 DEF Succeeds, BoxTypes
<1> QED
  BY <1>1, <1>2, <1>3

\* A pass that fails gives the slot back, with its launch over or with every
\* gateway to be closed after that (Watch).
LEMMA FailsFacts ==
  ASSUME BoxTypes, SlotInv, pass.mode \in {"refresh", "confirm"}, Fails
  PROVE  /\ pass' = NoPass /\ launch' \in [BoxLeases -> LaunchType]
         /\ \A l \in BoxLeases : launch'[l] = launch[l] \/ launch'[l].at = "over"
<1>1. CASE pass.by = "watch"
  BY <1>1 DEF Fails, BoxTypes
<1>2. CASE pass.by # "watch"
  <2>1. pass.by \in BoxLeases /\ pass' = NoPass /\ LaunchAt(pass.by, "over")
    BY <1>2 DEF Fails, SlotInv
  <2> QED
    BY <2>1, LaunchAtFacts DEF LaunchSteps
<1> QED
  BY <1>1, <1>2

\* A controller that launched nothing satisfies BoxInv.
LEMMA BoxInitInv == SandboxInit => BoxInv
<1> SUFFICES ASSUME SandboxInit PROVE BoxInv
  OBVIOUS
<1> USE DEF SandboxInit
<1>1. BoxTypes
  BY NoPassFacts DEF BoxTypes, GatewayType, LaunchType, Sandboxes, SandboxOf
<1>2. SlotInv
  BY NoPassFacts DEF SlotInv
<1>3. BoxesMadeInv
  BY DEF BoxesMadeInv
<1>4. CarriedInv
  BY NoPassFacts DEF CarriedInv, Applying, Bound, Running
<1> QED
  BY <1>1, <1>2, <1>3, <1>4 DEF BoxInv

-----------------------------------------------------------------------------
(* Steps that leave the gateways and the record alone *)

\* What such a step has to show when no pass is applying a set before or after.
LEMMA QuietBoxStep ==
  ASSUME BoxInv, UNCHANGED <<force, gateway, behind>>, ~Applying, ~Applying',
         ~(pass'.mode = "confirm" /\ pass'.at = "reload"),
         BoxTypes', SlotInv',
         \A l \in BoxLeases :
           \/ launch'[l] = launch[l]
           \/ launch'[l].at \in {"asks", "confirms", "over"} /\ launch[l].at \in LaunchSteps
              /\ (launch'[l].at = "asks" => launch[l].at = "idle")
           \/ launch'[l].at \in {"confirmed", "started"} /\ (l \in Running => Carries(l))
           \/ launch'[l].at = "given" /\ launch[l].at = "asks"
           \/ launch'[l].at = "prepared" /\ launch[l].at = "given" /\ launch'[l].box = launch[l].box
  PROVE  BoxInv'
<1>1. BoxesMadeInv'
  BY DEF BoxInv, BoxesMadeInv
<1>2. \A l \in Bound' : Carries(l)' \/ AsMade(l)'
  <2> SUFFICES ASSUME NEW l \in BoxLeases, gateway[l].at = "running",
                      launch'[l].at \in {"given", "prepared", "confirmed", "started"}
               PROVE  Carries(l)' \/ AsMade(l)'
    BY DEF Bound, Running
  <2>1. Carries(l)' <=> Carries(l)
    BY DEF Carries
  <2>2. CASE launch'[l] = launch[l]
    BY <2>1, <2>2 DEF BoxInv, CarriedInv, Bound, Running, AsMade
  <2>3. CASE launch'[l].at \in {"confirmed", "started"} /\ Carries(l)
    BY <2>1, <2>3
  <2>4. CASE launch'[l].at = "given" /\ launch[l].at = "asks"
    BY <2>4 DEF BoxInv, BoxesMadeInv
  <2>5. CASE launch'[l].at = "prepared" /\ launch[l].at = "given" /\ launch'[l].box = launch[l].box
    BY <2>1, <2>5 DEF BoxInv, CarriedInv, Bound, Running, AsMade
  <2> QED
    BY <2>2, <2>3, <2>4, <2>5 DEF Running
<1>3. CarriedInv'
  BY <1>2 DEF CarriedInv
<1> QED
  BY <1>1, <1>3 DEF BoxInv

\* Beginning a pass, alone or for a launch (Watch, ForLaunch, ConfirmLaunch).
LEMMA BeginBoxKeeps ==
  ASSUME BoxInv, \/ Watch \/ \E l \in BoxLeases : ForLaunch(l) \/ ConfirmLaunch(l)
  PROVE  BoxInv'
<1>0. BoxTypes /\ SlotInv /\ BoxesMadeInv /\ CarriedInv /\ force \in Sandboxes
  BY DEF BoxInv, BoxTypes
<1>1. pass = NoPass /\ ~Applying
  BY NoPassFacts DEF Watch, ForLaunch, ConfirmLaunch, HoldSlot, Applying
<1>2. CASE Watch
  <2>1. pass' = [NoPass EXCEPT !.by = "watch", !.mode = "refresh", !.at = "build"]
        /\ UNCHANGED <<world, force, gateway, launch, behind>>
    BY <1>2 DEF Watch, HoldSlot
  <2>2. pass' \in PassType /\ pass'.by = "watch" /\ pass'.mode = "refresh" /\ pass'.at = "build"
          /\ ~pass'.open /\ pass'.todo = {} /\ pass' # NoPass
    BY <1>0, <2>1, NewHolder
  <2>3. BoxTypes' /\ SlotInv' /\ ~Applying'
    BY <1>0, <2>1, <2>2 DEF BoxTypes, SlotInv, Applying
  <2> QED
    BY <1>1, <2>1, <2>2, <2>3, QuietBoxStep
<1>3. ASSUME NEW l \in BoxLeases, ForLaunch(l) PROVE BoxInv'
  <2>1. pass' = [NoPass EXCEPT !.by = l, !.mode = "refresh", !.at = "build"]
        /\ UNCHANGED <<world, force, gateway, behind>> /\ LaunchAt(l, "asks") /\ launch[l].at = "idle"
    BY <1>3 DEF ForLaunch, HoldSlot
  <2>2. pass' \in PassType /\ pass'.by = l /\ pass'.mode = "refresh" /\ pass'.at = "build"
          /\ ~pass'.open /\ pass'.todo = {} /\ pass' # NoPass
    BY <1>0, <2>1, NewHolder
  <2>3. /\ launch' \in [BoxLeases -> LaunchType] /\ launch'[l].at = "asks"
        /\ \A m \in BoxLeases : m # l => launch'[m] = launch[m]
    BY <1>0, <2>1, LaunchAtFacts DEF LaunchSteps
  <2>4. BoxTypes' /\ SlotInv' /\ ~Applying'
    BY <1>0, <2>1, <2>2, <2>3 DEF BoxTypes, SlotInv, Applying
  <2> QED
    BY <1>1, <2>1, <2>2, <2>3, <2>4, QuietBoxStep DEF LaunchSteps
<1>4. ASSUME NEW l \in BoxLeases, ConfirmLaunch(l) PROVE BoxInv'
  <2>0. UNCHANGED <<world, force, gateway, behind>> /\ launch[l].at = "prepared"
    BY <1>4 DEF ConfirmLaunch
  <2>1. CASE SameSandbox(launch[l].box, force)
    <3>1. LaunchAt(l, "confirmed") /\ pass' = pass
      BY <1>4, <2>1 DEF ConfirmLaunch
    <3>2. launch[l].box.deny = force.deny
      <4>1. launch[l].box.deny \subseteq Subnets /\ force.deny \subseteq Subnets
        BY <1>0 DEF BoxTypes, LaunchType, Sandboxes
      <4> QED
        BY <2>1, <4>1 DEF SameSandbox, ClassifyPolicy
    <3>3. l \in Running => Carries(l)
      BY <1>0, <1>1, <2>0, <3>2 DEF CarriedInv, Bound, Running, AsMade, Carries
    <3>4. /\ launch' \in [BoxLeases -> LaunchType] /\ launch'[l].at = "confirmed"
          /\ \A m \in BoxLeases : m # l => launch'[m] = launch[m]
      BY <1>0, <3>1, LaunchAtFacts DEF LaunchSteps
    <3>5. BoxTypes' /\ SlotInv' /\ ~Applying'
      BY <1>0, <1>1, <2>0, <3>1, <3>4, NoPassFacts DEF BoxTypes, SlotInv, Applying
    <3>6. ~(pass'.mode = "confirm" /\ pass'.at = "reload")
      BY <1>1, <3>1, NoPassFacts
    <3> QED
      BY <1>1, <2>0, <3>1, <3>3, <3>4, <3>5, <3>6, QuietBoxStep
  <2>2. CASE ~SameSandbox(launch[l].box, force)
    <3>1. /\ pass' = [NoPass EXCEPT !.by = l, !.mode = "confirm", !.at = "list", !.next = force]
          /\ LaunchAt(l, "confirms")
      BY <1>4, <2>2 DEF ConfirmLaunch
    <3>2. /\ pass' \in PassType /\ pass'.by = l /\ pass'.mode = "confirm" /\ pass'.at = "list"
          /\ ~pass'.open /\ pass'.todo = {} /\ pass' # NoPass
          /\ pass'.next = force
      BY <1>0, <3>1, NewHolder
    <3>3. /\ launch' \in [BoxLeases -> LaunchType] /\ launch'[l].at = "confirms"
          /\ \A m \in BoxLeases : m # l => launch'[m] = launch[m]
      BY <1>0, <3>1, LaunchAtFacts DEF LaunchSteps
    <3>4. BoxTypes' /\ SlotInv' /\ ~Applying'
      BY <1>0, <2>0, <3>2, <3>3 DEF BoxTypes, SlotInv, Applying
    <3> QED
      BY <1>1, <2>0, <3>2, <3>3, <3>4, QuietBoxStep DEF LaunchSteps
  <2> QED
    BY <2>1, <2>2
<1> QED
  BY <1>2, <1>3, <1>4

\* Discovery and listing (build, ownedContainers).
LEMMA LookKeeps ==
  ASSUME BoxInv, BuildSandbox \/ DaemonFails \/ OwnedContainers
  PROVE  BoxInv'
<1>0. BoxTypes /\ SlotInv /\ BoxesMadeInv /\ CarriedInv /\ force \in Sandboxes /\ world \in Sandboxes
        /\ pass \in PassType
  BY DEF BoxInv, BoxTypes
<1>1. UNCHANGED <<world, force, gateway, behind>>
  BY DEF BuildSandbox, DaemonFails, OwnedContainers
<1>2. \A l \in BoxLeases : launch[l].at \in LaunchSteps
  BY <1>0 DEF BoxTypes, LaunchType, LaunchSteps
\* a pass that succeeds or fails before it applied anything
<1>3. ASSUME Succeeds, pass.mode = "refresh", ~Applying PROVE BoxInv'
  <2>1. /\ pass' = NoPass /\ launch' \in [BoxLeases -> LaunchType]
        /\ \A l \in BoxLeases : \/ launch'[l] = launch[l]
                                \/ launch[l].at = "asks" /\ launch'[l] = [at |-> "given", box |-> force']
    BY <1>0, <1>1, <1>3, SucceedsFacts
  <2>2. BoxTypes' /\ SlotInv' /\ ~Applying' /\ pass'.mode = "none"
    BY <1>0, <1>1, <2>1, NoPassFacts DEF BoxTypes, SlotInv, Applying
  <2> QED
    BY <1>1, <1>3, <2>1, <2>2, QuietBoxStep
<1>4. ASSUME Fails, pass.mode \in {"refresh", "confirm"}, ~Applying PROVE BoxInv'
  <2>1. /\ pass' = NoPass /\ launch' \in [BoxLeases -> LaunchType]
        /\ \A l \in BoxLeases : launch'[l] = launch[l] \/ launch'[l].at = "over"
    BY <1>0, <1>4, FailsFacts
  <2>2. BoxTypes' /\ SlotInv' /\ ~Applying' /\ pass'.mode # "confirm"
    BY <1>0, <1>1, <2>1, NoPassFacts DEF BoxTypes, SlotInv, Applying
  <2> QED
    BY <1>1, <1>2, <1>4, <2>1, <2>2, QuietBoxStep
<1>5. CASE BuildSandbox
  <2>0. pass.mode = "refresh" /\ ~Applying
    BY <1>0, <1>5 DEF BuildSandbox, SlotInv, PassType, Applying
  <2>1. CASE SameSandbox(force, world)
    BY <1>3, <1>5, <2>0, <2>1 DEF BuildSandbox
  <2>2. CASE ~SameSandbox(force, world)
    <3>1. pass' = [pass EXCEPT !.at = "list", !.next = world] /\ launch' = launch
      BY <1>5, <2>2 DEF BuildSandbox
    <3>2. /\ pass' \in PassType /\ pass'.at = "list" /\ pass'.mode = pass.mode /\ pass'.by = pass.by
          /\ pass'.open = pass.open /\ pass'.todo = pass.todo
      BY <1>0, <3>1 DEF PassType
    <3>3. pass' # NoPass /\ ~pass.open /\ pass.todo = {}
      BY <1>0, <1>5, <3>2, NoPassFacts DEF SlotInv, BuildSandbox
    <3>4. BoxTypes' /\ SlotInv' /\ ~Applying'
      BY <1>0, <1>1, <2>0, <3>1, <3>2, <3>3 DEF BoxTypes, SlotInv, Applying
    <3> QED
      BY <1>1, <2>0, <3>1, <3>2, <3>4, QuietBoxStep
  <2> QED
    BY <2>1, <2>2
<1>6. CASE DaemonFails
  <2>1. ~Applying /\ pass.mode \in {"refresh", "confirm"}
    BY <1>0, <1>6 DEF DaemonFails, Applying, SlotInv, PassType
  <2> QED
    BY <1>4, <1>6, <2>1 DEF DaemonFails
<1>7. CASE OwnedContainers
  <2>0. pass.at = "list" /\ ~Applying /\ ~pass.open /\ pass.mode # "none" /\ Running \subseteq BoxLeases
    BY <1>0, <1>7 DEF OwnedContainers, Applying, SlotInv, Running
  <2>1. CASE pass.mode = "confirm"
    <3>1. CASE Running \cap {pass.by} = {}
      <4>1. Fails
        BY <1>7, <2>1, <3>1 DEF OwnedContainers
      <4> QED
        BY <1>4, <2>0, <2>1, <4>1
    <3>2. CASE Running \cap {pass.by} # {}
      <4>1. pass' = [pass EXCEPT !.at = "reload", !.todo = Running \cap {pass.by}] /\ launch' = launch
        BY <1>7, <2>1, <3>2 DEF OwnedContainers
      <4>2. /\ pass' \in PassType /\ pass'.at = "reload" /\ pass'.mode = "confirm" /\ pass'.by = pass.by
            /\ pass'.todo = Running \cap {pass.by} /\ pass'.next = pass.next /\ pass'.open = pass.open
        BY <1>0, <2>0, <2>1, <4>1 DEF PassType
      <4>3. BoxTypes' /\ SlotInv' /\ ~Applying' /\ pass.by \in pass'.todo
        BY <1>0, <1>1, <2>0, <2>1, <3>2, <4>1, <4>2, NoPassFacts DEF BoxTypes, SlotInv, Applying
      <4>4. BoxesMadeInv' /\ CarriedInv'
        BY <1>0, <1>1, <2>0, <4>1, <4>2, <4>3 DEF BoxesMadeInv, CarriedInv, Bound, Running, Carries, AsMade
      <4> QED
        BY <4>3, <4>4 DEF BoxInv
    <3> QED
      BY <3>1, <3>2
  <2>3. CASE pass.mode = "refresh"
    <3>1. pass' = [pass EXCEPT !.at = "reload", !.todo = Running] /\ launch' = launch
      BY <1>7, <2>3 DEF OwnedContainers
    <3>2. /\ pass' \in PassType /\ pass'.at = "reload" /\ pass'.mode = "refresh" /\ pass'.todo = Running
          /\ pass'.by = pass.by /\ pass'.open = pass.open /\ pass'.failed = pass.failed
      BY <1>0, <2>0, <2>3, <3>1 DEF PassType
    <3>3. BoxTypes' /\ SlotInv' /\ Bound' \subseteq pass'.todo /\ Bound' = Bound
      BY <1>0, <1>1, <2>0, <2>3, <3>1, <3>2, NoPassFacts DEF BoxTypes, SlotInv, Bound, Running
    <3>4. \A l \in Bound : Carries(l)' \/ AsMade(l)'
      BY <1>0, <1>1, <2>0, <3>1 DEF CarriedInv, Carries, AsMade
    <3>5. BoxesMadeInv' /\ CarriedInv'
      BY <1>0, <1>1, <3>1, <3>2, <3>3, <3>4 DEF BoxesMadeInv, CarriedInv
    <3> QED
      BY <3>3, <3>5 DEF BoxInv
  <2> QED
    BY <1>0, <2>0, <2>1, <2>3 DEF PassType
<1> QED
  BY <1>5, <1>6, <1>7

-----------------------------------------------------------------------------
(* A launch and its gateway *)

\* A launch makes its gateway with its copy, and neither it nor its end
\* disturbs what the others carry, whatever a pass is doing meanwhile.
LEMMA LaunchKeeps ==
  ASSUME BoxInv, NEW l \in BoxLeases,
         CreateGateway(l) \/ StartGateway(l) \/ Prepared(l) \/ StartCapsule(l) \/ LaunchEnds(l)
  PROVE  BoxInv'
<1>0. BoxTypes /\ SlotInv /\ BoxesMadeInv /\ CarriedInv /\ gateway[l] \in GatewayType
        /\ launch[l] \in LaunchType
  BY DEF BoxInv, BoxTypes
<1>1. UNCHANGED <<world, force, pass, behind>>
  BY DEF CreateGateway, StartGateway, Prepared, StartCapsule, LaunchEnds
\* one launch moves in its own right, and only its gateway may change
<1>2. ASSUME BoxTypes', launch[l].at \notin {"asks", "confirms"}, launch'[l].at \notin {"idle", "asks"},
             \A m \in BoxLeases : m # l => launch'[m] = launch[m] /\ gateway'[m] = gateway[m],
             (launch'[l].at = "given" /\ gateway'[l].at = "created")
               => launch'[l].box.deny \subseteq gateway'[l].deny,
             \/ gateway'[l].at # "running"
             \/ launch'[l].at = "over"
             \/ AsMade(l)'
             \/ /\ gateway'[l] = gateway[l] /\ l \in Bound
                /\ AsMade(l) => AsMade(l)'
      PROVE  BoxInv'
  <2>1. SlotInv'
    BY <1>0, <1>1, <1>2 DEF SlotInv
  <2>2. BoxesMadeInv'
    BY <1>0, <1>2 DEF BoxesMadeInv
  <2>3. ASSUME NEW m \in BoxLeases, m \in Bound'
        PROVE  AsMade(m)' \/ (m \in Bound /\ gateway'[m] = gateway[m] /\ (AsMade(m) => AsMade(m)'))
    BY <1>2, <2>3 DEF Bound, Running, AsMade
  <2>4. \A m \in Bound' : m \in BoxLeases
    BY DEF Bound, Running
  <2>5. (pass.mode = "confirm" /\ pass.at = "reload" /\ pass.by \notin pass.todo)
          => gateway'[pass.by] = gateway[pass.by]
    BY <1>0, <1>2 DEF SlotInv
  <2>6. CarriedInv'
    BY <1>0, <1>1, <2>3, <2>4, <2>5 DEF CarriedInv, Applying, Carries, HasNext
  <2> QED
    BY <1>2, <2>1, <2>2, <2>6 DEF BoxInv
<1>3. CASE CreateGateway(l)
  <2> DEFINE g == [at |-> "created", deny |-> launch[l].box.deny]
  <2>1. gateway' = [gateway EXCEPT ![l] = g] /\ launch' = launch /\ launch[l].at = "given"
    BY <1>3 DEF CreateGateway
  <2>2. g \in GatewayType
    BY <1>0 DEF GatewayType, LaunchType, Sandboxes, Everything
  <2>3. /\ gateway'[l] = g /\ \A m \in BoxLeases : m # l => gateway'[m] = gateway[m]
        /\ gateway' \in [BoxLeases -> GatewayType]
    BY <1>0, <2>1, <2>2 DEF BoxTypes
  <2>4. BoxTypes'
    BY <1>0, <1>1, <2>1, <2>3 DEF BoxTypes
  <2> QED
    BY <1>2, <2>1, <2>3, <2>4
<1>4. CASE StartGateway(l)
  <2>1. /\ gateway' = [gateway EXCEPT ![l].at = "running"] /\ launch' = launch
        /\ launch[l].at = "given" /\ gateway[l].at = "created"
    BY <1>4 DEF StartGateway
  <2>2. /\ gateway'[l].at = "running" /\ gateway'[l].deny = gateway[l].deny
        /\ \A m \in BoxLeases : m # l => gateway'[m] = gateway[m]
        /\ gateway' \in [BoxLeases -> GatewayType]
    BY <1>0, <2>1 DEF BoxTypes, GatewayType
  <2>3. BoxTypes'
    BY <1>0, <1>1, <2>1, <2>2 DEF BoxTypes
  <2>4. AsMade(l)'
    BY <1>0, <2>1, <2>2 DEF BoxesMadeInv, AsMade
  <2> QED
    BY <1>2, <2>1, <2>2, <2>3, <2>4
<1>5. CASE Prepared(l)
  <2>1. LaunchAt(l, "prepared") /\ gateway' = gateway /\ launch[l].at = "given"
          /\ gateway[l].at = "running"
    BY <1>5 DEF Prepared
  <2>2. /\ launch' \in [BoxLeases -> LaunchType] /\ launch'[l].at = "prepared"
        /\ launch'[l].box = launch[l].box
        /\ \A m \in BoxLeases : m # l => launch'[m] = launch[m]
    BY <1>0, <2>1, LaunchAtFacts DEF LaunchSteps
  <2>3. BoxTypes' /\ l \in Bound /\ (AsMade(l) => AsMade(l)')
    BY <1>0, <1>1, <2>1, <2>2 DEF BoxTypes, Bound, Running, AsMade
  <2> QED
    BY <1>2, <2>1, <2>2, <2>3
<1>6. CASE StartCapsule(l)
  <2>1. LaunchAt(l, "started") /\ gateway' = gateway /\ launch[l].at = "confirmed"
    BY <1>6 DEF StartCapsule
  <2>2. /\ launch' \in [BoxLeases -> LaunchType] /\ launch'[l].at = "started"
        /\ \A m \in BoxLeases : m # l => launch'[m] = launch[m]
    BY <1>0, <2>1, LaunchAtFacts DEF LaunchSteps
  <2>3. BoxTypes' /\ ~AsMade(l) /\ (gateway[l].at = "running" => l \in Bound)
    BY <1>0, <1>1, <2>1, <2>2 DEF BoxTypes, Bound, Running, AsMade
  <2> QED
    BY <1>2, <2>1, <2>2, <2>3
<1>7. CASE LaunchEnds(l)
  <2>1. LaunchAt(l, "over") /\ gateway' = [gateway EXCEPT ![l] = Gone]
          /\ launch[l].at \notin {"asks", "confirms"}
    BY <1>7 DEF LaunchEnds
  <2>2. /\ launch' \in [BoxLeases -> LaunchType] /\ launch'[l].at = "over"
        /\ \A m \in BoxLeases : m # l => launch'[m] = launch[m]
    BY <1>0, <2>1, LaunchAtFacts DEF LaunchSteps
  <2>3. Gone \in GatewayType
    BY DEF Gone, GatewayType
  <2>4. gateway' \in [BoxLeases -> GatewayType] /\ \A m \in BoxLeases : m # l => gateway'[m] = gateway[m]
    BY <1>0, <2>1, <2>3 DEF BoxTypes
  <2>5. BoxTypes'
    BY <1>0, <1>1, <2>2, <2>4 DEF BoxTypes
  <2> QED
    BY <1>2, <2>1, <2>2, <2>4, <2>5
<1> QED
  BY <1>3, <1>4, <1>5, <1>6, <1>7

-----------------------------------------------------------------------------
(* Putting a set into the gateways *)

\* A gateway that takes a set carries it, and one that does not is as it was
\* (reloadGateway).
LEMMA ReloadKeeps ==
  ASSUME BoxInv, NEW l \in BoxLeases, NEW took \in BOOLEAN, NEW answered \in BOOLEAN,
         ReloadGateway(l, took, answered)
  PROVE  BoxInv'
<1>0. /\ BoxTypes /\ SlotInv /\ BoxesMadeInv /\ CarriedInv /\ pass \in PassType /\ gateway[l] \in GatewayType
      /\ pass.next.deny \subseteq Subnets
  BY DEF BoxInv, BoxTypes, PassType, Sandboxes
<1>1. /\ pass.at = "reload" /\ l \in pass.todo /\ UNCHANGED <<world, force>> /\ ~pass.open
      /\ pass.mode \in {"refresh", "confirm"}
  BY <1>0 DEF ReloadGateway, SlotInv, PassType
<1>2. /\ gateway' \in [BoxLeases -> GatewayType]
      /\ \A m \in BoxLeases : gateway'[m].at = gateway[m].at
      /\ \A m \in BoxLeases : m # l => gateway'[m] = gateway[m]
      /\ took => gateway'[l].deny = pass.next.deny /\ gateway[l].at = "running"
      /\ ~took => gateway' = gateway
  <2>1. CASE took
    <3>1. gateway' = [gateway EXCEPT ![l].deny = pass.next.deny] /\ l \in Running
      BY <2>1 DEF ReloadGateway
    <3> QED
      BY <1>0, <2>1, <3>1 DEF BoxTypes, GatewayType, Running, Everything
  <2>2. CASE ~took
    BY <1>0, <2>2 DEF ReloadGateway, BoxTypes
  <2> QED
    BY <2>1, <2>2
<1>3. /\ \A m \in behind : m \in behind' \/ (m = l /\ took /\ pass.next = force)
      /\ behind' \subseteq behind
  BY DEF ReloadGateway
\* what was carried or made is so still, but for the one gateway that took
<1>4. ASSUME NEW m \in BoxLeases, m # l \/ ~took
      PROVE  /\ Carries(m)' <=> Carries(m)
             /\ gateway'[m] = gateway[m]
  BY <1>1, <1>2, <1>3, <1>4 DEF Carries
<1>5. took /\ pass.next = force => Carries(l)'
  BY <1>1, <1>2 DEF Carries
<1>6. CASE (took /\ answered) \/ pass.mode = "refresh"
  <2>1. /\ launch' = launch
        /\ pass' \in {[pass EXCEPT !.todo = @ \ {l}],
             [pass EXCEPT !.todo = @ \ {l}, !.failed = @ \cup {l}]}
        /\ (took /\ answered) \/ pass' = [pass EXCEPT !.todo = @ \ {l}, !.failed = @ \cup {l}]
    BY <1>6, <1>1 DEF ReloadGateway
  <2>2. /\ pass' \in PassType /\ pass'.at = "reload" /\ pass'.mode = pass.mode /\ pass'.by = pass.by
        /\ pass'.next = pass.next /\ pass'.open = pass.open /\ pass'.todo = pass.todo \ {l}
        /\ pass.failed \subseteq pass'.failed /\ pass'.failed \subseteq pass.failed \cup {l}
        /\ (took /\ answered) \/ l \in pass'.failed
    <3>1. CASE pass' = [pass EXCEPT !.todo = @ \ {l}] /\ took /\ answered
      BY <1>0, <1>1, <3>1 DEF PassType
    <3>2. CASE pass' = [pass EXCEPT !.todo = @ \ {l}, !.failed = @ \cup {l}]
      BY <1>0, <1>1, <3>2 DEF PassType
    <3> QED
      BY <2>1, <3>1, <3>2
  <2>3. BoxTypes' /\ SlotInv'
    BY <1>0, <1>1, <1>2, <2>1, <2>2, NoPassFacts DEF BoxTypes, SlotInv
  <2>4. BoxesMadeInv'
    BY <1>0, <1>2, <2>1 DEF BoxesMadeInv
  <2>5. ASSUME NEW m \in BoxLeases PROVE m \in Bound' <=> m \in Bound
    BY <1>2, <2>1 DEF Bound, Running
  <2>6. ASSUME NEW m \in BoxLeases, m # l \/ ~took
        PROVE  (AsMade(m)' <=> AsMade(m)) /\ (HasNext(m)' <=> HasNext(m))
    BY <1>4, <2>1, <2>2, <2>6 DEF AsMade, HasNext
  <2>7. took => HasNext(l)'
    BY <1>2, <2>2 DEF HasNext
  <2>8. CASE pass.mode = "refresh"
    <3>1. Applying /\ Applying'
      BY <1>1, <2>2, <2>8 DEF Applying
    <3>2. ASSUME NEW m \in Bound'
          PROVE  /\ m \in pass'.todo => Carries(m)' \/ AsMade(m)'
                 /\ m \in pass'.failed => Carries(m)' \/ AsMade(m)' \/ HasNext(m)'
                 /\ m \notin pass'.todo \cup pass'.failed => AsMade(m)' \/ HasNext(m)' \/ pass'.open
      <4>1. m \in BoxLeases /\ m \in Bound
        BY <2>5 DEF Bound, Running
      <4>2. CASE m # l
        BY <1>0, <1>4, <2>2, <2>6, <3>1, <4>1, <4>2 DEF CarriedInv
      <4>3. CASE m = l /\ took
        BY <2>2, <2>7, <4>3
      <4>4. CASE m = l /\ ~took
        BY <1>0, <1>1, <1>4, <2>2, <2>6, <3>1, <4>1, <4>4 DEF CarriedInv
      <4> QED
        BY <4>2, <4>3, <4>4
    <3>3. CarriedInv'
      BY <2>2, <2>8, <3>1, <3>2 DEF CarriedInv
    <3> QED
      BY <2>3, <2>4, <3>3 DEF BoxInv
  <2>9. CASE pass.mode = "confirm"
    <3>1. ~Applying /\ ~Applying' /\ took /\ pass.next = force /\ force' = force
      BY <1>0, <1>1, <1>6, <2>2, <2>9 DEF Applying, SlotInv
    <3>2. ASSUME NEW m \in Bound' PROVE Carries(m)' \/ AsMade(m)'
      <4>1. m \in BoxLeases /\ m \in Bound
        BY <2>5 DEF Bound, Running
      <4> QED
        BY <1>0, <1>4, <1>5, <2>6, <3>1, <4>1 DEF CarriedInv
    <3>3. pass.by \notin pass'.todo
            => (gateway'[pass.by].at = "running" => force.deny \subseteq gateway'[pass.by].deny)
      BY <1>0, <1>1, <1>2, <2>2, <2>9, <3>1 DEF CarriedInv, SlotInv
    <3>4. CarriedInv'
      BY <2>2, <2>9, <3>1, <3>2, <3>3 DEF CarriedInv
    <3> QED
      BY <2>3, <2>4, <3>4 DEF BoxInv
  <2> QED
    BY <1>1, <2>8, <2>9
<1>7. CASE ~(took /\ answered) /\ pass.mode = "confirm"
  <2>1. Fails
    BY <1>7 DEF ReloadGateway
  <2>2. /\ pass' = NoPass /\ launch' \in [BoxLeases -> LaunchType]
        /\ \A m \in BoxLeases : launch'[m] = launch[m] \/ launch'[m].at = "over"
    BY <1>0, <1>1, <2>1, FailsFacts
  <2>3. BoxTypes' /\ SlotInv' /\ ~Applying' /\ ~Applying /\ pass'.mode # "confirm"
    BY <1>0, <1>1, <1>2, <1>7, <2>2, NoPassFacts DEF BoxTypes, SlotInv, Applying
  <2>4. BoxesMadeInv'
    BY <1>0, <1>2, <2>2 DEF BoxesMadeInv
  <2>5. ASSUME NEW m \in Bound' PROVE Carries(m)' \/ AsMade(m)'
    <3>1. m \in BoxLeases /\ m \in Bound /\ launch'[m] = launch[m]
      BY <1>2, <2>2 DEF Bound, Running
    <3>2. pass.next = force
      BY <1>0, <1>7 DEF SlotInv
    <3> QED
      BY <1>0, <1>4, <1>5, <2>3, <3>1, <3>2 DEF CarriedInv, AsMade
  <2>6. CarriedInv'
    BY <2>3, <2>5 DEF CarriedInv
  <2> QED
    BY <2>3, <2>4, <2>6 DEF BoxInv
<1> QED
  BY <1>1, <1>6, <1>7

\* A set that reached every gateway, or takes nothing away from what the others
\* deny, becomes the record; any other leads to closing (applyPolicy).
LEMMA ReloadedKeeps ==
  ASSUME BoxInv, Reloaded PROVE BoxInv'
<1>0. /\ BoxTypes /\ SlotInv /\ BoxesMadeInv /\ CarriedInv /\ pass \in PassType /\ force \in Sandboxes
      /\ pass.next \in Sandboxes
  BY DEF BoxInv, BoxTypes, PassType
<1>1. /\ pass.at = "reload" /\ pass.todo = {} /\ UNCHANGED <<world, gateway>> /\ ~pass.open
      /\ pass.mode \in {"refresh", "confirm"}
  BY <1>0 DEF Reloaded, SlotInv, PassType
<1>2. CASE pass.mode = "confirm"
  <2>1. Succeeds /\ UNCHANGED <<force, behind>>
    BY <1>2 DEF Reloaded
  <2>2. /\ pass' = NoPass /\ launch' \in [BoxLeases -> LaunchType]
        /\ \A l \in BoxLeases : \/ launch'[l] = launch[l]
                                \/ l = pass.by /\ launch'[l].at = "confirmed"
    BY <1>0, <1>2, <2>1, SucceedsFacts
  <2>3. BoxTypes' /\ SlotInv' /\ ~Applying' /\ ~Applying /\ pass'.mode = "none"
    BY <1>0, <1>1, <1>2, <2>1, <2>2, NoPassFacts DEF BoxTypes, SlotInv, Applying
  <2>4. pass.by \in Running => Carries(pass.by)
    BY <1>0, <1>1, <1>2 DEF CarriedInv, Running, Carries
  <2> QED
    BY <1>1, <2>1, <2>2, <2>3, <2>4, QuietBoxStep
<1>3. CASE pass.mode = "refresh"
        /\ (pass.failed = {} \/ ~Restricts(ClassifyPolicy(force.deny, pass.next.deny)))
  <2>1. RecordForce /\ Succeeds
    BY <1>3 DEF Reloaded
  <2>2. force' = pass.next /\ behind' = behind \cap pass.failed
    BY <2>1 DEF RecordForce
  <2>3. /\ pass' = NoPass /\ launch' \in [BoxLeases -> LaunchType]
        /\ \A l \in BoxLeases : \/ launch'[l] = launch[l]
                                \/ launch[l].at = "asks" /\ launch'[l].at = "given"
    BY <1>0, <1>3, <2>1, <2>2, SucceedsFacts
  <2>4. BoxTypes' /\ SlotInv' /\ ~Applying' /\ Applying /\ pass'.mode = "none"
    BY <1>0, <1>1, <1>3, <2>2, <2>3, NoPassFacts DEF BoxTypes, SlotInv, Applying
  <2>5. BoxesMadeInv'
    BY <1>0, <1>1, <2>3 DEF BoxesMadeInv
  <2>6. pass.failed # {} => pass.next.deny \subseteq force.deny
    BY <1>0, <1>3 DEF Restricts, ClassifyPolicy, Sandboxes
  <2>7. ASSUME NEW l \in Bound' PROVE Carries(l)' \/ AsMade(l)'
    <3>1. l \in BoxLeases /\ l \in Bound /\ launch'[l] = launch[l]
      BY <1>0, <1>1, <2>3 DEF Bound, Running, BoxesMadeInv
    <3>2. (AsMade(l) => AsMade(l)') /\ (HasNext(l) => Carries(l)')
      BY <1>1, <2>2, <3>1 DEF AsMade, HasNext, Carries
    <3>3. (l \in pass.failed /\ Carries(l)) => Carries(l)'
      BY <1>1, <2>2, <2>6 DEF Carries
    <3> QED
      BY <1>0, <1>1, <2>4, <3>1, <3>2, <3>3 DEF CarriedInv
  <2>8. CarriedInv'
    BY <2>4, <2>7 DEF CarriedInv
  <2> QED
    BY <2>4, <2>5, <2>8 DEF BoxInv
<1>4. CASE pass.mode = "refresh"
        /\ ~(pass.failed = {} \/ ~Restricts(ClassifyPolicy(force.deny, pass.next.deny)))
  <2>1. pass' = [pass EXCEPT !.at = "close"] /\ UNCHANGED <<force, launch, behind>>
    BY <1>4 DEF Reloaded
  <2>2. /\ pass' \in PassType /\ pass'.at = "close" /\ pass'.mode = pass.mode /\ pass'.by = pass.by
        /\ pass'.next = pass.next /\ pass'.open = pass.open /\ pass'.todo = pass.todo
        /\ pass'.failed = pass.failed
    BY <1>0, <2>1 DEF PassType
  <2>3. BoxTypes' /\ SlotInv' /\ Applying' /\ Applying
    BY <1>0, <1>1, <1>4, <2>1, <2>2, NoPassFacts DEF BoxTypes, SlotInv, Applying
  <2>4. BoxesMadeInv'
    BY <1>0, <1>1, <2>1 DEF BoxesMadeInv
  <2>5. CarriedInv'
    BY <1>0, <1>1, <1>4, <2>1, <2>2, <2>3 DEF CarriedInv, Bound, Running, Carries, AsMade, HasNext
  <2> QED
    BY <2>3, <2>4, <2>5 DEF BoxInv
<1> QED
  BY <1>1, <1>2, <1>3, <1>4

\* Closing a gateway removes it, or makes it deny everything, or leaves it
\* (closeGateway).
LEMMA CloseGatewayFacts ==
  ASSUME BoxTypes, NEW l \in BoxLeases, NEW closed \in BOOLEAN, NEW taken \in BOOLEAN,
         CloseGateway(l, closed, taken)
  PROVE  /\ gateway' \in [BoxLeases -> GatewayType]
         /\ \A m \in BoxLeases : m # l => gateway'[m] = gateway[m]
         /\ gateway'[l].at \in {gateway[l].at, "gone"} /\ (taken => gateway'[l].at = "gone")
         /\ gateway'[l].at # "gone"
              => (gateway'[l].deny = gateway[l].deny \/ Subnets \subseteq gateway'[l].deny)
<1>0. gateway[l] \in GatewayType
  BY DEF BoxTypes
<1>1. CASE taken \/ gateway[l] = Gone
  <2>1. gateway' = [gateway EXCEPT ![l] = Gone] /\ Gone \in GatewayType /\ Gone.at = "gone"
    BY <1>1 DEF CloseGateway, Gone, GatewayType
  <2> QED
    BY <1>0, <2>1 DEF BoxTypes
<1>2. CASE ~(taken \/ gateway[l] = Gone)
  <2>1. gateway' = [gateway EXCEPT ![l].deny = IF closed THEN Everything ELSE @]
    BY <1>2 DEF CloseGateway
  <2> QED
    BY <1>0, <1>2, <2>1 DEF BoxTypes, GatewayType, Everything
<1> QED
  BY <1>1, <1>2

\* A failed rediscovery closes gateways without the slot: what they carry only
\* grows, whatever launch, confirmation or pass is under way (closeGateways).
LEMMA CloseListedKeeps ==
  ASSUME BoxInv, NEW l \in BoxLeases, NEW closed \in BOOLEAN, NEW taken \in BOOLEAN,
         CloseListed(l, closed, taken)
  PROVE  BoxInv'
<1>0. /\ BoxTypes /\ SlotInv /\ BoxesMadeInv /\ CarriedInv
      /\ force.deny \subseteq Subnets /\ pass.next.deny \subseteq Subnets
      /\ \A m \in BoxLeases : launch[m].box.deny \subseteq Subnets
  BY DEF BoxInv, BoxTypes, PassType, Sandboxes, LaunchType
<1>1. CloseGateway(l, closed, taken) /\ UNCHANGED <<world, force, launch, pass, behind>>
  BY DEF CloseListed
<1>2. /\ gateway' \in [BoxLeases -> GatewayType]
      /\ \A m \in BoxLeases : /\ gateway'[m].at \in {gateway[m].at, "gone"}
                              /\ gateway'[m].at # "gone" => \/ gateway'[m].deny = gateway[m].deny
                                                            \/ Subnets \subseteq gateway'[m].deny
  BY <1>0, <1>1, CloseGatewayFacts
<1>3. BoxTypes' /\ SlotInv' /\ (Applying' <=> Applying)
  BY <1>0, <1>1, <1>2 DEF BoxTypes, SlotInv, Applying
<1>4. BoxesMadeInv'
  BY <1>0, <1>1, <1>2 DEF BoxesMadeInv
<1>5. ASSUME NEW m \in Bound'
      PROVE  /\ m \in Bound /\ (AsMade(m) => AsMade(m)')
             /\ (Carries(m) => Carries(m)') /\ (HasNext(m) => HasNext(m)')
  <2>1. /\ m \in BoxLeases /\ gateway'[m].at = "running" /\ gateway[m].at = "running"
        /\ launch[m].at \in {"given", "prepared", "confirmed", "started"}
    BY <1>1, <1>2 DEF Bound, Running
  <2>2. gateway[m].deny \subseteq gateway'[m].deny \/ Subnets \subseteq gateway'[m].deny
    BY <1>2, <2>1
  <2> QED
    BY <1>0, <1>1, <2>1, <2>2 DEF Bound, Running, AsMade, Carries, HasNext
<1>6. (gateway[pass.by].at = "running" => force.deny \subseteq gateway[pass.by].deny)
        => (gateway'[pass.by].at = "running" => force.deny \subseteq gateway'[pass.by].deny)
      \/ pass.mode # "confirm"
  BY <1>0, <1>2 DEF SlotInv
<1>7. CarriedInv'
  <2>1. ~Applying => \A m \in Bound' : Carries(m)' \/ AsMade(m)'
    BY <1>0, <1>5 DEF CarriedInv
  <2>2. Applying => \A m \in Bound' :
          /\ m \in pass.todo => Carries(m)' \/ AsMade(m)'
          /\ m \in pass.failed => Carries(m)' \/ AsMade(m)' \/ HasNext(m)'
          /\ m \notin pass.todo \cup pass.failed => AsMade(m)' \/ HasNext(m)' \/ pass.open
    BY <1>0, <1>5 DEF CarriedInv
  <2>3. (pass.mode = "confirm" /\ pass.at = "reload" /\ pass.by \notin pass.todo)
          => (gateway'[pass.by].at = "running" => force.deny \subseteq gateway'[pass.by].deny)
    BY <1>0, <1>6 DEF CarriedInv
  <2> QED
    BY <1>1, <1>3, <2>1, <2>2, <2>3 DEF CarriedInv
<1> QED
  BY <1>3, <1>4, <1>7 DEF BoxInv

\* A pass closes a gateway that did not take a restriction, and remembers one
\* whose removal is not confirmed (applyPolicy).
LEMMA CloseFailedKeeps ==
  ASSUME BoxInv, NEW l \in BoxLeases, NEW closed \in BOOLEAN, NEW taken \in BOOLEAN,
         NEW ok \in BOOLEAN,
         CloseFailed(l, closed, taken, ok)
  PROVE  BoxInv'
<1>0. /\ BoxTypes /\ SlotInv /\ BoxesMadeInv /\ CarriedInv /\ pass \in PassType
      /\ force.deny \subseteq Subnets /\ pass.next.deny \subseteq Subnets
      /\ \A m \in BoxLeases : launch[m].box.deny \subseteq Subnets
  BY DEF BoxInv, BoxTypes, PassType, Sandboxes, LaunchType
<1>1. /\ pass.at = "close" /\ l \in pass.failed /\ UNCHANGED <<world, force, launch, behind>>
      /\ pass.todo = {} /\ CloseGateway(l, closed, taken)
  BY <1>0 DEF CloseFailed, SlotInv
<1>2. /\ pass' = [pass EXCEPT !.failed = @ \ {l}, !.open = @ \/ ~ok]
      /\ ok => taken
  BY DEF CloseFailed
<1>3. /\ pass' \in PassType /\ pass'.at = "close" /\ pass'.mode = pass.mode /\ pass'.by = pass.by
      /\ pass'.next = pass.next /\ pass'.todo = {} /\ pass'.failed = pass.failed \ {l}
      /\ pass'.open <=> (pass.open \/ ~ok)
  BY <1>0, <1>1, <1>2 DEF PassType
<1>4. /\ gateway' \in [BoxLeases -> GatewayType]
      /\ \A m \in BoxLeases : m # l => gateway'[m] = gateway[m]
      /\ gateway'[l].at \in {gateway[l].at, "gone"} /\ (taken => gateway'[l].at = "gone")
      /\ gateway'[l].at # "gone"
           => (gateway'[l].deny = gateway[l].deny \/ Subnets \subseteq gateway'[l].deny)
  BY <1>0, <1>1, CloseGatewayFacts
<1>5. BoxTypes' /\ SlotInv' /\ (Applying' <=> Applying)
  BY <1>0, <1>1, <1>3, <1>4, NoPassFacts DEF BoxTypes, SlotInv, Applying
<1>6. BoxesMadeInv'
  BY <1>0, <1>1, <1>4 DEF BoxesMadeInv
<1>7. ASSUME NEW m \in Bound'
      PROVE  /\ m \in BoxLeases /\ m \in Bound
             /\ (AsMade(m) => AsMade(m)') /\ (Carries(m) => Carries(m)')
             /\ HasNext(m) => HasNext(m)'
             /\ m = l => ~ok
  <2>1. m \in BoxLeases /\ gateway'[m].at = "running"
          /\ launch[m].at \in {"given", "prepared", "confirmed", "started"}
    BY <1>1 DEF Bound, Running
  <2>2. m \in Bound
    BY <1>4, <2>1 DEF Bound, Running
  <2> QED
    BY <1>0, <1>1, <1>2, <1>3, <1>4, <2>1, <2>2 DEF AsMade, Carries, HasNext
<1>8. CarriedInv'
  <2>1. pass.mode # "confirm"
    BY <1>0, <1>1 DEF SlotInv
  <2>2. ~Applying => \A m \in Bound' : Carries(m)' \/ AsMade(m)'
    BY <1>0, <1>7 DEF CarriedInv
  <2>3. ASSUME Applying, NEW m \in Bound'
        PROVE  /\ m \in pass'.failed => Carries(m)' \/ AsMade(m)' \/ HasNext(m)'
               /\ m \notin pass'.failed => AsMade(m)' \/ HasNext(m)' \/ pass'.open
    BY <1>0, <1>1, <1>3, <1>7, <2>3 DEF CarriedInv
  <2> QED
    BY <1>3, <1>5, <2>1, <2>2, <2>3 DEF CarriedInv
<1> QED
  BY <1>5, <1>6, <1>8 DEF BoxInv

\* With every gateway that would not take the set gone it becomes the record;
\* with one left it does not, and whoever relays is on record as left behind.
LEMMA ClosedKeeps ==
  ASSUME BoxInv, Closed PROVE BoxInv'
<1>0. /\ BoxTypes /\ SlotInv /\ BoxesMadeInv /\ CarriedInv /\ pass \in PassType /\ pass.next \in Sandboxes
      /\ force \in Sandboxes
  BY DEF BoxInv, BoxTypes, PassType
<1>1. /\ pass.at = "close" /\ pass.failed = {} /\ pass.mode = "refresh" /\ UNCHANGED <<world, gateway>>
      /\ pass.todo = {} /\ Applying
  BY <1>0 DEF Closed, SlotInv, Applying, PassType
<1>2. CASE ~pass.open
  <2>1. RecordForce /\ Succeeds
    BY <1>2 DEF Closed, Replace
  <2>2. force' = pass.next
    BY <2>1 DEF RecordForce
  <2>3. /\ pass' = NoPass /\ launch' \in [BoxLeases -> LaunchType]
        /\ \A l \in BoxLeases : \/ launch'[l] = launch[l]
                                \/ launch[l].at = "asks" /\ launch'[l].at = "given"
    BY <1>0, <1>1, <2>1, <2>2, SucceedsFacts
  <2>4. BoxTypes' /\ SlotInv' /\ ~Applying' /\ pass'.mode = "none"
    BY <1>0, <1>1, <2>2, <2>3, NoPassFacts DEF BoxTypes, SlotInv, Applying
  <2>5. BoxesMadeInv'
    BY <1>0, <1>1, <2>3 DEF BoxesMadeInv
  <2>6. ASSUME NEW l \in Bound' PROVE Carries(l)' \/ AsMade(l)'
    <3>1. l \in BoxLeases /\ l \in Bound /\ launch'[l] = launch[l]
      BY <1>0, <1>1, <2>3 DEF Bound, Running, BoxesMadeInv
    <3>2. (AsMade(l) => AsMade(l)') /\ (HasNext(l) => Carries(l)')
      BY <1>1, <2>2, <3>1 DEF AsMade, HasNext, Carries
    <3> QED
      BY <1>0, <1>1, <1>2, <3>1, <3>2 DEF CarriedInv
  <2> QED
    BY <2>4, <2>5, <2>6 DEF CarriedInv, BoxInv
<1>3. CASE pass.open
  <2>1. Fails /\ behind' = behind \cup Running /\ force' = force
    BY <1>3 DEF Closed, Replace
  <2>2. /\ pass' = NoPass /\ launch' \in [BoxLeases -> LaunchType]
        /\ \A l \in BoxLeases : launch'[l] = launch[l] \/ launch'[l].at = "over"
    BY <1>0, <1>1, <2>1, FailsFacts
  <2>3. BoxTypes' /\ SlotInv' /\ ~Applying' /\ pass'.mode # "confirm"
    BY <1>0, <1>1, <2>1, <2>2, NoPassFacts DEF BoxTypes, SlotInv, Applying
  <2>4. BoxesMadeInv'
    BY <1>0, <1>1, <2>2 DEF BoxesMadeInv
  <2>5. \A l \in Bound' : Carries(l)'
    BY <1>1, <2>1 DEF Bound, Running, Carries
  <2> QED
    BY <2>3, <2>4, <2>5 DEF CarriedInv, BoxInv
<1> QED
  BY <1>2, <1>3

-----------------------------------------------------------------------------
(* Every step *)

\* A new controller takes what it finds for its record, without telling the
\* gateways of the capsules it adopts: they are left behind (New).
LEMMA RestartKeeps ==
  ASSUME BoxInv, ControllerRestarts PROVE BoxInv'
<1>0. BoxTypes /\ BoxesMadeInv
  BY DEF BoxInv
<1>1. pass' = NoPass /\ force' = world /\ world' = world /\ behind' = behind \cup (Running \cap Started)
  BY DEF ControllerRestarts
<1>2. /\ launch' = [l \in BoxLeases |-> IF launch[l].at \in {"started", "idle"} THEN launch[l]
                                        ELSE [at |-> "over", box |-> NoSandbox]]
      /\ gateway' = [l \in BoxLeases |-> IF launch[l].at \in {"started",
           "idle"} THEN gateway[l] ELSE Gone]
  BY DEF ControllerRestarts
<1>3. [at |-> "over", box |-> NoSandbox] \in LaunchType /\ Gone \in GatewayType /\ Gone.at = "gone"
  BY NoPassFacts DEF LaunchType, Gone, GatewayType
<1>4. BoxTypes'
  BY <1>0, <1>1, <1>2, <1>3, NoPassFacts DEF BoxTypes
<1>5. SlotInv' /\ ~Applying' /\ pass'.mode = "none"
  BY <1>1, NoPassFacts DEF SlotInv, Applying
<1>6. BoxesMadeInv'
  BY <1>0, <1>2 DEF BoxesMadeInv
<1>7. \A l \in Bound' : Carries(l)'
  BY <1>0, <1>1, <1>2, <1>3 DEF Bound, Running, Started, Carries, BoxesMadeInv
<1> QED
  BY <1>4, <1>5, <1>6, <1>7 DEF CarriedInv, BoxInv

\* The host's networks change under everyone, and nothing of this is theirs.
LEMMA BoxStep == BoxInv /\ [SandboxNext]_boxVars => BoxInv'
<1> SUFFICES ASSUME BoxInv, [SandboxNext]_boxVars PROVE BoxInv'
  OBVIOUS
<1>1. ASSUME UNCHANGED <<force, gateway, launch, pass, behind>>, world' \in Sandboxes PROVE BoxInv'
  BY <1>1
  DEF BoxInv, BoxTypes, SlotInv, BoxesMadeInv, CarriedInv, Applying, Bound, Running, Carries, AsMade,
      HasNext
<1>2. ASSUME NEW nets \in SUBSET Subnets, NEW lost \in BOOLEAN, HostChanges(nets, lost) PROVE BoxInv'
  <2>1. world' \in Sandboxes
    BY <1>2 DEF HostChanges, SandboxOf, BoxInv, BoxTypes, Sandboxes
  <2> QED
    BY <1>1, <1>2, <2>1 DEF HostChanges
<1>3. CASE HostSteadies \/ UNCHANGED boxVars
  BY <1>1, <1>3 DEF HostSteadies, boxVars, BoxInv, BoxTypes
<1>4. CASE BoxPass
  BY <1>4, LookKeeps, ReloadKeeps, ReloadedKeeps, CloseFailedKeeps, ClosedKeeps DEF BoxPass
<1>6. CASE CloseGateways
  <2>1. CASE ListToClose \/ ClosedListed
    BY <1>1, <2>1 DEF ListToClose, ClosedListed, BoxInv, BoxTypes
  <2> QED
    BY <1>6, <2>1, CloseListedKeeps DEF CloseGateways
<1>5. CASE \E l \in BoxLeases : LaunchStep(l)
  BY <1>5, BeginBoxKeeps, LaunchKeeps DEF LaunchStep
<1> QED
  BY <1>2, <1>3, <1>4, <1>5, <1>6, BeginBoxKeeps, RestartKeeps DEF SandboxNext

\* While nobody holds the slot a started capsule's gateway denies all that the
\* record denies, whatever set raced its launch and whichever calls failed, and
\* also while a failed rediscovery closes gateways beside launches and passes; the
\* exceptions are those a failed install or a replaced controller left behind,
\* and the model names each of them (ConfirmLaunch, applyPolicy, New).
THEOREM ForceIsAlwaysCarried == SandboxSpec => []ForceIsCarried
<1>1. ASSUME BoxInv PROVE ForceIsCarried
  <2> SUFFICES ASSUME pass = NoPass, NEW l \in Started \cap Running PROVE Carries(l)
    BY DEF ForceIsCarried, Carries
  <2>1. l \in Bound /\ ~AsMade(l) /\ ~Applying
    BY NoPassFacts DEF Bound, Started, Running, AsMade, Applying
  <2> QED
    BY <1>1, <2>1 DEF BoxInv, CarriedInv
<1> QED
  BY <1>1, BoxInitInv, BoxStep, PTL DEF SandboxSpec

\* No copy of the sandbox is from an uplink that has not been yet.
UplinksSeen(c) ==
  /\ world.uplink \in 0..c /\ force.uplink \in -1..c /\ pass.next.uplink \in -1..c
  /\ \A l \in BoxLeases : launch[l].box.uplink \in -1..c
ClosingType == [at : {"none", "list", "close"}, todo : SUBSET BoxLeases]
BoxCounts ==
  /\ changes \in 0..MaxChanges /\ restarts \in 0..MaxRestarts /\ steady \in BOOLEAN
  /\ behind \subseteq BoxLeases /\ UplinksSeen(changes) /\ closing \in ClosingType

\* Where a step takes the sandboxes from that it hands on.
HandsOn ==
  /\ force' \in {force, pass.next, world} /\ pass'.next \in {pass.next, world, force, NoSandbox}
  /\ \A l \in BoxLeases : launch'[l].box \in {launch[l].box, NoSandbox, force'}

\* A step that hands sandboxes on leaves the uplinks seen.
LEMMA HandsOnKeeps ==
  ASSUME BoxInv, BoxInv', BoxCounts, HandsOn, UNCHANGED <<world, changes>> PROVE UplinksSeen(changes)'
<1>1. NoSandbox.uplink = -1 /\ changes \in Nat
  BY DEF NoSandbox, SandboxOf, BoxCounts
<1>2. /\ world.uplink \in 0..changes /\ force.uplink \in -1..changes /\ pass.next.uplink \in -1..changes
      /\ \A l \in BoxLeases : launch[l].box.uplink \in -1..changes
  BY DEF BoxCounts, UplinksSeen
<1>3. force'.uplink \in -1..changes
  BY <1>1, <1>2 DEF HandsOn
<1>4. pass'.next.uplink \in -1..changes
  BY <1>1, <1>2 DEF HandsOn
<1>5. \A l \in BoxLeases : launch'[l].box.uplink \in -1..changes
  BY <1>1, <1>2, <1>3 DEF HandsOn
<1> QED
  BY <1>2, <1>3, <1>4, <1>5 DEF UplinksSeen

\* A launch that moves keeps its copy or gives it up.
LEMMA LaunchAtBox ==
  ASSUME BoxInv, NEW l \in BoxLeases, NEW s, LaunchAt(l, s)
  PROVE  \A m \in BoxLeases : launch'[m].box \in {launch[m].box, NoSandbox}
<1>1. launch \in [BoxLeases -> LaunchType]
  BY DEF BoxInv, BoxTypes
<1> QED
  BY <1>1 DEF LaunchAt

\* How an operation of the slot's holder ends.
LEMMA HolderEnds ==
  ASSUME BoxInv, pass.by = "watch" \/ pass.by \in BoxLeases, Succeeds \/ Fails
  PROVE  /\ pass'.next = NoSandbox
         /\ \A m \in BoxLeases : launch'[m].box \in {launch[m].box, NoSandbox, force'}
<1>1. launch \in [BoxLeases -> LaunchType]
  BY DEF BoxInv, BoxTypes
<1>2. NoPass.next = NoSandbox /\ pass' = NoPass
  BY DEF NoPass, Succeeds, Fails
<1>3. pass'.next = NoSandbox
  BY <1>2 DEF NoPass
<1>4. CASE UNCHANGED launch
  BY <1>3, <1>4
<1>5. ASSUME NEW s, LaunchAt(pass.by, s), pass.by \in BoxLeases
      PROVE  \A m \in BoxLeases : launch'[m].box \in {launch[m].box, NoSandbox, force'}
  BY <1>5, LaunchAtBox
<1>6. CASE launch' = [launch EXCEPT ![pass.by] = [at |-> "given", box |-> force']]
  BY <1>1, <1>3, <1>6
<1>7. \/ UNCHANGED launch \/ (pass.by \in BoxLeases /\ \E s : LaunchAt(pass.by, s))
      \/ launch' = [launch EXCEPT ![pass.by] = [at |-> "given", box |-> force']]
  BY DEF Succeeds, Fails
<1> QED
  BY <1>3, <1>4, <1>5, <1>6, <1>7

\* Every step but a change of the host hands sandboxes on.
LEMMA PassHandsOn == ASSUME BoxInv, BoxPass PROVE HandsOn /\ UNCHANGED <<world, changes, restarts, steady>>
<1>0. /\ pass \in PassType /\ launch \in [BoxLeases -> LaunchType]
      /\ pass.by = "watch" \/ pass.by \in BoxLeases
  <2>1. pass \in PassType /\ launch \in [BoxLeases -> LaunchType] /\ SlotInv
    BY DEF BoxInv, BoxTypes
  <2>2. pass.at # "none"
    BY <2>1, NoPassFacts
    DEF BoxPass, BuildSandbox, DaemonFails, OwnedContainers, Reloaded, Closed, ReloadGateway, CloseFailed
  <2>3. pass.mode \in {"refresh", "confirm"}
    BY <2>1, <2>2 DEF SlotInv, PassType
  <2> QED
    BY <2>1, <2>3 DEF SlotInv
<1>1. ASSUME force' = force, UNCHANGED launch, pass'.next \in {pass.next, world, NoSandbox} PROVE HandsOn
  BY <1>1 DEF HandsOn
<1>2. ASSUME force' \in {force, pass.next}, Succeeds \/ Fails PROVE HandsOn
  BY <1>0, <1>2, HolderEnds DEF HandsOn
<1>3. CASE BuildSandbox
  <2>1. CASE SameSandbox(force, world)
    BY <1>0, <1>2, <1>3, <2>1 DEF BuildSandbox
  <2>2. CASE ~SameSandbox(force, world)
    <3>1. pass'.next = world
      BY <1>0, <1>3, <2>2 DEF BuildSandbox, PassType
    <3> QED
      BY <1>1, <1>3, <2>2, <3>1 DEF BuildSandbox
  <2> QED
    BY <1>3, <2>1, <2>2 DEF BuildSandbox
<1>4. CASE DaemonFails
  BY <1>2, <1>4 DEF DaemonFails
<1>5. CASE OwnedContainers
  <2>1. CASE Fails
    BY <1>2, <1>5, <2>1 DEF OwnedContainers
  <2>2. CASE ~Fails
    <3>1. pass'.next = pass.next /\ UNCHANGED launch
      BY <1>0, <1>5, <2>2 DEF OwnedContainers, PassType
    <3> QED
      BY <1>1, <1>5, <3>1 DEF OwnedContainers
  <2> QED
    BY <2>1, <2>2
<1>6. CASE Reloaded
  <2>1. CASE Succeeds
    BY <1>0, <1>2, <1>6, <2>1 DEF Reloaded, RecordForce
  <2>2. CASE ~Succeeds
    <3>1. pass'.next = pass.next /\ UNCHANGED <<force, launch>>
      BY <1>0, <1>6, <2>2 DEF Reloaded, PassType
    <3> QED
      BY <1>1, <1>6, <3>1 DEF Reloaded
  <2> QED
    BY <2>1, <2>2
<1>7. CASE Closed
  BY <1>2, <1>7 DEF Closed, RecordForce
<1>9. ASSUME NEW l \in BoxLeases, NEW took \in BOOLEAN, NEW answered \in BOOLEAN, ReloadGateway(l, took, answered)
      PROVE  HandsOn /\ UNCHANGED <<world, changes, restarts, steady>>
  <2>1. CASE Fails
    BY <1>2, <1>9, <2>1 DEF ReloadGateway
  <2>2. CASE ~Fails
    <3>1. pass'.next = pass.next /\ UNCHANGED launch
      BY <1>0, <1>9, <2>2 DEF ReloadGateway, PassType
    <3> QED
      BY <1>1, <1>9, <3>1 DEF ReloadGateway
  <2> QED
    BY <2>1, <2>2
<1>10. ASSUME NEW l \in BoxLeases, NEW closed \in BOOLEAN, NEW taken \in BOOLEAN, NEW ok \in BOOLEAN,
              CloseFailed(l, closed, taken, ok)
       PROVE  HandsOn /\ UNCHANGED <<world, changes, restarts, steady>>
  <2>1. pass'.next = pass.next
    BY <1>0, <1>10 DEF CloseFailed, PassType
  <2> QED
    BY <1>1, <1>10, <2>1 DEF CloseFailed
<1>11. UNCHANGED <<world, changes, restarts, steady>>
  BY DEF BoxPass, BuildSandbox, DaemonFails, OwnedContainers, Reloaded, Closed, ReloadGateway, CloseFailed
<1> QED
  BY <1>3, <1>4, <1>5, <1>6, <1>7, <1>9, <1>10, <1>11 DEF BoxPass

\* Nor does a launch take its copy from anywhere else.
LEMMA LaunchHandsOn ==
  ASSUME BoxInv, NEW l \in BoxLeases, LaunchStep(l)
  PROVE  HandsOn /\ UNCHANGED <<world, changes, restarts, steady, behind>>
<1>1. UNCHANGED <<world, force, changes, restarts, steady, behind>>
  BY DEF LaunchStep, ForLaunch, ConfirmLaunch, CreateGateway, StartGateway, Prepared, StartCapsule, LaunchEnds
<1>2. UNCHANGED launch \/ \E s : LaunchAt(l, s)
  BY DEF LaunchStep, ForLaunch, ConfirmLaunch, CreateGateway, StartGateway, Prepared, StartCapsule, LaunchEnds
<1>3. \A m \in BoxLeases : launch'[m].box \in {launch[m].box, NoSandbox}
  BY <1>2, LaunchAtBox
<1>4. pass' = pass \/ (pass = NoPass /\ pass'.next \in {NoSandbox, force})
  BY DEF LaunchStep, ForLaunch, ConfirmLaunch, CreateGateway, StartGateway, Prepared, StartCapsule, LaunchEnds,
         HoldSlot, NoPass
<1> QED
  BY <1>1, <1>3, <1>4 DEF HandsOn

\* What is left to close are launches' gateways.
LEMMA ClosingKeeps ==
  ASSUME closing \in ClosingType, [SandboxNext]_boxVars PROVE closing' \in ClosingType
<1>1. NoClosing \in ClosingType /\ [NoClosing EXCEPT !.at = "list"] \in ClosingType
      /\ [at |-> "close", todo |-> Running] \in ClosingType
  BY DEF NoClosing, ClosingType, Running
<1>2. Succeeds \/ Fails => closing' \in ClosingType
  BY <1>1 DEF Succeeds, Fails
<1>3. CASE BoxPass
  BY <1>2, <1>3
  DEF BoxPass, BuildSandbox, DaemonFails, OwnedContainers, Reloaded, Closed, ReloadGateway, CloseFailed
<1>4. CASE CloseGateways
  <2>1. \A l \in BoxLeases : [closing EXCEPT !.todo = @ \ {l}] \in ClosingType
    BY DEF ClosingType
  <2> QED
    BY <1>1, <1>4, <2>1 DEF CloseGateways, ListToClose, ClosedListed, CloseListed
<1>5. CASE \E l \in BoxLeases : LaunchStep(l)
  BY <1>5
  DEF LaunchStep, ForLaunch, ConfirmLaunch, CreateGateway, StartGateway, Prepared, StartCapsule, LaunchEnds
<1>6. CASE Watch \/ ControllerRestarts \/ HostSteadies \/ UNCHANGED boxVars
  BY <1>1, <1>6 DEF Watch, ControllerRestarts, HostSteadies, boxVars
<1>7. ASSUME NEW nets \in SUBSET Subnets, NEW lost \in BOOLEAN, HostChanges(nets, lost)
      PROVE  closing' \in ClosingType
  BY <1>7 DEF HostChanges
<1> QED
  BY <1>3, <1>4, <1>5, <1>6, <1>7 DEF SandboxNext

\* Every step keeps the counters and what they bound.
LEMMA BoxCountsNext == BoxInv /\ BoxInv' /\ BoxCounts /\ [SandboxNext]_boxVars => BoxCounts'
<1> SUFFICES ASSUME BoxInv, BoxInv', BoxCounts, [SandboxNext]_boxVars PROVE BoxCounts'
  OBVIOUS
<1> USE SandboxAssumption
<1>0. /\ changes \in 0..MaxChanges /\ restarts \in 0..MaxRestarts /\ steady \in BOOLEAN
      /\ behind \subseteq BoxLeases /\ UplinksSeen(changes) /\ launch \in [BoxLeases -> LaunchType]
      /\ Running \subseteq BoxLeases /\ pass \in PassType /\ world \in Sandboxes
      /\ closing' \in ClosingType
  BY ClosingKeeps DEF BoxCounts, BoxInv, BoxTypes, Running
<1>1. ASSUME HandsOn, UNCHANGED <<world, changes>>, restarts' \in 0..MaxRestarts, steady' \in BOOLEAN,
             behind' \subseteq BoxLeases
      PROVE  BoxCounts'
  BY <1>0, <1>1, HandsOnKeeps DEF BoxCounts
<1>2. CASE BoxPass
  <2>1. behind' \subseteq BoxLeases
    BY <1>0, <1>2
    DEF BoxPass, BuildSandbox, DaemonFails, OwnedContainers, Reloaded, Closed, ReloadGateway, CloseFailed,
        RecordForce
  <2> QED
    BY <1>0, <1>1, <1>2, <2>1, PassHandsOn
<1>3. ASSUME NEW l \in BoxLeases, LaunchStep(l) PROVE BoxCounts'
  BY <1>0, <1>1, <1>3, LaunchHandsOn
<1>4. CASE Watch
  <2>1. HandsOn
    BY <1>4 DEF Watch, HoldSlot, NoPass, HandsOn
  <2> QED
    BY <1>0, <1>1, <1>4, <2>1 DEF Watch
<1>5. ASSUME NEW nets \in SUBSET Subnets, NEW lost \in BOOLEAN, HostChanges(nets, lost) PROVE BoxCounts'
  <2>1. /\ changes < MaxChanges /\ changes' = changes + 1
        /\ world' = SandboxOf(nets, IF lost THEN world.uplink + 1 ELSE world.uplink)
        /\ UNCHANGED <<force, launch, pass, behind, restarts, steady>>
    BY <1>5 DEF HostChanges
  <2>2. world'.uplink \in {world.uplink, world.uplink + 1}
    BY <2>1 DEF SandboxOf
  <2>3. UplinksSeen(changes)'
    BY <1>0, <2>1, <2>2 DEF UplinksSeen
  <2> QED
    BY <1>0, <2>1, <2>3 DEF BoxCounts
<1>6. CASE ControllerRestarts
  <2>1. HandsOn
    <3>1. /\ force' = world /\ pass' = NoPass
          /\ launch' = [l \in BoxLeases |-> IF launch[l].at \in {"started", "idle"} THEN launch[l]
                                            ELSE [at |-> "over", box |-> NoSandbox]]
      BY <1>6 DEF ControllerRestarts
    <3>2. pass'.next = NoSandbox
      BY <3>1 DEF NoPass
    <3>3. \A l \in BoxLeases : launch'[l].box \in {launch[l].box, NoSandbox}
      BY <3>1
    <3> QED
      BY <3>1, <3>2, <3>3 DEF HandsOn
  <2>2. restarts' \in 0..MaxRestarts /\ behind' \subseteq BoxLeases /\ UNCHANGED <<world, changes, steady>>
    BY <1>0, <1>6 DEF ControllerRestarts
  <2> QED
    BY <1>0, <1>1, <2>1, <2>2
<1>7. CASE HostSteadies
  <2>1. HandsOn
    BY <1>7 DEF HostSteadies, HandsOn
  <2> QED
    BY <1>0, <1>1, <1>7, <2>1 DEF HostSteadies
<1>8. CASE CloseGateways \/ UNCHANGED boxVars
  <2>1. UNCHANGED <<world, force, launch, pass, behind, changes, restarts, steady>>
    BY <1>8 DEF CloseGateways, ListToClose, ClosedListed, CloseListed, boxVars
  <2>2. HandsOn
    BY <2>1 DEF HandsOn
  <2> QED
    BY <1>0, <1>1, <2>1, <2>2
<1> QED
  BY <1>2, <1>3, <1>4, <1>5, <1>6, <1>7, <1>8 DEF SandboxNext

\* Sandboxes, gateways, launches and the slot keep their types, with no more
\* uplinks than the host has had changes (SandboxTypeOK).
THEOREM SandboxTypes == SandboxSpec => []SandboxTypeOK
<1>1. SandboxInit => BoxCounts
  <2> SUFFICES ASSUME SandboxInit PROVE BoxCounts
    OBVIOUS
  <2>1. steady \in BOOLEAN
    BY Zenon DEF SandboxInit
  <2>2. UplinksSeen(changes)
    BY DEF SandboxInit, UplinksSeen, SandboxOf, NoSandbox, NoPass
  <2> QED
    BY <2>1, <2>2, SandboxAssumption DEF SandboxInit, BoxCounts, ClosingType, NoClosing
<1>2. BoxInv /\ BoxCounts => SandboxTypeOK
  <2> SUFFICES ASSUME BoxInv, BoxCounts PROVE SandboxTypeOK
    OBVIOUS
  <2> DEFINE sandboxes == [deny : SUBSET Subnets, uplink : -1..MaxChanges]
  <2>1. \A b \in Sandboxes : b.uplink \in -1..changes => b \in sandboxes
    BY SandboxAssumption DEF Sandboxes, BoxCounts
  <2>2. world \in Sandboxes /\ force \in Sandboxes /\ pass \in PassType /\ launch \in [BoxLeases -> LaunchType]
        /\ gateway \in [BoxLeases -> GatewayType]
    BY DEF BoxInv, BoxTypes
  <2>3. /\ changes \in 0..MaxChanges /\ world.uplink \in -1..changes /\ force.uplink \in -1..changes
        /\ pass.next.uplink \in -1..changes /\ \A l \in BoxLeases : launch[l].box.uplink \in -1..changes
    BY SandboxAssumption DEF BoxCounts, UplinksSeen
  <2>4. /\ world \in sandboxes /\ force \in sandboxes /\ pass.next \in sandboxes
        /\ \A l \in BoxLeases : launch[l].box \in sandboxes
    BY <2>1, <2>2, <2>3 DEF PassType, LaunchType
  <2> HIDE DEF sandboxes
  <2>5. launch \in [BoxLeases -> [at : {"idle", "asks", "given", "prepared", "confirms", "confirmed",
                                        "started", "over"}, box : sandboxes]]
    BY <2>2, <2>4 DEF LaunchType
  <2>6. pass \in [by : BoxLeases \cup {"none", "watch"}, mode : {"none", "refresh", "confirm"},
                  at : {"none", "build", "list", "reload", "close"}, next : sandboxes,
                  todo : SUBSET BoxLeases, failed : SUBSET BoxLeases, open : BOOLEAN]
    BY <2>2, <2>4 DEF PassType
  <2>7. /\ behind \subseteq BoxLeases
        /\ closing \in [at : {"none", "list", "close"}, todo : SUBSET BoxLeases]
        /\ changes \in 0..MaxChanges /\ restarts \in 0..MaxRestarts /\ steady \in BOOLEAN
    BY DEF BoxCounts, ClosingType
  <2> QED
    BY <2>2, <2>4, <2>5, <2>6, <2>7 DEF SandboxTypeOK, GatewayType, sandboxes
<1> QED
  BY <1>1, <1>2, BoxInitInv, BoxStep, BoxCountsNext, PTL DEF SandboxSpec

-----------------------------------------------------------------------------
(***************************************************************************)
(* Gateway and EgressPolicy, for any addresses, policies and connections   *)
(***************************************************************************)

USE GatewayAssumption

\* What a document or a ruleset may deny.
Texts == Denies \cup {NoDocument, {}}

InstallerType ==
  [who : {"nobody", "boot", "reload", "close"}, at : {"none", "read", "built", "applied"}, next : Texts]

TransferType ==
  [at : {"none", "accepted", "chosen", "pooled", "dialing", "flow", "ended"},
   kind : {"none", "tunnel", "forward"},
   seen : Int, pool : Nat, policy : Texts, gen : Nat, dest : Dests \cup {"none"},
   ends : SUBSET {"up", "down"}, open : BOOLEAN]

IdleType == [pool : Nat, dest : Dests \cup {"none"}, gen : Nat]

\* The types, without the bounds: generations and pools are numbers.
GatewayTypes ==
  /\ installer \in InstallerType /\ ruleset \in Texts /\ document \in Texts /\ torn \in BOOLEAN
  /\ relay \in [doc : Texts, gen : Nat] /\ connPool \in [id : Nat, gen : Nat] /\ pools \in Nat
  /\ idleConns \subseteq IdleType
  /\ transfer \in [Transfers -> TransferType]

\* The ruleset and the document differ only while an install that has changed
\* the first is about to change the second, or after one that could not.
LayersInv ==
  /\ installer.at = "none" <=> installer = NoInstaller
  /\ (installer.at # "applied" /\ ~torn) => ruleset = document
  /\ installer.at = "applied" => ruleset = installer.next

\* A request that holds a pool and has seen a policy.
User(t) == transfer[t].at \in {"pooled", "dialing", "flow"} /\ transfer[t].seen > 0

\* A request that is joined to a connection, or about to be to a new one.
Joined(t) == transfer[t].at \in {"dialing", "flow"}

\* No generation and no pool is ahead of the counter it is drawn from.
CountersInv ==
  /\ connPool.gen <= relay.gen /\ connPool.id <= pools
  /\ \A c \in idleConns : c.pool <= pools
  /\ \A t \in Transfers : transfer[t].seen <= relay.gen /\ transfer[t].pool <= pools
  /\ \A t \in Transfers : User(t) => transfer[t].pool > 0
  /\ \A t \in Transfers : transfer[t].at = "accepted" => transfer[t].seen <= 0

\* No connection of a pool is older than what a request with that pool has
\* seen, and none of the pool in force than the pool.
PoolInv ==
  /\ \A t, u \in Transfers :
       (User(t) /\ Joined(u) /\ transfer[u].pool = transfer[t].pool)
         => transfer[u].gen >= transfer[t].seen
  /\ \A t \in Transfers, c \in idleConns :
       (User(t) /\ c.pool = transfer[t].pool) => c.gen >= transfer[t].seen
  /\ \A u \in Transfers :
       (Joined(u) /\ connPool.id > 0 /\ transfer[u].pool = connPool.id)
         => transfer[u].gen >= connPool.gen
  /\ \A c \in idleConns : (connPool.id > 0 /\ c.pool = connPool.id) => c.gen >= connPool.gen

\* The client connections that hold a slot.
OpenTransfers == {t \in Transfers : transfer[t].open}

\* A slot for each, and whoever is not at its end holds one.
SlotsInv ==
  /\ IsFiniteSet(OpenTransfers) /\ slotsTaken = Cardinality(OpenTransfers)
  /\ \A t \in Transfers : transfer[t].at \in {"accepted", "chosen", "pooled", "dialing", "flow"}
       => transfer[t].open
  /\ \A t \in Transfers : transfer[t].at = "none" => transfer[t] = NoTransfer

GatewayInv == GatewayTypes /\ LayersInv /\ CountersInv /\ PoolInv /\ SlotsInv

-----------------------------------------------------------------------------
(* Initial states and types *)

\* A gateway that carries no transfer satisfies GatewayInv.
LEMMA GatewayInitInv == GatewayInit => GatewayInv
<1> SUFFICES ASSUME GatewayInit PROVE GatewayInv
  OBVIOUS
<1> USE DEF GatewayInit
<1>0. NoTransfer \in TransferType /\ NoInstaller \in InstallerType /\ NoDocument \in Texts
  BY DEF NoTransfer, TransferType, NoInstaller, InstallerType, Texts, Denies
<1>1. GatewayTypes
  BY <1>0 DEF GatewayTypes, IdleType
<1>2. LayersInv
  BY DEF LayersInv, NoInstaller
<1>3. CountersInv /\ PoolInv
  BY DEF CountersInv, PoolInv, User, Joined, NoTransfer
<1>4. OpenTransfers = {}
  BY DEF OpenTransfers, NoTransfer
<1>5. SlotsInv
  BY <1>4, FS_EmptySet DEF SlotsInv, NoTransfer
<1> QED
  BY <1>1, <1>2, <1>3, <1>5 DEF GatewayInv

\* The document the relay reads is a text, and reading it never takes the
\* generation back (currentPolicy).
LEMMA CurrentPolicyFacts ==
  ASSUME GatewayTypes
  PROVE  CurrentPolicy \in [doc : Texts, gen : Nat] /\ CurrentPolicy.gen >= relay.gen
  BY DEF GatewayTypes, CurrentPolicy

\* An install keeps the types (installPolicyWith).
LEMMA InstallTypes == GatewayTypes /\ InstallStep => GatewayTypes'
<1> SUFFICES ASSUME GatewayTypes, InstallStep PROVE GatewayTypes'
  OBVIOUS
<1> USE DEF GatewayTypes, policyVars, relayVars
<1>0. /\ NoInstaller \in InstallerType /\ Dests \in Texts /\ Documents \subseteq Texts
      /\ installer.next \in Texts
  BY DEF NoInstaller, InstallerType, Texts, Denies
<1>1. ASSUME NEW who \in {"boot", "reload", "close"}, NEW deny \in Documents, TakePolicyLock(who, deny)
      PROVE  GatewayTypes'
  BY <1>0, <1>1 DEF TakePolicyLock, InstallerType
<1>2. CASE BuildSuccessor
  BY <1>0, <1>2 DEF BuildSuccessor, InstallerType
<1>3. CASE InstallFails
  BY <1>0, <1>3 DEF InstallFails
<1>4. ASSUME NEW done \in BOOLEAN, ApplyToKernel(done) PROVE GatewayTypes'
  BY <1>0, <1>4 DEF ApplyToKernel, InstallerType
<1>5. ASSUME NEW done \in BOOLEAN, ReplaceFile(done) PROVE GatewayTypes'
  BY <1>0, <1>5 DEF ReplaceFile
<1> QED
  BY <1>1, <1>2, <1>3, <1>4, <1>5 DEF InstallStep

\* So does a step of a connection: what is written is a record of its type.
LEMMA TransferTypes ==
  ASSUME GatewayTypes, NEW t \in Transfers, TransferStep(t) PROVE GatewayTypes'
<1> USE DEF GatewayTypes, policyVars, relayVars, SetTransfer
<1>0. /\ NoTransfer \in TransferType /\ transfer[t] \in TransferType
      /\ CurrentPolicy \in [doc : Texts, gen : Nat]
  BY CurrentPolicyFacts DEF NoTransfer, TransferType, Texts
<1>1. ASSUME NEW r \in TransferType, transfer' = [transfer EXCEPT ![t] = r]
      PROVE  transfer' \in [Transfers -> TransferType]
  BY <1>1
<1>2. ASSUME NEW kind \in {"tunnel", "forward"}, AcceptConn(t, kind) PROVE GatewayTypes'
  <2>1. [NoTransfer EXCEPT !.at = "accepted", !.kind = kind, !.open = TRUE] \in TransferType
    BY <1>0 DEF TransferType
  <2> QED
    BY <1>1, <1>2, <2>1 DEF AcceptConn
<1>3. CASE DialReads(t)
  <2>1. [transfer[t] EXCEPT !.at = "dialing", !.policy = document,
          !.gen = CurrentPolicy.gen] \in TransferType
    BY <1>0 DEF TransferType
  <2> QED
    BY <1>0, <1>1, <1>3, <2>1 DEF DialReads
<1>4. CASE DialRefused(t)
  BY <1>0, <1>1, <1>4 DEF DialRefused
<1>5. CASE PoolAt(t)
  <2>1. ASSUME NEW id \in Nat PROVE [transfer[t] EXCEPT !.at = "pooled", !.pool = id] \in TransferType
    BY <1>0 DEF TransferType
  <2>2. CASE PoolServes(IF transfer[t].seen = 0 THEN 0 ELSE relay.gen)
    BY <1>1, <1>5, <2>1, <2>2 DEF PoolAt, TakePool
  <2>3. CASE ~PoolServes(IF transfer[t].seen = 0 THEN 0 ELSE relay.gen)
    <3>1. pools + 1 \in Nat /\ connPool' \in [id : Nat, gen : Nat] /\ pools' = pools + 1
      BY <1>5, <2>3 DEF PoolAt
    <3>2. transfer' = [transfer EXCEPT ![t] = [transfer[t] EXCEPT !.at = "pooled", !.pool = pools + 1]]
      BY <1>5, <2>3 DEF PoolAt, TakePool
    <3>3. transfer' \in [Transfers -> TransferType]
      BY <1>1, <2>1, <3>1, <3>2
    <3> QED
      BY <1>5, <2>3, <3>1, <3>3 DEF PoolAt
  <2> QED
    BY <2>2, <2>3
<1>6. CASE TransferBreaks(t)
  <2>1. [transfer[t] EXCEPT !.at = "ended", !.open = FALSE] \in TransferType
    BY <1>0 DEF TransferType
  <2> QED
    BY <1>1, <1>6, <2>1 DEF TransferBreaks, EndTransfer
<1>7. CASE HandlerReturns(t)
  BY <1>0, <1>1, <1>7 DEF HandlerReturns
<1>8. ASSUME NEW d \in Dests, DialConnects(t, d) PROVE GatewayTypes'
  <2>1. [transfer[t] EXCEPT !.at = "flow", !.dest = d, !.policy = {},
          !.ends = {"up", "down"}] \in TransferType
    BY <1>0 DEF TransferType, Texts
  <2> QED
    BY <1>1, <1>8, <2>1 DEF DialConnects
<1>9. ASSUME NEW readable \in BOOLEAN, ForwardReads(t, readable) PROVE GatewayTypes'
  <2>1. ASSUME NEW seen \in Int
        PROVE  [transfer[t] EXCEPT !.at = "chosen", !.seen = seen] \in TransferType
    BY <1>0 DEF TransferType
  <2>2. (IF readable THEN CurrentPolicy.gen ELSE 0) \in Int
    BY <1>0
  <2> QED
    BY <1>0, <1>1, <1>9, <2>1, <2>2 DEF ForwardReads
<1>10. ASSUME NEW readable \in BOOLEAN, Recheck(t, readable) PROVE GatewayTypes'
  <2>1. [transfer[t] EXCEPT !.at = "ended", !.open = FALSE] \in TransferType
    BY <1>0 DEF TransferType
  <2> QED
    BY <1>0, <1>1, <1>10, <2>1 DEF Recheck, EndTransfer
<1>11. ASSUME NEW c \in idleConns, Reuse(t, c) PROVE GatewayTypes'
  <2>1. [transfer[t] EXCEPT !.at = "flow", !.dest = c.dest, !.gen = c.gen,
          !.ends = {"up", "down"}] \in TransferType
    BY <1>0 DEF TransferType, IdleType
  <2> QED
    BY <1>1, <1>11, <2>1 DEF Reuse
<1>12. ASSUME NEW e \in {"up", "down"}, HalfClose(t, e) PROVE GatewayTypes'
  <2>1. [transfer[t] EXCEPT !.ends = @ \ {e},
          !.at = IF transfer[t].ends = {e} THEN "ended" ELSE "flow"] \in TransferType
    BY <1>0 DEF TransferType
  <2> QED
    BY <1>1, <1>12, <2>1 DEF HalfClose
<1>13. ASSUME NEW kept \in BOOLEAN, NEW again \in BOOLEAN, ResponseEnds(t, kept, again)
       PROVE  GatewayTypes'
  <2>1. [NoTransfer EXCEPT !.at = "accepted", !.kind = "forward", !.open = TRUE] \in TransferType
    BY <1>0 DEF TransferType
  <2>2. [pool |-> transfer[t].pool, dest |-> transfer[t].dest, gen |-> transfer[t].gen] \in IdleType
    BY <1>0 DEF TransferType, IdleType
  <2>3. transfer' \in [Transfers -> TransferType]
    BY <1>0, <1>1, <1>13, <2>1 DEF ResponseEnds
  <2> QED
    BY <1>13, <2>2, <2>3 DEF ResponseEnds
<1> QED
  BY <1>2, <1>3, <1>4, <1>5, <1>6, <1>7, <1>8, <1>9, <1>10, <1>11, <1>12, <1>13 DEF TransferStep

-----------------------------------------------------------------------------
(* The two layers *)

\* An install changes the ruleset and the document in that order under its
\* lock, and marks what it leaves half done (installPolicyWith).
LEMMA InstallLayers == GatewayTypes /\ LayersInv /\ InstallStep => LayersInv'
<1> SUFFICES ASSUME GatewayTypes, LayersInv, InstallStep PROVE LayersInv'
  OBVIOUS
<1> USE DEF LayersInv
<1>0. installer \in InstallerType /\ NoInstaller.at = "none"
  BY DEF GatewayTypes, NoInstaller
<1>1. ASSUME NEW who \in {"boot", "reload", "close"}, NEW deny \in Documents, TakePolicyLock(who, deny)
      PROVE  LayersInv'
  <2>1. installer'.at = "read" /\ installer.at = "none"
    BY <1>0, <1>1 DEF TakePolicyLock, TakesLock
  <2> QED
    BY <1>0, <1>1, <2>1 DEF TakePolicyLock
<1>2. CASE BuildSuccessor
  <2>1. installer'.at = "built" /\ installer.at = "read"
    BY <1>0, <1>2 DEF BuildSuccessor, InstallerType
  <2> QED
    BY <1>0, <1>2, <2>1 DEF BuildSuccessor
<1>3. CASE InstallFails
  BY <1>0, <1>3 DEF InstallFails
<1>4. ASSUME NEW done \in BOOLEAN, ApplyToKernel(done) PROVE LayersInv'
  <2>1. CASE done
    <3>1. installer'.at = "applied" /\ installer'.next = installer.next
      BY <1>0, <1>4, <2>1 DEF ApplyToKernel, InstallerType
    <3> QED
      BY <1>0, <1>4, <2>1, <3>1 DEF ApplyToKernel
  <2>2. CASE ~done
    BY <1>0, <1>4, <2>2 DEF ApplyToKernel
  <2> QED
    BY <2>1, <2>2
<1>5. ASSUME NEW done \in BOOLEAN, ReplaceFile(done) PROVE LayersInv'
  BY <1>0, <1>5 DEF ReplaceFile
<1> QED
  BY <1>1, <1>2, <1>3, <1>4, <1>5 DEF InstallStep

-----------------------------------------------------------------------------
(* The pools *)

\* What keeps the pools current when the pool in force is not replaced: a
\* request keeps what it has seen and its pool, and a connection is a new one
\* of the generation in force, or one that was there (dial, putIdleConn).
LEMMA JoinKeepsPools ==
  ASSUME GatewayTypes, CountersInv, PoolInv, GatewayTypes', UNCHANGED <<connPool, pools>>,
         NEW t \in Transfers, NEW r \in TransferType, transfer' = [transfer EXCEPT ![t] = r],
         relay'.gen >= relay.gen, r.seen <= relay'.gen, r.pool <= pools, r.at = "accepted"
           => r.seen <= 0,
         (r.at \in {"pooled", "dialing", "flow"} /\ r.seen > 0)
           => User(t) /\ r.seen = transfer[t].seen /\ r.pool = transfer[t].pool,
         r.at \in {"dialing", "flow"} =>
           \/ r.gen >= relay.gen
           \/ Joined(t) /\ r.pool = transfer[t].pool /\ r.gen = transfer[t].gen
           \/ \E c \in idleConns : c.pool = r.pool /\ c.gen = r.gen,
         \A c \in idleConns' :
           c \in idleConns \/ (Joined(t) /\ c.pool = transfer[t].pool /\ c.gen = transfer[t].gen)
  PROVE  CountersInv' /\ PoolInv'
<1>1. /\ transfer'[t] = r
      /\ \A u \in Transfers : u # t => transfer'[u] = transfer[u]
  BY DEF GatewayTypes
<1>2. \A u \in Transfers : transfer[u] \in TransferType /\ transfer'[u] \in TransferType
  BY DEF GatewayTypes
<1>3. /\ relay.gen \in Nat /\ relay'.gen \in Nat /\ connPool.gen \in Nat /\ connPool.id \in Nat
      /\ pools \in Nat
      /\ \A c \in idleConns : c.pool \in Nat /\ c.gen \in Nat
      /\ \A c \in idleConns' : c.pool \in Nat /\ c.gen \in Nat
  BY DEF GatewayTypes, IdleType
<1>4. \A u \in Transfers :
        /\ transfer[u].seen \in Int /\ transfer[u].pool \in Nat /\ transfer[u].gen \in Nat
        /\ transfer'[u].seen \in Int /\ transfer'[u].pool \in Nat /\ transfer'[u].gen \in Nat
  BY <1>2 DEF TransferType
<1>5. CountersInv'
  BY <1>1, <1>3, <1>4 DEF CountersInv, User, Joined
<1>6. ASSUME NEW v \in Transfers, User(v)'
      PROVE  User(v) /\ transfer'[v].seen = transfer[v].seen /\ transfer'[v].pool = transfer[v].pool
  BY <1>1, <1>6 DEF User
<1>7. ASSUME NEW u \in Transfers, Joined(u)'
      PROVE  \/ transfer'[u].gen >= relay.gen
             \/ \E w \in Transfers : /\ Joined(w) /\ transfer'[u].pool = transfer[w].pool
                                     /\ transfer'[u].gen = transfer[w].gen
             \/ \E c \in idleConns : c.pool = transfer'[u].pool /\ c.gen = transfer'[u].gen
  BY <1>1, <1>7 DEF Joined
<1>8. ASSUME NEW v \in Transfers, NEW u \in Transfers, User(v)', Joined(u)',
             transfer'[u].pool = transfer'[v].pool
      PROVE  transfer'[u].gen >= transfer'[v].seen
  BY <1>3, <1>4, <1>6, <1>7, <1>8 DEF CountersInv, PoolInv
<1>9. ASSUME NEW v \in Transfers, NEW c \in idleConns', User(v)', c.pool = transfer'[v].pool
      PROVE  c.gen >= transfer'[v].seen
  BY <1>3, <1>4, <1>6, <1>9 DEF PoolInv
<1>10. ASSUME NEW u \in Transfers, Joined(u)', connPool.id > 0, transfer'[u].pool = connPool.id
       PROVE  transfer'[u].gen >= connPool.gen
  BY <1>3, <1>4, <1>7, <1>10 DEF CountersInv, PoolInv
<1>11. ASSUME NEW c \in idleConns', connPool.id > 0, c.pool = connPool.id
       PROVE  c.gen >= connPool.gen
  BY <1>3, <1>4, <1>11 DEF PoolInv
<1> QED
  BY <1>5, <1>8, <1>9, <1>10, <1>11 DEF PoolInv

\* The pool in force is handed to a request whose policy it serves, and
\* replaced by an empty one for any other (poolAt).
LEMMA PoolAtKeepsPools ==
  ASSUME GatewayTypes, CountersInv, PoolInv, GatewayTypes', NEW t \in Transfers, PoolAt(t)
  PROVE  CountersInv' /\ PoolInv'
<1> DEFINE gen == IF transfer[t].seen = 0 THEN 0 ELSE relay.gen
<1>1. \A u \in Transfers : transfer[u] \in TransferType /\ transfer'[u] \in TransferType
  BY DEF GatewayTypes
<1>2. \A u \in Transfers :
        /\ transfer[u].seen \in Int /\ transfer[u].pool \in Nat /\ transfer[u].gen \in Nat
        /\ transfer'[u].seen \in Int /\ transfer'[u].pool \in Nat /\ transfer'[u].gen \in Nat
  BY <1>1 DEF TransferType
<1>3. /\ relay.gen \in Nat /\ connPool.gen \in Nat /\ connPool.id \in Nat /\ pools \in Nat
      /\ \A c \in idleConns : c.pool \in Nat /\ c.gen \in Nat
  BY DEF GatewayTypes, IdleType
<1>4. relay' = relay /\ transfer[t].at = "chosen" /\ idleConns' \subseteq idleConns
        /\ transfer[t].seen <= relay.gen
  BY DEF PoolAt, CountersInv
<1>5. IF PoolServes(gen)
      THEN TakePool(t, connPool.id) /\ UNCHANGED <<connPool, pools, idleConns>>
      ELSE TakePool(t, pools + 1) /\ pools' = pools + 1 /\ connPool' = [id |-> pools + 1, gen |-> gen]
  BY DEF PoolAt
<1>51. ASSUME NEW id \in Nat, TakePool(t, id)
      PROVE  /\ transfer'[t].at = "pooled" /\ transfer'[t].seen = transfer[t].seen
             /\ transfer'[t].pool = id
             /\ \A u \in Transfers : u # t => transfer'[u] = transfer[u]
  BY <1>1, <1>51 DEF TakePool, SetTransfer, GatewayTypes, TransferType
<1> HIDE DEF gen
<1>6. /\ transfer'[t].at = "pooled" /\ transfer'[t].seen = transfer[t].seen
      /\ \A u \in Transfers : u # t => transfer'[u] = transfer[u]
  BY <1>3, <1>5, <1>51
<1>7. ~Joined(t)'
  BY <1>6 DEF Joined
<1>8. CASE PoolServes(gen)
  <2>1. transfer'[t].pool = connPool.id /\ UNCHANGED <<connPool, pools, idleConns>>
    BY <1>3, <1>5, <1>8, <1>51
  <2>2. connPool.id > 0 /\ connPool.gen >= gen
    BY <1>3, <1>8 DEF PoolServes, gen
  <2>3. transfer[t].seen > 0 => connPool.gen >= transfer[t].seen
    BY <1>2, <1>3, <1>4, <2>2 DEF gen
  <2>4. CountersInv'
    BY <1>2, <1>3, <1>4, <1>6, <2>1, <2>2 DEF CountersInv, User
  <2>5. PoolInv'
    BY <1>2, <1>3, <1>6, <1>7, <2>1, <2>2, <2>3 DEF PoolInv, User, Joined
  <2> QED
    BY <2>4, <2>5
<1>9. CASE ~PoolServes(gen)
  <2>1. /\ transfer'[t].pool = pools + 1 /\ pools' = pools + 1
        /\ connPool' = [id |-> pools + 1, gen |-> gen]
    BY <1>3, <1>5, <1>9, <1>51
  <2>2. connPool'.id = pools + 1 /\ connPool'.gen = gen /\ gen \in Nat /\ gen <= relay.gen
    BY <1>3, <2>1 DEF gen
  <2>3. CountersInv'
    BY <1>2, <1>3, <1>4, <1>6, <2>1, <2>2 DEF CountersInv, User
  <2>4. /\ \A u \in Transfers : Joined(u)'
             => Joined(u) /\ transfer'[u] = transfer[u] /\ transfer[u].pool <= pools
        /\ \A c \in idleConns' : c \in idleConns /\ c.pool <= pools
    BY <1>4, <1>6, <1>7 DEF CountersInv, Joined
  <2>5. transfer[t].seen > 0 => gen >= transfer[t].seen
    BY <1>2, <1>3, <1>4 DEF gen
  <2>6. PoolInv'
    BY <1>2, <1>3, <1>6, <2>1, <2>2, <2>4, <2>5 DEF PoolInv, User
  <2> QED
    BY <2>3, <2>6
<1> QED
  BY <1>8, <1>9

-----------------------------------------------------------------------------
(* The slots *)

\* A step that leaves its connection as open as it was, or closes it and gives
\* its slot back, or opens one with a slot of its own (limitConn).
LEMMA CloseKeepsSlots ==
  ASSUME GatewayTypes, SlotsInv, NEW t \in Transfers, NEW r \in TransferType,
         transfer' = [transfer EXCEPT ![t] = r],
         \/ (r.open <=> transfer[t].open) /\ slotsTaken' = slotsTaken
         \/ ~r.open /\ ReleaseSlot(t)
         \/ ~transfer[t].open /\ r.open /\ slotsTaken' = slotsTaken + 1,
         r.at \in {"accepted", "chosen", "pooled", "dialing", "flow"} => r.open,
         r.at = "none" => r = NoTransfer
  PROVE  SlotsInv'
<1>1. transfer'[t] = r /\ \A u \in Transfers : u # t => transfer'[u] = transfer[u]
  BY DEF GatewayTypes
<1>2. transfer[t].open \in BOOLEAN /\ r.open \in BOOLEAN
  BY DEF GatewayTypes, TransferType
<1>3. (\A u \in Transfers : transfer[u].at \in {"accepted", "chosen", "pooled", "dialing", "flow"}
        => transfer[u].open)'
  BY <1>1 DEF SlotsInv
<1>4. (\A u \in Transfers : transfer[u].at = "none" => transfer[u] = NoTransfer)'
  BY <1>1 DEF SlotsInv
<1>5. IsFiniteSet(OpenTransfers) /\ slotsTaken = Cardinality(OpenTransfers)
  BY DEF SlotsInv
<1>6. CASE r.open <=> transfer[t].open
  <2>1. OpenTransfers' = OpenTransfers
    BY <1>1, <1>6 DEF OpenTransfers
  <2>2. slotsTaken' = slotsTaken
    BY <1>2, <1>6 DEF ReleaseSlot
  <2> QED
    BY <1>3, <1>4, <1>5, <2>1, <2>2 DEF SlotsInv
<1>7. CASE ~r.open /\ transfer[t].open
  <2>1. OpenTransfers' = OpenTransfers \ {t} /\ t \in OpenTransfers
    BY <1>1, <1>7 DEF OpenTransfers
  <2>2. slotsTaken' = slotsTaken - 1
    BY <1>2, <1>7 DEF ReleaseSlot
  <2>3. IsFiniteSet(OpenTransfers \ {t}) /\ Cardinality(OpenTransfers \ {t}) = Cardinality(OpenTransfers) - 1
    BY <1>5, <2>1, FS_RemoveElement
  <2> QED
    BY <1>3, <1>4, <1>5, <2>1, <2>2, <2>3 DEF SlotsInv
<1>8. CASE r.open /\ ~transfer[t].open
  <2>1. OpenTransfers' = OpenTransfers \cup {t} /\ t \notin OpenTransfers
    BY <1>1, <1>8 DEF OpenTransfers
  <2>2. slotsTaken' = slotsTaken + 1
    BY <1>2, <1>8
  <2>3. IsFiniteSet(OpenTransfers \cup {t}) /\ Cardinality(OpenTransfers \cup {t}) = Cardinality(OpenTransfers) + 1
    BY <1>5, <2>1, FS_AddElement
  <2> QED
    BY <1>3, <1>4, <1>5, <2>1, <2>2, <2>3 DEF SlotsInv
<1> QED
  BY <1>6, <1>7, <1>8

-----------------------------------------------------------------------------
(* Every step *)

\* A step of one connection keeps all of it.
LEMMA TransferKeeps ==
  ASSUME GatewayInv, NEW t \in Transfers, TransferStep(t)
  PROVE  CountersInv' /\ PoolInv' /\ SlotsInv'
<1> USE DEF policyVars, relayVars, SetTransfer
<1>0. GatewayTypes /\ GatewayTypes' /\ CountersInv /\ PoolInv /\ SlotsInv
  BY TransferTypes DEF GatewayInv
<1>1. /\ transfer[t] \in TransferType /\ NoTransfer \in TransferType
      /\ relay.gen \in Nat /\ pools \in Nat
      /\ CurrentPolicy.gen \in Nat /\ CurrentPolicy.gen >= relay.gen
  BY <1>0, CurrentPolicyFacts DEF GatewayTypes, NoTransfer, TransferType, Texts
<1>2. /\ transfer[t].seen \in Int /\ transfer[t].pool \in Nat /\ transfer[t].gen \in Nat
      /\ transfer[t].seen <= relay.gen /\ transfer[t].pool <= pools
      /\ transfer[t].at = "accepted" => transfer[t].seen <= 0
      /\ transfer[t].at \in {"accepted", "chosen", "pooled", "dialing", "flow"} => transfer[t].open
  BY <1>0, <1>1 DEF TransferType, CountersInv, SlotsInv
<1>3. /\ NoTransfer.at = "none" /\ NoTransfer.seen = -1 /\ NoTransfer.pool = 0 /\ ~NoTransfer.open
      /\ \A kind \in {"tunnel", "forward"} :
           LET r == [NoTransfer EXCEPT !.at = "accepted", !.kind = kind, !.open = TRUE]
           IN  r \in TransferType /\ r.at = "accepted" /\ r.seen = -1 /\ r.pool = 0 /\ r.open
  BY <1>1 DEF NoTransfer, TransferType
\* the connection is given up, or not made yet
<1>4. ASSUME NEW r \in TransferType, transfer' = [transfer EXCEPT ![t] = r],
             UNCHANGED <<connPool, pools>>,
             r.at \in {"none", "accepted", "chosen", "ended"}, r.seen <= relay'.gen, r.pool <= pools,
             r.at = "accepted" => r.seen <= 0, relay' \in {relay, CurrentPolicy},
             \A c \in idleConns' :
               c \in idleConns \/ (Joined(t) /\ c.pool = transfer[t].pool /\ c.gen = transfer[t].gen)
      PROVE  CountersInv' /\ PoolInv'
  <2>1. relay'.gen >= relay.gen
    BY <1>1, <1>4
  <2>2. r.at \notin {"pooled", "dialing", "flow"}
    BY <1>4
  <2> QED
    BY <1>0, <1>4, <2>1, <2>2, JoinKeepsPools
<1>5. ASSUME NEW kind \in {"tunnel", "forward"}, AcceptConn(t, kind)
      PROVE  CountersInv' /\ PoolInv' /\ SlotsInv'
  <2> DEFINE r == [NoTransfer EXCEPT !.at = "accepted", !.kind = kind, !.open = TRUE]
  <2>1. r \in TransferType /\ r.at = "accepted" /\ r.seen = -1 /\ r.pool = 0 /\ r.open
    BY <1>3
  <2>2. transfer' = [transfer EXCEPT ![t] = r] /\ UNCHANGED relayVars
          /\ slotsTaken' = slotsTaken + 1 /\ ~transfer[t].open
    BY <1>3, <1>5 DEF AcceptConn
  <2> HIDE DEF r
  <2>0. relay'.gen >= relay.gen /\ r.seen <= relay'.gen /\ r.pool <= pools /\ r.seen <= 0
    BY <1>1, <1>2, <2>1, <2>2
  <2>3. CountersInv' /\ PoolInv'
    BY <1>4, <2>0, <2>1, <2>2
  <2>4. SlotsInv'
    BY <1>0, <2>1, <2>2, CloseKeepsSlots
  <2> QED
    BY <2>3, <2>4
<1>6. CASE DialReads(t)
  <2> DEFINE r == [transfer[t] EXCEPT !.at = "dialing", !.policy = document, !.gen = CurrentPolicy.gen]
  <2>1. /\ r \in TransferType /\ r.at = "dialing" /\ r.seen = transfer[t].seen
        /\ r.pool = transfer[t].pool
        /\ r.open = transfer[t].open /\ r.gen = CurrentPolicy.gen
    BY <1>0, <1>1 DEF TransferType, GatewayTypes
  <2>2. /\ transfer' = [transfer EXCEPT ![t] = r]
        /\ UNCHANGED <<connPool, pools, idleConns, slotsTaken>> /\ relay' = CurrentPolicy
        /\ transfer[t].seen > 0 => transfer[t].at = "pooled"
    BY <1>2, <1>6 DEF DialReads
  <2> HIDE DEF r
  <2>0. relay'.gen >= relay.gen /\ r.seen <= relay'.gen /\ r.pool <= pools
    BY <1>1, <1>2, <2>1, <2>2
  <2>3. CountersInv' /\ PoolInv'
    BY <1>0, <1>1, <2>0, <2>1, <2>2, JoinKeepsPools DEF User
  <2>4. SlotsInv'
    BY <1>0, <1>2, <1>6, <2>1, <2>2, CloseKeepsSlots DEF DialReads
  <2> QED
    BY <2>3, <2>4
<1>7. CASE UNCHANGED relayVars /\ ReleaseSlot(t) /\ SetTransfer(t, NoTransfer)
  <2>0. NoTransfer.seen <= relay'.gen /\ NoTransfer.pool <= pools
    BY <1>1, <1>3, <1>7
  <2>1. CountersInv' /\ PoolInv'
    BY <1>1, <1>3, <1>4, <1>7, <2>0
  <2>2. SlotsInv'
    BY <1>0, <1>1, <1>3, <1>7, CloseKeepsSlots
  <2> QED
    BY <2>1, <2>2
<1>8. CASE DialRefused(t) \/ HandlerReturns(t)
  BY <1>7, <1>8 DEF DialRefused, HandlerReturns
<1>9. CASE PoolAt(t)
  <2>1. CountersInv' /\ PoolInv'
    BY <1>0, <1>9, PoolAtKeepsPools
  <2>2. PICK id \in Nat : transfer' = [transfer EXCEPT ![t] = [transfer[t] EXCEPT !.at = "pooled",
          !.pool = id]]
    <3>1. connPool.id \in Nat /\ pools + 1 \in Nat
      BY <1>0, <1>1 DEF GatewayTypes
    <3>2. TakePool(t, connPool.id) \/ TakePool(t, pools + 1)
      BY <1>9 DEF PoolAt
    <3> QED
      BY <3>1, <3>2 DEF TakePool
  <2> DEFINE r == [transfer[t] EXCEPT !.at = "pooled", !.pool = id]
  <2>3. r \in TransferType /\ r.at = "pooled" /\ r.open = transfer[t].open
    BY <1>1 DEF TransferType
  <2>4. slotsTaken' = slotsTaken /\ transfer[t].open
    BY <1>2, <1>9 DEF PoolAt
  <2>5. transfer' = [transfer EXCEPT ![t] = r]
    BY <2>2
  <2> HIDE DEF r
  <2>6. SlotsInv'
    BY <1>0, <2>3, <2>4, <2>5, CloseKeepsSlots
  <2> QED
    BY <2>1, <2>6
<1>10. CASE EndTransfer(t) /\ UNCHANGED <<connPool, pools, idleConns>>
         /\ relay' \in {relay, CurrentPolicy}
  <2> DEFINE r == [transfer[t] EXCEPT !.at = "ended", !.open = FALSE]
  <2>1. /\ r \in TransferType /\ r.at = "ended" /\ ~r.open /\ r.seen = transfer[t].seen
        /\ r.pool = transfer[t].pool
    BY <1>1 DEF TransferType
  <2>2. transfer' = [transfer EXCEPT ![t] = r] /\ ReleaseSlot(t)
    BY <1>10 DEF EndTransfer
  <2> HIDE DEF r
  <2>3. r.seen <= relay'.gen
    BY <1>1, <1>2, <1>10, <2>1
  <2>4. CountersInv' /\ PoolInv'
    BY <1>2, <1>4, <1>10, <2>1, <2>2, <2>3
  <2>5. SlotsInv'
    BY <1>0, <2>1, <2>2, CloseKeepsSlots
  <2> QED
    BY <2>4, <2>5
<1>11. CASE TransferBreaks(t)
  BY <1>10, <1>11 DEF TransferBreaks
<1>12. ASSUME NEW readable \in BOOLEAN, Recheck(t, readable) PROVE CountersInv' /\ PoolInv' /\ SlotsInv'
  BY <1>10, <1>12 DEF Recheck
<1>13. ASSUME NEW d \in Dests, DialConnects(t, d) PROVE CountersInv' /\ PoolInv' /\ SlotsInv'
  <2> DEFINE r == [transfer[t] EXCEPT !.at = "flow", !.dest = d, !.policy = {}, !.ends = {"up", "down"}]
  <2>1. /\ r \in TransferType /\ r.at = "flow" /\ r.open = transfer[t].open /\ r.seen = transfer[t].seen
        /\ r.pool = transfer[t].pool /\ r.gen = transfer[t].gen
    BY <1>1 DEF TransferType, Texts
  <2>2. transfer' = [transfer EXCEPT ![t] = r] /\ UNCHANGED relayVars /\ slotsTaken' = slotsTaken
          /\ transfer[t].at = "dialing"
    BY <1>13 DEF DialConnects
  <2> HIDE DEF r
  <2>0. relay'.gen >= relay.gen /\ r.seen <= relay'.gen /\ r.pool <= pools
    BY <1>1, <1>2, <2>1, <2>2
  <2>3. CountersInv' /\ PoolInv'
    BY <1>0, <1>1, <2>0, <2>1, <2>2, JoinKeepsPools DEF User, Joined
  <2>4. SlotsInv'
    BY <1>0, <1>2, <2>1, <2>2, CloseKeepsSlots
  <2> QED
    BY <2>3, <2>4
<1>14. ASSUME NEW readable \in BOOLEAN, ForwardReads(t, readable)
       PROVE  CountersInv' /\ PoolInv' /\ SlotsInv'
  <2> DEFINE seen == IF readable THEN CurrentPolicy.gen ELSE 0
             r == [transfer[t] EXCEPT !.at = "chosen", !.seen = seen]
  <2>1. relay' \in {relay, CurrentPolicy} /\ seen \in Int /\ seen <= relay'.gen
    BY <1>1, <1>14 DEF ForwardReads
  <2>2. transfer' = [transfer EXCEPT ![t] = r] /\ UNCHANGED <<connPool, pools, idleConns, slotsTaken>>
    BY <1>14 DEF ForwardReads
  <2>3. transfer[t].open
    BY <1>2, <1>14 DEF ForwardReads
  <2> HIDE DEF seen
  <2>4. /\ r \in TransferType /\ r.at = "chosen" /\ r.open = transfer[t].open /\ r.seen = seen
        /\ r.pool = transfer[t].pool
    BY <1>1, <2>1 DEF TransferType
  <2> HIDE DEF r
  <2>5. CountersInv' /\ PoolInv'
    BY <1>2, <1>4, <2>1, <2>2, <2>4
  <2>6. SlotsInv'
    BY <1>0, <2>2, <2>3, <2>4, CloseKeepsSlots
  <2> QED
    BY <2>5, <2>6
<1>15. ASSUME NEW c \in idleConns, Reuse(t, c) PROVE CountersInv' /\ PoolInv' /\ SlotsInv'
  <2> DEFINE r == [transfer[t] EXCEPT !.at = "flow", !.dest = c.dest, !.gen = c.gen,
        !.ends = {"up", "down"}]
  <2>1. /\ r \in TransferType /\ r.at = "flow" /\ r.open = transfer[t].open /\ r.seen = transfer[t].seen
        /\ r.pool = transfer[t].pool /\ r.gen = c.gen
    BY <1>0, <1>1 DEF TransferType, GatewayTypes, IdleType
  <2>2. /\ transfer' = [transfer EXCEPT ![t] = r] /\ UNCHANGED <<relay, connPool, pools, slotsTaken>>
        /\ transfer[t].at = "pooled" /\ c.pool = transfer[t].pool /\ idleConns' \subseteq idleConns
    BY <1>15 DEF Reuse
  <2> HIDE DEF r
  <2>0. relay'.gen >= relay.gen /\ r.seen <= relay'.gen /\ r.pool <= pools
    BY <1>1, <1>2, <2>1, <2>2
  <2>3. CountersInv' /\ PoolInv'
    BY <1>0, <1>1, <2>0, <2>1, <2>2, JoinKeepsPools DEF User
  <2>4. SlotsInv'
    BY <1>0, <1>2, <2>1, <2>2, CloseKeepsSlots
  <2> QED
    BY <2>3, <2>4
<1>16. ASSUME NEW e \in {"up", "down"}, HalfClose(t, e) PROVE CountersInv' /\ PoolInv' /\ SlotsInv'
  <2> DEFINE r == [transfer[t] EXCEPT !.ends = @ \ {e},
        !.at = IF transfer[t].ends = {e} THEN "ended" ELSE "flow"]
  <2>1. /\ r \in TransferType /\ r.at \in {"ended", "flow"} /\ r.open = transfer[t].open
        /\ r.seen = transfer[t].seen
        /\ r.pool = transfer[t].pool /\ r.gen = transfer[t].gen
    BY <1>1 DEF TransferType
  <2>2. transfer' = [transfer EXCEPT ![t] = r] /\ UNCHANGED relayVars /\ slotsTaken' = slotsTaken
          /\ transfer[t].at = "flow"
    BY <1>16 DEF HalfClose
  <2> HIDE DEF r
  <2>0. relay'.gen >= relay.gen /\ r.seen <= relay'.gen /\ r.pool <= pools
    BY <1>1, <1>2, <2>1, <2>2
  <2>3. CountersInv' /\ PoolInv'
    BY <1>0, <1>1, <2>0, <2>1, <2>2, JoinKeepsPools DEF User, Joined
  <2>4. SlotsInv'
    BY <1>0, <1>2, <2>1, <2>2, CloseKeepsSlots
  <2> QED
    BY <2>3, <2>4
<1>17. ASSUME NEW kept \in BOOLEAN, NEW again \in BOOLEAN, ResponseEnds(t, kept, again)
       PROVE  CountersInv' /\ PoolInv' /\ SlotsInv'
  <2> DEFINE r == IF again THEN [NoTransfer EXCEPT !.at = "accepted", !.kind = "forward",
        !.open = TRUE] ELSE NoTransfer
  <2>1. /\ r \in TransferType /\ r.at \in {"accepted", "none"} /\ r.seen = -1 /\ r.pool = 0
        /\ (r.open <=> again) /\ (r.at = "accepted" => r.open) /\ (r.at = "none" => r = NoTransfer)
    <3>1. CASE again
      BY <1>3, <3>1
    <3>2. CASE ~again
      BY <1>1, <1>3, <3>2
    <3> QED
      BY <3>1, <3>2
  <2>2. transfer' = [transfer EXCEPT ![t] = r] /\ UNCHANGED <<relay, connPool, pools>>
          /\ transfer[t].at = "flow"
    BY <1>17 DEF ResponseEnds
  <2>3. IF again THEN slotsTaken' = slotsTaken ELSE ReleaseSlot(t)
    BY <1>17 DEF ResponseEnds
  <2>7. \/ (r.open <=> transfer[t].open) /\ slotsTaken' = slotsTaken
        \/ ~r.open /\ ReleaseSlot(t)
    BY <1>2, <2>1, <2>2, <2>3
  <2>4. \A c \in idleConns' :
          c \in idleConns \/ (Joined(t) /\ c.pool = transfer[t].pool /\ c.gen = transfer[t].gen)
    BY <1>17 DEF ResponseEnds, Joined
  <2> HIDE DEF r
  <2>0. relay'.gen >= relay.gen /\ r.seen <= relay'.gen /\ r.pool <= pools /\ r.seen <= 0
    BY <1>1, <1>2, <2>1, <2>2
  <2>5. CountersInv' /\ PoolInv'
    BY <1>4, <2>0, <2>1, <2>2, <2>4
  <2>6. SlotsInv'
    BY <1>0, <2>1, <2>2, <2>7, CloseKeepsSlots
  <2> QED
    BY <2>5, <2>6
<1> QED
  BY <1>5, <1>6, <1>8, <1>9, <1>11, <1>12, <1>13, <1>14, <1>15, <1>16, <1>17 DEF TransferStep

\* Installs leave the connections alone, and connections the policy.
LEMMA GatewayStep == GatewayInv /\ [GatewayNext]_gatewayVars => GatewayInv'
<1> SUFFICES ASSUME GatewayInv, [GatewayNext]_gatewayVars PROVE GatewayInv'
  OBVIOUS
<1> USE DEF GatewayInv
<1>1. CASE InstallStep
  <2>1. UNCHANGED <<relayVars, transfer, slotsTaken>>
    BY <1>1 DEF InstallStep, TakePolicyLock, BuildSuccessor, InstallFails, ApplyToKernel, ReplaceFile
  <2>2. (CountersInv /\ PoolInv /\ SlotsInv)'
    BY <2>1 DEF relayVars, CountersInv, PoolInv, SlotsInv, User, Joined, OpenTransfers
  <2> QED
    BY <1>1, <2>2, InstallTypes, InstallLayers
<1>2. ASSUME NEW t \in Transfers, TransferStep(t) PROVE GatewayInv'
  <2>1. UNCHANGED policyVars
    BY <1>2 DEF TransferStep, AcceptConn, DialReads, DialRefused, PoolAt, TransferBreaks, HandlerReturns,
                DialConnects, ForwardReads, Recheck, Reuse, HalfClose, ResponseEnds
  <2>2. LayersInv'
    BY <2>1 DEF policyVars, LayersInv
  <2> QED
    BY <1>2, <2>2, TransferTypes, TransferKeeps
<1>3. CASE UNCHANGED gatewayVars
  BY <1>3
  DEF gatewayVars, policyVars, relayVars, GatewayTypes, LayersInv, CountersInv, PoolInv, SlotsInv,
      User, Joined, OpenTransfers
<1> QED
  BY <1>1, <1>2, <1>3 DEF GatewayNext

\* GatewayInv is an invariant of the gateway.
LEMMA GatewayInvariant == GatewaySpec => []GatewayInv
  BY GatewayInitInv, GatewayStep, PTL DEF GatewaySpec

-----------------------------------------------------------------------------
(* The gateway's types, with their bounds *)

\* What the installer, the ruleset, the document and the relay hold was put
\* there by an install that built it.
PolicyBounds ==
  /\ installer.next \in Denies \cup {{}} /\ (installer.at # "none" => installer.next \in Denies)
  /\ ruleset \in Denies \cup {NoDocument} /\ document \in Denies \cup {NoDocument}
  /\ relay.doc \in Denies \cup {NoDocument}

\* The relay counts a generation for an install at most, and none before the
\* document was replaced.
InstallBounds ==
  /\ installs \in 0..MaxInstalls + 1
  /\ relay.gen + (IF relay.doc # document THEN 1 ELSE 0) + (IF installer.at # "none" THEN 1 ELSE 0) <= installs

\* Whoever may give a connection back has a pool, and an address.
PoolBounds ==
  /\ pools \in 0..MaxPools /\ slotsTaken <= Slots
  /\ \A c \in idleConns : c.pool >= 1 /\ c.dest \in Dests
  /\ \A t \in Transfers :
       /\ transfer[t].seen >= -1
       /\ transfer[t].at \in {"pooled", "dialing", "flow"} /\ transfer[t].kind = "forward" => transfer[t].pool >= 1
       /\ transfer[t].at = "flow" => transfer[t].dest \in Dests

\* An install keeps the bounds on what it writes (installPolicyWith).
LEMMA InstallKeepsBounds ==
  ASSUME GatewayInv, PolicyBounds, InstallBounds, InstallStep
  PROVE  PolicyBounds' /\ InstallBounds' /\ UNCHANGED <<relayVars, transfer, slotsTaken>>
<1>0. /\ installer \in InstallerType /\ relay \in [doc : Texts, gen : Nat] /\ installs \in Nat
      /\ NoInstaller.next = {} /\ NoInstaller.at = "none"
      /\ Dests \in Denies /\ Documents \subseteq Denies
  BY DEF GatewayInv, GatewayTypes, InstallBounds, NoInstaller, Denies
<1> HIDE DEF Denies, NoDocument, NoInstaller, Texts
<1>1. ASSUME NEW who \in {"boot", "reload", "close"}, NEW deny \in Documents, TakePolicyLock(who, deny)
      PROVE  PolicyBounds' /\ InstallBounds' /\ UNCHANGED <<relayVars, transfer, slotsTaken>>
  <2>1. /\ installer' = [who |-> who, at |-> "read", next |-> deny] /\ installs' = installs + 1
        /\ installs <= MaxInstalls /\ installer.at = "none" /\ UNCHANGED <<ruleset, document, relay>>
        /\ UNCHANGED <<relayVars, transfer, slotsTaken>>
    BY <1>0, <1>1 DEF TakePolicyLock, TakesLock, relayVars
  <2>2. installer'.next \in Denies /\ installer'.at # "none"
    BY <1>0, <2>1
  <2>3. PolicyBounds'
    BY <2>1, <2>2 DEF PolicyBounds
  <2>4. InstallBounds'
    BY <1>0, <2>1 DEF InstallBounds
  <2> QED
    BY <2>1, <2>3, <2>4
<1>2. CASE BuildSuccessor
  <2>1. /\ installer.at = "read" /\ installer'.at = "built" /\ installer'.next \in {installer.next, Dests}
        /\ UNCHANGED <<ruleset, document, relay, installs>> /\ UNCHANGED <<relayVars, transfer, slotsTaken>>
    BY <1>0, <1>2 DEF BuildSuccessor, relayVars, InstallerType
  <2>2. PolicyBounds'
    BY <1>0, <2>1 DEF PolicyBounds
  <2>3. InstallBounds'
    BY <1>0, <2>1 DEF InstallBounds
  <2> QED
    BY <2>1, <2>2, <2>3
<1>3. CASE InstallFails
  <2>1. /\ installer' = NoInstaller
        /\ UNCHANGED <<ruleset, document, relay, installs>> /\ UNCHANGED <<relayVars, transfer, slotsTaken>>
    BY <1>3 DEF InstallFails, relayVars
  <2>2. PolicyBounds'
    BY <1>0, <2>1 DEF PolicyBounds
  <2>3. InstallBounds'
    BY <1>0, <2>1 DEF InstallBounds
  <2> QED
    BY <2>1, <2>2, <2>3
<1>4. ASSUME NEW done \in BOOLEAN, ApplyToKernel(done)
      PROVE  PolicyBounds' /\ InstallBounds' /\ UNCHANGED <<relayVars, transfer, slotsTaken>>
  <2>1. /\ installer.at = "built" /\ ruleset' = installer.next
        /\ installer' = NoInstaller \/ (installer'.at = "applied" /\ installer'.next = installer.next)
        /\ UNCHANGED <<document, relay, installs>> /\ UNCHANGED <<relayVars, transfer, slotsTaken>>
    BY <1>0, <1>4 DEF ApplyToKernel, relayVars, InstallerType
  <2>2. PolicyBounds'
    BY <1>0, <2>1 DEF PolicyBounds
  <2>3. InstallBounds'
    BY <1>0, <2>1 DEF InstallBounds
  <2> QED
    BY <2>1, <2>2, <2>3
<1>5. ASSUME NEW done \in BOOLEAN, ReplaceFile(done)
      PROVE  PolicyBounds' /\ InstallBounds' /\ UNCHANGED <<relayVars, transfer, slotsTaken>>
  <2>1. /\ installer.at = "applied" /\ installer' = NoInstaller /\ document' \in {document, installer.next}
        /\ UNCHANGED <<ruleset, relay, installs>> /\ UNCHANGED <<relayVars, transfer, slotsTaken>>
    BY <1>5 DEF ReplaceFile, relayVars
  <2>2. PolicyBounds'
    BY <1>0, <2>1 DEF PolicyBounds
  <2>3. InstallBounds'
    BY <1>0, <2>1 DEF InstallBounds
  <2> QED
    BY <2>1, <2>2, <2>3
<1> QED
  BY <1>1, <1>2, <1>3, <1>4, <1>5 DEF InstallStep

\* What a read of the document leaves in the relay is within its bounds
\* (currentPolicy).
LEMMA ReadKeepsBounds ==
  ASSUME GatewayInv, PolicyBounds, InstallBounds, UNCHANGED policyVars, relay' \in {relay, CurrentPolicy}
  PROVE  PolicyBounds' /\ InstallBounds'
<1>0. relay \in [doc : Texts, gen : Nat] /\ installs \in Nat
  BY DEF GatewayInv, GatewayTypes, InstallBounds
<1> HIDE DEF Denies, NoDocument, Texts
<1>1. \/ relay' = relay
      \/ relay.doc # document /\ relay'.doc = document /\ relay'.gen = relay.gen + 1
  BY <1>0 DEF CurrentPolicy
<1>2. PolicyBounds'
  BY <1>1 DEF PolicyBounds, policyVars
<1>3. InstallBounds'
  BY <1>0, <1>1 DEF InstallBounds, policyVars
<1> QED
  BY <1>2, <1>3

\* One connection changes; the rest of PoolBounds is as it was.
LEMMA OneTransferKeepsBounds ==
  ASSUME GatewayInv, PoolBounds, NEW t \in Transfers, NEW r, SetTransfer(t, r),
         pools' \in 0..MaxPools, slotsTaken' <= Slots, \A c \in idleConns' : c.pool >= 1 /\ c.dest \in Dests,
         r.seen >= -1, r.at \in {"pooled", "dialing", "flow"} /\ r.kind = "forward" => r.pool >= 1,
         r.at = "flow" => r.dest \in Dests
  PROVE  PoolBounds'
<1>1. transfer' = [transfer EXCEPT ![t] = r] /\ transfer \in [Transfers -> TransferType]
  BY DEF SetTransfer, GatewayInv, GatewayTypes
<1>2. \A u \in Transfers : transfer'[u] = IF u = t THEN r ELSE transfer[u]
  BY <1>1
<1> QED
  BY <1>2 DEF PoolBounds

\* A slot is given back or kept (limitConn).
LEMMA ReleaseBounds ==
  ASSUME GatewayInv, PoolBounds, NEW t \in Transfers, ReleaseSlot(t)
  PROVE  slotsTaken' <= Slots
<1>1. slotsTaken \in Nat
  BY FS_CardinalityType DEF GatewayInv, SlotsInv
<1> QED
  BY <1>1 DEF ReleaseSlot, PoolBounds

\* A step of a client connection keeps the bounds (dial, poolAt, transferWith).
LEMMA TransferKeepsBounds ==
  ASSUME GatewayInv, PolicyBounds, InstallBounds, PoolBounds, NEW t \in Transfers, TransferStep(t)
  PROVE  PolicyBounds' /\ InstallBounds' /\ PoolBounds'
<1>0. /\ transfer[t] \in TransferType /\ idleConns \subseteq IdleType /\ connPool \in [id : Nat, gen : Nat]
      /\ relay \in [doc : Texts, gen : Nat] /\ pools \in Nat /\ slotsTaken \in Nat
      /\ connPool.id <= pools
  BY FS_CardinalityType DEF GatewayInv, GatewayTypes, SlotsInv, CountersInv
<1>1. /\ transfer[t].seen >= -1 /\ pools <= MaxPools /\ slotsTaken <= Slots
      /\ transfer[t].at \in {"pooled", "dialing", "flow"} /\ transfer[t].kind = "forward" => transfer[t].pool >= 1
      /\ transfer[t].at = "flow" => transfer[t].dest \in Dests
      /\ \A c \in idleConns : c.pool >= 1 /\ c.dest \in Dests
  BY DEF PoolBounds
<1>2. NoTransfer.seen = -1 /\ NoTransfer.at = "none"
  BY DEF NoTransfer
<1>3. CurrentPolicy.gen \in Nat
  BY CurrentPolicyFacts DEF GatewayInv
<1>4. PolicyBounds' /\ InstallBounds'
  <2>1. UNCHANGED policyVars /\ relay' \in {relay, CurrentPolicy}
    BY DEF TransferStep, AcceptConn, DialReads, DialRefused, PoolAt, TransferBreaks, HandlerReturns,
           DialConnects, ForwardReads, Recheck, Reuse, HalfClose, ResponseEnds, relayVars
  <2> QED
    BY <2>1, ReadKeepsBounds
<1>5. ASSUME pools' = pools, slotsTaken' <= Slots, idleConns' \subseteq idleConns, NEW r, SetTransfer(t, r),
             r.seen >= -1, r.at \in {"pooled", "dialing", "flow"} /\ r.kind = "forward" => r.pool >= 1,
             r.at = "flow" => r.dest \in Dests
      PROVE  PoolBounds'
  <2>1. pools' \in 0..MaxPools /\ \A c \in idleConns' : c.pool >= 1 /\ c.dest \in Dests
    BY <1>0, <1>1, <1>5
  <2> QED
    BY <1>5, <2>1, OneTransferKeepsBounds
<1>6. ASSUME pools' = pools, idleConns' = idleConns, ReleaseSlot(t), SetTransfer(t, NoTransfer) PROVE PoolBounds'
  BY <1>2, <1>5, <1>6, ReleaseBounds
<1>7. ASSUME pools' = pools, idleConns' = idleConns, EndTransfer(t) PROVE PoolBounds'
  <2> DEFINE r == [transfer[t] EXCEPT !.at = "ended", !.open = FALSE]
  <2>1. SetTransfer(t, r) /\ ReleaseSlot(t)
    BY <1>7 DEF EndTransfer
  <2>2. r.seen = transfer[t].seen /\ r.at = "ended"
    BY <1>0 DEF TransferType
  <2> HIDE DEF r
  <2> QED
    BY <1>1, <1>5, <1>7, <2>1, <2>2, ReleaseBounds
<1>8. ASSUME NEW kind \in {"tunnel", "forward"}, AcceptConn(t, kind) PROVE PoolBounds'
  <2> DEFINE r == [NoTransfer EXCEPT !.at = "accepted", !.kind = kind, !.open = TRUE]
  <2>1. /\ SetTransfer(t, r) /\ pools' = pools /\ idleConns' = idleConns
        /\ slotsTaken < Slots /\ slotsTaken' = slotsTaken + 1
    BY <1>8 DEF AcceptConn, relayVars
  <2>2. r.seen = -1 /\ r.at = "accepted"
    BY <1>2 DEF NoTransfer
  <2> HIDE DEF r
  <2>3. slotsTaken' <= Slots
    BY <1>0, <2>1
  <2> QED
    BY <1>5, <2>1, <2>2, <2>3
<1>9. ASSUME DialReads(t) PROVE PoolBounds'
  <2> DEFINE r == [transfer[t] EXCEPT !.at = "dialing", !.policy = document, !.gen = CurrentPolicy.gen]
  <2>1. SetTransfer(t, r) /\ pools' = pools /\ idleConns' = idleConns /\ slotsTaken' = slotsTaken
    BY <1>9 DEF DialReads
  <2>2. r.seen = transfer[t].seen /\ r.at = "dialing" /\ r.kind = transfer[t].kind /\ r.pool = transfer[t].pool
    BY <1>0 DEF TransferType
  <2> HIDE DEF r
  <2>3. r.kind = "forward" => r.pool >= 1
    BY <1>1, <1>9, <2>2 DEF DialReads
  <2>4. slotsTaken' <= Slots /\ idleConns' \subseteq idleConns /\ r.seen >= -1 /\ r.at # "flow"
    BY <1>1, <2>1, <2>2
  <2> QED
    BY <1>5, <2>1, <2>3, <2>4
<1>10. ASSUME NEW d \in Dests, DialConnects(t, d) PROVE PoolBounds'
  <2> DEFINE r == [transfer[t] EXCEPT !.at = "flow", !.dest = d, !.policy = {}, !.ends = {"up", "down"}]
  <2>1. /\ SetTransfer(t, r) /\ pools' = pools /\ idleConns' = idleConns /\ slotsTaken' = slotsTaken
        /\ transfer[t].at = "dialing"
    BY <1>10 DEF DialConnects, relayVars
  <2>2. r.seen = transfer[t].seen /\ r.dest = d /\ r.kind = transfer[t].kind /\ r.pool = transfer[t].pool
    BY <1>0 DEF TransferType
  <2> HIDE DEF r
  <2> QED
    BY <1>1, <1>5, <2>1, <2>2
<1>11. ASSUME DialRefused(t) \/ HandlerReturns(t) PROVE PoolBounds'
  <2>1. pools' = pools /\ idleConns' = idleConns /\ ReleaseSlot(t) /\ SetTransfer(t, NoTransfer)
    BY <1>11 DEF DialRefused, HandlerReturns, relayVars
  <2> QED
    BY <1>6, <2>1
<1>12. ASSUME NEW readable \in BOOLEAN, ForwardReads(t, readable) PROVE PoolBounds'
  <2> DEFINE r == [transfer[t] EXCEPT !.at = "chosen", !.seen = IF readable THEN CurrentPolicy.gen ELSE 0]
  <2>1. SetTransfer(t, r) /\ pools' = pools /\ idleConns' = idleConns /\ slotsTaken' = slotsTaken
    BY <1>12 DEF ForwardReads
  <2>2. r.seen >= -1 /\ r.at = "chosen"
    BY <1>0, <1>3 DEF TransferType
  <2> HIDE DEF r
  <2> QED
    BY <1>1, <1>5, <2>1, <2>2
<1>13. ASSUME PoolAt(t) PROVE PoolBounds'
  <2>1. PICK id \in Nat : /\ id >= 1 /\ TakePool(t, id) /\ pools' \in 0..MaxPools /\ idleConns' \subseteq idleConns
    <3>1. PICK gen : \/ PoolServes(gen) /\ TakePool(t, connPool.id) /\ UNCHANGED <<pools, idleConns>>
                     \/ /\ pools < MaxPools /\ pools' = pools + 1 /\ TakePool(t, pools + 1)
                        /\ idleConns' \subseteq idleConns
      BY <1>13 DEF PoolAt
    <3> QED
      BY <1>0, <1>1, <3>1 DEF PoolServes
  <2> DEFINE r == [transfer[t] EXCEPT !.at = "pooled", !.pool = id]
  <2>2. SetTransfer(t, r) /\ slotsTaken' = slotsTaken
    BY <1>13, <2>1 DEF PoolAt, TakePool
  <2>3. r.seen = transfer[t].seen /\ r.at = "pooled" /\ r.pool = id
    BY <1>0 DEF TransferType
  <2> HIDE DEF r
  <2>4. \A c \in idleConns' : c.pool >= 1 /\ c.dest \in Dests
    BY <1>1, <2>1
  <2>5. slotsTaken' <= Slots /\ r.seen >= -1 /\ r.pool >= 1 /\ r.at # "flow" /\ pools' \in 0..MaxPools
    BY <1>1, <2>1, <2>2, <2>3
  <2> QED
    BY <2>2, <2>4, <2>5, OneTransferKeepsBounds
<1>14. ASSUME NEW c \in idleConns, Reuse(t, c) PROVE PoolBounds'
  <2> DEFINE r == [transfer[t] EXCEPT !.at = "flow", !.dest = c.dest, !.gen = c.gen, !.ends = {"up", "down"}]
  <2>1. /\ SetTransfer(t, r) /\ pools' = pools /\ idleConns' \subseteq idleConns /\ slotsTaken' = slotsTaken
        /\ transfer[t].at = "pooled"
    BY <1>14 DEF Reuse
  <2>2. r.seen = transfer[t].seen /\ r.dest = c.dest /\ r.kind = transfer[t].kind /\ r.pool = transfer[t].pool
    BY <1>0 DEF TransferType
  <2> HIDE DEF r
  <2> QED
    BY <1>1, <1>5, <2>1, <2>2
<1>15. ASSUME NEW e \in {"up", "down"}, HalfClose(t, e) PROVE PoolBounds'
  <2> DEFINE r == [transfer[t] EXCEPT !.ends = @ \ {e}, !.at = IF transfer[t].ends = {e} THEN "ended" ELSE "flow"]
  <2>1. /\ SetTransfer(t, r) /\ pools' = pools /\ idleConns' = idleConns /\ slotsTaken' = slotsTaken
        /\ transfer[t].at = "flow"
    BY <1>15 DEF HalfClose, relayVars
  <2>2. /\ r.seen = transfer[t].seen /\ r.dest = transfer[t].dest
        /\ r.kind = transfer[t].kind /\ r.pool = transfer[t].pool
    BY <1>0 DEF TransferType
  <2> HIDE DEF r
  <2> QED
    BY <1>1, <1>5, <2>1, <2>2
<1>16. ASSUME TransferBreaks(t) PROVE PoolBounds'
  <2>1. pools' = pools /\ idleConns' = idleConns /\ EndTransfer(t)
    BY <1>16 DEF TransferBreaks, relayVars
  <2> QED
    BY <1>7, <2>1
<1>17. ASSUME NEW readable \in BOOLEAN, Recheck(t, readable) PROVE PoolBounds'
  BY <1>7, <1>17 DEF Recheck
<1>18. ASSUME NEW kept \in BOOLEAN, NEW again \in BOOLEAN, ResponseEnds(t, kept, again) PROVE PoolBounds'
  <2> DEFINE r == [NoTransfer EXCEPT !.at = "accepted", !.kind = "forward", !.open = TRUE]
  <2> DEFINE c == [pool |-> transfer[t].pool, dest |-> transfer[t].dest, gen |-> transfer[t].gen]
  <2>1. /\ transfer[t].at = "flow" /\ transfer[t].kind = "forward" /\ pools' = pools
        /\ idleConns' \subseteq idleConns \cup {c}
    BY <1>18 DEF ResponseEnds
  <2>2. c.pool >= 1 /\ c.dest \in Dests
    BY <1>1, <2>1
  <2> HIDE DEF c
  <2>3. \A i \in idleConns' : i.pool >= 1 /\ i.dest \in Dests
    BY <1>1, <2>1, <2>2
  <2>4. pools' \in 0..MaxPools
    BY <1>0, <1>1, <2>1
  <2>5. CASE again
    <3>1. SetTransfer(t, r) /\ slotsTaken' = slotsTaken
      BY <1>18, <2>5 DEF ResponseEnds
    <3>2. r.seen = -1 /\ r.at = "accepted"
      BY DEF NoTransfer
    <3> HIDE DEF r
    <3> QED
      BY <1>1, <2>3, <2>4, <3>1, <3>2, OneTransferKeepsBounds
  <2>6. CASE ~again
    <3>1. SetTransfer(t, NoTransfer) /\ ReleaseSlot(t)
      BY <1>18, <2>6 DEF ResponseEnds
    <3> QED
      BY <1>2, <2>3, <2>4, <3>1, ReleaseBounds, OneTransferKeepsBounds
  <2> QED
    BY <2>5, <2>6
<1> QED
  BY <1>4, <1>8, <1>9, <1>10, <1>11, <1>12, <1>13, <1>14, <1>15, <1>16, <1>17, <1>18 DEF TransferStep

\* The gateway keeps its types, and its generations, pools and slots within
\* their bounds, for every number of installs, pools and slots.
THEOREM GatewayKeepsTypes == GatewaySpec => []GatewayTypeOK
<1> DEFINE Bounds == PolicyBounds /\ InstallBounds /\ PoolBounds
<1>1. GatewayInit => Bounds
  <2> SUFFICES ASSUME GatewayInit PROVE Bounds
    OBVIOUS
  <2>1. PolicyBounds
    BY DEF GatewayInit, PolicyBounds, NoInstaller
  <2>2. InstallBounds
    BY DEF GatewayInit, InstallBounds, NoInstaller
  <2>3. PoolBounds
    BY DEF GatewayInit, PoolBounds, NoTransfer
  <2> QED
    BY <2>1, <2>2, <2>3
<1>2. GatewayInv /\ Bounds /\ [GatewayNext]_gatewayVars => Bounds'
  <2> SUFFICES ASSUME GatewayInv, Bounds, [GatewayNext]_gatewayVars PROVE Bounds'
    OBVIOUS
  <2>1. CASE InstallStep
    <3>1. PolicyBounds' /\ InstallBounds' /\ UNCHANGED <<relayVars, transfer, slotsTaken>>
      BY <2>1, InstallKeepsBounds
    <3>2. PoolBounds'
      BY <3>1 DEF PoolBounds, relayVars
    <3> QED
      BY <3>1, <3>2
  <2>2. ASSUME NEW t \in Transfers, TransferStep(t) PROVE Bounds'
    BY <2>2, TransferKeepsBounds
  <2>3. CASE UNCHANGED gatewayVars
    BY <2>3 DEF PolicyBounds, InstallBounds, PoolBounds, gatewayVars, policyVars, relayVars
  <2> QED
    BY <2>1, <2>2, <2>3 DEF GatewayNext
<1>3. ASSUME GatewayInv, Bounds PROVE GatewayTypeOK
  <2>1. /\ installer \in InstallerType /\ torn \in BOOLEAN /\ relay \in [doc : Texts, gen : Nat]
        /\ connPool \in [id : Nat, gen : Nat] /\ pools \in Nat /\ idleConns \subseteq IdleType
        /\ transfer \in [Transfers -> TransferType]
    BY <1>3 DEF GatewayInv, GatewayTypes
  <2>2. installer \in [who : {"nobody", "boot", "reload", "close"}, at : {"none", "read", "built", "applied"},
                       next : Denies \cup {{}}]
    BY <1>3, <2>1 DEF InstallerType, PolicyBounds
  <2>3. relay.gen \in 0..MaxInstalls + 1 /\ installs \in 0..MaxInstalls + 1
    <3>1. relay.gen <= installs /\ relay.gen \in Nat /\ installs \in Nat /\ installs <= MaxInstalls + 1
      BY <1>3, <2>1 DEF InstallBounds
    <3> QED
      BY <3>1
  <2>4. /\ connPool.id \in 0..MaxPools /\ connPool.gen \in 0..MaxInstalls + 1 /\ pools \in 0..MaxPools
    <3>1. connPool.gen <= relay.gen /\ connPool.id <= pools /\ pools <= MaxPools
      BY <1>3, <2>1 DEF GatewayInv, CountersInv, PoolBounds
    <3> QED
      BY <2>1, <2>3, <3>1
  <2>5. \A c \in idleConns : c.pool \in 1..MaxPools /\ c.dest \in Dests
    <3> SUFFICES ASSUME NEW c \in idleConns PROVE c.pool \in 1..MaxPools /\ c.dest \in Dests
      OBVIOUS
    <3>1. c.pool \in Nat /\ c.pool <= pools /\ c.pool >= 1 /\ c.dest \in Dests
      BY <1>3, <2>1 DEF GatewayInv, CountersInv, PoolBounds, IdleType
    <3> QED
      BY <2>1, <2>4, <3>1
  <2>6. ASSUME NEW t \in Transfers
        PROVE  /\ transfer[t].at \in {"none", "accepted", "chosen", "pooled", "dialing", "flow", "ended"}
               /\ transfer[t].kind \in {"none", "tunnel", "forward"} /\ transfer[t].seen \in -1..MaxInstalls + 1
               /\ transfer[t].dest \in Dests \cup {"none"} /\ transfer[t].ends \subseteq {"up", "down"}
    <3>1. transfer[t] \in TransferType
      BY <2>1
    <3>2. transfer[t].seen <= relay.gen /\ transfer[t].seen >= -1 /\ transfer[t].seen \in Int
      BY <1>3, <3>1 DEF GatewayInv, CountersInv, PoolBounds, TransferType
    <3>3. transfer[t].seen \in -1..MaxInstalls + 1
      BY <2>3, <3>2
    <3> QED
      BY <3>1, <3>3 DEF TransferType
  <2>7. slotsTaken \in 0..Slots
    <3>1. slotsTaken \in Nat
      BY <1>3, FS_CardinalityType DEF GatewayInv, SlotsInv
    <3> QED
      BY <1>3, <3>1 DEF PoolBounds
  <2> QED
    BY <1>3, <2>1, <2>2, <2>3, <2>4, <2>5, <2>6, <2>7 DEF GatewayTypeOK, PolicyBounds
<1> QED
  BY <1>1, <1>2, <1>3, GatewayInvariant, PTL DEF GatewaySpec

-----------------------------------------------------------------------------
(* What the gateway promises *)

\* The ruleset agrees with the document whenever no install is at work and none
\* was left half done, a request never travels on a connection older than the
\* policy it has seen, and a slot is taken for each open connection and no other
\* (installPolicyWith, poolAt, limitConn).
THEOREM GatewayAlwaysAgrees == GatewaySpec => []GatewayAgrees
<1>1. ASSUME GatewayInv PROVE GatewayAgrees
  <2>1. LayersAgree
    BY <1>1 DEF GatewayInv, LayersInv, LayersAgree
  <2>2. PoolIsCurrent
    BY <1>1 DEF GatewayInv, PoolInv, PoolIsCurrent, User, Joined
  <2>3. SlotsAreHeld
    BY <1>1 DEF GatewayInv, SlotsInv, SlotsAreHeld, OpenTransfers
  <2> QED
    BY <2>1, <2>2, <2>3 DEF GatewayAgrees
<1> QED
  BY <1>1, GatewayInvariant, PTL

\* No connection is made to an address that the document denies, unless the
\* install now between its halves allows it or one was left half done, however
\* old the policy the dial had read (installPolicyWith, dial).
THEOREM DeniedIsNeverDialled == GatewaySpec => NewlyDeniedIsClosed
<1> DEFINE Dialled ==
      \A t \in Transfers, d \in Dests :
        (transfer[t].at = "dialing" /\ transfer'[t].at = "flow" /\ transfer'[t].dest = d) =>
          torn \/ d \notin document \/ (installer.at = "applied" /\ d \notin installer.next)
<1>1. ASSUME GatewayInv, [GatewayNext]_gatewayVars PROVE Dialled
  <2> SUFFICES ASSUME NEW t \in Transfers, NEW d \in Dests,
                      transfer[t].at = "dialing", transfer'[t].at = "flow", transfer'[t].dest = d
               PROVE  torn \/ d \notin document \/ (installer.at = "applied" /\ d \notin installer.next)
    OBVIOUS
  <2>1. \E e \in Dests : DialConnects(t, e)
    <3>1. transfer' # transfer
      OBVIOUS
    <3>2. PICK u \in Transfers : TransferStep(u)
      BY <1>1, <3>1
      DEF GatewayNext, InstallStep, TakePolicyLock, BuildSuccessor, InstallFails, ApplyToKernel,
          ReplaceFile, gatewayVars
    <3>3. \E r : transfer' = [transfer EXCEPT ![u] = r]
      BY <3>2
      DEF TransferStep, AcceptConn, DialReads, DialRefused, PoolAt, TransferBreaks, HandlerReturns,
          DialConnects, ForwardReads, Recheck, Reuse, HalfClose, ResponseEnds, EndTransfer,
          TakePool, SetTransfer
    <3>4. u = t
      BY <1>1, <3>3 DEF GatewayInv, GatewayTypes
    <3>5. ~DialRefused(t)
      BY <1>1 DEF DialRefused, SetTransfer, NoTransfer, GatewayInv, GatewayTypes
    <3>6. ~(\E kind \in {"tunnel", "forward"} : AcceptConn(t, kind)) /\ ~DialReads(t) /\ ~PoolAt(t)
      BY DEF AcceptConn, NoTransfer, DialReads, PoolAt
    <3>7. /\ ~TransferBreaks(t) /\ ~HandlerReturns(t) /\ ~\E c \in idleConns : Reuse(t, c)
          /\ ~\E readable \in BOOLEAN : ForwardReads(t, readable) \/ Recheck(t, readable)
      BY DEF TransferBreaks, HandlerReturns, Reuse, ForwardReads, Recheck
    <3>8. /\ ~\E end \in {"up", "down"} : HalfClose(t, end)
          /\ ~\E kept, again \in BOOLEAN : ResponseEnds(t, kept, again)
      BY DEF HalfClose, ResponseEnds
    <3> QED
      BY <3>2, <3>4, <3>5, <3>6, <3>7, <3>8 DEF TransferStep
  <2>2. PICK e \in Dests : DialConnects(t, e)
    BY <2>1
  <2>3. transfer'[t].dest = e
    <3>1. transfer[t] \in TransferType
      BY <1>1 DEF GatewayInv, GatewayTypes
    <3> QED
      BY <1>1, <2>2, <3>1 DEF DialConnects, SetTransfer, GatewayInv, GatewayTypes, TransferType
  <2>4. d \notin ruleset
    BY <2>2, <2>3 DEF DialConnects
  <2> QED
    BY <1>1, <2>4 DEF GatewayInv, LayersInv
<1>2. GatewayInv /\ [GatewayNext]_gatewayVars => [Dialled]_gatewayVars
  BY <1>1
<1> HIDE DEF Dialled
<1>3. GatewaySpec => [][Dialled]_gatewayVars
  BY <1>2, GatewayInvariant, PTL DEF GatewaySpec
<1> QED
  BY <1>3 DEF NewlyDeniedIsClosed, Dialled

-----------------------------------------------------------------------------
(* What a policy means: EgressPolicy *)

USE EgressAssumption DEF Addresses, Prefixes

\* The range of no bits holds every address.
LEMMA EverythingIsDenied == ASSUME NEW a \in Addresses PROVE Contains(WholeSpace, a)
<1>1. 1..WholeSpace.bits = {}
  BY DEF WholeSpace
<1> QED
  BY <1>1 DEF Contains

\* The range of all bits holds one address.
LEMMA SingleAddress ==
  ASSUME NEW p \in Prefixes, p.bits = Width, NEW a \in Addresses, Contains(p, a) PROVE p.addr = a
BY DEF Contains

\* Ranges with an address in common overlap.
LEMMA SharedAddress ==
  ASSUME NEW p \in Prefixes, NEW q \in Prefixes, NEW a \in Addresses, Contains(p, a), Contains(q, a)
  PROVE  Overlaps(p, q)
BY DEF Contains, Overlaps

-----------------------------------------------------------------------------
(* The policies that come into force *)

\* An accepted policy, that denies the baseline or everything.
Accepted(p) ==
  /\ p \in [allow : SUBSET Prefixes, deny : SUBSET Prefixes] /\ Validate(p.allow, p.deny)
  /\ BaselineDeny \subseteq p.deny \/ p = DenyAllSuccessor

\* A policy built from an accepted allow, the host's networks and the operator's
\* denies, whatever they are, is of that kind.
LEMMA BuiltIsAccepted ==
  ASSUME NEW allow \in Allows, NEW subnets \in HostSubnets, NEW denies \in DenyCIDRs,
         Validate(allow, BuildDeny(subnets, denies))
  PROVE  Accepted([allow |-> allow, deny |-> BuildDeny(subnets, denies)])
<1>1. allow \subseteq Prefixes /\ BuildDeny(subnets, denies) \subseteq Prefixes
  BY DEF BuildDeny
<1>2. BaselineDeny \subseteq BuildDeny(subnets, denies)
  BY DEF BuildDeny
<1> QED
  BY <1>1, <1>2 DEF Accepted

\* So is the one that denies everything.
LEMMA DenyAllIsAccepted == Accepted(DenyAllSuccessor)
<1>1. WholeSpace \in Prefixes
  BY DEF WholeSpace
<1> QED
  BY <1>1 DEF Accepted, DenyAllSuccessor, Validate

\* Whatever is in force was accepted.
LEMMA AlwaysAccepted == EgressSpec => []Accepted(policy)
<1>1. EgressInit => Accepted(policy)
  BY BuiltIsAccepted DEF EgressInit
<1>2. Accepted(policy) /\ [EgressNext]_policy => Accepted(policy)'
  <2> SUFFICES ASSUME Accepted(policy), [EgressNext]_policy PROVE Accepted(policy')
    BY DEF Accepted, Validate, WidensBaselineDeny, RefusedOutright, ReopensLinkLocal, Overlaps, Contains,
           DenyAllSuccessor, WholeSpace
  <2>1. CASE DenyAll
    BY <2>1, DenyAllIsAccepted DEF DenyAll
  <2>2. ASSUME NEW allow \in Allows, NEW subnets \in HostSubnets, NEW denies \in DenyCIDRs,
               ReloadPolicy(allow, subnets, denies)
        PROVE  Accepted(policy')
    BY <2>2, BuiltIsAccepted DEF ReloadPolicy
  <2>3. CASE UNCHANGED policy
    BY <2>3
  <2> QED
    BY <2>1, <2>2, <2>3 DEF EgressNext
<1> QED
  BY <1>1, <1>2, PTL DEF EgressSpec

-----------------------------------------------------------------------------
(* What they mean *)

\* The relay and the kernel let out the same addresses of those a connection
\* can have, under every policy that comes into force (Allowed, RenderIPTables).
THEOREM LayersAlwaysMatch == EgressSpec => []RelayMatchesKernel
<1>1. ASSUME Accepted(policy), NEW a \in Addresses, Contains(LinkLocal, a)
      PROVE  \E c \in policy.deny : Contains(c, a)
  <2>1. CASE BaselineDeny \subseteq policy.deny
    BY <1>1, <2>1
  <2>2. CASE policy = DenyAllSuccessor
    <3>1. policy.deny = {WholeSpace}
      BY <2>2 DEF DenyAllSuccessor
    <3> QED
      BY <3>1, EverythingIsDenied
  <2> QED
    BY <1>1, <2>1, <2>2 DEF Accepted
<1>2. Accepted(policy) => RelayMatchesKernel
  BY <1>1 DEF RelayMatchesKernel, Allowed, Rendered
<1> QED
  BY <1>2, AlwaysAccepted, PTL

\* A link-local address is reached only by an entry that names it alone, under
\* every policy that comes into force (ReopensLinkLocal).
THEOREM LinkLocalIsAlwaysNamed == EgressSpec => []LinkLocalIsNamed
<1>1. ASSUME Accepted(policy), NEW a \in Addresses, Contains(LinkLocal, a), Allowed(policy, a)
      PROVE  \E p \in policy.allow : p.bits = Width /\ p.addr = a
  <2>1. PICK p \in policy.allow : Contains(p, a)
    BY <1>1 DEF Allowed
  <2>2. p \in Prefixes /\ ~ReopensLinkLocal(p)
    BY <1>1 DEF Accepted, Validate
  <2>3. Overlaps(p, LinkLocal)
    BY <1>1, <2>1, <2>2, SharedAddress
  <2>4. p.bits = Width
    BY <2>2, <2>3 DEF ReopensLinkLocal
  <2> QED
    BY <2>1, <2>2, <2>4, SingleAddress
<1>2. Accepted(policy) => LinkLocalIsNamed
  BY <1>1 DEF LinkLocalIsNamed
<1> QED
  BY <1>2, AlwaysAccepted, PTL

\* No allow that is accepted takes in all of a withheld range but the range
\* itself, for every table of ranges (WidensBaselineDeny).
THEOREM WithheldRangesAlwaysStay == EgressSpec => []WithheldRangesStay
<1>1. ASSUME NEW p \in Prefixes, ~WidensBaselineDeny(p), NEW d \in BaselineDeny,
             \A a \in Addresses : Contains(d, a) => Contains(p, a)
      PROVE  p.bits = d.bits
  <2>1. d \in Prefixes /\ Contains(p, d.addr)
    BY <1>1 DEF Contains
  <2>2. ~(p.bits < d.bits)
    BY <1>1, <2>1 DEF WidensBaselineDeny
  <2>3. ASSUME d.bits < p.bits PROVE FALSE
    <3> DEFINE other == [d.addr EXCEPT ![p.bits] = 1 - p.addr[p.bits]]
    <3>1. p.bits \in 1..Width /\ p.addr[p.bits] \in {0, 1}
      BY <2>1, <2>3
    <3>2. other \in Addresses /\ other[p.bits] # p.addr[p.bits]
      BY <2>1, <3>1
    <3>3. Contains(d, other)
      BY <2>1, <2>3, <3>1 DEF Contains
    <3> HIDE DEF other
    <3>4. Contains(p, other)
      BY <1>1, <3>2, <3>3
    <3> QED
      BY <3>1, <3>2, <3>4 DEF Contains
  <2> QED
    BY <2>1, <2>2, <2>3
<1>2. Accepted(policy) => WithheldRangesStay
  BY <1>1 DEF Accepted, Validate, WithheldRangesStay
<1> QED
  BY <1>2, AlwaysAccepted, PTL

\* A gateway that carries the closing deny set reaches nothing, whatever was in
\* force before and whatever the operator denies (denyAllSuccessor).
THEOREM ClosedAlwaysReachesNothing == EgressSpec => []ClosedReachesNothing
<1>1. Accepted(policy) => ClosedReachesNothing
  <2> SUFFICES ASSUME Accepted(policy), policy.deny = DenyAllSuccessor.deny, NEW a \in Addresses
               PROVE  ~Allowed(policy, a)
    BY DEF ClosedReachesNothing
  <2>1. LinkLocal \notin policy.deny
    BY DEF DenyAllSuccessor, WholeSpace
  <2>2. policy = DenyAllSuccessor
    BY <2>1 DEF Accepted
  <2> QED
    BY <2>2, EverythingIsDenied DEF DenyAllSuccessor, Allowed
<1> QED
  BY <1>1, AlwaysAccepted, PTL

\* A policy in force is sound, for every address width and every table of
\* ranges: the two layers agree on it and it reopens nothing by accident
\* (Validate, Allowed, RenderIPTables, denyAllSuccessor).
THEOREM PolicyIsAlwaysSound == EgressSpec => []PolicyIsSound
<1>1. (RelayMatchesKernel /\ LinkLocalIsNamed /\ WithheldRangesStay /\ ClosedReachesNothing)
        => PolicyIsSound
  BY DEF PolicyIsSound
<1> QED
  BY <1>1, LayersAlwaysMatch, LinkLocalIsAlwaysNamed, WithheldRangesAlwaysStay,
     ClosedAlwaysReachesNothing, PTL

HIDE DEF Addresses, Prefixes

-----------------------------------------------------------------------------
(***************************************************************************)
(* ScaleSets, for any number of sets, ends and uninstalls                  *)
(***************************************************************************)

USE ScaleSetsAssumption DEF NoSet, Down, EnsureAt, Make

EnsureType ==
  [at : {"down", "idle", "lookup", "intend", "create", "record", "ensured", "purge"},
   known : 0..MaxSets, intended : BOOLEAN, set : 0..MaxSets]
RemoteType == [id : 0..MaxSets, own : BOOLEAN]

-----------------------------------------------------------------------------
(* Type correctness *)

\* The process keeps its type in every step.
LEMMA EnsureTyped ==
  ASSUME ScaleSetsTypeOK, [ScaleSetsNext]_setVars PROVE ensure' \in EnsureType
<1>0. /\ ensure \in EnsureType /\ remoteSet \in RemoteType
      /\ setRow \in -1..MaxSets /\ madeSets \in 0..MaxSets
  BY DEF ScaleSetsTypeOK, EnsureType, RemoteType
<1>1. CASE BuildBindings
  <2>1. GitHubScaleSetID \in 0..MaxSets
    BY <1>0 DEF GitHubScaleSetID
  <2>2. ensure' = [at |-> "idle", known |-> GitHubScaleSetID, intended |-> FALSE, set |-> 0]
    BY <1>1 DEF BuildBindings
  <2> QED
    BY <2>1, <2>2 DEF EnsureType
<1>2. CASE ReadIntent
  <2>1. (setRow >= 0) \in BOOLEAN
    OBVIOUS
  <2> QED
    BY <1>0, <1>2, <2>1 DEF ReadIntent, EnsureType
<1>3. CASE LookUp
  BY <1>0, <1>3 DEF LookUp, WhenFree, EnsureType, RemoteType
<1>4. CASE RecordIntent \/ RecordSet \/ PassFails
  BY <1>0, <1>4 DEF RecordIntent, RecordSet, PassFails, EnsureType
<1>5. CASE PurgeBindings \/ ProcessEnds
  <2>1. ensure' = Down
    BY <1>5 DEF PurgeBindings, ProcessEnds
  <2> QED
    BY <2>1 DEF EnsureType
<1>6. ASSUME NEW outcome, CreateScaleSet(outcome) PROVE ensure' \in EnsureType
  <2>1. CASE remoteSet = NoSet /\ outcome = "made"
    <3>1. madeSets + 1 \in 0..MaxSets
      BY <1>0, <1>6, <2>1 DEF CreateScaleSet
    <3>2. ensure' = [ensure EXCEPT !.at = "record", !.set = madeSets + 1]
      BY <1>6, <2>1 DEF CreateScaleSet
    <3> QED
      BY <1>0, <3>1, <3>2 DEF EnsureType
  <2>2. CASE ~(remoteSet = NoSet /\ outcome = "made")
    <3>1. ensure' = [ensure EXCEPT !.at = "idle"]
      BY <1>6, <2>2 DEF CreateScaleSet
    <3> QED
      BY <1>0, <3>1 DEF EnsureType
  <2> QED
    BY <2>1, <2>2
<1>7. ASSUME NEW asked, DeleteScaleSets(asked) PROVE ensure' \in EnsureType
  BY <1>0, <1>7 DEF DeleteScaleSets, EnsureType
<1>8. ASSUME NEW took, LateCreateLands(took) PROVE ensure' \in EnsureType
  BY <1>0, <1>8 DEF LateCreateLands
<1>9. CASE OthersMake \/ OthersRemove \/ CalmBegins \/ UNCHANGED setVars
  BY <1>0, <1>9 DEF OthersMake, OthersRemove, CalmBegins, setVars
<1> QED
  BY <1>1, <1>2, <1>3, <1>4, <1>5, <1>6, <1>7, <1>8, <1>9 DEF ScaleSetsNext, EnsurePass

\* So does what the provider holds.
LEMMA RemoteTyped ==
  ASSUME ScaleSetsTypeOK, [ScaleSetsNext]_setVars
  PROVE  remoteSet' \in RemoteType /\ madeSets' \in 0..MaxSets
<1>0. remoteSet \in RemoteType /\ madeSets \in 0..MaxSets
  BY DEF ScaleSetsTypeOK, RemoteType
<1>1. ASSUME NEW own \in BOOLEAN, Make(own)
      PROVE  remoteSet' \in RemoteType /\ madeSets' \in 0..MaxSets
  BY <1>0, <1>1 DEF RemoteType
<1>2. NoSet \in RemoteType
  BY DEF RemoteType
<1>3. CASE PurgeBindings
  BY <1>0, <1>3 DEF PurgeBindings, RemoteType
<1>4. \/ Make(TRUE) \/ Make(FALSE) \/ UNCHANGED <<remoteSet, madeSets>>
      \/ (remoteSet' = NoSet /\ UNCHANGED madeSets) \/ PurgeBindings
  BY DEF ScaleSetsNext, EnsurePass, BuildBindings, ReadIntent, LookUp, RecordIntent, RecordSet,
         CreateScaleSet, PassFails, ProcessEnds, OthersMake, OthersRemove, CalmBegins,
         DeleteScaleSets, LateCreateLands, setVars
<1> QED
  BY <1>0, <1>1, <1>2, <1>3, <1>4

\* Everything else is a number or a Boolean.
LEMMA TypeNext == ScaleSetsTypeOK /\ [ScaleSetsNext]_setVars => ScaleSetsTypeOK'
<1> SUFFICES ASSUME ScaleSetsTypeOK, [ScaleSetsNext]_setVars PROVE ScaleSetsTypeOK'
  OBVIOUS
<1>0. /\ ensure \in EnsureType /\ remoteSet \in RemoteType /\ refused \subseteq 1..MaxSets
      /\ setRow \in -1..MaxSets /\ ends \in 0..MaxEnds /\ lateCreate \in BOOLEAN /\ removed \in BOOLEAN
      /\ undisturbed \in BOOLEAN
  BY DEF ScaleSetsTypeOK, EnsureType, RemoteType
<1>1. setRow' \in -1..MaxSets /\ ends' \in 0..MaxEnds
  BY <1>0
  DEF ScaleSetsNext, EnsurePass, BuildBindings, ReadIntent, LookUp, RecordIntent, RecordSet,
      CreateScaleSet, PurgeBindings, PassFails, ProcessEnds, OthersMake, OthersRemove, CalmBegins,
      DeleteScaleSets, LateCreateLands, setVars, EnsureType
<1>2. refused' \subseteq 1..MaxSets
  BY <1>0
  DEF ScaleSetsNext, EnsurePass, BuildBindings, ReadIntent, LookUp, RecordIntent, RecordSet,
      CreateScaleSet, PurgeBindings, PassFails, ProcessEnds, OthersMake, OthersRemove, CalmBegins,
      DeleteScaleSets, LateCreateLands, setVars, RemoteType
<1>3. lateCreate' \in BOOLEAN /\ removed' \in BOOLEAN /\ undisturbed' \in BOOLEAN
  BY <1>0
  DEF ScaleSetsNext, EnsurePass, BuildBindings, ReadIntent, LookUp, RecordIntent, RecordSet,
      CreateScaleSet, PurgeBindings, PassFails, ProcessEnds, OthersMake, OthersRemove, CalmBegins,
      DeleteScaleSets, LateCreateLands, setVars
<1> QED
  BY <1>1, <1>2, <1>3, EnsureTyped, RemoteTyped DEF ScaleSetsTypeOK, EnsureType, RemoteType

-----------------------------------------------------------------------------
(* The row accounts for what this instance made *)

\* The intention is on record when a create is sent and for as long as one may
\* still take effect, and the set in hand is the instance's own if that is there.
SetInv ==
  /\ OwnSetIsAccounted
  /\ ensure.at = "create" => setRow = 0
  /\ lateCreate => (setRow = 0 \/ remoteSet.id # 0)
  /\ (ensure.at = "record" /\ lateCreate) => remoteSet.id # 0
  /\ (ensure.at = "record" /\ remoteSet.own) => ensure.set = remoteSet.id
  /\ ensure.at = "purge" => ~lateCreate
  /\ remoteSet.own => remoteSet.id # 0
  /\ remoteSet.id = 0 => remoteSet = NoSet

\* The types and the invariant hold before anything was asked of the provider.
LEMMA SetInvInit == ScaleSetsInit => ScaleSetsTypeOK /\ SetInv
<1>1. ScaleSetsInit => ensure \in EnsureType /\ remoteSet \in RemoteType
  BY DEF ScaleSetsInit, EnsureType, RemoteType
<1>2. ScaleSetsInit => madeSets \in 0..MaxSets /\ setRow \in -1..MaxSets /\ ends \in 0..MaxEnds
  BY DEF ScaleSetsInit
<1>3. ScaleSetsInit => /\ refused \subseteq 1..MaxSets /\ lateCreate \in BOOLEAN
                       /\ removed \in BOOLEAN /\ undisturbed \in BOOLEAN
  BY DEF ScaleSetsInit
<1>4. ScaleSetsInit => SetInv
  BY DEF ScaleSetsInit, SetInv, OwnSetIsAccounted
<1> QED
  BY <1>1, <1>2, <1>3, <1>4 DEF ScaleSetsTypeOK, EnsureType, RemoteType

\* A pass of the binding's loop keeps the invariant.
LEMMA SetInvPass == ASSUME ScaleSetsTypeOK, SetInv, EnsurePass PROVE SetInv'
<1>0. /\ ensure \in EnsureType /\ remoteSet \in RemoteType
      /\ setRow \in -1..MaxSets /\ madeSets \in 0..MaxSets /\ lateCreate \in BOOLEAN
  BY DEF ScaleSetsTypeOK, EnsureType, RemoteType
<1> USE <1>0 DEF SetInv, OwnSetIsAccounted, EnsureType, RemoteType
<1>1. CASE BuildBindings
  BY <1>1 DEF BuildBindings
<1>2. CASE ReadIntent
  BY <1>2 DEF ReadIntent
<1>3. CASE LookUp
  BY <1>3 DEF LookUp, WhenFree
<1>4. CASE RecordIntent
  BY <1>4 DEF RecordIntent
<1>5. CASE RecordSet
  BY <1>5 DEF RecordSet
<1>6. CASE PurgeBindings
  BY <1>6 DEF PurgeBindings
<1>7. ASSUME NEW outcome \in {"made", "unheard", "late", "refused"}, CreateScaleSet(outcome)
      PROVE  SetInv'
  <2>1. ensure.at = "create" /\ setRow = 0 /\ setRow' = 0
    BY <1>7 DEF CreateScaleSet
  <2>2. CASE remoteSet = NoSet /\ outcome \in {"made", "unheard"}
    <3>1. remoteSet' = [id |-> madeSets + 1, own |-> TRUE] /\ madeSets + 1 # 0
      BY <1>7, <2>2 DEF CreateScaleSet
    <3>2. \/ ensure' = [ensure EXCEPT !.at = "record", !.set = madeSets + 1]
          \/ ensure' = [ensure EXCEPT !.at = "idle"]
      BY <1>7 DEF CreateScaleSet
    <3> QED
      BY <2>1, <3>1, <3>2
  <2>3. CASE ~(remoteSet = NoSet /\ outcome \in {"made", "unheard"})
    <3>1. remoteSet' = remoteSet /\ ensure' = [ensure EXCEPT !.at = "idle"]
      BY <1>7, <2>3 DEF CreateScaleSet
    <3> QED
      BY <2>1, <3>1
  <2> QED
    BY <2>2, <2>3
<1> QED
  BY <1>1, <1>2, <1>3, <1>4, <1>5, <1>6, <1>7 DEF EnsurePass

\* So does everything else that happens to the binding.
LEMMA SetInvNext == ScaleSetsTypeOK /\ SetInv /\ [ScaleSetsNext]_setVars => SetInv'
<1> SUFFICES ASSUME ScaleSetsTypeOK, SetInv, [ScaleSetsNext]_setVars PROVE SetInv'
  OBVIOUS
<1>0. /\ ensure \in EnsureType /\ remoteSet \in RemoteType
      /\ setRow \in -1..MaxSets /\ madeSets \in 0..MaxSets /\ lateCreate \in BOOLEAN
  BY DEF ScaleSetsTypeOK, EnsureType, RemoteType
<1>1. CASE EnsurePass
  BY <1>1, SetInvPass
<1> USE <1>0 DEF SetInv, OwnSetIsAccounted, EnsureType, RemoteType
<1>2. CASE PassFails
  BY <1>2 DEF PassFails
<1>3. CASE ProcessEnds
  BY <1>3 DEF ProcessEnds
<1>4. CASE OthersMake
  BY <1>4 DEF OthersMake
<1>5. CASE OthersRemove
  BY <1>5 DEF OthersRemove
<1>6. CASE CalmBegins
  BY <1>6 DEF CalmBegins
<1>7. ASSUME NEW asked \in BOOLEAN, DeleteScaleSets(asked) PROVE SetInv'
  BY <1>7 DEF DeleteScaleSets
<1>8. ASSUME NEW took \in BOOLEAN, LateCreateLands(took) PROVE SetInv'
  BY <1>8 DEF LateCreateLands
<1>9. CASE UNCHANGED setVars
  BY <1>9 DEF setVars
<1> QED
  BY <1>1, <1>2, <1>3, <1>4, <1>5, <1>6, <1>7, <1>8, <1>9 DEF ScaleSetsNext

\* No lost answer and no end of the process leaves a set of this instance's
\* that its row neither names nor announces (ensureScaleSet, EnsureScaleSet).
THEOREM OwnSetIsAlwaysAccounted == ScaleSetsSpec => []OwnSetIsAccounted
<1>1. ScaleSetsTypeOK /\ SetInv /\ [ScaleSetsNext]_setVars => (ScaleSetsTypeOK /\ SetInv)'
  BY TypeNext, SetInvNext
<1>2. SetInv => OwnSetIsAccounted
  BY DEF SetInv
<1> QED
  BY <1>1, <1>2, SetInvInit, PTL DEF ScaleSetsSpec

-----------------------------------------------------------------------------
(* What was refused stays refused *)

\* As long as nobody removed the set on record, it is the one at the name, the
\* process knows it, and a set in hand or about to be adopted was never refused.
UnlessRemoved ==
  /\ setRow \notin refused
  /\ setRow > 0 => remoteSet.id = setRow
  /\ ensure.at = "record" => ensure.set = remoteSet.id /\ ensure.set > 0 /\ ensure.set \notin refused
  /\ setRow = 0 \/ ensure.at = "intend" => remoteSet.id \notin refused
  /\ ensure.at = "intend" => setRow <= 0
  /\ ensure.at \notin {"down", "purge"} => ensure.known = GitHubScaleSetID
  /\ ensure.at = "lookup" => ensure.intended = (setRow >= 0)

\* A set is made once, so one that was refused does not come back.
RefusedInv ==
  /\ remoteSet.id <= madeSets /\ \A i \in refused : i <= madeSets
  /\ removed \/ UnlessRemoved

\* Nothing was refused before anything was asked.
LEMMA RefusedInit == ScaleSetsInit => RefusedInv
  BY DEF ScaleSetsInit, RefusedInv, UnlessRemoved

\* Every step keeps the invariant: a set is refused only when another one is on
\* record or no row exists, and the row becomes an intention only when the
\* name was found free.
LEMMA RefusedNext == ScaleSetsTypeOK /\ SetInv /\ RefusedInv /\ [ScaleSetsNext]_setVars => RefusedInv'
<1> SUFFICES ASSUME ScaleSetsTypeOK, SetInv, RefusedInv, [ScaleSetsNext]_setVars PROVE RefusedInv'
  OBVIOUS
<1>0. /\ ensure \in EnsureType /\ remoteSet \in RemoteType /\ refused \subseteq 1..MaxSets
      /\ setRow \in -1..MaxSets /\ madeSets \in 0..MaxSets /\ lateCreate \in BOOLEAN
      /\ removed \in BOOLEAN
      /\ ensure.at = "create" => setRow = 0
      /\ remoteSet.id = 0 => remoteSet = NoSet
  BY DEF ScaleSetsTypeOK, EnsureType, RemoteType, SetInv
<1> USE <1>0 DEF RefusedInv, UnlessRemoved, GitHubScaleSetID, EnsureType, RemoteType
<1>1. CASE BuildBindings
  BY <1>1 DEF BuildBindings
<1>2. CASE ReadIntent
  BY <1>2 DEF ReadIntent
<1>3. CASE LookUp
  <2>1. CASE remoteSet = NoSet
    <3>1. ensure' = [ensure EXCEPT !.at = "intend"]
            /\ UNCHANGED <<remoteSet, madeSets, setRow, refused, removed>>
      BY <1>3, <2>1 DEF LookUp, WhenFree
    <3> QED
      BY <1>3, <2>1, <3>1 DEF LookUp
  <2>2. CASE remoteSet # NoSet /\ Adoptable(remoteSet.id)
    <3>1. /\ ensure' = [ensure EXCEPT !.at = "record", !.set = remoteSet.id] /\ ensure.at = "lookup"
          /\ UNCHANGED <<remoteSet, madeSets, setRow, refused, removed>>
      BY <1>3, <2>2 DEF LookUp
    <3> QED
      BY <2>2, <3>1 DEF Adoptable
  <2>3. CASE remoteSet # NoSet /\ ~Adoptable(remoteSet.id)
    <3>1. /\ ensure' = [ensure EXCEPT !.at = "idle"] /\ ensure.at = "lookup"
          /\ refused' \in {refused, refused \cup {remoteSet.id}}
          /\ UNCHANGED <<remoteSet, madeSets, setRow, removed>>
      BY <1>3, <2>3 DEF LookUp
    <3> QED
      BY <2>3, <3>1 DEF Adoptable
  <2> QED
    BY <2>1, <2>2, <2>3
<1>4. CASE RecordIntent
  BY <1>4 DEF RecordIntent
<1>5. CASE RecordSet
  BY <1>5 DEF RecordSet
<1>6. CASE PurgeBindings
  BY <1>6 DEF PurgeBindings
<1>7. ASSUME NEW outcome \in {"made", "unheard", "late", "refused"}, CreateScaleSet(outcome)
      PROVE  RefusedInv'
  <2>1. ensure.at = "create" /\ setRow = 0 /\ UNCHANGED <<setRow, refused, removed>>
    BY <1>7 DEF CreateScaleSet
  <2>2. CASE remoteSet = NoSet /\ outcome \in {"made", "unheard"}
    <3>1. /\ remoteSet' = [id |-> madeSets + 1, own |-> TRUE] /\ madeSets' = madeSets + 1
          /\ madeSets + 1 \notin refused
      BY <1>7, <2>2 DEF CreateScaleSet
    <3>2. \/ ensure' = [ensure EXCEPT !.at = "record", !.set = madeSets + 1]
          \/ ensure' = [ensure EXCEPT !.at = "idle"]
      BY <1>7 DEF CreateScaleSet
    <3>3. CASE ensure' = [ensure EXCEPT !.at = "record", !.set = madeSets + 1]
      BY <2>1, <3>1, <3>3
    <3>4. CASE ensure' = [ensure EXCEPT !.at = "idle"]
      BY <2>1, <3>1, <3>4
    <3> QED
      BY <3>2, <3>3, <3>4
  <2>3. CASE ~(remoteSet = NoSet /\ outcome \in {"made", "unheard"})
    <3>1. remoteSet' = remoteSet /\ madeSets' = madeSets /\ ensure' = [ensure EXCEPT !.at = "idle"]
      BY <1>7, <2>3 DEF CreateScaleSet
    <3> QED
      BY <2>1, <3>1
  <2> QED
    BY <2>2, <2>3
<1>8. CASE PassFails
  BY <1>8 DEF PassFails
<1>9. CASE ProcessEnds
  BY <1>9 DEF ProcessEnds
<1>10. CASE OthersMake
  BY <1>10 DEF OthersMake
<1>11. CASE OthersRemove
  <2>1. /\ remoteSet' = NoSet /\ UNCHANGED <<madeSets, setRow, ensure, refused>>
        /\ ~removed' => ~removed /\ remoteSet.id # setRow /\ remoteSet.id # ensure.set
    BY <1>11 DEF OthersRemove
  <2>2. remoteSet'.id = 0 /\ 0 \notin refused
    BY <2>1
  <2>3. CASE removed'
    BY <2>1, <2>2, <2>3
  <2>4. CASE ~removed'
    <3>1. setRow <= 0 /\ ensure.at # "record"
      BY <2>1, <2>4
    <3> QED
      BY <2>1, <2>2, <2>4, <3>1
  <2> QED
    BY <2>3, <2>4
<1>12. CASE CalmBegins \/ UNCHANGED setVars
  BY <1>12 DEF CalmBegins, setVars
<1>13. ASSUME NEW asked \in BOOLEAN, DeleteScaleSets(asked) PROVE RefusedInv'
  BY <1>13 DEF DeleteScaleSets
<1>14. ASSUME NEW took \in BOOLEAN, LateCreateLands(took) PROVE RefusedInv'
  BY <1>14 DEF LateCreateLands
<1> QED
  BY <1>1, <1>2, <1>3, <1>4, <1>5, <1>6, <1>7, <1>8, <1>9, <1>10, <1>11, <1>12, <1>13, <1>14
  DEF ScaleSetsNext, EnsurePass

\* No pass adopts a set an earlier one refused, however often the process was
\* started again and whatever became of its creates, unless the recorded set
\* was removed (EnsureScaleSet, recordIntent).
THEOREM RefusedAlwaysStaysRefused == ScaleSetsSpec => []RefusedStaysRefused
<1>1. /\ ScaleSetsTypeOK /\ SetInv /\ RefusedInv /\ [ScaleSetsNext]_setVars
        => (ScaleSetsTypeOK /\ SetInv /\ RefusedInv)'
  BY TypeNext, SetInvNext, RefusedNext
<1>2. RefusedInv => RefusedStaysRefused
  BY DEF RefusedInv, UnlessRemoved, RefusedStaysRefused
<1> QED
  BY <1>1, <1>2, SetInvInit, RefusedInit, PTL DEF ScaleSetsSpec

HIDE DEF NoSet, Down, EnsureAt, Make

-----------------------------------------------------------------------------
(***************************************************************************)
(* The parts side by side                                                  *)
(***************************************************************************)

\* A behaviour of the composition is one of every part, so that what is proved
\* of a part alone holds where the parts are checked together.
THEOREM HostIsItsParts ==
  HostSpec => /\ PressureSpec /\ ResourcesSpec /\ SandboxSpec
              /\ GatewaySpec /\ EgressSpec /\ ScaleSetsSpec
<1> DEFINE v == <<pressureVars, resVars, boxVars, gatewayVars, policy, setVars, part>>
<1> USE DEF HostNext, PressurePart, ResourcesPart, SandboxPart, GatewayPart, PolicyPart, ScaleSetsPart
<1>1. HostInit => PressureInit /\ ResourcesInit /\ SandboxInit /\ GatewayInit /\ EgressInit /\ ScaleSetsInit
  BY DEF HostInit
<1>2. [HostNext]_v => [PressureNext]_pressureVars
  OBVIOUS
<1>3. [HostNext]_v => [ResourcesNext]_resVars
  OBVIOUS
<1>4. [HostNext]_v => [SandboxNext]_boxVars
  OBVIOUS
<1>5. [HostNext]_v => [GatewayNext]_gatewayVars
  OBVIOUS
<1>6. [HostNext]_v => [EgressNext]_policy
  OBVIOUS
<1>7. [HostNext]_v => [ScaleSetsNext]_setVars
  OBVIOUS
<1>8. QED
  BY <1>1, <1>2, <1>3, <1>4, <1>5, <1>6, <1>7, PTL
  DEF HostSpec, PressureSpec, ResourcesSpec, SandboxSpec, GatewaySpec, EgressSpec, ScaleSetsSpec

\* Every part of the host keeps its types, for every value of the constants.
THEOREM HostTypes == HostSpec => []HostTypeOK
<1> DEFINE Part == part \in {"pressure", "resources", "sandbox", "gateway", "policy", "scalesets"}
<1>1. PressureSpec => []PressureTypeOK
  <2>1. PressureInv => PressureTypeOK
    BY DEF PressureInv
  <2>2. QED
    BY <2>1, PressureInvInit, PressureInvNext, PTL DEF PressureSpec
<1>2. EgressSpec => []EgressTypeOK
  <2>1. Accepted(policy) => EgressTypeOK
    BY DEF Accepted, EgressTypeOK
  <2>2. QED
    BY <2>1, AlwaysAccepted, PTL
<1>3. ScaleSetsSpec => []ScaleSetsTypeOK
  BY SetInvInit, TypeNext, PTL DEF ScaleSetsSpec
<1>4. HostSpec => []Part
  <2>1. HostInit => Part
    BY DEF HostInit
  <2>2. Part /\ [HostNext]_<<pressureVars, resVars, boxVars, gatewayVars, policy, setVars, part>> => Part'
    BY DEF HostNext, PressurePart, ResourcesPart, SandboxPart, GatewayPart, PolicyPart, ScaleSetsPart
  <2>3. QED
    BY <2>1, <2>2, PTL DEF HostSpec
<1>5. ASSUME Part, PressureTypeOK, ResourcesTypeOK, SandboxTypeOK, GatewayTypeOK, EgressTypeOK, ScaleSetsTypeOK
      PROVE  HostTypeOK
  BY <1>5 DEF HostTypeOK
<1>6. QED
  BY <1>1, <1>2, <1>3, <1>4, <1>5, HostIsItsParts, ResourcesTypes, SandboxTypes, GatewayKeepsTypes, PTL
=============================================================================
