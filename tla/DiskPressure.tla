---------------------------- MODULE DiskPressure ----------------------------
(***************************************************************************)
(* The disk monitor: one pass measures, decides a level with hysteresis,   *)
(* applies it to the level admission reads and to the allocator's gate,    *)
(* and makes it durable.  Closing is applied before it is saved, opening   *)
(* only after.  A measurement or a write may fail, and the controller may  *)
(* be replaced between any two steps.                                      *)
(***************************************************************************)
EXTENDS Integers

CONSTANTS
  SoftFree, HardFree, ReserveFree,  \* floors of free bytes, in units
  SoftInodes, HardInodes,           \* the fixed floors of free inodes, in units
  MaxManaged, HighPct, LowPct,      \* the cache budget and its watermarks
  MaxFree, MaxInodes, MaxLoad       \* bounds: what a measurement may find

ASSUME PressureAssumption ==
  /\ {SoftFree, HardFree, ReserveFree, SoftInodes, HardInodes, MaxManaged, MaxFree, MaxInodes, MaxLoad}
       \subseteq Nat
  /\ HardFree <= SoftFree /\ HardInodes <= SoftInodes
  /\ HighPct \in 0..100 /\ LowPct \in 0..HighPct

VARIABLES
  level, gate,   \* the level in force; whether the allocator holds credit back
  stored,        \* the durable verdict; "none" before the first
  step, next,    \* step of the pass and the level it decided
  saved,         \* whether the pass in hand has made its verdict durable
  clear,         \* whether the facts of the pass clear every floor by its band
  recovered      \* whether the host has room for good and no call fails any more

pressureVars == <<level, gate, stored, step, next, saved, clear, recovered>>

Levels == {"unknown", "normal", "high", "soft", "hard"}
Emergency == {"soft", "hard"}

AdmissionClosed(l) == l = "unknown" \/ l \in Emergency
WantsGC(l) == l \in {"high", "soft"}

Facts == [free : 0..MaxFree, inodes : -1..MaxInodes, managed : 0..MaxLoad]

SoftFloor == IF ReserveFree > SoftFree THEN ReserveFree ELSE SoftFree

\* Mutant: the band is taken from the floor in force.
Band_FromFloor == SoftFloor - HardFree

Band == SoftFree - HardFree
InodeBand == SoftInodes - HardInodes

\* The facts clear every floor by the band that separates the floors.
Clears(f) ==
  /\ f.free >= SoftFloor + (SoftFree - HardFree)
  /\ f.inodes < 0 \/ f.inodes >= SoftInodes + InodeBand

\* The worst condition wins; an emergency and a full cache are left only
\* through their bands.
NextLevel(prev, f) ==
  LET inodesUnder(n) == f.inodes >= 0 /\ f.inodes < n
      hard == f.free < HardFree \/ inodesUnder(HardInodes)
      soft == f.free < SoftFloor \/ inodesUnder(SoftInodes)
      banded == prev \in Emergency /\ (f.free < SoftFloor + Band \/ inodesUnder(SoftInodes + InodeBand))
      full == f.managed >= (MaxManaged * HighPct) \div 100
      filling == prev \in Emergency \cup {"high"} /\ f.managed > (MaxManaged * LowPct) \div 100
  IN  IF hard THEN "hard"
      ELSE IF soft \/ banded THEN "soft"
      ELSE IF MaxManaged > 0 /\ (full \/ filling) THEN "high" ELSE "normal"

PressureTypeOK ==
  /\ level \in Levels /\ gate \in BOOLEAN /\ stored \in Levels \cup {"none"}
  /\ step \in {"boot", "idle", "hold", "doubt", "apply", "gate", "save", "collect"}
  /\ next \in Levels /\ saved \in BOOLEAN /\ clear \in BOOLEAN /\ recovered \in BOOLEAN

PressureInit ==
  /\ level = "unknown" /\ gate = TRUE /\ stored = "none"
  /\ step = "boot" /\ next = "unknown" /\ saved = FALSE /\ clear = FALSE /\ recovered = FALSE

\* Mutant: the durable verdict is not read at startup.
Resume_Fresh ==
  /\ step = "boot" /\ step' = "idle" /\ UNCHANGED <<level, gate, stored, next, saved, clear, recovered>>

\* Startup restores a verdict that closed admission, and none that opened it.
Resume ==
  /\ step = "boot" /\ step' = "idle"
  /\ IF stored # "none" /\ AdmissionClosed(stored)
       THEN level' = stored /\ gate' = TRUE ELSE UNCHANGED <<level, gate>>
  /\ UNCHANGED <<stored, next, saved, clear, recovered>>

\* A failed measurement leaves an emergency standing and closes anything else.
MeasureFails ==
  /\ step = "idle" /\ ~recovered
  /\ IF level \in Emergency THEN UNCHANGED <<step, level, next>>
     ELSE step' = "hold" /\ level' = "unknown" /\ next' = "unknown"
  /\ clear' = FALSE /\ UNCHANGED <<gate, stored, saved, recovered>>

HoldUnknown ==
  /\ step = "hold" /\ gate' = TRUE /\ step' = "doubt"
  /\ UNCHANGED <<level, stored, next, saved, clear, recovered>>

\* One row, replaced by each verdict.
SetPressure(v) == stored' = v

SaveUnknown(ok) ==
  /\ step = "doubt" /\ (recovered => ok) /\ step' = "idle"
  /\ IF ok THEN SetPressure("unknown") ELSE UNCHANGED stored
  /\ UNCHANGED <<level, gate, next, saved, clear, recovered>>

OpensAdmission == AdmissionClosed(level) /\ ~AdmissionClosed(next)

\* Mutant: every verdict is applied at once.
Measure_AppliesFirst(f) ==
  /\ step = "idle" /\ (recovered => Clears(f))
  /\ next' = NextLevel(level, f) /\ clear' = Clears(f) /\ saved' = FALSE
  /\ step' = "apply"
  /\ UNCHANGED <<level, gate, stored, recovered>>

\* A verdict that opens admission is saved before it is applied.
Measure(f) ==
  /\ step = "idle" /\ (recovered => Clears(f))
  /\ next' = NextLevel(level, f) /\ clear' = Clears(f) /\ saved' = FALSE
  /\ step' = IF AdmissionClosed(level) /\ ~AdmissionClosed(next') THEN "save" ELSE "apply"
  /\ UNCHANGED <<level, gate, stored, recovered>>

\* The level is stored before the gate is told.
ApplyLevel ==
  /\ step = "apply" /\ level' = next /\ step' = "gate"
  /\ UNCHANGED <<gate, stored, next, saved, clear, recovered>>

ApplyGate ==
  /\ step = "gate" /\ gate' = AdmissionClosed(next)
  /\ step' = IF saved THEN "collect" ELSE "save"
  /\ UNCHANGED <<level, stored, next, saved, clear, recovered>>

Persist ==
  /\ step = "save" /\ SetPressure(next) /\ saved' = TRUE
  /\ step' = IF OpensAdmission THEN "apply" ELSE "collect"
  /\ UNCHANGED <<level, gate, next, clear, recovered>>

\* The verdict stays as it was applied; a collection it asked for still runs.
PersistFails ==
  /\ step = "save" /\ ~recovered /\ step' = (IF WantsGC(next) THEN "collect" ELSE "idle")
  /\ UNCHANGED <<level, gate, stored, next, saved, clear, recovered>>

CollectGarbage ==
  /\ step = "collect" /\ step' = "idle"
  /\ UNCHANGED <<level, gate, stored, next, saved, clear, recovered>>

ControllerReplaced ==
  /\ step # "boot" /\ ~recovered
  /\ level' = "unknown" /\ gate' = TRUE
  /\ step' = "boot" /\ next' = "unknown" /\ saved' = FALSE /\ clear' = FALSE
  /\ UNCHANGED <<stored, recovered>>

\* From some moment on the host has room to spare and is left in peace.
HostRecovers ==
  /\ ~recovered /\ recovered' = TRUE /\ UNCHANGED <<level, gate, stored, step, next, saved, clear>>

PressurePass ==
  \/ Resume \/ HoldUnknown \/ ApplyLevel \/ ApplyGate \/ CollectGarbage \/ Persist
  \/ \E f \in Facts : Measure(f)
  \/ \E ok \in BOOLEAN : SaveUnknown(ok)

PressureNext ==
  \/ PressurePass \/ MeasureFails \/ PersistFails \/ ControllerReplaced \/ HostRecovers

PressureSpec == PressureInit /\ [][PressureNext]_pressureVars

\* A pass runs on a ticker and every call it makes is bounded in time.
PressureFairness == WF_pressureVars(PressurePass)

-----------------------------------------------------------------------------
(* Properties *)

\* Credit is handed out only under a durable verdict that opens admission: an
\* opening that was not saved is never acted upon, so a restart cannot find
\* work admitted under a verdict that closes (requiresDurableOpen in pass).
OpenIsDurable == ~gate => stored \in {"normal", "high"}

\* A durable emergency gives way only to a measurement that clears every floor
\* by its band, across failed measurements, failed writes and restarts
\* (Next, the failure path of pass, resume).
EmergencyEndsClear ==
  [][(stored \in Emergency /\ ~AdmissionClosed(stored') /\ stored' # stored) => clear]_pressureVars

\* A host that has recovered for good admits in the end and goes on, whatever
\* verdict, failed write or interrupted pass it recovers from: no floor latches,
\* whatever the reserve (Next's band).
AdmissionReopens == recovered ~> []~gate
=============================================================================
