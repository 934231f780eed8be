----------------------------- MODULE CacheLanes -----------------------------
(***************************************************************************)
(* Cache lanes: rows of the store that name warm volumes of the daemon,    *)
(* leased one job at a time, and the collection that evicts them.  Jobs    *)
(* and the collector run side by side and share only rows and volumes; the *)
(* process that runs them may end between any two calls.  The collector is *)
(* the disk monitor of a serving controller or the operator's command,     *)
(* which the state lock keeps apart.                                       *)
(***************************************************************************)
EXTENDS Totals, Sequences

CONSTANTS
  Jobs, PoolOf,        \* capsule leases, and the project and generation each is for
  MaxLanes,            \* lanes a pool may have
  LaneSize,            \* id of a lane |-> what its volume weighs; 0 when it cannot be sized
  TargetBytes          \* the low watermark

ASSUME LanesAssumption ==
  /\ DOMAIN PoolOf = Jobs /\ Jobs \cap {"none", "free"} = {}
  /\ MaxLanes \in Nat /\ TargetBytes \in Nat /\ LaneSize \in Seq(Nat)

VARIABLES
  row,       \* lane |-> "none", "free" or the job that leases it
  pool,      \* lane |-> the pool it was made for
  recent,    \* lanes with a row, the least recently used first
  minted,    \* ids handed out so far
  volumes,   \* lanes whose volume exists
  job,       \* job |-> where it is
  lane,      \* job |-> the lane it was handed, or 0
  gc         \* the collection in progress

laneVars == <<row, pool, recent, minted, volumes, job, lane, gc>>

LaneIds == DOMAIN LaneSize
NoGC == [at |-> "idle", seen |-> {}, evict |-> {}, orphans |-> {}, id |-> 0, failed |-> {}]
Bytes(S) == Total(LaneSize, S)

LanesTypeOK ==
  /\ row \in [LaneIds -> {"none", "free"} \cup Jobs] /\ pool \in [LaneIds -> {"none"} \cup {PoolOf[j] : j \in Jobs}]
  /\ recent \in Seq(LaneIds) /\ {recent[i] : i \in DOMAIN recent} = {l \in LaneIds : row[l] # "none"}
  /\ minted \in 0..Len(LaneSize) /\ volumes \subseteq LaneIds
  /\ job \in [Jobs -> {"new", "leased", "ready", "mounted", "uncached", "removed", "done"}]
  /\ lane \in [Jobs -> {0} \cup LaneIds]
  /\ gc \in [at : {"idle", "listed", "run", "volume"}, seen : SUBSET LaneIds, evict : SUBSET LaneIds,
             orphans : SUBSET LaneIds, id : {0} \cup LaneIds, failed : SUBSET LaneIds]

LanesInit ==
  /\ row = [l \in LaneIds |-> "none"] /\ pool = [l \in LaneIds |-> "none"] /\ recent = <<>>
  /\ minted = 0 /\ volumes = {}
  /\ job = [j \in Jobs |-> "new"] /\ lane = [j \in Jobs |-> 0] /\ gc = NoGC

-----------------------------------------------------------------------------
(* A job and its lane *)

FreeLanes(p) == {l \in LaneIds : row[l] = "free" /\ pool[l] = p}
CountLanes(p) == Cardinality({l \in LaneIds : row[l] # "none" /\ pool[l] = p})

RankOf(l) == CHOOSE i \in DOMAIN recent : recent[i] = l
Without(l) ==
  IF row[l] = "none" THEN recent
  ELSE SubSeq(recent, 1, RankOf(l) - 1) \o SubSeq(recent, RankOf(l) + 1, Len(recent))
Used(l) == Append(Without(l), l)

\* The free lane used last, so the warmest one.
FindFreeCacheLane(p) == CHOOSE l \in FreeLanes(p) : \A x \in FreeLanes(p) : RankOf(x) <= RankOf(l)

Hand(j, l, s) ==
  /\ row' = [row EXCEPT ![l] = j] /\ recent' = Used(l) /\ lane' = [lane EXCEPT ![j] = l]
  /\ job' = [job EXCEPT ![j] = s]

\* Mutant: the limit lets one lane too many be made.
LeaseCacheLane_OneMore(j) ==
  LET p == PoolOf[j] IN
  /\ job[j] = "new"
  /\ IF FreeLanes(p) # {} THEN Hand(j, FindFreeCacheLane(p), "leased") /\ UNCHANGED <<pool, minted>>
     ELSE IF CountLanes(p) > MaxLanes
       THEN job' = [job EXCEPT ![j] = "uncached"] /\ UNCHANGED <<row, recent, pool, minted, lane>>
     ELSE /\ minted < Len(LaneSize) /\ minted' = minted + 1
          /\ pool' = [pool EXCEPT ![minted + 1] = p] /\ Hand(j, minted + 1, "leased")
  /\ UNCHANGED <<volumes, gc>>

\* One transaction: a free lane of the pool, or a new one while the pool is
\* below its limit, or none, and then the job runs without a cache.
LeaseCacheLane(j) ==
  LET p == PoolOf[j] IN
  /\ job[j] = "new"
  /\ IF FreeLanes(p) # {} THEN Hand(j, FindFreeCacheLane(p), "leased") /\ UNCHANGED <<pool, minted>>
     ELSE IF CountLanes(p) >= MaxLanes
       THEN job' = [job EXCEPT ![j] = "uncached"] /\ UNCHANGED <<row, recent, pool, minted, lane>>
     ELSE /\ minted < Len(LaneSize) /\ minted' = minted + 1
          /\ pool' = [pool EXCEPT ![minted + 1] = p] /\ Hand(j, minted + 1, "leased")
  /\ UNCHANGED <<volumes, gc>>

\* The volume exists under the lane's labels, and the capsule may mount it.
EnsureOwnedVolume(j) ==
  /\ job[j] = "leased"
  /\ volumes' = volumes \cup {lane[j]} /\ job' = [job EXCEPT ![j] = "ready"]
  /\ UNCHANGED <<row, pool, recent, minted, lane, gc>>

ReleaseCacheLane(j) == row' = [l \in LaneIds |-> IF row[l] = j THEN "free" ELSE row[l]]

\* The volume cannot be had, or nobody heard that it can: the lane is given
\* back, and when that fails too it waits for the lease's end.
EnsureFails(j, made, returned) ==
  /\ job[j] = "leased" /\ job' = [job EXCEPT ![j] = "uncached"]
  /\ volumes' = IF made THEN volumes \cup {lane[j]} ELSE volumes
  /\ IF returned THEN ReleaseCacheLane(j) ELSE UNCHANGED row
  /\ UNCHANGED <<pool, recent, minted, lane, gc>>

\* The container is created; a volume that is missing would be made by the
\* daemon, without labels.
Mount(j) ==
  /\ job[j] = "ready" /\ job' = [job EXCEPT ![j] = "mounted"]
  /\ UNCHANGED <<row, pool, recent, minted, volumes, lane, gc>>

\* The capsule is removed, by its own goroutine or by the recovery of a lease
\* whose process ended at any step.
CapsuleRemoved(j) ==
  /\ job[j] \in {"leased", "ready", "mounted", "uncached"} /\ job' = [job EXCEPT ![j] = "removed"]
  /\ UNCHANGED <<row, pool, recent, minted, volumes, lane, gc>>

\* The transaction that releases the capsule's lease frees its lane.
Finalize(j) ==
  /\ job[j] = "removed" /\ job' = [job EXCEPT ![j] = "done"] /\ ReleaseCacheLane(j)
  /\ UNCHANGED <<pool, recent, minted, volumes, lane, gc>>

-----------------------------------------------------------------------------
(* The collection *)

ListVolumes ==
  /\ gc.at = "idle" /\ gc' = [NoGC EXCEPT !.at = "listed", !.seen = volumes]
  /\ UNCHANGED <<row, pool, recent, minted, volumes, job, lane>>

FreeNow == {l \in LaneIds : row[l] = "free"}
Older(l, x) == RankOf(l) < RankOf(x)

\* What a lane weighs in the plan: what was listed.
PlanBytes(S) == Bytes(S \cap gc.seen)

\* Mutant: the watermark pass weighs a lane after it has decided to stop.
ByUse_OneShort(expired) ==
  LET left(l) == PlanBytes({x \in LaneIds : row[x] # "none"} \ expired)
                   - PlanBytes({x \in FreeNow \ expired : Older(x, l)})
  IN  {l \in FreeNow \ expired : left(l) - LaneSize[l] > TargetBytes}

\* The least recently used of the rest, until the target is met.
ByUse(expired) ==
  LET left(l) == PlanBytes({x \in LaneIds : row[x] # "none"} \ expired)
                   - PlanBytes({x \in FreeNow \ expired : Older(x, l)})
  IN  {l \in FreeNow \ expired : left(l) > TargetBytes}

\* Mutant: a volume without a row is one that was not listed with a row.
OrphansOf_FreeToo == {l \in gc.seen : row[l] \in {"none", "free"}}

\* Listed volumes without a row.  The rows are read after the volumes.
OrphansOf == {l \in gc.seen : row[l] = "none"}

\* The free lanes the cutoff finds unused for too long, then every free lane
\* or those the watermark asks for, then the orphans.
PlanGC(expired, allFree) ==
  /\ gc.at = "listed" /\ expired \subseteq FreeNow
  /\ \A l \in expired, x \in FreeNow : Older(x, l) => x \in expired
  /\ gc' = [gc EXCEPT !.at = "run", !.orphans = OrphansOf,
                      !.evict = IF allFree THEN FreeNow ELSE expired \cup ByUse(expired)]
  /\ UNCHANGED <<row, pool, recent, minted, volumes, job, lane>>

\* Mutant: a lane leased since the plan is deleted all the same.
DeleteFreeCacheLane_Leased(l) == row' = [row EXCEPT ![l] = "none"]

DeleteFreeCacheLane(l) == row[l] = "free" /\ row' = [row EXCEPT ![l] = "none"]

\* The row goes first; a lane leased since the plan is skipped.
DeleteLane(l) ==
  /\ gc.at = "run" /\ l \in gc.evict
  /\ DeleteFreeCacheLane(l)
  /\ recent' = Without(l)
  /\ gc' = [gc EXCEPT !.at = "volume", !.id = l, !.evict = @ \ {l}]
  /\ UNCHANGED <<pool, minted, volumes, job, lane>>

SkipLane(l) ==
  /\ gc.at = "run" /\ l \in gc.evict /\ row[l] # "free"
  /\ gc' = [gc EXCEPT !.evict = @ \ {l}]
  /\ UNCHANGED <<row, pool, recent, minted, volumes, job, lane>>

RemoveOrphanVolume(l) ==
  /\ gc.at = "run" /\ gc.evict = {} /\ l \in gc.orphans
  /\ gc' = [gc EXCEPT !.at = "volume", !.id = l, !.orphans = @ \ {l}]
  /\ UNCHANGED <<row, pool, recent, minted, volumes, job, lane>>

\* Mutant: a removal that failed is not counted as one.
RemoveVolume_Optimistic(removed) ==
  /\ gc.at = "volume"
  /\ volumes' = IF removed THEN volumes \ {gc.id} ELSE volumes
  /\ gc' = [gc EXCEPT !.at = "run", !.id = 0]
  /\ UNCHANGED <<row, pool, recent, minted, job, lane>>

\* Ownership is proved and the volume removed, or neither.
RemoveVolume(removed) ==
  /\ gc.at = "volume"
  /\ volumes' = IF removed THEN volumes \ {gc.id} ELSE volumes
  /\ gc' = [gc EXCEPT !.at = "run", !.id = 0, !.failed = IF removed THEN @ ELSE @ \cup {gc.id}]
  /\ UNCHANGED <<row, pool, recent, minted, job, lane>>

EndGC ==
  /\ gc.at = "run" /\ gc.evict = {} /\ gc.orphans = {}
  /\ gc' = NoGC /\ UNCHANGED <<row, pool, recent, minted, volumes, job, lane>>

\* The process ends, and the collection with it.
CollectorEnds ==
  /\ gc # NoGC /\ gc' = NoGC /\ UNCHANGED <<row, pool, recent, minted, volumes, job, lane>>

Job(j) ==
  \/ LeaseCacheLane(j) \/ EnsureOwnedVolume(j) \/ Mount(j) \/ CapsuleRemoved(j) \/ Finalize(j)
  \/ \E made, returned \in BOOLEAN : EnsureFails(j, made, returned)

Collect ==
  \/ ListVolumes \/ EndGC \/ CollectorEnds
  \/ \E expired \in SUBSET FreeNow, allFree \in BOOLEAN : PlanGC(expired, allFree)
  \/ \E l \in LaneIds : DeleteLane(l) \/ SkipLane(l) \/ RemoveOrphanVolume(l)
  \/ \E removed \in BOOLEAN : RemoveVolume(removed)

LanesNext == Collect \/ \E j \in Jobs : Job(j)

LanesSpec == LanesInit /\ [][LanesNext]_laneVars

-----------------------------------------------------------------------------
(* Properties *)

\* From the moment its volume is ensured until its capsule is gone a job's
\* lane is leased to it alone and its volume is there: no collection planned
\* earlier takes it (DeleteFreeCacheLane, the row-first delete, finalize).
LaneStaysWithItsJob ==
  \A j \in Jobs : job[j] \in {"ready", "mounted"} =>
    row[lane[j]] = j /\ lane[j] \in volumes /\ lane[j] # gc.id

\* A pool never has more lanes than it may (LeaseCacheLane).
PoolWithinLimit == \A j \in Jobs : CountLanes(PoolOf[j]) <= MaxLanes

\* What a plan calls an orphan has no row and never will: the daemon is listed
\* before the store and a row is made before its volume (PlanGC).
OrphansAreDead == \A l \in gc.orphans : row[l] = "none" /\ l <= minted

\* A pass that ends leaves no volume it was obliged to take: a listed volume is
\* gone, has a row, or is one whose removal failed (RunGC).
PassCollects ==
  [][EndGC => \A l \in gc.seen : l \in volumes => row[l] # "none" \/ l \in gc.failed]_laneVars

\* A plan without an emergency meets its target or takes every free lane, and
\* takes no lane for the target that it could have kept (PlanGC).
PlanMeetsTarget ==
  [][\A expired \in SUBSET FreeNow : PlanGC(expired, FALSE) =>
       LET rows == {l \in LaneIds : row[l] # "none"}
           kept == PlanBytes(rows \ gc'.evict)
       IN  /\ kept <= TargetBytes \/ FreeNow \subseteq gc'.evict
           /\ \A l \in gc'.evict \ expired :
                (\A x \in gc'.evict \ expired : ~Older(l, x)) => kept + PlanBytes({l}) > TargetBytes]_laneVars

\* A lane is never taken from its job, by another job or by a collection, and
\* the pools stay within their limit (LeaseCacheLane, PlanGC, DeleteFreeCacheLane).
LanesAreSafe == LaneStaysWithItsJob /\ OrphansAreDead /\ PoolWithinLimit

\* A collection takes what it must and no more: its plan meets the target with
\* the fewest of the oldest lanes, and its end leaves none of the volumes it
\* was obliged to take (PlanGC, RunGC).
CollectionIsExact == PassCollects /\ PlanMeetsTarget
=============================================================================
