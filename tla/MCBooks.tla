------------------------------- MODULE MCBooks ------------------------------
(***************************************************************************)
(* What the process and its store keep books of, side by side: the         *)
(* credits, the trail of an attempt, and the cache lanes.  The parts share *)
(* no variable, so a behaviour is one of a single part, which it picks at  *)
(* the start: the state space is the sum of theirs and not the product.    *)
(***************************************************************************)
EXTENDS Allocator, AttemptTrail, CacheLanes

VARIABLE part   \* the part of this behaviour

MCOrder == <<"a", "b">>
MCTierOf == [a |-> "small", b |-> "large"]
MCParallelism == [small |-> 1, large |-> 2]

MCPoolOf == [j1 |-> "p", j2 |-> "p", j3 |-> "q"]
MCLaneSize == <<2, 1>>

BooksInit ==
  /\ part \in {"credit", "trail", "lanes"}
  /\ AllocatorInit /\ (part # "credit" => active = [b \in Bindings |-> 0])
  /\ TrailInit /\ LanesInit

CreditPart ==
  part = "credit" /\ AllocatorNext /\ UNCHANGED <<part, trailVars, laneVars>>

TrailPart ==
  part = "trail" /\ TrailNext /\ UNCHANGED <<part, allocatorVars, laneVars>>

LanesPart ==
  part = "lanes" /\ LanesNext /\ UNCHANGED <<part, allocatorVars, trailVars>>

BooksNext == CreditPart \/ TrailPart \/ LanesPart

\* The allocator's fairness, for the behaviours that are the allocator's.
BooksFairness ==
  \A b \in Bindings :
    WF_pc(part = "credit" /\ LoopMoves(b)) /\ WF_allocatorVars(part = "credit" /\ SessionExpires(b))

BooksSpec ==
  /\ BooksInit /\ [][BooksNext]_<<allocatorVars, trailVars, laneVars, part>>
  /\ BooksFairness

-----------------------------------------------------------------------------
\* Every part keeps its types.
BooksTypeOK ==
  CASE part = "credit" -> AllocatorTypeOK
    [] part = "trail" -> TrailTypeOK
    [] part = "lanes" -> LanesTypeOK
=============================================================================
