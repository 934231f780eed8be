--------------------------- MODULE AllocationPlan ---------------------------
(***************************************************************************)
(* The desired capacity of every binding, computed from what runs and what *)
(* the provider has committed: what runs is counted first, free credit is  *)
(* shared max-min fairly among the bindings that are owed more than they   *)
(* hold, and a credit nobody claims lets the discovery holder look.        *)
(***************************************************************************)
EXTENDS Totals, Sequences

CONSTANTS
  Order,        \* the bindings, in the order of registration
  TierOf,       \* binding: its tier
  Parallelism,  \* tier: its limit
  Global        \* the limit all tiers share; 0 when they are independent

Bindings == {Order[i] : i \in DOMAIN Order}
Tiers == DOMAIN Parallelism

\* A tier is there because a binding was registered in it.
ASSUME PlanAssumption ==
  /\ Order \in Seq(Bindings) /\ Order # <<>> /\ Cardinality(Bindings) = Len(Order)
  /\ TierOf \in [Bindings -> Tiers] /\ \A t \in Tiers : \E b \in Bindings : TierOf[b] = t
  /\ Parallelism \in [Tiers -> Nat \ {0}] /\ Global \in Nat

Members(t) == {b \in Bindings : TierOf[b] = t}
Position(b) == CHOOSE i \in DOMAIN Order : Order[i] = b
Before(b, c) == Position(b) < Position(c)

\* The ring the discovery credit moves in: a tier, or the whole instance.
Rings == IF Global > 0 THEN {"instance"} ELSE Tiers
RingOf(b) == IF Global > 0 THEN "instance" ELSE TierOf[b]
Ring(r) == {b \in Bindings : RingOf(b) = r}

-----------------------------------------------------------------------------
(* Sharing.  A candidate is raised from its floor towards its ceiling. *)

Candidate(b, active, demand, budget) ==
  [floor |-> active[b],
   ceiling |-> active[b] + Lesser(demand[b] - active[b], budget)]

\* The bindings of S that are owed more than they hold, with their bounds.
Candidates(S, active, demand, held, budget) ==
  [b \in {x \in S : ~held /\ demand[x] > active[x]} |-> Candidate(b, active, demand, budget)]

CreditsAtLevel(c, level) ==
  Total([b \in DOMAIN c |-> Greater(0, Lesser(c[b].ceiling, level) - c[b].floor)], DOMAIN c)

\* Mutant: the search ends at the first level whose credits do not fit.
LargestLevel_OneMore(lo, hi, fits) ==
  IF hi \in fits THEN hi ELSE CHOOSE l \in lo..hi : l \notin fits /\ \A k \in lo..(l - 1) : k \in fits

\* The binary search: the largest level between lo and hi whose credits fit.
LargestLevel(lo, hi, fits) ==
  LET search[p \in (lo..hi) \X (lo..hi)] ==
        IF p[1] >= p[2] THEN p[1]
        ELSE LET middle == p[1] + (p[2] - p[1] + 1) \div 2
             IN  IF middle \in fits THEN search[<<middle, p[2]>>] ELSE search[<<p[1], middle - 1>>]
  IN  IF hi \in fits THEN hi ELSE search[<<lo, hi>>]

\* The first n members of E in registration order.
FirstOf(n, E) == {b \in E : Cardinality({e \in E : Before(e, b)}) < n}

\* One credit more for each binding of extra.
HandOut(filled, extra) == [b \in DOMAIN filled |-> filled[b] + (IF b \in extra THEN 1 ELSE 0)]

Spent(filled, floor) == Total(filled, DOMAIN filled) - Total(floor, DOMAIN filled)

Floors(c) == [b \in DOMAIN c |-> c[b].floor]
Ceilings(c) == [b \in DOMAIN c |-> c[b].ceiling]
Capped(c, limit) == [b \in DOMAIN c |-> [c[b] EXCEPT !.ceiling = Lesser(@, limit)]]

\* The candidates at one level, and what is left one by one in order.
TopUp(c, filled, budget, level) ==
  HandOut(filled, FirstOf(budget - Spent(filled, Floors(c)),
                          {b \in DOMAIN c : filled[b] = level /\ filled[b] < c[b].ceiling}))

FillTo(c, budget, level) ==
  TopUp(c, [b \in DOMAIN c |-> Greater(c[b].floor, Lesser(c[b].ceiling, level))], budget, level)

FillFrom(c, budget, lowest, highest) ==
  IF budget <= 0 \/ highest < lowest THEN Floors(c)
  ELSE FillTo(c, budget, LargestLevel(lowest, highest,
                              {l \in lowest..highest : CreditsAtLevel(c, l) <= budget}))

\* The candidates raised together to one level no higher than the limit, and
\* what is left handed out one by one in order.
WaterFill(c, budget, limit) ==
  IF DOMAIN c = {} THEN c
  ELSE FillFrom(Capped(c, limit), budget, Min(Range(Floors(c))),
                Max({0} \cup Range(Ceilings(Capped(c, limit)))))

Overlay(f, g) == [b \in DOMAIN f |-> IF b \in DOMAIN g THEN g[b] ELSE f[b]]

TierBudget(t, active) == Parallelism[t] - Total(active, Members(t))

AllocateTier(t, active, demand, held) ==
  LET budget == TierBudget(t, active)
      c == Candidates(Members(t), active, demand, held, budget)
      current == [b \in Members(t) |-> active[b]]
  IN  IF budget <= 0 THEN current
      ELSE Overlay(current, WaterFill(c, budget, Max({0} \cup Range(Ceilings(c)))))

\* The tiers with credit to give, each with its budget and its candidates.
TierAllocations(active, demand, held, budget) ==
  [t \in {x \in Tiers : TierBudget(x, active) > 0} |->
     [budget |-> TierBudget(t, active),
      candidates |-> Candidates(Members(t), active, demand, held, Lesser(budget, TierBudget(t, active)))]]

\* One level for all tiers, each within its own budget.
CreditsOfTiers(tiers, level) ==
  Total([t \in DOMAIN tiers |-> Lesser(tiers[t].budget, CreditsAtLevel(tiers[t].candidates, level))],
        DOMAIN tiers)

GlobalLevel(tiers, budget) ==
  LET all == UNION {Range(tiers[t].candidates) : t \in DOMAIN tiers}
      lowest == Min({c.floor : c \in all})
      highest == Max({c.ceiling : c \in all})
  IN  LargestLevel(lowest, highest, {l \in lowest..highest : CreditsOfTiers(tiers, l) <= budget})

RaiseTiers(tiers, active, level) ==
  [b \in Bindings |->
     IF TierOf[b] \notin DOMAIN tiers THEN active[b]
     ELSE Overlay(active, WaterFill(tiers[TierOf[b]].candidates, tiers[TierOf[b]].budget, level))[b]]

\* What is left of the instance's budget in registration order: within each
\* tier to the first it has room for, and of those to the first the instance
\* has room for.
HandOutRest(filled, tiers, active, demand, held, budget, level) ==
  LET eligible == {b \in Bindings : ~held /\ filled[b] = level /\ filled[b] < demand[b]}
      room(t) == tiers[t].budget - (Total(filled, Members(t)) - Total(active, Members(t)))
  IN  HandOut(filled, FirstOf(budget - Spent(filled, active),
        UNION {FirstOf(room(t), eligible \cap Members(t)) : t \in DOMAIN tiers}))

AllocateAtLevel(tiers, active, demand, held, budget, level) ==
  HandOutRest(RaiseTiers(tiers, active, level), tiers, active, demand, held, budget, level)

AllocateTiers(tiers, active, demand, held, budget) ==
  IF \A t \in DOMAIN tiers : DOMAIN tiers[t].candidates = {} THEN active
  ELSE AllocateAtLevel(tiers, active, demand, held, budget, GlobalLevel(tiers, budget))

AllocateGlobal(active, demand, held) ==
  LET budget == Global - Total(active, Bindings)
  IN  IF budget <= 0 THEN active
      ELSE AllocateTiers(TierAllocations(active, demand, held, budget), active, demand, held, budget)

Allocated(active, demand, held) ==
  IF Global > 0 THEN AllocateGlobal(active, demand, held)
  ELSE [b \in Bindings |-> AllocateTier(TierOf[b], active, demand, held)[b]]

Silent(b, active, demand, held) == ~held /\ demand[b] = 0 /\ active[b] = 0

\* The holder of each ring may announce one when its budgets are not spent.
SetDiscovery(desired, active, demand, held, cursor) ==
  [b \in Bindings |->
     IF /\ cursor[RingOf(b)] = b
        /\ Total(desired, Members(TierOf[b])) < Parallelism[TierOf[b]]
        /\ Global > 0 => Total(desired, Bindings) < Global
        /\ Silent(b, active, demand, held)
       THEN 1 ELSE desired[b]]

BuildPlan(active, demand, held, cursor) ==
  SetDiscovery(Allocated(active, demand, held), active, demand, held, cursor)

-----------------------------------------------------------------------------
(* What a fair plan is, stated without the algorithm. *)

Headroom(active, demand, held) ==
  [b \in Bindings |-> IF held \/ demand[b] <= active[b] THEN 0 ELSE demand[b] - active[b]]

Free(limit, active, S) == Greater(0, limit - Total(active, S))

TierShare(t, active, demand, held) ==
  Lesser(Free(Parallelism[t], active, Members(t)), Total(Headroom(active, demand, held), Members(t)))

\* Every credit that some binding may use is given out; nobody holds more than
\* one above a binding that still wants, unless that binding's own tier is
\* spent and the other is of another tier; a tie goes to the earlier binding.
MaxMinFair(d, active, demand, held) ==
  LET grown(b) == d[b] > active[b]
      wants(b) == ~held /\ d[b] < demand[b]
      spent(t) == Total(d, Members(t)) >= Parallelism[t]
      rivals(b, x) == TierOf[b] = TierOf[x] \/ (Global > 0 /\ ~spent(TierOf[x]))
      given(S) == Total(d, S) - Total(active, S)
  IN  /\ \A b \in Bindings : d[b] = active[b] \/ (~held /\ d[b] > active[b] /\ d[b] <= demand[b])
      /\ \A t \in Tiers : given(Members(t)) <= TierShare(t, active, demand, held)
      /\ IF Global > 0
           THEN given(Bindings) = Lesser(Free(Global, active, Bindings),
                  Total([t \in Tiers |-> TierShare(t, active, demand, held)], Tiers))
           ELSE \A t \in Tiers : given(Members(t)) = TierShare(t, active, demand, held)
      /\ \A b, x \in Bindings : (grown(b) /\ wants(x) /\ rivals(b, x)) =>
           d[b] <= d[x] \/ (d[b] = d[x] + 1 /\ Before(b, x))

\* What a plan owes is shared fairly; beside it one silent binding of each ring
\* may look, with one credit; and neither takes the plan over a limit that the
\* running capsules respect.
FairPlan(p, active, demand, held) ==
  LET silent(b) == Silent(b, active, demand, held)
  IN  /\ MaxMinFair([b \in Bindings |-> IF silent(b) THEN 0 ELSE p[b]], active, demand, held)
      /\ \A b, c \in Bindings :
           (silent(b) /\ silent(c) /\ p[b] > 0 /\ p[c] > 0 /\ RingOf(b) = RingOf(c)) => b = c /\ p[b] = 1
      /\ \A t \in Tiers : Total(p, Members(t)) <= Greater(Parallelism[t], Total(active, Members(t)))
      /\ Global > 0 => Total(p, Bindings) <= Greater(Global, Total(active, Bindings))
=============================================================================
