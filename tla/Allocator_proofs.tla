-------------------------- MODULE Allocator_proofs --------------------------
(***************************************************************************)
(* The books agree with what they stand for, and the capacity sessions may *)
(* hold together stays within the limits.  What bounds the sessions is the *)
(* exposure: of each binding the larger of what its session holds and what *)
(* the books reserve for it.                                               *)
(***************************************************************************)
EXTENDS Allocator, AllocationPlan_proofs

\* What the books reserve for a binding, and the larger of that and what its
\* session holds at the broker.
Effective == [b \in Bindings |-> EffectivePublished(b)]
Exposure == [b \in Bindings |-> Greater(capacity[b], EffectivePublished(b))]

\* The total of a tier follows the change of one binding.
LEMMA PointChange ==
  ASSUME NEW f, NEW g, \A c \in Bindings : f[c] \in Int /\ g[c] \in Int,
         NEW b \in Bindings, \A c \in Bindings \ {b} : f[c] = g[c], NEW t \in Tiers
  PROVE  /\ Total(f, Members(t)) \in Int
         /\ Total(g, Members(t)) =
              Total(f, Members(t)) + (IF t = TierOf[b] THEN g[b] - f[b] ELSE 0)
<1>1. IsFiniteSet(Members(t)) /\ Members(t) \subseteq Bindings
  BY BindingsFinite
<1>2. Total(f, Members(t)) \in Int
  BY <1>1, TotalInt
<1>3. CASE t = TierOf[b]
  <2>1. b \in Members(t)
    BY <1>3, TierOfBinding
  <2>2. Total(g, Members(t)) = Total(f, Members(t)) + g[b] - f[b]
    <3> DEFINE S == Members(t)
    <3>1. /\ IsFiniteSet(S) /\ b \in S /\ \A y \in S : f[y] \in Int /\ g[y] \in Int
          /\ \A y \in S \ {b} : f[y] = g[y]
      BY <1>1, <2>1
    <3> HIDE DEF S
    <3>2. Total(g, S) = Total(f, S) + g[b] - f[b]
      BY <3>1, TotalUpdate
    <3>3. QED
      BY <3>2 DEF S
  <2>3. QED
    BY <1>2, <1>3, <2>2
<1>4. CASE t # TierOf[b]
  <2>1. b \notin Members(t)
    BY <1>4 DEF Members
  <2>2. Total(g, Members(t)) = Total(f, Members(t))
    BY <1>1, <2>1, TotalSame
  <2>3. QED
    BY <1>2, <1>4, <2>2
<1>5. QED
  BY <1>2, <1>3, <1>4

\* The totals of remote capacity follow one binding's change.
RemoteTypes ==
  /\ published \in [Bindings -> Nat] /\ pending \in [Bindings -> Nat \cup {NoPending}]
  /\ poolRemote \in [Tiers -> Int]
RemoteAgrees ==
  /\ \A t \in Tiers : poolRemote[t] = Total(Effective, Members(t))
  /\ TotalOf(poolRemote) = Total(Effective, Bindings)

\* The effective capacity of a binding is the larger of the published and the
\* pending one (effectivePublished).
LEMMA EffectiveType ==
  ASSUME RemoteTypes
  PROVE  /\ Effective \in [Bindings -> Nat]
         /\ \A b \in Bindings : Effective[b] = EffectivePublished(b) /\ EffectivePublished(b) \in Nat
         /\ \A b \in Bindings : published[b] <= EffectivePublished(b) /\ pending[b] <= EffectivePublished(b)
BY DEF RemoteTypes, Effective, EffectivePublished, Greater, NoPending

\* The totals of remote capacity follow the change of one binding
\* (changeRemoteCapacity).
LEMMA RemoteStep ==
  ASSUME RemoteTypes, RemoteAgrees, NEW b \in Bindings, NEW pub \in Nat, NEW pend \in Nat \cup {NoPending},
         ChangeRemoteCapacity(b, pub, pend)
  PROVE  /\ RemoteTypes' /\ RemoteAgrees'
         /\ Effective' = [Effective EXCEPT ![b] = Greater(pub, pend)]
<1> DEFINE e == Greater(pub, pend)
<1>1. e \in Nat
  BY DEF Greater, NoPending
<1>2. /\ Effective \in [Bindings -> Nat] /\ Effective[b] = EffectivePublished(b)
      /\ EffectivePublished(b) \in Nat
  BY EffectiveType
<1>3. RemoteTypes'
  <2>1. poolRemote' \in [Tiers -> Int]
    BY <1>1, <1>2, TierOfBinding DEF ChangeRemoteCapacity, RemoteTypes
  <2>2. QED
    BY <2>1 DEF ChangeRemoteCapacity, RemoteTypes
<1>4. Effective' = [Effective EXCEPT ![b] = e]
  <2>1. \A c \in Bindings : EffectivePublished(c)' = IF c = b THEN e ELSE EffectivePublished(c)
    BY DEF ChangeRemoteCapacity, EffectivePublished, RemoteTypes
  <2>2. QED
    BY <2>1 DEF Effective
<1> HIDE DEF e
<1>5. Effective' \in [Bindings -> Nat] /\ Effective'[b] = e /\ \A c \in Bindings \ {b} : Effective'[c] = Effective[c]
  BY <1>1, <1>2, <1>4
<1>6. poolRemote' = [poolRemote EXCEPT ![TierOf[b]] = @ + e - Effective[b]]
  BY <1>2 DEF ChangeRemoteCapacity, e
<1>7. ASSUME NEW t \in Tiers PROVE poolRemote'[t] = Total(Effective', Members(t))
  <2>1. /\ Total(Effective, Members(t)) \in Int
        /\ Total(Effective', Members(t)) =
             Total(Effective, Members(t)) + (IF t = TierOf[b] THEN e - Effective[b] ELSE 0)
    BY <1>2, <1>5, PointChange
  <2>2. poolRemote[t] = Total(Effective, Members(t))
    BY DEF RemoteAgrees
  <2>3. QED
    BY <1>1, <1>2, <1>6, <2>1, <2>2 DEF RemoteTypes
<1>8. TotalOf(poolRemote)' = Total(Effective', Bindings)
  <2>1. Total(Effective', Bindings) = Total(Effective, Bindings) + e - Effective[b]
    BY <1>2, <1>5, BindingsFinite, TotalUpdate
  <2>2. /\ poolRemote'[TierOf[b]] = poolRemote[TierOf[b]] + e - Effective[b]
        /\ \A t \in Tiers \ {TierOf[b]} : poolRemote'[t] = poolRemote[t]
        /\ \A t \in Tiers : poolRemote'[t] \in Int /\ poolRemote[t] \in Int
    BY <1>3, <1>6, TierOfBinding DEF RemoteTypes
  <2>3. Total(poolRemote', Tiers) = Total(poolRemote, Tiers) + poolRemote'[TierOf[b]] - poolRemote[TierOf[b]]
    <3> DEFINE t == TierOf[b]
    <3>1. t \in Tiers
      BY TierOfBinding
    <3>2. \A x \in Tiers \ {t} : poolRemote[x] = poolRemote'[x]
      BY <2>2
    <3> HIDE DEF t
    <3>3. Total(poolRemote', Tiers) = Total(poolRemote, Tiers) + poolRemote'[t] - poolRemote[t]
      BY <2>2, <3>1, <3>2, TiersFinite, TotalUpdate
    <3>4. QED
      BY <3>3 DEF t
  <2>4. Total(poolRemote, Tiers) \in Int
    BY <2>2, TiersFinite, TotalInt
  <2>5. Total(poolRemote, Tiers) = Total(Effective, Bindings)
    BY DEF RemoteAgrees, TotalOf
  <2>6. Total(poolRemote', Tiers) = Total(poolRemote, Tiers) + e - Effective[b]
    <3>1. TierOf[b] \in Tiers
      BY TierOfBinding
    <3>2. poolRemote[TierOf[b]] \in Int
      BY <2>2, <3>1
    <3>3. QED
      BY <1>1, <1>2, <2>2, <2>3, <2>4, <3>2
  <2>7. QED
    BY <2>1, <2>5, <2>6 DEF TotalOf
<1>9. QED
  BY <1>3, <1>4, <1>7, <1>8 DEF RemoteAgrees, e

-----------------------------------------------------------------------------
(* The discovery holder *)

\* Every binding is in its ring, and no ring is empty.
LEMMA RingsHaveBindings ==
  /\ \A r \in Rings : Ring(r) # {} /\ Ring(r) \subseteq Bindings
  /\ \A b \in Bindings : RingOf(b) \in Rings /\ b \in Ring(RingOf(b))
BY PlanAssumption, BindingsFinite DEF Rings, Ring, RingOf

\* The first holder of a ring is in it.
LEMMA FirstHolderType == \A r \in Rings : FirstHolder(r) \in Ring(r)
<1>1. ASSUME NEW r \in Rings PROVE FirstHolder(r) \in Ring(r)
  <2> DEFINE f == [b \in Ring(r) |-> Position(b)]
  <2>1. \A b \in Ring(r) : f[b] \in Nat
    BY PositionType, RingsHaveBindings
  <2>2. \E b \in Ring(r) : \A c \in Ring(r) : f[b] <= f[c]
    BY <2>1, LeastOf, RingsHaveBindings
  <2>3. \E b \in Ring(r) : \A c \in Ring(r) : Position(b) <= Position(c)
    BY <2>2
  <2>4. QED
    BY <2>3 DEF FirstHolder
<1>2. QED
  BY <1>1

\* The next holder of a ring is in it, whatever the inputs (nextDiscovery).
LEMMA NextDiscoveryType ==
  ASSUME NEW r \in Rings, NEW act, NEW dem, NEW hld, NEW holder \in Ring(r)
  PROVE  NextDiscovery(r, act, dem, hld, holder) \in Ring(r)
<1> DEFINE silent == {b \in Ring(r) : Silent(b, act, dem, hld)}
           distance(b) == (Position(b) - Position(holder) - 1) % Len(Order)
           f == [b \in silent |-> distance(b)]
<1>1. \A b \in silent : f[b] \in Nat
  <2>1. ASSUME NEW b \in silent PROVE distance(b) \in Nat
    <3>1. Position(b) \in Int /\ Position(holder) \in Int /\ Len(Order) \in Nat \ {0}
      BY PositionType, RingsHaveBindings
    <3>2. QED
      BY <3>1
  <2>2. QED
    BY <2>1
<1>2. CASE silent = {}
  BY <1>2 DEF NextDiscovery
<1>3. CASE silent # {}
  <2>1. \E b \in silent : \A c \in silent : f[b] <= f[c]
    BY <1>1, <1>3, LeastOf
  <2>2. \E b \in silent : \A c \in silent : distance(b) <= distance(c)
    BY <2>1
  <2>3. (CHOOSE b \in silent : \A c \in silent : distance(b) <= distance(c)) \in silent
    BY <2>2
  <2>4. NextDiscovery(r, act, dem, hld, holder) = CHOOSE b \in silent : \A c \in silent : distance(b) <= distance(c)
    BY <1>3 DEF NextDiscovery
  <2>5. QED
    BY <2>3, <2>4
<1>4. QED
  BY <1>2, <1>3

\* The holder of a ring is one of its bindings.
CursorType == cursor \in [Rings -> Bindings] /\ \A r \in Rings : cursor[r] \in Ring(r)

\* The cursors that an input change advances stay in their rings.
LEMMA AdvancedType ==
  ASSUME CursorType, NEW keys, NEW act, NEW dem, NEW hld
  PROVE  LET cur == Advanced(keys, act, dem, hld, cursor)
         IN  cur \in [Rings -> Bindings] /\ \A r \in Rings : cur[r] \in Ring(r)
<1> DEFINE cur == Advanced(keys, act, dem, hld, cursor)
<1>1. ASSUME NEW r \in Rings PROVE cur[r] \in Ring(r)
  BY NextDiscoveryType DEF Advanced, CursorType
<1>2. cur = [r \in Rings |-> cur[r]]
  BY DEF Advanced
<1>3. QED
  BY <1>1, <1>2, RingsHaveBindings

-----------------------------------------------------------------------------
(* The other totals *)

\* The bindings whose remote state is unknown, counted tier by tier.
KnownTypes == known \in [Bindings -> BOOLEAN] /\ poolUnknown \in [Tiers -> Int]
Unknown(t) == {b \in Members(t) : ~known[b]}
UnknownAgrees == \A t \in Tiers : poolUnknown[t] = Cardinality(Unknown(t))

\* The leases that run, counted tier by tier.
ActiveTypes == active \in [Bindings -> Nat] /\ poolActive \in [Tiers -> Int]
ActiveAgrees == \A t \in Tiers : poolActive[t] = Total(active, Members(t))

\* The bindings of a tier whose remote state is unknown can be counted.
LEMMA UnknownFinite == \A t \in Tiers : IsFiniteSet(Unknown(t)) /\ Cardinality(Unknown(t)) \in Nat
<1>1. \A t \in Tiers : Unknown(t) \in SUBSET Members(t)
  BY DEF Unknown
<1>2. QED
  BY <1>1, BindingsFinite, FS_Subset, FS_CardinalityType

\* The count of unknown bindings follows the change of one (setRemoteKnown).
LEMMA KnownStep ==
  ASSUME KnownTypes, UnknownAgrees, NEW b \in Bindings, NEW k \in BOOLEAN, SetRemoteKnown(b, k)
  PROVE  KnownTypes' /\ UnknownAgrees' /\ known' = [known EXCEPT ![b] = k]
<1> DEFINE u == TierOf[b]
<1>1. u \in Tiers /\ b \in Members(u)
  BY TierOfBinding
<1>2. known' = [known EXCEPT ![b] = k] /\ known' \in [Bindings -> BOOLEAN]
  BY DEF SetRemoteKnown, KnownTypes
<1>3. poolUnknown' = [poolUnknown EXCEPT ![u] = @ + (IF known[b] = k THEN 0 ELSE IF k THEN -1 ELSE 1)]
  BY DEF SetRemoteKnown
<1> HIDE DEF u
<1>4. poolUnknown' \in [Tiers -> Int]
  BY <1>1, <1>3 DEF KnownTypes
<1>5. ASSUME NEW t \in Tiers PROVE poolUnknown'[t] = Cardinality(Unknown(t)')
  <2>1. IsFiniteSet(Unknown(t)) /\ Cardinality(Unknown(t)) \in Nat /\ poolUnknown[t] = Cardinality(Unknown(t))
    BY UnknownFinite DEF UnknownAgrees
  <2>2. CASE t # u
    <3>1. b \notin Members(t)
      BY <2>2 DEF Members, u
    <3>2. Unknown(t)' = Unknown(t)
      BY <1>2, <3>1 DEF Unknown, Members, KnownTypes
    <3>3. QED
      BY <1>3, <2>1, <2>2, <3>2 DEF KnownTypes
  <2>3. CASE t = u /\ known[b] = k
    <3>1. known' = known
      BY <1>2, <2>3 DEF KnownTypes
    <3>2. poolUnknown'[t] = poolUnknown[t]
      BY <1>3, <2>1, <2>3 DEF KnownTypes
    <3>3. QED
      BY <2>1, <3>1, <3>2 DEF Unknown
  <2>4. CASE t = u /\ known[b] # k /\ k
    <3>1. Unknown(t)' = Unknown(t) \ {b} /\ b \in Unknown(t)
      BY <1>1, <1>2, <2>4 DEF Unknown, Members, KnownTypes
    <3>2. Cardinality(Unknown(t) \ {b}) = Cardinality(Unknown(t)) - 1
      BY <2>1, <3>1, FS_RemoveElement
    <3>3. poolUnknown'[t] = poolUnknown[t] - 1
      BY <1>3, <2>1, <2>4 DEF KnownTypes
    <3>4. QED
      BY <2>1, <3>1, <3>2, <3>3
  <2>5. CASE t = u /\ known[b] # k /\ ~k
    <3>1. Unknown(t)' = Unknown(t) \cup {b} /\ b \notin Unknown(t)
      BY <1>1, <1>2, <2>5 DEF Unknown, Members, KnownTypes
    <3>2. Cardinality(Unknown(t) \cup {b}) = Cardinality(Unknown(t)) + 1
      BY <2>1, <3>1, FS_AddElement
    <3>3. poolUnknown'[t] = poolUnknown[t] + 1
      BY <1>3, <2>1, <2>5 DEF KnownTypes
    <3>4. QED
      BY <2>1, <3>1, <3>2, <3>3
  <2>6. QED
    BY <2>2, <2>3, <2>4, <2>5
<1>6. QED
  BY <1>2, <1>4, <1>5 DEF KnownTypes, UnknownAgrees

\* A tier or an instance without unknown sessions knows all its bindings.
LEMMA KnownAll ==
  ASSUME KnownTypes, UnknownAgrees, NEW b \in Bindings, RemoteStateKnown(b)
  PROVE  /\ \A c \in Members(TierOf[b]) : known[c]
         /\ Global > 0 => \A c \in Bindings : known[c]
<1>1. ASSUME NEW t \in Tiers, poolUnknown[t] = 0 PROVE \A c \in Members(t) : known[c]
  <2>1. Cardinality(Unknown(t)) = 0 /\ IsFiniteSet(Unknown(t))
    BY <1>1, UnknownFinite DEF UnknownAgrees
  <2>2. Unknown(t) = {}
    BY <2>1, FS_EmptySet
  <2>3. QED
    BY <2>2 DEF Unknown
<1>2. CASE Global > 0
  <2>1. Total(poolUnknown, Tiers) = 0
    BY <1>2 DEF RemoteStateKnown, TotalOf
  <2>2. \A t \in Tiers : poolUnknown[t] \in Nat
    BY UnknownFinite DEF UnknownAgrees
  <2>3. \A t \in Tiers : poolUnknown[t] = 0
    <3>1. \A t \in Tiers : poolUnknown[t] <= Total(poolUnknown, Tiers)
      BY <2>2, TiersFinite, TotalTerm
    <3>2. QED
      BY <2>1, <2>2, <3>1
  <2>4. QED
    BY <1>1, <2>3, TierOfBinding
<1>3. CASE ~(Global > 0)
  BY <1>1, <1>3, TierOfBinding DEF RemoteStateKnown
<1>4. QED
  BY <1>2, <1>3

\* The totals of active leases follow the change of one binding.
LEMMA ActiveStep ==
  ASSUME ActiveTypes, ActiveAgrees, NEW b \in Bindings, NEW d \in Int, active[b] + d \in Nat,
         active' = [active EXCEPT ![b] = @ + d],
         poolActive' = [poolActive EXCEPT ![TierOf[b]] = @ + d]
  PROVE  ActiveTypes' /\ ActiveAgrees'
<1>1. ActiveTypes'
  BY TierOfBinding DEF ActiveTypes
<1>2. /\ active'[b] = active[b] + d /\ \A c \in Bindings \ {b} : active'[c] = active[c]
      /\ \A c \in Bindings : active[c] \in Int /\ active'[c] \in Int
  BY <1>1 DEF ActiveTypes
<1>3. ASSUME NEW t \in Tiers PROVE poolActive'[t] = Total(active', Members(t))
  <2>1. /\ Total(active, Members(t)) \in Int
        /\ Total(active', Members(t)) =
             Total(active, Members(t)) + (IF t = TierOf[b] THEN active'[b] - active[b] ELSE 0)
    <3> DEFINE act == active'
    <3>1. /\ \A c \in Bindings : active[c] \in Int /\ act[c] \in Int
          /\ \A c \in Bindings \ {b} : active[c] = act[c]
      BY <1>2
    <3> HIDE DEF act
    <3>2. /\ Total(active, Members(t)) \in Int
          /\ Total(act, Members(t)) =
               Total(active, Members(t)) + (IF t = TierOf[b] THEN act[b] - active[b] ELSE 0)
      BY <3>1, PointChange
    <3>3. QED
      BY <3>2 DEF act
  <2>2. poolActive[t] = Total(active, Members(t))
    BY DEF ActiveAgrees
  <2>3. QED
    BY <1>2, <2>1, <2>2 DEF ActiveTypes
<1>4. QED
  BY <1>1, <1>3 DEF ActiveAgrees

\* The totals of the leases found at a start are integers.
LEMMA AdoptedTotals ==
  ASSUME NEW found \in [Bindings -> Nat]
  PROVE  [t \in Tiers |-> Total(found, Members(t))] \in [Tiers -> Int]
BY BindingsFinite, TotalInt

-----------------------------------------------------------------------------
(* Within the limits *)

\* The sums of f are within every tier's limit and the instance's.
WithinLimits(f) ==
  /\ \A t \in Tiers : Total(f, Members(t)) <= Parallelism[t]
  /\ Global > 0 => Total(f, Bindings) <= Global

\* Less than what is within the limits is within them.
LEMMA LessIsWithin ==
  ASSUME NEW f \in [Bindings -> Nat], NEW g \in [Bindings -> Nat],
         \A b \in Bindings : g[b] <= f[b], WithinLimits(f)
  PROVE  WithinLimits(g)
<1>1. ASSUME NEW S \in SUBSET Bindings, NEW n \in Nat, Total(f, S) <= n
      PROVE  Total(g, S) <= n
  <2>1. IsFiniteSet(S)
    BY BindingsFinite, FS_Subset
  <2>2. Total(g, S) <= Total(f, S) /\ Total(g, S) \in Int /\ Total(f, S) \in Int
    BY <2>1, TotalMonotone, TotalInt
  <2>3. QED
    BY <1>1, <2>2
<1>2. QED
  BY <1>1, BindingsFinite, PlanAssumption DEF WithinLimits

-----------------------------------------------------------------------------
(* The invariant *)

\* The types: the plan's inputs, the bindings' loops, the broker.
InputTypes ==
  /\ ActiveTypes /\ demand \in [Bindings -> 0..MaxDemand] /\ held \in BOOLEAN
  /\ CursorType /\ plan \in [Bindings -> Nat] \cup {NoPlan}
LoopTypes ==
  /\ pc \in [Bindings -> {"closed", "open", "sent", "reached", "spent"}]
  /\ poll \in [Bindings -> [capacity : Nat, discovery : BOOLEAN, current : BOOLEAN]]
BrokerTypes ==
  /\ session \in [Bindings -> BOOLEAN] /\ capacity \in [Bindings -> Nat]
  /\ crashes \in 0..MaxCrashes /\ quiet \in BOOLEAN
BookTypes == InputTypes /\ RemoteTypes /\ KnownTypes /\ LoopTypes /\ BrokerTypes

\* What a binding's step says about its books and its session.
SessionOf(b) ==
  /\ pc[b] \in {"sent", "reached"} => pending[b] = poll[b].capacity
  /\ pc[b] \notin {"sent", "reached"} => pending[b] = NoPending
  /\ pc[b] = "reached" => capacity[b] = poll[b].capacity
  /\ pc[b] # "closed" => known[b]
  /\ known[b] => capacity[b] <= EffectivePublished(b)
  /\ ~session[b] => capacity[b] = 0
SessionInv == \A b \in Bindings : SessionOf(b)

\* Every total the books keep is the sum of what it stands for.
TotalsInv == RemoteAgrees /\ UnknownAgrees /\ ActiveAgrees

\* Of each binding the larger of what its session holds and what the books
\* reserve for it: together they stay within the limits.
ExposureInv == WithinLimits(Exposure)

\* The inductive invariant of the allocator.
AllocatorInv == BookTypes /\ SessionInv /\ TotalsInv /\ ExposureInv /\ PlanIsCurrent

\* The exposure of a binding is a natural number.
LEMMA ExposureType ==
  ASSUME RemoteTypes, BrokerTypes
  PROVE  /\ Exposure \in [Bindings -> Nat]
         /\ \A b \in Bindings : /\ Exposure[b] = Greater(capacity[b], EffectivePublished(b))
                                /\ capacity[b] \in Nat /\ EffectivePublished(b) \in Nat
BY EffectiveType DEF Exposure, Greater, BrokerTypes

\* A step that raises neither side of a binding above the larger of the two
\* keeps the exposure within the limits.
LEMMA ExposureStep ==
  ASSUME RemoteTypes, BrokerTypes, RemoteTypes', BrokerTypes', ExposureInv,
         \A b \in Bindings : /\ capacity'[b] <= Greater(capacity[b], EffectivePublished(b))
                             /\ EffectivePublished(b)' <= Greater(capacity[b], EffectivePublished(b))
  PROVE  ExposureInv'
<1>1. /\ Exposure \in [Bindings -> Nat]
      /\ \A b \in Bindings : Exposure[b] = Greater(capacity[b], EffectivePublished(b))
  BY ExposureType
<1>2. /\ Exposure' \in [Bindings -> Nat]
      /\ \A b \in Bindings : Exposure'[b] = Greater(capacity'[b], EffectivePublished(b)')
  BY DEF RemoteTypes, BrokerTypes, Exposure, EffectivePublished, Greater, NoPending
<1>3. \A b \in Bindings : Exposure'[b] <= Exposure[b]
  BY <1>1, <1>2 DEF Greater
<1>4. WithinLimits(Exposure')
  BY <1>1, <1>2, <1>3, LessIsWithin DEF ExposureInv
<1>5. QED
  BY <1>4 DEF ExposureInv, WithinLimits, Tiers, Members, Bindings

-----------------------------------------------------------------------------
(* What the actions have in common *)

\* A poll under way.
Polls == [capacity : Nat, discovery : BOOLEAN, current : BOOLEAN]

\* A poll that is marked stale keeps its capacity.
LEMMA RestampType ==
  ASSUME NEW p \in [Bindings -> Polls], NEW moved
  PROVE  /\ Restamp(moved, p) \in [Bindings -> Polls]
         /\ \A c \in Bindings : Restamp(moved, p)[c].capacity = p[c].capacity
BY DEF Restamp, Polls

\* No poll carries no capacity.
LEMMA NoPollType == NoPoll \in Polls /\ NoPoll.capacity = 0
BY DEF NoPoll, Polls

\* A binding another one's step, or a change of the plan's inputs, leaves alone.
Untouched(c) ==
  /\ pc'[c] = pc[c] /\ published'[c] = published[c] /\ pending'[c] = pending[c]
  /\ known'[c] = known[c] /\ session'[c] = session[c] /\ capacity'[c] = capacity[c]
  /\ poll'[c].capacity = poll[c].capacity

\* What a session says of a binding holds while the binding is left alone.
LEMMA SessionKept ==
  ASSUME NEW c \in Bindings, SessionOf(c), Untouched(c)
  PROVE  SessionOf(c)'
BY DEF SessionOf, Untouched, EffectivePublished

\* A change of the inputs drops the plan, keeps the cursors in their rings and
\* no more than marks polls stale (advanceDiscoveryFrom, invalidatePlan).
LEMMA InputsStep ==
  ASSUME InputTypes, LoopTypes, NEW keys, NEW act, NEW dem \in [Bindings -> 0..MaxDemand], NEW hld \in BOOLEAN,
         ChangeInputs(keys, act, dem, hld)
  PROVE  /\ active' = act /\ demand' \in [Bindings -> 0..MaxDemand] /\ held' \in BOOLEAN
         /\ CursorType' /\ plan' = NoPlan
         /\ poll' \in [Bindings -> Polls]
         /\ \A c \in Bindings : poll'[c].capacity = poll[c].capacity
<1>1. CursorType'
  BY AdvancedType DEF InputTypes, ChangeInputs, CursorType
<1>2. /\ poll' \in [Bindings -> Polls]
      /\ \A c \in Bindings : poll'[c].capacity = poll[c].capacity
  BY RestampType DEF LoopTypes, ChangeInputs, Polls
<1>3. QED
  BY <1>1, <1>2 DEF ChangeInputs

\* The totals of remote capacity, when nothing of them changes.
LEMMA RemoteKept ==
  ASSUME RemoteTypes, RemoteAgrees, UNCHANGED <<published, pending, poolRemote>>
  PROVE  RemoteTypes' /\ RemoteAgrees'
BY DEF RemoteTypes, RemoteAgrees, TotalOf, Effective, EffectivePublished

\* The counts of unknown bindings, when nothing of them changes.
LEMMA KnownKept ==
  ASSUME KnownTypes, UnknownAgrees, UNCHANGED <<known, poolUnknown>>
  PROVE  KnownTypes' /\ UnknownAgrees'
BY DEF KnownTypes, UnknownAgrees, Unknown

\* The totals of active leases, when nothing of them changes.
LEMMA ActiveKept ==
  ASSUME ActiveTypes, ActiveAgrees, UNCHANGED <<active, poolActive>>
  PROVE  ActiveTypes' /\ ActiveAgrees'
BY DEF ActiveTypes, ActiveAgrees

\* The exposure, when neither the books nor the sessions change.
LEMMA ExposureKept ==
  ASSUME RemoteTypes, BrokerTypes, ExposureInv, UNCHANGED <<published, pending, capacity>>
  PROVE  ExposureInv'
BY DEF ExposureInv, WithinLimits, Exposure, EffectivePublished

\* A plan that was dropped is not stale.
LEMMA PlanDropped == ASSUME plan' = NoPlan PROVE PlanIsCurrent'
BY DEF PlanIsCurrent

\* A plan is current while its inputs stay.
LEMMA PlanKept ==
  ASSUME PlanIsCurrent, UNCHANGED <<active, demand, held, cursor, plan>> PROVE PlanIsCurrent'
BY DEF PlanIsCurrent

-----------------------------------------------------------------------------
(* The scheduler, the leases and the disk monitor *)

\* A change of the inputs alone keeps the invariant.
LEMMA InputChangeKeeps ==
  ASSUME AllocatorInv, NEW keys, NEW act, NEW dem \in [Bindings -> 0..MaxDemand], NEW hld \in BOOLEAN,
         ChangeInputs(keys, act, dem, hld), ActiveTypes', ActiveAgrees',
         UNCHANGED <<published, pending, known, poolRemote, poolUnknown, pc, broker, crashes, quiet>>
  PROVE  AllocatorInv'
<1> USE DEF AllocatorInv, BookTypes, TotalsInv
<1>1. /\ demand' \in [Bindings -> 0..MaxDemand] /\ held' \in BOOLEAN /\ CursorType' /\ plan' = NoPlan
      /\ poll' \in [Bindings -> Polls] /\ \A c \in Bindings : poll'[c].capacity = poll[c].capacity
  BY InputsStep
<1>2. InputTypes' /\ LoopTypes' /\ BrokerTypes'
  BY <1>1 DEF InputTypes, LoopTypes, Polls, BrokerTypes, broker
<1>3. RemoteTypes' /\ RemoteAgrees' /\ KnownTypes' /\ UnknownAgrees'
  BY RemoteKept, KnownKept
<1>4. SessionInv'
  BY <1>1, SessionKept DEF SessionInv, Untouched, broker
<1>5. ExposureInv' /\ PlanIsCurrent'
  BY <1>1, ExposureKept, PlanDropped DEF broker
<1>6. QED
  BY <1>2, <1>3, <1>4, <1>5

\* A lease is reserved (TryReserve).
LEMMA TryReserveKeeps == ASSUME AllocatorInv, NEW b \in Bindings, TryReserve(b) PROVE AllocatorInv'
<1>1. ActiveTypes /\ ActiveAgrees /\ demand \in [Bindings -> 0..MaxDemand] /\ held \in BOOLEAN
  BY DEF AllocatorInv, BookTypes, InputTypes, TotalsInv
<1>2. PICK d \in Int : d = 1
  OBVIOUS
<1>3. active[b] + d \in Nat
  BY <1>1, <1>2 DEF ActiveTypes
<1>4. active' = [active EXCEPT ![b] = @ + d] /\ poolActive' = [poolActive EXCEPT ![TierOf[b]] = @ + d]
  BY <1>2 DEF TryReserve, ChangeInputs
<1>5. ActiveTypes' /\ ActiveAgrees'
  BY <1>1, <1>3, <1>4, ActiveStep
<1>6. QED
  BY <1>1, <1>5, InputChangeKeeps DEF TryReserve

\* A lease is released (Release).
LEMMA ReleaseKeeps == ASSUME AllocatorInv, NEW b \in Bindings, Release(b) PROVE AllocatorInv'
<1>1. ActiveTypes /\ ActiveAgrees /\ demand \in [Bindings -> 0..MaxDemand] /\ held \in BOOLEAN
  BY DEF AllocatorInv, BookTypes, InputTypes, TotalsInv
<1>2. PICK d \in Int : d = -1
  OBVIOUS
<1>3. active[b] \in Nat /\ active[b] + d \in Nat
  BY <1>1, <1>2 DEF ActiveTypes, Release
<1>4. active' = [active EXCEPT ![b] = @ + d] /\ poolActive' = [poolActive EXCEPT ![TierOf[b]] = @ + d]
  BY <1>1, <1>2, <1>3, TierOfBinding DEF Release, ChangeInputs, ActiveTypes
<1>5. ActiveTypes' /\ ActiveAgrees'
  BY <1>1, <1>3, <1>4, ActiveStep
<1>6. QED
  BY <1>1, <1>5, InputChangeKeeps DEF Release

\* Admission is held or let go (Hold).
LEMMA HoldKeeps == ASSUME AllocatorInv, NEW h \in BOOLEAN, Hold(h) PROVE AllocatorInv'
<1>1. ActiveTypes /\ ActiveAgrees /\ demand \in [Bindings -> 0..MaxDemand]
  BY DEF AllocatorInv, BookTypes, InputTypes, TotalsInv
<1>2. UNCHANGED <<active, poolActive>>
  BY DEF Hold, ChangeInputs
<1>3. ActiveTypes' /\ ActiveAgrees'
  BY <1>1, <1>2, ActiveKept
<1>4. QED
  BY <1>1, <1>3, InputChangeKeeps DEF Hold
-----------------------------------------------------------------------------
(* The loop of a binding *)

\* What the step of one binding owes, the limits apart.
LEMMA LoopStepKeeps ==
  ASSUME AllocatorInv, NEW b \in Bindings,
         InputTypes', LoopTypes', BrokerTypes', RemoteTypes', KnownTypes',
         RemoteAgrees', UnknownAgrees', ActiveAgrees', PlanIsCurrent',
         SessionOf(b)', \A c \in Bindings \ {b} : Untouched(c), ExposureInv'
  PROVE  AllocatorInv'
<1>1. SessionInv'
  <2>1. ASSUME NEW c \in Bindings PROVE SessionOf(c)'
    <3>1. CASE c = b
      BY <3>1
    <3>2. CASE c # b
      <4>1. SessionOf(c) /\ Untouched(c)
        BY <3>2 DEF AllocatorInv, SessionInv
      <4>2. QED
        BY <4>1, SessionKept
    <3>3. QED
      BY <3>1, <3>2
  <2>2. QED
    BY <2>1 DEF SessionInv
<1>2. QED
  BY <1>1 DEF AllocatorInv, BookTypes, TotalsInv

\* The exposure of one binding does not grow.
LEMMA OneExposureStep ==
  ASSUME AllocatorInv, RemoteTypes', BrokerTypes', NEW b \in Bindings,
         \A c \in Bindings \ {b} : Untouched(c),
         capacity'[b] <= Greater(capacity[b], EffectivePublished(b)),
         EffectivePublished(b)' <= Greater(capacity[b], EffectivePublished(b))
  PROVE  ExposureInv'
<1>1. RemoteTypes /\ BrokerTypes /\ ExposureInv
  BY DEF AllocatorInv, BookTypes
<1>2. ASSUME NEW c \in Bindings
      PROVE  /\ capacity'[c] <= Greater(capacity[c], EffectivePublished(c))
             /\ EffectivePublished(c)' <= Greater(capacity[c], EffectivePublished(c))
  <2>1. capacity[c] \in Nat /\ EffectivePublished(c) \in Nat
    BY <1>1, ExposureType
  <2>2. CASE c = b
    BY <2>2
  <2>3. CASE c # b
    <3>1. capacity'[c] = capacity[c] /\ EffectivePublished(c)' = EffectivePublished(c)
      BY <2>3 DEF Untouched, EffectivePublished
    <3>2. QED
      BY <2>1, <3>1 DEF Greater
  <2>4. QED
    BY <2>2, <2>3
<1>3. QED
  BY <1>1, <1>2, ExposureStep

\* The types of the inputs, when they stay.
LEMMA InputsKept ==
  ASSUME InputTypes, UNCHANGED <<active, demand, held, cursor, plan, poolActive>>
  PROVE  InputTypes'
BY DEF InputTypes, ActiveTypes, CursorType

\* A binding reports its demand (SetAssignedDemand).
LEMMA DemandStep ==
  ASSUME AllocatorInv, NEW b \in Bindings, NEW n \in 0..MaxDemand, SetAssignedDemand(b, n),
         UNCHANGED poolActive
  PROVE  /\ InputTypes' /\ ActiveAgrees' /\ PlanIsCurrent'
         /\ poll' \in [Bindings -> Polls]
         /\ \A c \in Bindings : poll'[c].capacity = poll[c].capacity
<1>1. InputTypes /\ LoopTypes /\ ActiveTypes /\ ActiveAgrees /\ PlanIsCurrent
  BY DEF AllocatorInv, BookTypes, TotalsInv, InputTypes
<1>2. CASE n = demand[b]
  <2>1. UNCHANGED <<active, demand, held, cursor, plan, poll>>
    BY <1>2 DEF SetAssignedDemand
  <2>2. QED
    BY <1>1, <2>1, InputsKept, ActiveKept, PlanKept DEF LoopTypes, Polls
<1>3. CASE n # demand[b]
  <2> DEFINE dem == [demand EXCEPT ![b] = n]
             keys == IF n > 0 THEN {b} ELSE {}
  <2>1. ChangeInputs(keys, active, dem, held)
    BY <1>3 DEF SetAssignedDemand
  <2>2. dem \in [Bindings -> 0..MaxDemand] /\ held \in BOOLEAN
    BY <1>1 DEF InputTypes
  <2> HIDE DEF dem, keys
  <2>3. /\ active' = active /\ demand' \in [Bindings -> 0..MaxDemand] /\ held' \in BOOLEAN
        /\ CursorType' /\ plan' = NoPlan /\ poll' \in [Bindings -> Polls]
        /\ \A c \in Bindings : poll'[c].capacity = poll[c].capacity
    BY <1>1, <2>1, <2>2, InputsStep
  <2>4. ActiveTypes' /\ ActiveAgrees'
    BY <1>1, <2>3, ActiveKept
  <2>5. QED
    BY <2>3, <2>4, PlanDropped DEF InputTypes
<1>4. QED
  BY <1>2, <1>3

\* A session is opened: the broker holds nothing for it yet.
LEMMA OpenSessionKeeps ==
  ASSUME AllocatorInv, NEW b \in Bindings, NEW n \in 0..MaxDemand, OpenSession(b, n)
  PROVE  AllocatorInv'
<1>0. RemoteTypes /\ RemoteAgrees /\ KnownTypes /\ UnknownAgrees /\ LoopTypes /\ BrokerTypes
  BY DEF AllocatorInv, BookTypes, TotalsInv
<1>1. /\ InputTypes' /\ ActiveAgrees' /\ PlanIsCurrent' /\ poll' \in [Bindings -> Polls]
      /\ \A c \in Bindings : poll'[c].capacity = poll[c].capacity
  BY DemandStep DEF OpenSession
<1>2. RemoteTypes' /\ RemoteAgrees'
  <2>1. 0 \in Nat /\ NoPending \in Nat \cup {NoPending} /\ ChangeRemoteCapacity(b, 0, NoPending)
    BY DEF OpenSession
  <2>2. QED
    BY <1>0, <2>1, RemoteStep
<1>3. KnownTypes' /\ UnknownAgrees' /\ known' = [known EXCEPT ![b] = TRUE]
  BY <1>0, KnownStep DEF OpenSession
<1>4. /\ LoopTypes' /\ BrokerTypes' /\ pc' = [pc EXCEPT ![b] = "open"]
      /\ session' = [session EXCEPT ![b] = TRUE] /\ capacity' = [capacity EXCEPT ![b] = 0]
      /\ published' = [published EXCEPT ![b] = 0] /\ pending' = [pending EXCEPT ![b] = NoPending]
  BY <1>0, <1>1 DEF LoopTypes, Polls, BrokerTypes, OpenSession, Step, ChangeRemoteCapacity
<1>5. \A c \in Bindings \ {b} : Untouched(c)
  BY <1>0, <1>1, <1>3, <1>4 DEF Untouched, LoopTypes, BrokerTypes, RemoteTypes, KnownTypes
<1>6. /\ pc'[b] = "open" /\ known'[b] /\ session'[b] /\ capacity'[b] = 0 /\ pending'[b] = NoPending
      /\ EffectivePublished(b)' = 0
  BY <1>0, <1>3, <1>4
     DEF LoopTypes, BrokerTypes, RemoteTypes, KnownTypes, EffectivePublished, Greater, NoPending
<1>7. SessionOf(b)'
  BY <1>6 DEF SessionOf
<1>8. ExposureInv'
  <2>1. capacity[b] \in Nat /\ EffectivePublished(b) \in Nat
    BY <1>0, ExposureType
  <2>2. 0 <= Greater(capacity[b], EffectivePublished(b))
    BY <2>1 DEF Greater
  <2>3. QED
    BY <1>2, <1>4, <1>5, <1>6, <2>2, OneExposureStep
<1>9. QED
  BY <1>1, <1>2, <1>3, <1>4, <1>5, <1>7, <1>8, LoopStepKeeps

\* The plan's inputs and the active totals are left alone.
LEMMA PlanLeftAlone ==
  ASSUME AllocatorInv, UNCHANGED <<active, demand, held, cursor, plan, poolActive>>
  PROVE  InputTypes' /\ ActiveAgrees' /\ PlanIsCurrent'
<1>1. InputTypes /\ ActiveTypes /\ ActiveAgrees /\ PlanIsCurrent
  BY DEF AllocatorInv, BookTypes, TotalsInv, InputTypes
<1>2. QED
  BY <1>1, InputsKept, ActiveKept, PlanKept

\* The broker drops a session and its capacity.
LEMMA SessionExpiresKeeps ==
  ASSUME AllocatorInv, NEW b \in Bindings, SessionExpires(b) PROVE AllocatorInv'
<1>0. RemoteTypes /\ RemoteAgrees /\ KnownTypes /\ UnknownAgrees /\ LoopTypes /\ BrokerTypes /\ SessionOf(b)
  BY DEF AllocatorInv, BookTypes, TotalsInv, SessionInv
<1>1. InputTypes' /\ ActiveAgrees' /\ PlanIsCurrent'
  BY PlanLeftAlone DEF SessionExpires, books
<1>2. RemoteTypes' /\ RemoteAgrees' /\ KnownTypes' /\ UnknownAgrees'
  BY <1>0, RemoteKept, KnownKept DEF SessionExpires, books
<1>3. LoopTypes' /\ BrokerTypes'
  BY <1>0 DEF LoopTypes, BrokerTypes, SessionExpires
<1>4. \A c \in Bindings \ {b} : Untouched(c)
  BY <1>0 DEF Untouched, SessionExpires, books, BrokerTypes
<1>5. /\ capacity'[b] = 0 /\ EffectivePublished(b)' = EffectivePublished(b) /\ EffectivePublished(b) \in Nat
      /\ capacity[b] \in Nat
  BY <1>0, ExposureType DEF SessionExpires, books, BrokerTypes, EffectivePublished
<1>6. SessionOf(b)'
  BY <1>0, <1>5 DEF SessionOf, SessionExpires, books
<1>7. ExposureInv'
  <2>1. /\ capacity'[b] <= Greater(capacity[b], EffectivePublished(b))
        /\ EffectivePublished(b)' <= Greater(capacity[b], EffectivePublished(b))
    BY <1>5 DEF Greater
  <2>2. QED
    BY <1>2, <1>3, <1>4, <2>1, OneExposureStep
<1>8. QED
  BY <1>1, <1>2, <1>3, <1>4, <1>6, <1>7, LoopStepKeeps

\* A poll reaches the broker, which now holds what the poll asked for.
LEMMA PollReachesKeeps ==
  ASSUME AllocatorInv, NEW b \in Bindings, PollReaches(b) PROVE AllocatorInv'
<1>0. RemoteTypes /\ RemoteAgrees /\ KnownTypes /\ UnknownAgrees /\ LoopTypes /\ BrokerTypes /\ SessionOf(b)
  BY DEF AllocatorInv, BookTypes, TotalsInv, SessionInv
<1>1. InputTypes' /\ ActiveAgrees' /\ PlanIsCurrent'
  BY PlanLeftAlone DEF PollReaches, books
<1>2. RemoteTypes' /\ RemoteAgrees' /\ KnownTypes' /\ UnknownAgrees'
  BY <1>0, RemoteKept, KnownKept DEF PollReaches, books
<1>3. LoopTypes' /\ BrokerTypes'
  BY <1>0 DEF LoopTypes, BrokerTypes, PollReaches, Step
<1>4. \A c \in Bindings \ {b} : Untouched(c)
  BY <1>0 DEF Untouched, PollReaches, Step, books, BrokerTypes, LoopTypes
<1>5. /\ capacity'[b] = poll[b].capacity /\ pending[b] = poll[b].capacity
      /\ EffectivePublished(b)' = EffectivePublished(b) /\ EffectivePublished(b) \in Nat
      /\ capacity[b] \in Nat /\ pending[b] <= EffectivePublished(b) /\ poll[b].capacity \in Nat
  BY <1>0, ExposureType, EffectiveType
     DEF PollReaches, books, BrokerTypes, LoopTypes, SessionOf, EffectivePublished
<1>6. SessionOf(b)'
  BY <1>0, <1>5 DEF SessionOf, PollReaches, Step, books, LoopTypes
<1>7. ExposureInv'
  <2>1. /\ capacity'[b] <= Greater(capacity[b], EffectivePublished(b))
        /\ EffectivePublished(b)' <= Greater(capacity[b], EffectivePublished(b))
    BY <1>5 DEF Greater
  <2>2. QED
    BY <1>2, <1>3, <1>4, <2>1, OneExposureStep
<1>8. QED
  BY <1>1, <1>2, <1>3, <1>4, <1>6, <1>7, LoopStepKeeps

\* The outcome of a poll: the reservation becomes a value that covers the
\* session and is not above what was reserved.
LEMMA PollResolves ==
  ASSUME AllocatorInv, NEW b \in Bindings, NEW pub \in Nat, NEW s \in {"open", "spent"},
         pc[b] \in {"sent", "reached"}, ChangeRemoteCapacity(b, pub, NoPending), Step(b, s),
         capacity[b] <= pub, pub <= EffectivePublished(b),
         InputTypes', ActiveAgrees', PlanIsCurrent', poll' \in [Bindings -> Polls],
         \A c \in Bindings \ {b} : poll'[c].capacity = poll[c].capacity,
         UNCHANGED <<known, poolUnknown, broker, crashes, quiet>>
  PROVE  AllocatorInv'
<1>0. RemoteTypes /\ RemoteAgrees /\ KnownTypes /\ UnknownAgrees /\ LoopTypes /\ BrokerTypes /\ SessionOf(b)
  BY DEF AllocatorInv, BookTypes, TotalsInv, SessionInv
<1>1. RemoteTypes' /\ RemoteAgrees'
  <2>1. NoPending \in Nat \cup {NoPending}
    OBVIOUS
  <2>2. QED
    BY <1>0, <2>1, RemoteStep
<1>2. KnownTypes' /\ UnknownAgrees'
  BY <1>0, KnownKept
<1>3. LoopTypes' /\ BrokerTypes'
  BY <1>0 DEF LoopTypes, Polls, BrokerTypes, Step, broker
<1>4. \A c \in Bindings \ {b} : Untouched(c)
  BY <1>0 DEF Untouched, ChangeRemoteCapacity, Step, broker, RemoteTypes, LoopTypes
<1>5. /\ published'[b] = pub /\ pending'[b] = NoPending /\ EffectivePublished(b)' = pub
      /\ capacity'[b] = capacity[b] /\ capacity[b] \in Nat /\ EffectivePublished(b) \in Nat
  BY <1>0, ExposureType
     DEF ChangeRemoteCapacity, RemoteTypes, EffectivePublished, Greater, NoPending, broker
<1>6. SessionOf(b)'
  BY <1>0, <1>5 DEF SessionOf, Step, LoopTypes, broker
<1>7. ExposureInv'
  <2>1. /\ capacity'[b] <= Greater(capacity[b], EffectivePublished(b))
        /\ EffectivePublished(b)' <= Greater(capacity[b], EffectivePublished(b))
    BY <1>5 DEF Greater
  <2>2. QED
    BY <1>1, <1>3, <1>4, <2>1, OneExposureStep
<1>8. QED
  BY <1>1, <1>2, <1>3, <1>4, <1>6, <1>7, LoopStepKeeps

\* What a poll whose answer arrived says of its binding.
LEMMA ReachedPoll ==
  ASSUME AllocatorInv, NEW b \in Bindings, pc[b] = "reached"
  PROVE  /\ poll[b].capacity \in Nat /\ capacity[b] <= poll[b].capacity
         /\ poll[b].capacity <= EffectivePublished(b)
<1>1. RemoteTypes /\ LoopTypes /\ BrokerTypes /\ SessionOf(b)
  BY DEF AllocatorInv, BookTypes, SessionInv
<1>2. pending[b] = poll[b].capacity /\ capacity[b] = poll[b].capacity /\ pending[b] <= EffectivePublished(b)
  BY <1>1, EffectiveType DEF SessionOf
<1>3. poll[b].capacity \in Nat
  BY <1>1 DEF LoopTypes
<1>4. QED
  BY <1>2, <1>3

\* Discovery passes on when its holder found nothing (rotateDiscovery).
LEMMA RotateStep ==
  ASSUME AllocatorInv, NEW b \in Bindings, RotateDiscovery(b), UNCHANGED <<active, demand, held, poolActive>>
  PROVE  /\ InputTypes' /\ ActiveAgrees' /\ PlanIsCurrent' /\ poll' \in [Bindings -> Polls]
         /\ \A c \in Bindings \ {b} : poll'[c].capacity = poll[c].capacity
<1>0. InputTypes /\ LoopTypes /\ ActiveTypes /\ ActiveAgrees /\ PlanIsCurrent /\ CursorType
  BY DEF AllocatorInv, BookTypes, TotalsInv, InputTypes
<1>1. ActiveTypes' /\ ActiveAgrees'
  BY <1>0, ActiveKept
<1> DEFINE r == RingOf(b)
           next == NextDiscovery(r, active, demand, held, cursor[r])
<1>2. r \in Rings /\ cursor[r] \in Ring(r) /\ next \in Ring(r) /\ next \in Bindings
  BY <1>0, RingsHaveBindings, NextDiscoveryType DEF CursorType
<1>3. poll \in [Bindings -> Polls] /\ NoPoll \in Polls
  BY <1>0, NoPollType DEF LoopTypes, Polls
<1>4. CASE poll[b].discovery /\ poll[b].current /\ cursor[r] = b
  <2>1. /\ cursor' = [cursor EXCEPT ![r] = next]
        /\ plan' = IF next # cursor[r] THEN NoPlan ELSE plan
        /\ poll' = [Restamp({r}, poll) EXCEPT ![b] = NoPoll]
    BY <1>4 DEF RotateDiscovery
  <2> HIDE DEF r, next
  <2>2. CursorType'
    BY <1>0, <1>2, <2>1 DEF CursorType
  <2>3. /\ Restamp({r}, poll) \in [Bindings -> Polls]
        /\ \A c \in Bindings : Restamp({r}, poll)[c].capacity = poll[c].capacity
    BY <1>3, RestampType
  <2>4. poll' \in [Bindings -> Polls] /\ \A c \in Bindings \ {b} : poll'[c].capacity = poll[c].capacity
    BY <1>3, <2>1, <2>3
  <2>5. plan' \in [Bindings -> Nat] \cup {NoPlan}
    BY <1>0, <2>1 DEF InputTypes
  <2>6. PlanIsCurrent'
    <3>1. CASE next # cursor[r]
      BY <2>1, <3>1, PlanDropped
    <3>2. CASE next = cursor[r]
      <4>1. cursor' = cursor /\ plan' = plan
        BY <1>0, <1>2, <2>1, <3>2 DEF CursorType
      <4>2. QED
        BY <1>0, <4>1, PlanKept
    <3>3. QED
      BY <3>1, <3>2
  <2>7. QED
    BY <1>0, <1>1, <2>2, <2>4, <2>5, <2>6 DEF InputTypes
<1>5. CASE ~(poll[b].discovery /\ poll[b].current /\ cursor[r] = b)
  <2>1. UNCHANGED <<cursor, plan>> /\ poll' = [poll EXCEPT ![b] = NoPoll]
    BY <1>5 DEF RotateDiscovery
  <2>2. poll' \in [Bindings -> Polls] /\ \A c \in Bindings \ {b} : poll'[c].capacity = poll[c].capacity
    BY <1>3, <2>1
  <2>3. QED
    BY <2>1, <2>2, PlanLeftAlone
<1>6. QED
  BY <1>4, <1>5

\* A poll that brought nothing.
LEMMA PollEmptyKeeps ==
  ASSUME AllocatorInv, NEW b \in Bindings, PollEmpty(b) PROVE AllocatorInv'
<1>1. /\ poll[b].capacity \in Nat /\ capacity[b] <= poll[b].capacity
      /\ poll[b].capacity <= EffectivePublished(b)
  BY ReachedPoll DEF PollEmpty
<1>2. /\ InputTypes' /\ ActiveAgrees' /\ PlanIsCurrent' /\ poll' \in [Bindings -> Polls]
      /\ \A c \in Bindings \ {b} : poll'[c].capacity = poll[c].capacity
  BY RotateStep DEF PollEmpty
<1>3. /\ pc[b] \in {"sent", "reached"} /\ ChangeRemoteCapacity(b, poll[b].capacity, NoPending)
      /\ "open" \in {"open", "spent"} /\ Step(b, "open")
      /\ UNCHANGED <<known, poolUnknown, broker, crashes, quiet>>
  BY DEF PollEmpty
<1>4. QED
  BY <1>1, <1>2, <1>3, PollResolves

\* A poll that was answered confirms its capacity.
LEMMA PollAnsweredKeeps ==
  ASSUME AllocatorInv, NEW b \in Bindings, NEW n \in 0..MaxDemand, PollAnswered(b, n) PROVE AllocatorInv'
<1>0. InputTypes /\ LoopTypes /\ ActiveTypes /\ ActiveAgrees /\ PlanIsCurrent /\ CursorType
  BY DEF AllocatorInv, BookTypes, TotalsInv, InputTypes
<1>1. /\ poll[b].capacity \in Nat /\ capacity[b] <= poll[b].capacity
      /\ poll[b].capacity <= EffectivePublished(b)
  BY ReachedPoll DEF PollAnswered
<1> DEFINE cleared == [poll EXCEPT ![b] = NoPoll]
<1>2. cleared \in [Bindings -> Polls] /\ \A c \in Bindings \ {b} : cleared[c].capacity = poll[c].capacity
  BY <1>0, NoPollType DEF LoopTypes, Polls
<1>3. /\ InputTypes' /\ ActiveAgrees' /\ PlanIsCurrent' /\ poll' \in [Bindings -> Polls]
      /\ \A c \in Bindings \ {b} : poll'[c].capacity = poll[c].capacity
  <2>1. CASE n = demand[b]
    <3>1. UNCHANGED <<active, demand, held, cursor, plan, poolActive>> /\ poll' = cleared
      BY <2>1 DEF PollAnswered
    <3>2. QED
      BY <1>2, <3>1, PlanLeftAlone
  <2>2. CASE n # demand[b]
    <3> DEFINE dem == [demand EXCEPT ![b] = n]
               keys == IF n > 0 THEN {b} ELSE {}
               cur == Advanced(keys, active, dem, held, cursor)
               moved == {r \in Rings : cur[r] # cursor[r]}
    <3>1. /\ demand' = dem /\ cursor' = cur /\ plan' = NoPlan /\ poll' = Restamp(moved, cleared)
          /\ UNCHANGED <<active, held, poolActive>>
      BY <2>2 DEF PollAnswered
    <3>2. dem \in [Bindings -> 0..MaxDemand]
      BY <1>0 DEF InputTypes
    <3>3. cur \in [Rings -> Bindings] /\ \A r \in Rings : cur[r] \in Ring(r)
      BY <1>0, AdvancedType
    <3> HIDE DEF dem, keys, cur, moved, cleared
    <3>4. /\ poll' \in [Bindings -> Polls]
          /\ \A c \in Bindings : poll'[c].capacity = cleared[c].capacity
      BY <1>2, <3>1, RestampType
    <3>5. CursorType'
      BY <3>1, <3>3 DEF CursorType
    <3>6. ActiveTypes' /\ ActiveAgrees' /\ PlanIsCurrent'
      BY <1>0, <3>1, ActiveKept, PlanDropped
    <3>7. QED
      BY <1>0, <1>2, <3>1, <3>2, <3>4, <3>5, <3>6 DEF InputTypes
  <2>3. QED
    BY <2>1, <2>2
<1>4. /\ pc[b] \in {"sent", "reached"} /\ ChangeRemoteCapacity(b, poll[b].capacity, NoPending)
      /\ "open" \in {"open", "spent"} /\ Step(b, "open")
      /\ UNCHANGED <<known, poolUnknown, broker, crashes, quiet>>
  BY DEF PollAnswered
<1>5. QED
  BY <1>1, <1>3, <1>4, PollResolves

\* A poll that failed leaves the larger of what it asked for and what was
\* published in the books.
LEMMA PollFailsKeeps ==
  ASSUME AllocatorInv, NEW b \in Bindings, NEW next \in {"open", "spent"}, PollFails(b, next)
  PROVE  AllocatorInv'
<1>0. RemoteTypes /\ LoopTypes /\ BrokerTypes /\ SessionOf(b)
  BY DEF AllocatorInv, BookTypes, SessionInv
<1> DEFINE pub == Greater(published[b], poll[b].capacity)
<1>1. pub = EffectivePublished(b) /\ pub \in Nat /\ capacity[b] <= EffectivePublished(b)
  <2>1. pending[b] = poll[b].capacity /\ capacity[b] <= EffectivePublished(b)
    BY <1>0 DEF PollFails, SessionOf
  <2>2. EffectivePublished(b) \in Nat
    BY <1>0, EffectiveType
  <2>3. QED
    BY <2>1, <2>2 DEF EffectivePublished
<1>2. InputTypes' /\ ActiveAgrees' /\ PlanIsCurrent'
  BY PlanLeftAlone DEF PollFails
<1>3. poll' \in [Bindings -> Polls] /\ \A c \in Bindings \ {b} : poll'[c].capacity = poll[c].capacity
  BY <1>0, NoPollType DEF LoopTypes, Polls, PollFails
<1>4. /\ pc[b] \in {"sent", "reached"} /\ ChangeRemoteCapacity(b, pub, NoPending) /\ Step(b, next)
      /\ UNCHANGED <<known, poolUnknown, broker, crashes, quiet>>
  BY DEF PollFails
<1>5. pub <= EffectivePublished(b) /\ capacity[b] <= pub
  BY <1>1
<1> HIDE DEF pub
<1>6. QED
  BY <1>1, <1>2, <1>3, <1>4, <1>5, PollResolves

\* A session is given up, and its capacity known to be gone only when the broker
\* confirmed it.
LEMMA DiscardSessionKeeps ==
  ASSUME AllocatorInv, NEW b \in Bindings, NEW confirmed \in BOOLEAN, DiscardSession(b, confirmed)
  PROVE  AllocatorInv'
<1>0. RemoteTypes /\ RemoteAgrees /\ KnownTypes /\ UnknownAgrees /\ LoopTypes /\ BrokerTypes /\ SessionOf(b)
  BY DEF AllocatorInv, BookTypes, TotalsInv, SessionInv
<1>1. PICK closed \in {TRUE, confirmed} :
         /\ session' = [session EXCEPT ![b] = @ /\ ~closed]
         /\ capacity' = [capacity EXCEPT ![b] = IF closed THEN 0 ELSE @]
  BY DEF DiscardSession
<1> DEFINE pub == IF confirmed THEN 0 ELSE EffectivePublished(b)
<1>2. pub \in Nat /\ pub <= EffectivePublished(b) /\ EffectivePublished(b) \in Nat /\ capacity[b] \in Nat
  BY <1>0, ExposureType
<1>3. ChangeRemoteCapacity(b, pub, NoPending) /\ NoPending \in Nat \cup {NoPending}
  BY DEF DiscardSession
<1>4. RemoteTypes' /\ RemoteAgrees'
  <2> HIDE DEF pub
  <2>1. QED
    BY <1>0, <1>2, <1>3, RemoteStep
<1>5. KnownTypes' /\ UnknownAgrees' /\ known' = [known EXCEPT ![b] = confirmed]
  BY <1>0, KnownStep DEF DiscardSession
<1>6. LoopTypes' /\ BrokerTypes'
  BY <1>0, <1>1, <1>2 DEF LoopTypes, BrokerTypes, DiscardSession, Step
<1>7. InputTypes' /\ ActiveAgrees' /\ PlanIsCurrent'
  BY PlanLeftAlone DEF DiscardSession
<1>8. \A c \in Bindings \ {b} : Untouched(c)
  BY <1>0, <1>1, <1>3, <1>5
     DEF Untouched, DiscardSession, ChangeRemoteCapacity, Step, RemoteTypes, LoopTypes, BrokerTypes, KnownTypes
<1>9. /\ EffectivePublished(b)' = pub /\ pending'[b] = NoPending /\ pc'[b] = "closed"
      /\ known'[b] = confirmed /\ capacity'[b] = (IF closed THEN 0 ELSE capacity[b])
      /\ session'[b] = (session[b] /\ ~closed)
  <2>1. published'[b] = pub /\ pending'[b] = NoPending
    BY <1>0, <1>3 DEF ChangeRemoteCapacity, RemoteTypes
  <2>2. EffectivePublished(b)' = pub
    BY <1>2, <2>1 DEF EffectivePublished, Greater, NoPending
  <2>3. QED
    BY <1>0, <1>1, <1>5, <2>1, <2>2 DEF DiscardSession, Step, LoopTypes, BrokerTypes, KnownTypes
<1>10. SessionOf(b)'
  <2>1. capacity[b] <= EffectivePublished(b) /\ (~session[b] => capacity[b] = 0)
    BY <1>0 DEF SessionOf, DiscardSession
  <2>2. known'[b] => capacity'[b] <= EffectivePublished(b)'
    <3>1. CASE confirmed
      <4>1. closed = TRUE
        BY <1>1, <3>1
      <4>2. capacity'[b] = 0 /\ EffectivePublished(b)' = 0
        BY <1>9, <3>1, <4>1
      <4>3. QED
        BY <4>2
    <3>2. CASE ~confirmed
      BY <1>9, <3>2
    <3>3. QED
      BY <3>1, <3>2
  <2>3. ~session'[b] => capacity'[b] = 0
    <3>1. CASE closed
      BY <1>9, <3>1
    <3>2. CASE ~closed
      BY <1>9, <2>1, <3>2
    <3>3. QED
      BY <3>1, <3>2
  <2>4. QED
    BY <1>9, <2>2, <2>3 DEF SessionOf
<1>11. ExposureInv'
  <2>1. /\ capacity'[b] <= Greater(capacity[b], EffectivePublished(b))
        /\ EffectivePublished(b)' <= Greater(capacity[b], EffectivePublished(b))
    BY <1>2, <1>9 DEF Greater
  <2>2. QED
    BY <1>4, <1>6, <1>8, <2>1, OneExposureStep
<1>12. QED
  BY <1>4, <1>5, <1>6, <1>7, <1>8, <1>10, <1>11, LoopStepKeeps

\* The plan's inputs are natural numbers, so the plan is one of natural numbers.
LEMMA CurrentPlanType ==
  ASSUME AllocatorInv
  PROVE  CurrentPlan \in [Bindings -> Nat] /\ CurrentPlan = BuildPlan(active, demand, held, cursor)
<1>1. active \in [Bindings -> Nat] /\ demand \in [Bindings -> Nat] /\ held \in BOOLEAN
  BY AllocatorAssumption DEF AllocatorInv, BookTypes, InputTypes, ActiveTypes
<1>2. BuildPlan(active, demand, held, cursor) \in [Bindings -> Nat]
  BY <1>1, BuildPlanType
<1>3. QED
  BY <1>2 DEF CurrentPlan, AllocatorInv, PlanIsCurrent

\* A plan is computed from the inputs and kept (planLocked).
LEMMA ReadPlanKeeps == ASSUME AllocatorInv, ReadPlan PROVE AllocatorInv'
<1> USE DEF AllocatorInv, BookTypes, TotalsInv
<1>1. CurrentPlan \in [Bindings -> Nat] /\ CurrentPlan = BuildPlan(active, demand, held, cursor)
  BY CurrentPlanType
<1>2. ActiveTypes' /\ ActiveAgrees' /\ RemoteTypes' /\ RemoteAgrees' /\ KnownTypes' /\ UnknownAgrees'
  BY ActiveKept, RemoteKept, KnownKept DEF ReadPlan, InputTypes
<1>3. InputTypes' /\ LoopTypes' /\ BrokerTypes'
  BY <1>1, <1>2 DEF InputTypes, LoopTypes, BrokerTypes, CursorType, ReadPlan, broker
<1>4. SessionInv'
  BY SessionKept DEF SessionInv, Untouched, ReadPlan, broker
<1>5. ExposureInv'
  BY ExposureKept DEF ReadPlan, broker
<1>6. PlanIsCurrent'
  BY <1>1 DEF PlanIsCurrent, ReadPlan
<1>7. QED
  BY <1>2, <1>3, <1>4, <1>5, <1>6

\* The surroundings fall quiet.
LEMMA FallsQuietKeeps == ASSUME AllocatorInv, FallsQuiet PROVE AllocatorInv'
<1> USE DEF AllocatorInv, BookTypes, TotalsInv
<1>1. RemoteTypes' /\ RemoteAgrees' /\ KnownTypes' /\ UnknownAgrees'
  BY RemoteKept, KnownKept DEF FallsQuiet, books
<1>2. InputTypes' /\ ActiveAgrees' /\ PlanIsCurrent'
  BY PlanLeftAlone DEF FallsQuiet, books
<1>3. LoopTypes' /\ BrokerTypes'
  BY DEF LoopTypes, BrokerTypes, FallsQuiet, broker
<1>4. SessionInv'
  BY SessionKept DEF SessionInv, Untouched, FallsQuiet, books, broker
<1>5. ExposureInv'
  BY ExposureKept DEF FallsQuiet, books, broker
<1>6. QED
  BY <1>1, <1>2, <1>3, <1>4, <1>5

\* Fresh books: nothing reserved, every session unknown.
LEMMA FreshTotals ==
  /\ \A f : (\A b \in Bindings : f[b] = 0) =>
       Total(f, Bindings) = 0 /\ \A t \in Tiers : Total(f, Members(t)) = 0
  /\ \A f : (\A t \in Tiers : f[t] = 0) => Total(f, Tiers) = 0
<1>1. ASSUME NEW f, \A b \in Bindings : f[b] = 0, NEW S \in SUBSET Bindings PROVE Total(f, S) = 0
  BY <1>1, BindingsFinite, FS_Subset, TotalZero
<1>2. QED
  BY <1>1, BindingsFinite, TiersFinite, TotalZero

\* Nothing reserved and nothing held is within the limits.
LEMMA ZeroIsWithin ==
  ASSUME NEW f, \A b \in Bindings : f[b] = 0 PROVE WithinLimits(f)
BY FreshTotals, PlanAssumption DEF WithinLimits

\* A fresh allocator, whose bindings are all unknown.
LEMMA AllocatorInitInv == AllocatorInit => AllocatorInv
<1> SUFFICES ASSUME AllocatorInit PROVE AllocatorInv
  OBVIOUS
<1> USE DEF AllocatorInit
<1>1. PICK found \in [Bindings -> 0..MaxAdopted] :
         active = found /\ poolActive = [t \in Tiers |-> Total(found, Members(t))]
  OBVIOUS
<1>2. found \in [Bindings -> Nat]
  BY <1>1, AllocatorAssumption
<1>3. ActiveTypes /\ ActiveAgrees
  BY <1>1, <1>2, AdoptedTotals DEF ActiveTypes, ActiveAgrees
<1>4. InputTypes
  BY <1>3, FirstHolderType, RingsHaveBindings, AllocatorAssumption DEF InputTypes, CursorType
<1>5. RemoteTypes
  BY DEF RemoteTypes
<1>6. \A b \in Bindings : Effective[b] = 0 /\ Exposure[b] = 0 /\ EffectivePublished(b) = 0
  BY DEF Effective, Exposure, EffectivePublished, Greater, NoPending
<1>7. RemoteAgrees
  BY <1>6, FreshTotals DEF RemoteAgrees, TotalOf
<1>8. KnownTypes
  BY BindingsFinite, FS_CardinalityType DEF KnownTypes
<1>9. UnknownAgrees
  <2>1. \A t \in Tiers : Unknown(t) = Members(t)
    BY DEF Unknown, Members
  <2>2. QED
    BY <2>1 DEF UnknownAgrees
<1>10. LoopTypes /\ BrokerTypes
  <2>1. LoopTypes
    BY NoPollType DEF LoopTypes, Polls
  <2>2. crashes \in 0..MaxCrashes
    BY AllocatorAssumption
  <2>3. QED
    BY <2>1, <2>2 DEF BrokerTypes
<1>11. SessionInv
  BY <1>6 DEF SessionInv, SessionOf
<1>12. ExposureInv
  BY <1>6, ZeroIsWithin DEF ExposureInv
<1>13. PlanIsCurrent
  BY DEF PlanIsCurrent
<1>14. QED
  BY <1>3, <1>4, <1>5, <1>7, <1>8, <1>9, <1>10, <1>11, <1>12, <1>13
     DEF AllocatorInv, BookTypes, TotalsInv

\* The process is replaced: the books start over, the sessions stay.
LEMMA ReplacedKeeps == ASSUME AllocatorInv, Replaced PROVE AllocatorInv'
<1>0. ActiveTypes /\ RemoteTypes /\ BrokerTypes /\ ExposureInv /\ SessionInv
  BY DEF AllocatorInv, BookTypes, InputTypes
<1>1. ActiveTypes' /\ ActiveAgrees'
  <2> DEFINE high == Max({active[b] : b \in Bindings})
  <2>1. PICK found \in [Bindings -> 0..high] : Adopt(found)
    BY DEF Replaced
  <2>2. high \in Int
    <3> DEFINE S == {active[b] : b \in Bindings}
    <3>1. S \in SUBSET Int /\ S # {}
      BY <1>0, BindingsFinite DEF ActiveTypes
    <3>2. active \in Surjection(Bindings, S)
      BY <1>0 DEF ActiveTypes, Surjection
    <3>3. IsFiniteSet(S)
      BY <3>2, BindingsFinite, FS_Surjection
    <3> HIDE DEF S
    <3>4. Max(S) \in S
      BY <3>1, <3>3, MinMax
    <3>5. QED
      BY <3>1, <3>4 DEF S
  <2>3. found \in [Bindings -> Nat]
    BY <2>2
  <2>4. [t \in Tiers |-> Total(found, Members(t))] \in [Tiers -> Int]
    BY <2>3, AdoptedTotals
  <2>5. active' = found /\ poolActive' = [t \in Tiers |-> Total(found, Members(t))]
    BY <2>1 DEF Adopt
  <2>6. QED
    BY <2>3, <2>4, <2>5 DEF ActiveTypes, ActiveAgrees
<1>2. InputTypes'
  BY <1>1, FirstHolderType, RingsHaveBindings, AllocatorAssumption DEF InputTypes, CursorType, Replaced
<1>3. RemoteTypes' /\ \A b \in Bindings : Effective'[b] = 0 /\ EffectivePublished(b)' = 0
  BY DEF RemoteTypes, Replaced, Register, Effective, EffectivePublished, Greater, NoPending
<1>4. RemoteAgrees'
  <2> DEFINE e == Effective'
             p == poolRemote'
  <2>1. (\A b \in Bindings : e[b] = 0) /\ (\A t \in Tiers : p[t] = 0)
    BY <1>3 DEF Replaced, Register
  <2> HIDE DEF e, p
  <2>2. Total(e, Bindings) = 0 /\ (\A t \in Tiers : Total(e, Members(t)) = 0) /\ Total(p, Tiers) = 0
    BY <2>1, FreshTotals
  <2>3. QED
    BY <2>1, <2>2 DEF RemoteAgrees, TotalOf, e, p
<1>5. KnownTypes'
  BY BindingsFinite, FS_CardinalityType DEF KnownTypes, Replaced, Register
<1>6. UnknownAgrees'
  <2>1. \A t \in Tiers : Unknown(t)' = Members(t)
    BY DEF Unknown, Members, Replaced, Register
  <2>2. QED
    BY <2>1 DEF UnknownAgrees, Replaced, Register
<1>7. PICK left \in SUBSET {b \in Bindings : session[b]} :
         /\ session' = [b \in Bindings |-> b \in left]
         /\ capacity' = [b \in Bindings |-> IF b \in left THEN capacity[b] ELSE 0]
  BY DEF Replaced
<1>8. LoopTypes' /\ BrokerTypes'
  <2>1. session' \in [Bindings -> BOOLEAN] /\ capacity' \in [Bindings -> Nat]
    BY <1>0, <1>7 DEF BrokerTypes
  <2>2. crashes' \in 0..MaxCrashes /\ quiet' \in BOOLEAN
    BY <1>0, AllocatorAssumption DEF BrokerTypes, Replaced
  <2>3. QED
    BY <2>1, <2>2, NoPollType DEF LoopTypes, BrokerTypes, Polls, Replaced
<1>9. SessionInv'
  BY <1>7 DEF SessionInv, SessionOf, Replaced, Register
<1>10. ExposureInv'
  <2>1. ASSUME NEW b \in Bindings
        PROVE  /\ capacity'[b] <= Greater(capacity[b], EffectivePublished(b))
               /\ EffectivePublished(b)' <= Greater(capacity[b], EffectivePublished(b))
    <3>1. capacity[b] \in Nat /\ EffectivePublished(b) \in Nat
      BY <1>0, ExposureType
    <3>2. capacity'[b] \in {0, capacity[b]} /\ EffectivePublished(b)' = 0
      BY <1>3, <1>7
    <3>3. QED
      BY <3>1, <3>2 DEF Greater
  <2>2. QED
    BY <1>0, <1>3, <1>8, <2>1, ExposureStep
<1>11. PlanIsCurrent'
  BY PlanDropped DEF Replaced
<1>12. QED
  BY <1>1, <1>2, <1>3, <1>4, <1>5, <1>6, <1>8, <1>9, <1>10, <1>11
     DEF AllocatorInv, BookTypes, TotalsInv

-----------------------------------------------------------------------------
(* The announcement: the one step that raises what is at risk *)

\* A publication is clamped to what the limits leave when every other binding's
\* capacity is counted (clampPublished).
LEMMA ClampType ==
  ASSUME AllocatorInv, NEW b \in Bindings, NEW desired \in Nat
  PROVE  /\ ClampPublished(b, desired) \in Nat /\ ClampPublished(b, desired) <= desired
         /\ ClampPublished(b, desired) > 0 =>
              /\ poolRemote[TierOf[b]] - EffectivePublished(b) + ClampPublished(b, desired) <= Parallelism[TierOf[b]]
              /\ Global > 0 => TotalOf(poolRemote) - EffectivePublished(b) + ClampPublished(b, desired) <= Global
<1>1. EffectivePublished(b) \in Nat /\ poolRemote[TierOf[b]] \in Int /\ TierOf[b] \in Tiers
  BY EffectiveType, TierOfBinding DEF AllocatorInv, BookTypes, RemoteTypes
<1>2. Parallelism[TierOf[b]] \in Nat /\ Global \in Nat
  BY <1>1, PlanAssumption
<1>3. TotalOf(poolRemote) \in Int
  BY TiersFinite, TotalInt DEF TotalOf, AllocatorInv, BookTypes, RemoteTypes
<1>4. QED
  BY <1>1, <1>2, <1>3 DEF ClampPublished, Lesser, Greater

\* Where every session is known the books are the exposure.
LEMMA ExposureIsEffective ==
  ASSUME AllocatorInv, NEW S \in SUBSET Bindings, \A c \in S : known[c]
  PROVE  Total(Exposure, S) = Total(Effective, S)
<1>1. IsFiniteSet(S)
  BY BindingsFinite, FS_Subset
<1>2. ASSUME NEW c \in S PROVE Exposure[c] \in Int /\ Exposure[c] = Effective[c]
  <2>1. capacity[c] <= EffectivePublished(c)
    BY DEF AllocatorInv, SessionInv, SessionOf
  <2>2. /\ Exposure[c] = Greater(capacity[c], EffectivePublished(c)) /\ Effective[c] = EffectivePublished(c)
        /\ capacity[c] \in Nat /\ EffectivePublished(c) \in Nat
    BY ExposureType, EffectiveType DEF AllocatorInv, BookTypes
  <2>3. QED
    BY <2>1, <2>2 DEF Greater
<1>3. QED
  BY <1>1, <1>2, TotalSame

\* A publication may raise its own binding's exposure, and the clamp keeps the
\* sum within the limits.
LEMMA RaisedExposure ==
  ASSUME AllocatorInv, NEW b \in Bindings, NEW n \in Nat, n > EffectivePublished(b),
         known[b], RemoteStateKnown(b), RemoteTypes', BrokerTypes',
         EffectivePublished(b)' = n, capacity' = capacity,
         \A c \in Bindings \ {b} : EffectivePublished(c)' = EffectivePublished(c),
         poolRemote[TierOf[b]] - EffectivePublished(b) + n <= Parallelism[TierOf[b]],
         Global > 0 => TotalOf(poolRemote) - EffectivePublished(b) + n <= Global
  PROVE  ExposureInv'
<1>0. /\ RemoteTypes /\ BrokerTypes /\ ExposureInv /\ SessionOf(b) /\ KnownTypes /\ UnknownAgrees
      /\ \A t \in Tiers : poolRemote[t] = Total(Effective, Members(t))
      /\ TotalOf(poolRemote) = Total(Effective, Bindings)
  BY DEF AllocatorInv, BookTypes, SessionInv, TotalsInv, RemoteAgrees
<1>1. /\ Exposure \in [Bindings -> Nat]
      /\ \A c \in Bindings : Exposure[c] = Greater(capacity[c], EffectivePublished(c))
      /\ capacity[b] \in Nat /\ EffectivePublished(b) \in Nat
  BY <1>0, ExposureType
<1> DEFINE g == Exposure'
<1>2. g \in [Bindings -> Nat] /\ \A c \in Bindings : g[c] = Greater(capacity[c], EffectivePublished(c)')
  BY DEF RemoteTypes, BrokerTypes, Exposure, EffectivePublished, Greater, NoPending
<1>3. Exposure[b] = EffectivePublished(b) /\ g[b] = n
  BY <1>0, <1>1, <1>2 DEF SessionOf, Greater
<1>4. \A c \in Bindings \ {b} : Exposure[c] = g[c]
  BY <1>1, <1>2
<1> HIDE DEF g
<1>5. ASSUME NEW S \in SUBSET Bindings, b \in S
      PROVE  Total(g, S) = Total(Exposure, S) - EffectivePublished(b) + n /\ Total(Exposure, S) \in Int
  <2>1. IsFiniteSet(S)
    BY BindingsFinite, FS_Subset
  <2>2. Total(g, S) = Total(Exposure, S) + g[b] - Exposure[b]
    BY <1>1, <1>2, <1>4, <1>5, <2>1, TotalUpdate
  <2>3. Total(Exposure, S) \in Int
    BY <1>1, <2>1, TotalInt
  <2>4. QED
    BY <1>1, <1>3, <2>2, <2>3
<1>6. /\ \A c \in Members(TierOf[b]) : known[c]
      /\ Global > 0 => \A c \in Bindings : known[c]
  BY <1>0, KnownAll
<1>7. ASSUME NEW t \in Tiers PROVE Total(g, Members(t)) <= Parallelism[t]
  <2>1. Members(t) \subseteq Bindings /\ IsFiniteSet(Members(t))
    BY BindingsFinite
  <2>2. CASE t = TierOf[b]
    <3>1. b \in Members(t)
      BY <2>2, TierOfBinding
    <3>2. Total(Exposure, Members(t)) = poolRemote[t]
      BY <1>0, <1>6, <2>1, <2>2, ExposureIsEffective
    <3>3. Total(g, Members(t)) = Total(Exposure, Members(t)) - EffectivePublished(b) + n
      BY <1>5, <2>1, <3>1
    <3>4. QED
      BY <2>2, <3>2, <3>3
  <2>3. CASE t # TierOf[b]
    <3>1. b \notin Members(t)
      BY <2>3 DEF Members
    <3>2. Total(Exposure, Members(t)) = Total(g, Members(t))
      BY <1>1, <1>4, <2>1, <3>1, TotalSame
    <3>3. QED
      BY <1>0, <3>2 DEF ExposureInv, WithinLimits
  <2>4. QED
    BY <2>2, <2>3
<1>8. ASSUME Global > 0 PROVE Total(g, Bindings) <= Global
  <2>1. Total(Exposure, Bindings) = TotalOf(poolRemote)
    BY <1>0, <1>6, <1>8, ExposureIsEffective
  <2>2. Total(g, Bindings) = Total(Exposure, Bindings) - EffectivePublished(b) + n
    BY <1>5
  <2>3. QED
    BY <1>8, <2>1, <2>2
<1>9. WithinLimits(g)
  BY <1>7, <1>8 DEF WithinLimits
<1>10. QED
  BY <1>9 DEF ExposureInv, WithinLimits, g

\* A poll begins with a clamped capacity, reserved before it is sent
\* (BeginPoll).
LEMMA BeginPollKeeps ==
  ASSUME AllocatorInv, NEW b \in Bindings, BeginPoll(b) PROVE AllocatorInv'
<1>0. /\ RemoteTypes /\ RemoteAgrees /\ KnownTypes /\ UnknownAgrees /\ LoopTypes /\ BrokerTypes /\ SessionOf(b)
      /\ InputTypes /\ ActiveTypes /\ ActiveAgrees /\ PlanIsCurrent
  BY DEF AllocatorInv, BookTypes, TotalsInv, SessionInv, InputTypes
<1>1. CurrentPlan \in [Bindings -> Nat] /\ CurrentPlan = BuildPlan(active, demand, held, cursor)
  BY CurrentPlanType
<1> DEFINE desired == IF RemoteStateKnown(b) THEN CurrentPlan[b] ELSE 0
           n == ClampPublished(b, desired)
           p == [capacity |-> n, discovery |-> DiscoveryAnnouncement(b, n),
                 current |-> DiscoveryAnnouncement(b, n)]
<1>2. desired \in Nat
  BY <1>1
<1>3. /\ pc[b] = "open" /\ pending[b] = NoPending
      /\ plan' = (IF RemoteStateKnown(b) THEN CurrentPlan ELSE plan)
      /\ ChangeRemoteCapacity(b, published[b], n)
      /\ poll' = [poll EXCEPT ![b] = p] /\ Step(b, "sent")
      /\ UNCHANGED <<active, demand, held, known, poolActive, poolUnknown, cursor, broker, crashes, quiet>>
  BY DEF BeginPoll
<1>4. /\ n \in Nat /\ n <= desired
      /\ n > 0 => /\ poolRemote[TierOf[b]] - EffectivePublished(b) + n <= Parallelism[TierOf[b]]
                  /\ Global > 0 => TotalOf(poolRemote) - EffectivePublished(b) + n <= Global
  <2> HIDE DEF desired
  <2>1. QED
    BY <1>2, ClampType
<1>5. n > 0 => RemoteStateKnown(b)
  BY <1>4
<1>6. p \in Polls /\ p.capacity = n
  BY <1>4 DEF Polls, DiscoveryAnnouncement
<1> HIDE DEF n, desired, p
<1>7. published[b] \in Nat /\ EffectivePublished(b) = published[b]
  BY <1>0, <1>3 DEF RemoteTypes, EffectivePublished, Greater, NoPending
<1>8. RemoteTypes' /\ RemoteAgrees'
  <2>1. n \in Nat \cup {NoPending}
    BY <1>4
  <2>2. QED
    BY <1>0, <1>3, <1>7, <2>1, RemoteStep
<1>9. /\ EffectivePublished(b)' = Greater(published[b], n) /\ pending'[b] = n
      /\ \A c \in Bindings \ {b} : published'[c] = published[c] /\ pending'[c] = pending[c]
  BY <1>0, <1>3 DEF ChangeRemoteCapacity, RemoteTypes, EffectivePublished
<1>10. KnownTypes' /\ UnknownAgrees' /\ ActiveTypes' /\ ActiveAgrees'
  BY <1>0, <1>3, KnownKept, ActiveKept
<1>11. InputTypes' /\ LoopTypes' /\ BrokerTypes'
  <2>1. InputTypes'
    BY <1>0, <1>1, <1>3, <1>10 DEF InputTypes, CursorType
  <2>2. LoopTypes'
    BY <1>0, <1>3, <1>6 DEF LoopTypes, Polls, Step
  <2>3. BrokerTypes'
    BY <1>0, <1>3 DEF BrokerTypes, broker
  <2>4. QED
    BY <2>1, <2>2, <2>3
<1>12. PlanIsCurrent'
  BY <1>0, <1>1, <1>3 DEF PlanIsCurrent
<1>13. \A c \in Bindings \ {b} : Untouched(c)
  BY <1>0, <1>3, <1>9 DEF Untouched, Step, broker, LoopTypes
<1>14. pc'[b] = "sent" /\ poll'[b].capacity = n /\ known[b] /\ capacity[b] <= published[b] /\ capacity[b] \in Nat
  BY <1>0, <1>3, <1>6, <1>7 DEF LoopTypes, Step, SessionOf, BrokerTypes
<1>15. SessionOf(b)'
  BY <1>0, <1>3, <1>4, <1>7, <1>9, <1>14 DEF SessionOf, broker, Greater
<1>16. ExposureInv'
  <2>1. CASE n <= published[b]
    <3>1. /\ capacity'[b] <= Greater(capacity[b], EffectivePublished(b))
          /\ EffectivePublished(b)' <= Greater(capacity[b], EffectivePublished(b))
      BY <1>3, <1>4, <1>7, <1>9, <1>14, <2>1 DEF Greater, broker
    <3>2. QED
      BY <1>8, <1>11, <1>13, <3>1, OneExposureStep
  <2>2. CASE n > published[b]
    <3>1. EffectivePublished(b)' = n /\ n > EffectivePublished(b) /\ n > 0
      BY <1>4, <1>7, <1>9, <2>2 DEF Greater
    <3>2. \A c \in Bindings \ {b} : EffectivePublished(c)' = EffectivePublished(c)
      BY <1>9 DEF EffectivePublished
    <3>3. capacity' = capacity
      BY <1>3 DEF broker
    <3>4. QED
      BY <1>4, <1>5, <1>8, <1>11, <1>14, <3>1, <3>2, <3>3, RaisedExposure
  <2>3. QED
    BY <1>4, <1>7, <2>1, <2>2
<1>17. QED
  BY <1>8, <1>10, <1>11, <1>12, <1>13, <1>15, <1>16, LoopStepKeeps

-----------------------------------------------------------------------------
(* The theorems *)

\* Every step of the allocator, of a binding's loop and of the broker.
LEMMA AllocatorNextInv == AllocatorInv /\ [AllocatorNext]_allocatorVars => AllocatorInv'
<1> SUFFICES ASSUME AllocatorInv, [AllocatorNext]_allocatorVars PROVE AllocatorInv'
  OBVIOUS
<1>1. ASSUME NEW b \in Bindings, Loop(b) PROVE AllocatorInv'
  <2>1. ASSUME NEW n \in 0..MaxDemand, OpenSession(b, n) PROVE AllocatorInv'
    BY <2>1, OpenSessionKeeps
  <2>2. ASSUME NEW n \in 0..MaxDemand, PollAnswered(b, n) PROVE AllocatorInv'
    BY <2>2, PollAnsweredKeeps
  <2>3. CASE BeginPoll(b)
    BY <2>3, BeginPollKeeps
  <2>4. CASE PollReaches(b)
    BY <2>4, PollReachesKeeps
  <2>5. CASE PollEmpty(b)
    BY <2>5, PollEmptyKeeps
  <2>6. ASSUME NEW next \in {"open", "spent"}, PollFails(b, next) PROVE AllocatorInv'
    BY <2>6, PollFailsKeeps
  <2>7. ASSUME NEW confirmed \in BOOLEAN, DiscardSession(b, confirmed) PROVE AllocatorInv'
    BY <2>7, DiscardSessionKeeps
  <2>8. QED
    BY <1>1, <2>1, <2>2, <2>3, <2>4, <2>5, <2>6, <2>7 DEF Loop
<1>2. ASSUME NEW b \in Bindings, SessionExpires(b) PROVE AllocatorInv'
  BY <1>2, SessionExpiresKeeps
<1>3. ASSUME NEW b \in Bindings, TryReserve(b) PROVE AllocatorInv'
  BY <1>3, TryReserveKeeps
<1>4. ASSUME NEW b \in Bindings, Release(b) PROVE AllocatorInv'
  BY <1>4, ReleaseKeeps
<1>5. ASSUME NEW h \in BOOLEAN, Hold(h) PROVE AllocatorInv'
  BY <1>5, HoldKeeps
<1>6. CASE ReadPlan
  BY <1>6, ReadPlanKeeps
<1>7. CASE Replaced
  BY <1>7, ReplacedKeeps
<1>8. CASE FallsQuiet
  BY <1>8, FallsQuietKeeps
<1>9. CASE UNCHANGED allocatorVars
  <2>1. /\ UNCHANGED <<active, demand, held, cursor, plan, poolActive>>
        /\ UNCHANGED <<published, pending, poolRemote>> /\ UNCHANGED <<known, poolUnknown>>
        /\ UNCHANGED <<pc, poll>> /\ UNCHANGED <<session, capacity, crashes, quiet>>
    BY <1>9 DEF allocatorVars, books, broker
  <2>2. InputTypes' /\ ActiveAgrees' /\ PlanIsCurrent'
    BY <2>1, PlanLeftAlone
  <2>3. RemoteTypes' /\ RemoteAgrees' /\ KnownTypes' /\ UnknownAgrees' /\ ExposureInv'
    BY <2>1, RemoteKept, KnownKept, ExposureKept DEF AllocatorInv, BookTypes, TotalsInv
  <2>4. LoopTypes' /\ BrokerTypes'
    BY <2>1 DEF AllocatorInv, BookTypes, LoopTypes, BrokerTypes
  <2>5. SessionInv'
    BY <2>1, SessionKept DEF AllocatorInv, SessionInv, Untouched
  <2>6. QED
    BY <2>2, <2>3, <2>4, <2>5 DEF AllocatorInv, BookTypes, TotalsInv
<1>10. QED
  BY <1>1, <1>2, <1>3, <1>4, <1>5, <1>6, <1>7, <1>8, <1>9 DEF AllocatorNext

\* The invariant of the books holds for any bindings, tiers and limits.
THEOREM AllocatorInvariant == AllocatorSpec => []AllocatorInv
<1>1. AllocatorInit => AllocatorInv
  BY AllocatorInitInv
<1>2. AllocatorInv /\ [AllocatorNext]_allocatorVars => AllocatorInv'
  BY AllocatorNextInv
<1>3. QED
  BY <1>1, <1>2, PTL DEF AllocatorSpec

\* The type invariant of the books: the pools' running totals are never
\* negative, whatever is adopted, released and replaced.
THEOREM AllocatorTypes == AllocatorSpec => []AllocatorTypeOK
<1>1. AllocatorInv => AllocatorTypeOK
  <2> SUFFICES ASSUME AllocatorInv PROVE AllocatorTypeOK
    OBVIOUS
  <2>1. poolActive \in [Tiers -> Nat]
    <3>1. \A t \in Tiers : poolActive[t] \in Nat
      BY BindingsFinite, TotalNat DEF AllocatorInv, BookTypes, InputTypes, ActiveTypes, TotalsInv, ActiveAgrees
    <3>2. QED
      BY <3>1 DEF AllocatorInv, BookTypes, InputTypes, ActiveTypes
  <2>2. poolRemote \in [Tiers -> Nat]
    <3>1. Effective \in [Bindings -> Nat]
      BY EffectiveType DEF AllocatorInv, BookTypes
    <3>2. \A t \in Tiers : Total(Effective, Members(t)) \in Nat
      BY <3>1, BindingsFinite, TotalNat
    <3>3. QED
      BY <3>2 DEF AllocatorInv, BookTypes, RemoteTypes, TotalsInv, RemoteAgrees
  <2>3. poolUnknown \in [Tiers -> Nat]
    BY UnknownFinite DEF AllocatorInv, BookTypes, KnownTypes, TotalsInv, UnknownAgrees
  <2>4. QED
    BY <2>1, <2>2, <2>3
       DEF AllocatorTypeOK, AllocatorInv, BookTypes, InputTypes, ActiveTypes, CursorType, RemoteTypes,
           KnownTypes, LoopTypes, BrokerTypes
<1>2. QED
  BY <1>1, AllocatorInvariant, PTL

\* The books agree with the broker's sessions, with their own totals and with
\* the plan published from them, after any sequence of calls, lost answers and
\* replaced controllers (CompletePoll, SessionClosed, changeRemoteCapacity,
\* invalidatePlan).
THEOREM BooksStayTrue == AllocatorSpec => []BooksAgree
<1>1. AllocatorInv => BooksAgree
  BY DEF AllocatorInv, BooksAgree, BooksCoverBroker, TotalsAgree, SessionInv, SessionOf, TotalsInv,
         RemoteAgrees, UnknownAgrees, ActiveAgrees, Effective, Unknown
<1>2. QED
  BY <1>1, AllocatorInvariant, PTL

\* No two sessions spend one credit: what the broker may act on, over all
\* sessions of all processes, stays within the tier's limit and the instance's
\* (clampPublished, CompletePoll, SessionClosed, Register).
THEOREM RemoteCapacityIsBounded == AllocatorSpec => []RemoteWithinLimits
<1>1. AllocatorInv => RemoteWithinLimits
  <2> SUFFICES ASSUME AllocatorInv PROVE RemoteWithinLimits
    OBVIOUS
  <2>1. /\ Exposure \in [Bindings -> Nat] /\ capacity \in [Bindings -> Nat]
        /\ \A b \in Bindings : capacity[b] <= Exposure[b]
    BY ExposureType DEF AllocatorInv, BookTypes, BrokerTypes, Greater
  <2>2. WithinLimits(capacity)
    BY <2>1, LessIsWithin DEF AllocatorInv, ExposureInv
  <2>3. QED
    BY <2>2 DEF WithinLimits, RemoteWithinLimits
<1>2. QED
  BY <1>1, AllocatorInvariant, PTL

\* Whatever the loops, the scheduler, the disk monitor and a crash do: a plan
\* that is read is fair and within the limits (buildPlan, invalidatePlan).
THEOREM PlansStayFair == AllocatorSpec => []PlanIsFair
<1>1. AllocatorInv => PlanIsFair
  <2> SUFFICES ASSUME AllocatorInv, plan # NoPlan PROVE FairPlan(plan, active, demand, held)
    BY DEF PlanIsFair
  <2>1. plan = BuildPlan(active, demand, held, cursor)
    BY DEF AllocatorInv, PlanIsCurrent
  <2>2. active \in [Bindings -> Nat] /\ demand \in [Bindings -> Nat] /\ held \in BOOLEAN
    BY AllocatorAssumption DEF AllocatorInv, BookTypes, InputTypes, ActiveTypes
  <2>3. QED
    BY <2>1, <2>2, PlansAreFair
<1>2. QED
  BY <1>1, AllocatorInvariant, PTL
=============================================================================
