--------------------------- MODULE Store_proofs ----------------------------
(***************************************************************************)
(* Theorems about what the store keeps of an attempt and of the caches:    *)
(* AttemptTrail, for any number of servings and decisions, and CacheLanes, *)
(* for any jobs, pools, lanes and sizes.                                   *)
(***************************************************************************)
EXTENDS MCBooks, Allocator_proofs, SequenceTheorems

-----------------------------------------------------------------------------
(***************************************************************************)
(* AttemptTrail                                                            *)
(***************************************************************************)

\* An event added to the trail.
LEMMA AppendFacts ==
  ASSUME NEW t \in Seq(Decisions), NEW key \in Decisions
  PROVE  /\ Append(t, key) \in Seq(Decisions) /\ Len(t) \in Nat /\ Len(Append(t, key)) = Len(t) + 1
         /\ DOMAIN t = 1..Len(t) /\ DOMAIN Append(t, key) = 1..(Len(t) + 1)
         /\ \A i \in 1..Len(t) : Append(t, key)[i] = t[i] /\ t[i] \in Decisions
         /\ Append(t, key)[Len(t) + 1] = key
OBVIOUS

\* A key is a pair that begins with the kind of its event.
LEMMA DecisionHeads ==
  ASSUME NEW key \in Decisions
  PROVE  /\ key = <<key[1], key[2]>> /\ key[1] \in EventHeads
         /\ key[1] \in PerServing => key[2] \in TrailLeases
         /\ key[1] \in Repeatable => key[2] \in Nat
         /\ key[1] \in OnceOnly => key[2] = "-"
BY DEF Decisions, EventHeads, PerServing, Repeatable, OnceOnly

\* How often a decision is in the trail is a natural number.
LEMMA CountType ==
  ASSUME NEW t \in Seq(Decisions), NEW n \in 0..Len(t), NEW h
  PROVE  /\ CountTo(t, n, h) \in Nat /\ IsFiniteSet({i \in 1..n : t[i][1] = h})
         /\ CountOf(t, h) = CountTo(t, Len(t), h)
<1>1. Len(t) \in Nat /\ DOMAIN t = 1..Len(t)
  OBVIOUS
<1>2. IsFiniteSet(1..n)
  BY <1>1, FS_Interval
<1>3. IsFiniteSet({i \in 1..n : t[i][1] = h})
  BY <1>2, FS_Subset
<1>4. CountOf(t, h) = CountTo(t, Len(t), h)
  BY <1>1 DEF CountOf, CountTo
<1>5. QED
  BY <1>3, <1>4, FS_CardinalityType DEF CountTo

\* What was counted stays counted, and the new event is counted once.
LEMMA AppendCounts ==
  ASSUME NEW t \in Seq(Decisions), NEW key \in Decisions, NEW h
  PROVE  /\ \A n \in 0..Len(t) : CountTo(Append(t, key), n, h) = CountTo(t, n, h)
         /\ CountOf(Append(t, key), h) = CountOf(t, h) + (IF key[1] = h THEN 1 ELSE 0)
         /\ CountOf(t, h) \in Nat
<1> DEFINE u == Append(t, key)
           N == Len(t)
           A == {i \in 1..N : t[i][1] = h}
           B == {i \in 1..(N + 1) : u[i][1] = h}
<1>1. /\ u \in Seq(Decisions) /\ N \in Nat /\ Len(u) = N + 1 /\ u[N + 1] = key
      /\ \A i \in 1..N : u[i] = t[i]
  BY AppendFacts
<1> HIDE DEF u, N
<1>2. ASSUME NEW n \in 0..N PROVE CountTo(u, n, h) = CountTo(t, n, h)
  <2>1. {i \in 1..n : u[i][1] = h} = {i \in 1..n : t[i][1] = h}
    BY <1>1
  <2>2. QED
    BY <2>1 DEF CountTo
<1>3. CountOf(t, h) = Cardinality(A) /\ CountOf(u, h) = Cardinality(B)
  <2>1. N \in 0..Len(t) /\ N = Len(t) /\ N + 1 \in 0..Len(u)
    BY <1>1 DEF N
  <2>2. CountOf(t, h) = CountTo(t, N, h) /\ CountOf(u, h) = CountTo(u, N + 1, h)
    BY <1>1, <2>1, CountType
  <2>3. QED
    BY <2>2 DEF CountTo
<1>4. IsFiniteSet(A) /\ Cardinality(A) \in Nat
  <2>1. N \in 0..Len(t) /\ N = Len(t)
    BY <1>1 DEF N
  <2>2. QED
    BY <2>1, CountType, FS_CardinalityType
<1>5. CASE key[1] = h
  <2>1. B = A \cup {N + 1} /\ N + 1 \notin A
    BY <1>1, <1>5
  <2> HIDE DEF A, B
  <2>2. Cardinality(B) = Cardinality(A) + 1
    BY <1>4, <2>1, FS_AddElement
  <2>3. QED
    BY <1>2, <1>3, <1>4, <1>5, <2>2 DEF u, N
<1>6. CASE key[1] # h
  <2>1. B = A
    BY <1>1, <1>6
  <2> HIDE DEF A, B
  <2>2. QED
    BY <1>2, <1>3, <1>4, <1>6, <2>1 DEF u, N
<1>7. QED
  BY <1>5, <1>6

-----------------------------------------------------------------------------
(* What a trail keeps when an event is added *)

\* As many events as facts, no key twice, and a counted key below its count.
Kept(t, m) ==
  /\ \A h \in EventHeads : CountOf(t, h) = m[h]
  /\ \A i, j \in DOMAIN t : t[i] = t[j] => i = j
  /\ \A i \in DOMAIN t : t[i][1] \in Repeatable => t[i][2] < CountOf(t, t[i][1])

\* Facts of these kinds are committed, as Commits does.
Bump(m, heads) == [h \in EventHeads |-> IF h \in heads THEN m[h] + 1 ELSE m[h]]

\* A key with a count carries the number of the events of its kind so far.
Counts(t, key) == key[1] \in Repeatable => key[2] = CountOf(t, key[1])

\* An event with a new key records one more fact of its kind.
LEMMA KeptAppend ==
  ASSUME NEW t \in Seq(Decisions), NEW key \in Decisions, NEW m \in [EventHeads -> Nat],
         Kept(t, m), ~KeyHeld(t, key), Counts(t, key)
  PROVE  Kept(Append(t, key), Bump(m, {key[1]}))
<1> DEFINE u == Append(t, key)
           N == Len(t)
<1>1. /\ N \in Nat /\ DOMAIN t = 1..N /\ DOMAIN u = 1..(N + 1) /\ u[N + 1] = key
      /\ \A i \in 1..N : u[i] = t[i] /\ t[i] \in Decisions
  BY AppendFacts
<1>2. \A h : CountOf(u, h) = CountOf(t, h) + (IF key[1] = h THEN 1 ELSE 0) /\ CountOf(t, h) \in Nat
  BY AppendCounts
<1> HIDE DEF u, N
<1>3. \A h \in EventHeads : CountOf(u, h) = Bump(m, {key[1]})[h]
  BY <1>2 DEF Kept, Bump
<1>4. ASSUME NEW i \in DOMAIN u, NEW j \in DOMAIN u, u[i] = u[j] PROVE i = j
  BY <1>1, <1>4 DEF Kept, KeyHeld
<1>5. ASSUME NEW i \in DOMAIN u, u[i][1] \in Repeatable PROVE u[i][2] < CountOf(u, u[i][1])
  <2>1. CASE i = N + 1
    BY <1>1, <1>2, <1>5, <2>1 DEF Counts
  <2>2. CASE i # N + 1
    <3>1. i \in DOMAIN t /\ u[i] = t[i] /\ t[i] \in Decisions
      BY <1>1, <2>2
    <3>2. t[i][2] < CountOf(t, t[i][1]) /\ t[i][2] \in Nat
      BY <1>5, <3>1, DecisionHeads DEF Kept
    <3>3. QED
      BY <1>2, <3>1, <3>2
  <2>3. QED
    BY <2>1, <2>2
<1>6. QED
  BY <1>3, <1>4, <1>5 DEF Kept, u

\* A counted key is a new one.
LEMMA CountedKeyIsNew ==
  ASSUME NEW t \in Seq(Decisions), NEW m, Kept(t, m), NEW h \in Repeatable
  PROVE  <<h, CountOf(t, h)>> \in Decisions /\ ~KeyHeld(t, <<h, CountOf(t, h)>>)
<1>1. CountOf(t, h) \in Nat
  <2>1. Len(t) \in 0..Len(t)
    OBVIOUS
  <2>2. QED
    BY <2>1, CountType
<1>2. <<h, CountOf(t, h)>> \in Decisions
  BY <1>1 DEF Decisions
<1>3. ASSUME NEW i \in DOMAIN t, t[i] = <<h, CountOf(t, h)>> PROVE FALSE
  <2>1. t[i][1] = h /\ t[i][2] = CountOf(t, h)
    BY <1>3
  <2>2. t[i][2] < CountOf(t, h)
    BY <2>1 DEF Kept
  <2>3. QED
    BY <1>1, <2>1, <2>2
<1>4. QED
  BY <1>2, <1>3 DEF KeyHeld

\* Holds and the decisions that end them take turns.
Alternates(t) == \A n \in 0..Len(t) : Undecided(t, n) \in {0, 1}

\* A hold may follow when none is undecided, a decision when one is.
LEMMA ReviewAppend ==
  ASSUME NEW t \in Seq(Decisions), NEW key \in Decisions, Alternates(t),
         key[1] = "manual_review_requested" => Undecided(t, Len(t)) = 0,
         key[1] = "operator_resolved" => Undecided(t, Len(t)) = 1
  PROVE  LET u == Append(t, key)
         IN  /\ Alternates(u)
             /\ Undecided(u, Len(u)) = IF key[1] = "manual_review_requested" THEN 1
                                       ELSE IF key[1] = "operator_resolved" THEN 0
                                       ELSE Undecided(t, Len(t))
<1> DEFINE u == Append(t, key)
           N == Len(t)
           hold == "manual_review_requested"
           decide == "operator_resolved"
<1>1. u \in Seq(Decisions) /\ N \in Nat /\ Len(u) = N + 1
  BY AppendFacts
<1>2. ASSUME NEW h
      PROVE  /\ \A n \in 0..N : CountTo(u, n, h) = CountTo(t, n, h)
             /\ CountTo(u, N + 1, h) = CountTo(t, N, h) + (IF key[1] = h THEN 1 ELSE 0)
             /\ CountTo(t, N, h) \in Nat
  <2>1. N \in 0..Len(t) /\ N + 1 \in 0..Len(u)
    BY <1>1
  <2>2. CountOf(t, h) = CountTo(t, N, h) /\ CountOf(u, h) = CountTo(u, Len(u), h)
    BY <1>1, <2>1, CountType
  <2> HIDE DEF u
  <2>3. QED
    BY <1>1, <2>2, AppendCounts DEF u
<1> HIDE DEF u, N
<1>3. \A n \in 0..N : Undecided(u, n) = Undecided(t, n)
  BY <1>2 DEF Undecided
<1>4. /\ Undecided(u, N + 1) = Undecided(t, N) + (IF key[1] = hold THEN 1 ELSE 0) - (IF key[1] = decide THEN 1 ELSE 0)
      /\ Undecided(t, N) \in Int
  BY <1>2 DEF Undecided
<1>5. Undecided(t, N) \in {0, 1} /\ \A n \in 0..N : Undecided(t, n) \in {0, 1}
  BY <1>1 DEF Alternates, N
<1>6. Undecided(u, N + 1) = IF key[1] = hold THEN 1 ELSE IF key[1] = decide THEN 0 ELSE Undecided(t, N)
  BY <1>4, <1>5 DEF N
<1>7. \A n \in 0..(N + 1) : Undecided(u, n) \in {0, 1}
  <2>1. ASSUME NEW n \in 0..(N + 1) PROVE Undecided(u, n) \in {0, 1}
    <3>1. CASE n = N + 1
      BY <1>5, <1>6, <3>1
    <3>2. CASE n # N + 1
      <4>1. n \in 0..N
        BY <1>1, <3>2
      <4>2. QED
        BY <1>3, <1>5, <4>1
    <3>3. QED
      BY <3>1, <3>2
  <2>2. QED
    BY <2>1
<1>8. QED
  BY <1>1, <1>6, <1>7 DEF Alternates, u, N

\* One serving at a time, as ServingsDoNotOverlap says of the trail.
OneByOne(t) ==
  \A j \in DOMAIN t :
    /\ t[j][1] = "lease_attached" =>
         \A i \in 1..(j - 1) : t[i][1] = "lease_attached" =>
           \E k \in i..j : t[k] = <<"cleanup_completed", t[i][2]>>
    /\ t[j][1] = "cleanup_completed" => \E i \in 1..j : t[i] = <<"lease_attached", t[j][2]>>

\* The trail names the leases the rows name.
NamesLeases(t, live, ended) ==
  /\ \A i \in DOMAIN t : t[i][1] = "lease_attached" => t[i][2] \in live \cup ended
  /\ \A i \in DOMAIN t : t[i][1] = "cleanup_completed" => t[i][2] \in ended
  /\ \A l \in live \cup ended : KeyHeld(t, <<"lease_attached", l>>)
  /\ \A l \in ended : KeyHeld(t, <<"cleanup_completed", l>>)

\* What every event of a serving must find: a lease attached when none is
\* live, or a cleanup of one that is.
Serves(key, live, ended, live2, ended2) ==
  CASE key[1] = "lease_attached" -> live = {} /\ key[2] \notin ended /\ live2 = {key[2]} /\ ended2 = ended
    [] key[1] = "cleanup_completed" -> key[2] \in live /\ live2 = live \ {key[2]} /\ ended2 = ended \cup {key[2]}
    [] OTHER -> live2 = live /\ ended2 = ended

\* A key that was held is held, and so is the new one.
LEMMA HeldAfterAppend ==
  ASSUME NEW t \in Seq(Decisions), NEW key \in Decisions
  PROVE  \A x : KeyHeld(Append(t, key), x) <=> KeyHeld(t, x) \/ x = key
<1> DEFINE u == Append(t, key)
           N == Len(t)
<1>1. /\ N \in Nat /\ DOMAIN t = 1..N /\ DOMAIN u = 1..(N + 1) /\ u[N + 1] = key
      /\ \A i \in 1..N : u[i] = t[i]
  BY AppendFacts
<1> HIDE DEF u, N
<1>2. ASSUME NEW x, KeyHeld(u, x) PROVE KeyHeld(t, x) \/ x = key
  BY <1>1, <1>2 DEF KeyHeld
<1>3. ASSUME NEW x, KeyHeld(t, x) \/ x = key PROVE KeyHeld(u, x)
  BY <1>1, <1>3 DEF KeyHeld
<1>4. QED
  BY <1>2, <1>3 DEF u

\* A decision of the serving side keeps the leases in order: one at a time, and
\* every one that ends had begun.
LEMMA ServingAppend ==
  ASSUME NEW t \in Seq(Decisions), NEW key \in Decisions, OneByOne(t),
         \A i, j \in DOMAIN t : t[i] = t[j] => i = j,
         NEW live, NEW ended, NEW live2, NEW ended2, NamesLeases(t, live, ended), live \cap ended = {},
         Serves(key, live, ended, live2, ended2)
  PROVE  OneByOne(Append(t, key)) /\ NamesLeases(Append(t, key), live2, ended2)
<1> DEFINE u == Append(t, key)
           N == Len(t)
           cleaned(i) == <<"cleanup_completed", u[i][2]>>
<1>1. /\ N \in Nat /\ DOMAIN t = 1..N /\ DOMAIN u = 1..(N + 1) /\ u[N + 1] = key
      /\ \A i \in 1..N : u[i] = t[i] /\ t[i] \in Decisions
  BY AppendFacts
<1>2. \A x : KeyHeld(u, x) <=> KeyHeld(t, x) \/ x = key
  BY HeldAfterAppend
<1>3. key = <<key[1], key[2]>>
  BY DecisionHeads
<1> HIDE DEF u, N
<1>4. NamesLeases(u, live2, ended2)
  <2>1. \A i \in DOMAIN u : u[i] = key \/ (i \in DOMAIN t /\ u[i] = t[i])
    BY <1>1
  <2>2. CASE key[1] = "lease_attached"
    <3>1. live = {} /\ live2 = {key[2]} /\ ended2 = ended
      BY <2>2 DEF Serves
    <3>2. QED
      BY <1>2, <1>3, <2>1, <2>2, <3>1 DEF NamesLeases
  <2>3. CASE key[1] = "cleanup_completed"
    <3>1. key[2] \in live /\ live2 = live \ {key[2]} /\ ended2 = ended \cup {key[2]}
      BY <2>3 DEF Serves
    <3>2. QED
      BY <1>2, <1>3, <2>1, <2>3, <3>1 DEF NamesLeases
  <2>4. CASE key[1] \notin {"lease_attached", "cleanup_completed"}
    <3>1. live2 = live /\ ended2 = ended
      BY <2>4 DEF Serves
    <3>2. QED
      BY <1>2, <2>1, <2>4, <3>1 DEF NamesLeases
  <2>5. QED
    BY <2>2, <2>3, <2>4
<1>5. ASSUME NEW j \in DOMAIN u, u[j][1] = "lease_attached", NEW i \in 1..(j - 1), u[i][1] = "lease_attached"
      PROVE  \E k \in i..j : u[k] = cleaned(i)
  <2>1. i \in 1..N /\ u[i] = t[i] /\ i < j
    BY <1>1
  <2>2. CASE j # N + 1
    <3>1. j \in DOMAIN t /\ u[j] = t[j]
      BY <1>1, <2>2
    <3>2. PICK k \in i..j : t[k] = <<"cleanup_completed", t[i][2]>>
      BY <1>5, <2>1, <3>1 DEF OneByOne
    <3>3. k \in 1..N
      BY <1>1, <2>1, <3>1
    <3>4. QED
      BY <1>1, <2>1, <3>2, <3>3
  <2>3. CASE j = N + 1
    <3>1. t[i][2] \in ended
      <4>1. key[1] = "lease_attached"
        BY <1>1, <1>5, <2>3
      <4>2. live = {}
        BY <4>1 DEF Serves
      <4>3. QED
        BY <1>1, <1>5, <2>1, <4>2 DEF NamesLeases
    <3>2. PICK k \in DOMAIN t : t[k] = <<"cleanup_completed", t[i][2]>>
      BY <3>1 DEF NamesLeases, KeyHeld
    <3>3. t[k][1] = "cleanup_completed" /\ t[k][2] = t[i][2]
      BY <3>2
    <3>a. \E a \in 1..k : t[a] = <<"lease_attached", t[k][2]>>
      BY <3>3 DEF OneByOne
    <3>4. PICK a \in 1..k : t[a] = <<"lease_attached", t[i][2]>>
      BY <3>3, <3>a
    <3>5. t[i] = <<"lease_attached", t[i][2]>>
      BY <1>1, <1>5, <2>1, DecisionHeads
    <3>6. a \in DOMAIN t /\ i \in DOMAIN t /\ k \in 1..N
      BY <1>1, <2>1
    <3>7. a = i
      BY <3>4, <3>5, <3>6
    <3>8. k \in i..j /\ u[k] = t[k]
      BY <1>1, <2>1, <2>3, <3>6, <3>7
    <3>9. QED
      BY <2>1, <3>2, <3>8
  <2>4. QED
    BY <2>2, <2>3
<1>6. ASSUME NEW j \in DOMAIN u, u[j][1] = "cleanup_completed"
      PROVE  \E i \in 1..j : u[i] = <<"lease_attached", u[j][2]>>
  <2>1. CASE j # N + 1
    <3>1. j \in DOMAIN t /\ u[j] = t[j]
      BY <1>1, <2>1
    <3>2. PICK i \in 1..j : t[i] = <<"lease_attached", t[j][2]>>
      BY <1>6, <3>1 DEF OneByOne
    <3>3. u[i] = t[i]
      BY <1>1, <3>1
    <3>4. QED
      BY <3>1, <3>2, <3>3
  <2>2. CASE j = N + 1
    <3>1. key[1] = "cleanup_completed" /\ u[j] = key
      BY <1>1, <1>6, <2>2
    <3>2. key[2] \in live
      BY <3>1 DEF Serves
    <3>3. PICK i \in DOMAIN t : t[i] = <<"lease_attached", key[2]>>
      BY <3>2 DEF NamesLeases, KeyHeld
    <3>4. i \in 1..j /\ u[i] = t[i]
      BY <1>1, <2>2
    <3>5. QED
      BY <3>1, <3>3, <3>4
  <2>3. QED
    BY <2>1, <2>2
<1>7. OneByOne(u)
  BY <1>5, <1>6 DEF OneByOne
<1>8. QED
  BY <1>4, <1>7 DEF u

-----------------------------------------------------------------------------
(* The account a trail gives of the facts and of the leases *)

\* How many holds are undecided.
Open(t) == Undecided(t, Len(t))

\* The trail accounts for the facts that were counted and for the leases.
Account(t, m, live, ended) ==
  /\ t \in Seq(Decisions) /\ m \in [EventHeads -> Nat]
  /\ Kept(t, m) /\ Alternates(t) /\ OneByOne(t)
  /\ NamesLeases(t, live, ended) /\ live \cap ended = {}

\* A key may follow: it is new, it counts if it is counted, and a hold and a
\* decision take turns.
MayFollow(t, key) ==
  /\ key \in Decisions /\ ~KeyHeld(t, key) /\ Counts(t, key)
  /\ key[1] = "manual_review_requested" => Open(t) = 0
  /\ key[1] = "operator_resolved" => Open(t) = 1

\* The holds that are undecided after one more event.
OpenAfter(t, key) ==
  IF key[1] = "manual_review_requested" THEN 1 ELSE IF key[1] = "operator_resolved" THEN 0 ELSE Open(t)

\* Who holds a key after one more event.
HeldBy(t, key, u) == \A x : KeyHeld(u, x) <=> KeyHeld(t, x) \/ x = key

\* One event that may follow keeps the account true.
LEMMA Recorded ==
  ASSUME NEW t, NEW m, NEW live, NEW ended, Account(t, m, live, ended),
         NEW key, MayFollow(t, key), NEW live2, NEW ended2, Serves(key, live, ended, live2, ended2)
  PROVE  /\ Account(Append(t, key), Bump(m, {key[1]}), live2, ended2)
         /\ Open(Append(t, key)) = OpenAfter(t, key)
         /\ HeldBy(t, key, Append(t, key)) /\ Append(t, key) # <<>>
<1>0. t \in Seq(Decisions) /\ m \in [EventHeads -> Nat] /\ key \in Decisions
  BY DEF Account, MayFollow
<1>1. Append(t, key) \in Seq(Decisions) /\ Append(t, key) # <<>>
  <2>1. Append(t, key) \in Seq(Decisions) /\ Len(t) \in Nat /\ Len(Append(t, key)) = Len(t) + 1
    BY <1>0, AppendFacts
  <2>2. Len(<<>>) = 0
    OBVIOUS
  <2>3. Len(Append(t, key)) # Len(<<>>)
    BY <2>1, <2>2
  <2>4. QED
    BY <2>1, <2>3
<1>2. Bump(m, {key[1]}) \in [EventHeads -> Nat]
  BY <1>0 DEF Bump
<1>3. Kept(Append(t, key), Bump(m, {key[1]}))
  <2>1. Kept(t, m) /\ ~KeyHeld(t, key) /\ Counts(t, key)
    BY DEF Account, MayFollow
  <2>2. QED
    BY <1>0, <2>1, KeptAppend
<1>4. Alternates(Append(t, key)) /\ Open(Append(t, key)) = OpenAfter(t, key)
  <2>1. /\ Alternates(t)
        /\ key[1] = "manual_review_requested" => Undecided(t, Len(t)) = 0
        /\ key[1] = "operator_resolved" => Undecided(t, Len(t)) = 1
    BY DEF Account, MayFollow, Open
  <2>2. QED
    BY <1>0, <2>1, ReviewAppend DEF Open, OpenAfter
<1>5. OneByOne(Append(t, key)) /\ NamesLeases(Append(t, key), live2, ended2)
  <2>1. /\ OneByOne(t) /\ NamesLeases(t, live, ended) /\ live \cap ended = {}
        /\ \A i, j \in DOMAIN t : t[i] = t[j] => i = j
    BY DEF Account, Kept
  <2>2. QED
    BY <1>0, <2>1, ServingAppend
<1>6. live2 \cap ended2 = {}
  <2>1. live \cap ended = {}
    BY DEF Account
  <2>2. CASE key[1] = "lease_attached"
    BY <2>1, <2>2 DEF Serves
  <2>3. CASE key[1] = "cleanup_completed"
    BY <2>1, <2>3 DEF Serves
  <2>4. CASE key[1] \notin {"lease_attached", "cleanup_completed"}
    BY <2>1, <2>4 DEF Serves
  <2>5. QED
    BY <2>2, <2>3, <2>4
<1>7. HeldBy(t, key, Append(t, key))
  BY <1>0, HeldAfterAppend DEF HeldBy
<1>8. QED
  BY <1>1, <1>2, <1>3, <1>4, <1>5, <1>6, <1>7 DEF Account

\* What the row and the trail say of one another.
RowAgrees(state, t) ==
  /\ state = "manual_review" => Open(t) = 1
  /\ state \notin {"manual_review", "superseded"} => Open(t) = 0
  /\ KeyHeld(t, <<"attempt_settled", "-">>) => state = "settled"
  /\ KeyHeld(t, <<"attempt_superseded", "-">>) => state = "superseded"
  /\ state = "absent" => t = <<>>

\* The leases are numbered in the order they were taken, and one is live at most.
LeasesInOrder(live, ended) ==
  /\ live \in SUBSET TrailLeases /\ ended \in SUBSET TrailLeases
  /\ \A l, m \in live : l = m
  /\ \E n \in Nat : live \cup ended = 1..n

\* The inductive invariant of the trail.
TrailInv ==
  /\ tstate \in AttemptStates /\ tevidence \in Evidence
  /\ Account(trail, made, tlive, tended)
  /\ RowAgrees(tstate, trail)
  /\ LeasesInOrder(tlive, tended)

\* An event about no serving, whose key is new, with its row: one step of the
\* invariant.
LEMMA OneEvent ==
  ASSUME TrailInv, NEW key, MayFollow(trail, key), key[1] \notin PerServing,
         trail' = Append(trail, key), made' = Bump(made, {key[1]}), tlive' = tlive, tended' = tended
  PROVE  /\ Account(trail', made', tlive', tended') /\ LeasesInOrder(tlive', tended')
         /\ Open(trail') = OpenAfter(trail, key) /\ HeldBy(trail, key, trail') /\ trail' # <<>>
<1>1. Serves(key, tlive, tended, tlive, tended)
  BY DEF Serves, PerServing
<1>2. Account(trail, made, tlive, tended) /\ LeasesInOrder(tlive, tended)
  BY DEF TrailInv
<1> HIDE DEF Serves, MayFollow, Account, HeldBy, OpenAfter, Open, Bump
<1>3. /\ Account(Append(trail, key), Bump(made, {key[1]}), tlive, tended)
      /\ Open(Append(trail, key)) = OpenAfter(trail, key)
      /\ HeldBy(trail, key, Append(trail, key)) /\ Append(trail, key) # <<>>
  BY <1>1, <1>2, Recorded
<1>4. QED
  BY <1>2, <1>3

\* What the account says of a key.
LEMMA AccountFacts ==
  ASSUME NEW t, NEW m, NEW live, NEW ended, Account(t, m, live, ended)
  PROVE  /\ \A l : KeyHeld(t, <<"lease_attached", l>>) => l \in live \cup ended
         /\ \A l : KeyHeld(t, <<"cleanup_completed", l>>) => l \in ended
         /\ t = <<>> => live \cup ended = {}
         /\ t \in Seq(Decisions) /\ m \in [EventHeads -> Nat]
         /\ Len(t) \in Nat /\ Open(t) \in {0, 1}
<1>1. NamesLeases(t, live, ended) /\ t \in Seq(Decisions) /\ Alternates(t)
  BY DEF Account
<1>2. \A l : KeyHeld(t, <<"lease_attached", l>>) => l \in live \cup ended
  BY <1>1 DEF NamesLeases, KeyHeld
<1>3. \A l : KeyHeld(t, <<"cleanup_completed", l>>) => l \in ended
  BY <1>1 DEF NamesLeases, KeyHeld
<1>4. t = <<>> => live \cup ended = {}
  BY <1>1 DEF NamesLeases, KeyHeld
<1>5. Len(t) \in Nat /\ Len(t) \in 0..Len(t)
  BY <1>1
<1>6. QED
  BY <1>1, <1>2, <1>3, <1>4, <1>5 DEF Account, Alternates, Open

-----------------------------------------------------------------------------
(* One lemma for each action *)

\* The keys the transactions write are keys.
LEMMA KeysAreDecisions ==
  /\ \A h \in OnceOnly : <<h, "-">> \in Decisions
  /\ \A h \in PerServing, l \in TrailLeases : <<h, l>> \in Decisions
BY DEF Decisions

\* An event of a transaction that can happen once: its key is new.
LEMMA OnceEvent ==
  ASSUME TrailInv, NEW h \in OnceOnly, ~KeyHeld(trail, <<h, "-">>),
         trail' = RecordEvent(trail, h, "-"), Commits({h}), tlive' = tlive, tended' = tended
  PROVE  /\ Account(trail', made', tlive', tended') /\ LeasesInOrder(tlive', tended')
         /\ Open(trail') = Open(trail) /\ HeldBy(trail, <<h, "-">>, trail') /\ trail' # <<>>
<1> DEFINE key == <<h, "-">>
<1>1. key \in Decisions /\ key[1] = h /\ key[2] = "-"
  BY KeysAreDecisions
<1>2. h \notin Repeatable /\ h \notin PerServing
  BY DEF OnceOnly, Repeatable, PerServing
<1>3. trail' = Append(trail, key) /\ made' = Bump(made, {key[1]})
  BY <1>1 DEF RecordEvent, Commits, Bump
<1>4. ~KeyHeld(trail, key)
  OBVIOUS
<1> HIDE DEF key
<1>5. MayFollow(trail, key) /\ OpenAfter(trail, key) = Open(trail)
  BY <1>1, <1>2, <1>4 DEF MayFollow, Counts, OpenAfter, Repeatable
<1>6. /\ Account(trail', made', tlive', tended') /\ LeasesInOrder(tlive', tended')
      /\ Open(trail') = OpenAfter(trail, key) /\ HeldBy(trail, key, trail') /\ trail' # <<>>
  BY <1>1, <1>2, <1>3, <1>5, OneEvent
<1>7. QED
  BY <1>5, <1>6 DEF key

\* A hold, or the decision that ends it.
LEMMA RepeatableEvent ==
  ASSUME TrailInv, NEW h \in Repeatable,
         Open(trail) = IF h = "operator_resolved" THEN 1 ELSE 0,
         trail' = RecordRepeatableEvent(trail, h), Commits({h}), tlive' = tlive, tended' = tended
  PROVE  /\ Account(trail', made', tlive', tended') /\ LeasesInOrder(tlive', tended')
         /\ Open(trail') = (IF h = "operator_resolved" THEN 0 ELSE 1)
         /\ HeldBy(trail, <<h, CountOf(trail, h)>>, trail') /\ trail' # <<>>
<1> DEFINE key == <<h, CountOf(trail, h)>>
<1>0. trail \in Seq(Decisions) /\ Kept(trail, made)
  BY DEF TrailInv, Account
<1>1. key \in Decisions /\ key[1] = h /\ key[2] = CountOf(trail, h) /\ ~KeyHeld(trail, key)
  BY <1>0, CountedKeyIsNew
<1>2. h \in {"operator_resolved", "manual_review_requested"} /\ h \notin PerServing
  BY DEF Repeatable, PerServing
<1>3. trail' = Append(trail, key) /\ made' = Bump(made, {key[1]})
  BY <1>1 DEF RecordRepeatableEvent, Commits, Bump
<1> HIDE DEF key
<1>5. MayFollow(trail, key) /\ OpenAfter(trail, key) = IF h = "operator_resolved" THEN 0 ELSE 1
  BY <1>1, <1>2 DEF MayFollow, Counts, OpenAfter
<1>6. /\ Account(trail', made', tlive', tended') /\ LeasesInOrder(tlive', tended')
      /\ Open(trail') = OpenAfter(trail, key) /\ HeldBy(trail, key, trail') /\ trail' # <<>>
  BY <1>1, <1>2, <1>3, <1>5, OneEvent
<1>7. QED
  BY <1>5, <1>6 DEF key

\* The row after a hold or a decision: neither closes the attempt with an
\* event that can be written once.
LEMMA RepeatableRow ==
  ASSUME TrailInv, NEW h \in Repeatable, HeldBy(trail, <<h, CountOf(trail, h)>>, trail'), trail' # <<>>,
         tstate \notin {"settled", "superseded"}, tstate' # "absent",
         tstate' = "manual_review" => Open(trail') = 1,
         tstate' \notin {"manual_review", "superseded"} => Open(trail') = 0
  PROVE  RowAgrees(tstate', trail')
<1>1. h \notin {"attempt_settled", "attempt_superseded"}
  BY DEF Repeatable
<1>2. ~KeyHeld(trail', <<"attempt_settled", "-">>) /\ ~KeyHeld(trail', <<"attempt_superseded", "-">>)
  BY <1>1 DEF HeldBy, TrailInv, RowAgrees
<1>3. QED
  BY <1>2 DEF RowAgrees

\* The insert of an attempt (InsertAttempt).
LEMMA InsertAttemptKeeps == TrailInv /\ InsertAttempt => TrailInv'
<1> SUFFICES ASSUME TrailInv, InsertAttempt PROVE TrailInv'
  OBVIOUS
<1>1. trail = <<>> /\ Open(trail) = 0 /\ ~KeyHeld(trail, <<"attempt_created", "-">>)
  BY DEF TrailInv, RowAgrees, InsertAttempt, KeyHeld
<1>2. "attempt_created" \in OnceOnly /\ Commits({"attempt_created"})
  BY DEF OnceOnly, InsertAttempt
<1>3. trail' = RecordEvent(trail, "attempt_created", "-") /\ tlive' = tlive /\ tended' = tended
  BY DEF InsertAttempt
<1>4. /\ Account(trail', made', tlive', tended') /\ LeasesInOrder(tlive', tended')
      /\ Open(trail') = Open(trail) /\ HeldBy(trail, <<"attempt_created", "-">>, trail') /\ trail' # <<>>
  BY <1>1, <1>2, <1>3, OnceEvent
<1>5. tstate' = "ready" /\ tevidence' = tevidence
  BY DEF InsertAttempt
<1>6. \A x : ~KeyHeld(trail, x)
  BY <1>1 DEF KeyHeld
<1>7. RowAgrees(tstate', trail')
  BY <1>1, <1>4, <1>5, <1>6 DEF RowAgrees, HeldBy
<1>8. QED
  BY <1>4, <1>5, <1>7 DEF TrailInv, AttemptStates

\* A hold for an incompatible binding (holdIncompatible).
LEMMA HoldIncompatibleKeeps == TrailInv /\ HoldIncompatible => TrailInv'
<1> SUFFICES ASSUME TrailInv, HoldIncompatible PROVE TrailInv'
  OBVIOUS
<1> DEFINE h == "manual_review_requested"
<1>1. h \in Repeatable /\ h # "operator_resolved" /\ Open(trail) = 0
  BY DEF HoldIncompatible, TrailInv, RowAgrees, OpenAttempt, Repeatable
<1>2. trail' = RecordRepeatableEvent(trail, h) /\ Commits({h}) /\ tlive' = tlive /\ tended' = tended
  BY DEF HoldIncompatible
<1>3. /\ tstate' = "manual_review" /\ tevidence' = tevidence /\ tstate \notin {"settled", "superseded"}
  BY DEF HoldIncompatible, OpenAttempt
<1> HIDE DEF h
<1>4. /\ Account(trail', made', tlive', tended') /\ LeasesInOrder(tlive', tended')
      /\ Open(trail') = 1
      /\ HeldBy(trail, <<h, CountOf(trail, h)>>, trail') /\ trail' # <<>>
  BY <1>1, <1>2, RepeatableEvent
<1>5. RowAgrees(tstate', trail')
  BY <1>1, <1>3, <1>4, RepeatableRow
<1>6. QED
  BY <1>3, <1>4, <1>5 DEF TrailInv, AttemptStates

\* Both decisions an operator takes about a held attempt.
LEMMA ResolveKeeps == TrailInv /\ (ResolveReviewToReady \/ ResolveReviewToSettled) => TrailInv'
<1> SUFFICES ASSUME TrailInv, ResolveReviewToReady \/ ResolveReviewToSettled PROVE TrailInv'
  OBVIOUS
<1> DEFINE h == "operator_resolved"
<1>1. h \in Repeatable /\ h = "operator_resolved" /\ Open(trail) = 1
  BY DEF ResolveReviewToReady, ResolveReviewToSettled, TrailInv, RowAgrees, Repeatable
<1>2. trail' = RecordRepeatableEvent(trail, h) /\ Commits({h}) /\ tlive' = tlive /\ tended' = tended
  BY DEF ResolveReviewToReady, ResolveReviewToSettled
<1>3. /\ tstate' \in {"ready", "settled"} /\ tevidence' \in {"not_started", tevidence}
      /\ tstate \notin {"settled", "superseded"}
  BY DEF ResolveReviewToReady, ResolveReviewToSettled
<1> HIDE DEF h
<1>4. /\ Account(trail', made', tlive', tended') /\ LeasesInOrder(tlive', tended')
      /\ Open(trail') = 0
      /\ HeldBy(trail, <<h, CountOf(trail, h)>>, trail') /\ trail' # <<>>
  BY <1>1, <1>2, RepeatableEvent
<1>5. RowAgrees(tstate', trail')
  BY <1>1, <1>3, <1>4, RepeatableRow
<1>6. QED
  BY <1>3, <1>4, <1>5 DEF TrailInv, AttemptStates, Evidence

\* A superseding of the open attempt (supersedeOpenAttempt).
LEMMA SupersedeKeeps == TrailInv /\ SupersedeOpenAttempt => TrailInv'
<1> SUFFICES ASSUME TrailInv, SupersedeOpenAttempt PROVE TrailInv'
  OBVIOUS
<1> DEFINE h == "attempt_superseded"
<1>1. ~KeyHeld(trail, <<h, "-">>) /\ ~KeyHeld(trail, <<"attempt_settled", "-">>) /\ h \in OnceOnly
  BY DEF TrailInv, RowAgrees, SupersedeOpenAttempt, PreAuthorization, OnceOnly
<1>2. trail' = RecordEvent(trail, h, "-") /\ Commits({h}) /\ tlive' = tlive /\ tended' = tended
  BY DEF SupersedeOpenAttempt
<1>3. tstate' = "superseded" /\ tevidence' = tevidence /\ h # "attempt_settled"
  BY DEF SupersedeOpenAttempt
<1> HIDE DEF h
<1>4. /\ Account(trail', made', tlive', tended') /\ LeasesInOrder(tlive', tended')
      /\ Open(trail') = Open(trail) /\ HeldBy(trail, <<h, "-">>, trail') /\ trail' # <<>>
  BY <1>1, <1>2, OnceEvent
<1>5. RowAgrees(tstate', trail')
  BY <1>1, <1>3, <1>4 DEF RowAgrees, HeldBy
<1>6. QED
  BY <1>3, <1>4, <1>5 DEF TrailInv, AttemptStates

\* A cancellation is recorded once, whatever becomes of the row.
LEMMA ObserveCanceledKeeps == TrailInv /\ ObserveCanceled => TrailInv'
<1> SUFFICES ASSUME TrailInv, ObserveCanceled PROVE TrailInv'
  OBVIOUS
<1> DEFINE h == "remote_canceled"
<1>1. /\ tlive' = tlive /\ tended' = tended /\ tevidence' = tevidence
      /\ tstate' = IF tstate = "ready" THEN "canceled" ELSE tstate
      /\ trail' = RecordEvent(trail, h, "-")
      /\ IF KeyHeld(trail, <<h, "-">>) THEN made' = made ELSE Commits({h})
  BY DEF ObserveCanceled
<1>2. /\ Account(trail, made, tlive, tended) /\ RowAgrees(tstate, trail) /\ LeasesInOrder(tlive, tended)
      /\ tstate \in AttemptStates /\ tevidence \in Evidence
  BY DEF TrailInv
<1>3. tstate # "absent"
  <2>1. tstate = "absent" => tlive \cup tended = {}
    <3>1. tstate = "absent" => trail = <<>>
      BY <1>2 DEF RowAgrees
    <3>2. QED
      BY <1>2, <3>1, AccountFacts
  <2>2. QED
    BY <2>1 DEF ObserveCanceled, OpenAttempt
<1>4. tstate' \in AttemptStates /\ tevidence' \in Evidence /\ tstate' # "absent"
  BY <1>1, <1>2, <1>3 DEF AttemptStates
<1>5. CASE KeyHeld(trail, <<h, "-">>)
  <2>1. trail' = trail /\ made' = made
    BY <1>1, <1>5 DEF RecordEvent
  <2>2. RowAgrees(tstate', trail')
    BY <1>1, <1>2, <1>4, <2>1 DEF RowAgrees
  <2>3. QED
    BY <1>1, <1>2, <1>4, <2>1, <2>2 DEF TrailInv
<1>6. CASE ~KeyHeld(trail, <<h, "-">>)
  <2>1. h \in OnceOnly /\ Commits({h}) /\ h \notin {"attempt_settled", "attempt_superseded"}
    BY <1>1, <1>6 DEF OnceOnly
  <2> HIDE DEF h
  <2>2. /\ Account(trail', made', tlive', tended') /\ LeasesInOrder(tlive', tended')
        /\ Open(trail') = Open(trail) /\ HeldBy(trail, <<h, "-">>, trail') /\ trail' # <<>>
    BY <1>1, <1>6, <2>1, OnceEvent
  <2>3. RowAgrees(tstate', trail')
    BY <1>1, <1>2, <1>4, <2>1, <2>2 DEF RowAgrees, HeldBy
  <2>4. QED
    BY <1>4, <2>2, <2>3 DEF TrailInv
<1>7. QED
  BY <1>5, <1>6

\* The walk of a serving and its evidence leave the trail alone.
LEMMA WalkKeeps ==
  ASSUME TrailInv, AdvanceAttempt \/ \E e \in Evidence : RecordEvidence(e)
  PROVE  TrailInv'
<1>1. trail' = trail /\ made' = made /\ tlive' = tlive /\ tended' = tended
  BY DEF AdvanceAttempt, RecordEvidence
<1>2. tevidence' \in Evidence
  BY DEF AdvanceAttempt, RecordEvidence, TrailInv
<1>3. tstate' = tstate \/ (tstate \in Served /\ tstate' \in Served)
  BY DEF AdvanceAttempt, RecordEvidence, Served, PreAuthorization
<1>4. tstate' \in AttemptStates /\ RowAgrees(tstate', trail)
  BY <1>3 DEF TrailInv, RowAgrees, Served, AttemptStates
<1>5. QED
  BY <1>1, <1>2, <1>4 DEF TrailInv

\* The next lease has a number no lease has had.
LEMMA NextLeaseIsNew ==
  ASSUME TrailInv
  PROVE  \E n \in Nat : tlive \cup tended = 1..n /\ NextLease = n + 1
<1>1. PICK n \in Nat : tlive \cup tended = 1..n
  BY DEF TrailInv, LeasesInOrder
<1>2. Cardinality(1..n) = n
  BY FS_Interval
<1>3. QED
  BY <1>1, <1>2 DEF NextLease

\* The lease of an open attempt (LeaseAttempt).
LEMMA LeaseAttemptKeeps ==
  ASSUME TrailInv, NEW l \in TrailLeases, LeaseAttempt(l)
  PROVE  TrailInv'
<1> DEFINE key == <<"lease_attached", l>>
<1>1. /\ tstate = "ready" /\ l = NextLease /\ tlive = {} /\ tstate' = "leased" /\ tlive' = {l}
      /\ tended' = tended /\ tevidence' = tevidence
      /\ trail' = RecordEvent(trail, "lease_attached", l) /\ Commits({"lease_attached"})
  BY DEF LeaseAttempt
<1>2. /\ Account(trail, made, tlive, tended) /\ RowAgrees(tstate, trail) /\ LeasesInOrder(tlive, tended)
      /\ tevidence \in Evidence
  BY DEF TrailInv
<1>3. PICK n \in Nat : tlive \cup tended = 1..n /\ NextLease = n + 1
  BY NextLeaseIsNew
<1>4. l \notin tlive \cup tended
  BY <1>1, <1>3
<1>5. ~KeyHeld(trail, key) /\ key \in Decisions /\ key[1] = "lease_attached" /\ key[2] = l
  BY <1>2, <1>4, AccountFacts, KeysAreDecisions DEF PerServing
<1>6. trail' = Append(trail, key) /\ made' = Bump(made, {key[1]})
  BY <1>1, <1>5 DEF RecordEvent, Commits, Bump
<1> HIDE DEF key
<1>7. MayFollow(trail, key) /\ OpenAfter(trail, key) = Open(trail)
  BY <1>5 DEF MayFollow, Counts, OpenAfter, Repeatable
<1>8. Serves(key, tlive, tended, tlive', tended')
  BY <1>1, <1>4, <1>5 DEF Serves
<1>9. /\ Account(trail', made', tlive', tended') /\ Open(trail') = Open(trail)
      /\ HeldBy(trail, key, trail') /\ trail' # <<>>
  <2>1. /\ Account(Append(trail, key), Bump(made, {key[1]}), tlive', tended')
        /\ Open(Append(trail, key)) = OpenAfter(trail, key)
        /\ HeldBy(trail, key, Append(trail, key)) /\ Append(trail, key) # <<>>
    BY <1>2, <1>7, <1>8, Recorded
  <2>2. QED
    BY <1>6, <1>7, <2>1
<1>10. RowAgrees(tstate', trail')
  <2>1. <<"attempt_settled", "-">> # key /\ <<"attempt_superseded", "-">> # key
    BY DEF key
  <2>2. QED
    BY <1>1, <1>2, <1>9, <2>1 DEF RowAgrees, HeldBy
<1>11. LeasesInOrder(tlive', tended')
  <2>1. tlive' \cup tended' = 1..(n + 1) /\ n + 1 \in Nat
    BY <1>1, <1>3
  <2>2. QED
    BY <1>1, <1>2, <2>1 DEF LeasesInOrder
<1>12. QED
  BY <1>1, <1>2, <1>9, <1>10, <1>11 DEF TrailInv, AttemptStates

\* The end of a serving: its cleanup, and then what its disposition records.
LEMMA FinalizeServingKeeps ==
  ASSUME TrailInv, NEW l \in TrailLeases, NEW obs \in Observations, FinalizeServing(l, obs)
  PROVE  TrailInv'
<1> DEFINE what    == DispositionOf(tstate, tevidence, obs)
           again   == what = "requeue" /\ Cardinality(tlive \cup tended) < TrailBudget
           settles == what \in {"settle_completed", "settle_started"}
           asks    == what # "nothing" /\ ~again /\ ~settles
           key     == <<"cleanup_completed", l>>
           cleaned == Append(trail, key)
           once    == Bump(made, {"cleanup_completed"})
<1>1. /\ l \in tlive /\ tlive' = tlive \ {l} /\ tended' = tended \cup {l}
      /\ tstate' = IF again THEN "ready" ELSE IF settles THEN "settled"
                   ELSE IF asks THEN "manual_review" ELSE tstate
      /\ tevidence' = IF again THEN "not_started" ELSE tevidence
      /\ trail' = IF settles THEN RecordEvent(RecordEvent(trail, "cleanup_completed", l), "attempt_settled", "-")
                  ELSE IF asks THEN RecordRepeatableEvent(RecordEvent(trail, "cleanup_completed", l),
                                                          "manual_review_requested")
                  ELSE RecordEvent(trail, "cleanup_completed", l)
      /\ made' = Bump(made, {"cleanup_completed"} \cup {h \in {"attempt_settled"} : settles}
                            \cup {h \in {"manual_review_requested"} : asks})
  BY DEF FinalizeServing, Commits, Bump
<1>2. /\ Account(trail, made, tlive, tended) /\ RowAgrees(tstate, trail) /\ LeasesInOrder(tlive, tended)
      /\ tevidence \in Evidence /\ tstate \in AttemptStates
  BY DEF TrailInv
<1>3. (again \/ settles \/ asks) => tstate \in Served
  BY DEF DispositionOf
<1>4. /\ ~KeyHeld(trail, key) /\ key \in Decisions /\ key[1] = "cleanup_completed" /\ key[2] = l
      /\ made \in [EventHeads -> Nat] /\ trail \in Seq(Decisions)
  <2>1. l \notin tended
    BY <1>1, <1>2 DEF Account
  <2>2. QED
    BY <1>2, <2>1, AccountFacts, KeysAreDecisions DEF PerServing
<1>5. RecordEvent(trail, "cleanup_completed", l) = cleaned
  BY <1>4 DEF RecordEvent
<1> HIDE DEF what, again, settles, asks, key
<1>6. /\ Account(cleaned, once, tlive', tended') /\ Open(cleaned) = Open(trail)
      /\ HeldBy(trail, key, cleaned) /\ cleaned # <<>>
  <2>1. MayFollow(trail, key) /\ OpenAfter(trail, key) = Open(trail)
    BY <1>4 DEF MayFollow, Counts, OpenAfter, Repeatable
  <2>2. Serves(key, tlive, tended, tlive', tended')
    BY <1>1, <1>4 DEF Serves
  <2>3. /\ Account(Append(trail, key), Bump(made, {key[1]}), tlive', tended')
        /\ Open(Append(trail, key)) = OpenAfter(trail, key)
        /\ HeldBy(trail, key, Append(trail, key)) /\ Append(trail, key) # <<>>
    BY <1>2, <2>1, <2>2, Recorded
  <2>4. QED
    BY <1>4, <2>1, <2>3
<1> HIDE DEF cleaned, once
<1>7. LeasesInOrder(tlive', tended')
  <2>1. tlive' \cup tended' = tlive \cup tended
    BY <1>1
  <2>2. QED
    BY <1>1, <1>2, <2>1 DEF LeasesInOrder
<1>8. tstate' \in AttemptStates /\ tevidence' \in Evidence
  BY <1>1, <1>2 DEF AttemptStates, Evidence
<1>9. \A x : x[1] # "cleanup_completed" => (KeyHeld(cleaned, x) <=> KeyHeld(trail, x))
  BY <1>4, <1>6 DEF HeldBy
<1>10. /\ KeyHeld(cleaned, <<"attempt_settled", "-">>) <=> KeyHeld(trail, <<"attempt_settled", "-">>)
       /\ KeyHeld(cleaned, <<"attempt_superseded", "-">>) <=> KeyHeld(trail, <<"attempt_superseded", "-">>)
  BY <1>9
<1>11. once \in [EventHeads -> Nat]
  BY <1>4 DEF once, Bump
<1>12. CASE settles
  <2> DEFINE done == <<"attempt_settled", "-">>
  <2>1. done \in Decisions /\ done[1] = "attempt_settled" /\ done[2] = "-"
    BY KeysAreDecisions DEF OnceOnly
  <2>2. tstate \in Served /\ tstate' = "settled" /\ ~KeyHeld(cleaned, done) /\ Open(cleaned) = 0
    <3>1. tstate \in Served
      BY <1>3, <1>12
    <3>2. ~again /\ ~asks
      BY <1>12 DEF again, asks, settles
    <3>3. QED
      BY <1>1, <1>2, <1>6, <1>10, <1>12, <3>1, <3>2 DEF RowAgrees, Served
  <2>3. trail' = Append(cleaned, done)
    BY <1>1, <1>5, <1>12, <2>2 DEF RecordEvent
  <2>4. made' = Bump(once, {done[1]})
    <3>1. {h \in {"attempt_settled"} : settles} = {"attempt_settled"}
          /\ {h \in {"manual_review_requested"} : asks} = {}
      BY <1>12 DEF asks, settles
    <3>2. QED
      BY <1>1, <1>4, <2>1, <3>1 DEF once, Bump
  <2> HIDE DEF done
  <2>5. MayFollow(cleaned, done) /\ OpenAfter(cleaned, done) = Open(cleaned)
    BY <2>1, <2>2 DEF MayFollow, Counts, OpenAfter, Repeatable
  <2>6. Serves(done, tlive', tended', tlive', tended')
    BY <2>1 DEF Serves
  <2>7. /\ Account(Append(cleaned, done), Bump(once, {done[1]}), tlive', tended')
        /\ Open(Append(cleaned, done)) = OpenAfter(cleaned, done)
        /\ HeldBy(cleaned, done, Append(cleaned, done)) /\ Append(cleaned, done) # <<>>
    BY <1>6, <2>5, <2>6, Recorded
  <2>8. RowAgrees(tstate', trail')
    <3>1. ~KeyHeld(trail', <<"attempt_superseded", "-">>)
      <4>1. <<"attempt_superseded", "-">> # done /\ ~KeyHeld(cleaned, <<"attempt_superseded", "-">>)
        BY <1>2, <1>10, <2>2 DEF RowAgrees, Served, done
      <4>2. QED
        BY <2>3, <2>7, <4>1 DEF HeldBy
    <3>2. QED
      BY <2>2, <2>3, <2>5, <2>7, <3>1 DEF RowAgrees
  <2>9. QED
    BY <1>7, <1>8, <2>3, <2>4, <2>7, <2>8 DEF TrailInv
<1>13. CASE asks
  <2> DEFINE n == CountOf(cleaned, "manual_review_requested")
             ask == <<"manual_review_requested", n>>
  <2>1. ask \in Decisions /\ ask[1] = "manual_review_requested" /\ ask[2] = n /\ ~KeyHeld(cleaned, ask)
    <3>1. cleaned \in Seq(Decisions) /\ Kept(cleaned, once) /\ "manual_review_requested" \in Repeatable
      BY <1>6 DEF Account, Repeatable
    <3>2. QED
      BY <3>1, CountedKeyIsNew
  <2>2. tstate \in Served /\ tstate' = "manual_review" /\ Open(cleaned) = 0
    <3>1. tstate \in Served
      BY <1>3, <1>13
    <3>2. ~again /\ ~settles
      BY <1>13 DEF asks
    <3>3. QED
      BY <1>1, <1>2, <1>6, <1>13, <3>1, <3>2 DEF RowAgrees, Served
  <2>3. trail' = Append(cleaned, ask)
    <3>1. ~settles
      BY <1>13 DEF asks
    <3>2. QED
      BY <1>1, <1>5, <1>13, <3>1 DEF RecordRepeatableEvent
  <2>4. made' = Bump(once, {ask[1]})
    <3>1. {h \in {"attempt_settled"} : settles} = {}
          /\ {h \in {"manual_review_requested"} : asks} = {"manual_review_requested"}
      BY <1>13 DEF asks
    <3>2. QED
      BY <1>1, <1>4, <2>1, <3>1 DEF once, Bump
  <2> HIDE DEF ask
  <2>5. MayFollow(cleaned, ask) /\ OpenAfter(cleaned, ask) = 1
    BY <2>1, <2>2 DEF MayFollow, Counts, OpenAfter
  <2>6. Serves(ask, tlive', tended', tlive', tended')
    BY <2>1 DEF Serves
  <2>7. /\ Account(Append(cleaned, ask), Bump(once, {ask[1]}), tlive', tended')
        /\ Open(Append(cleaned, ask)) = OpenAfter(cleaned, ask)
        /\ HeldBy(cleaned, ask, Append(cleaned, ask)) /\ Append(cleaned, ask) # <<>>
    BY <1>6, <2>5, <2>6, Recorded
  <2>8. RowAgrees(tstate', trail')
    <3>1. ~KeyHeld(trail', <<"attempt_superseded", "-">>) /\ ~KeyHeld(trail', <<"attempt_settled", "-">>)
      <4>1. /\ <<"attempt_superseded", "-">> # ask /\ ~KeyHeld(cleaned, <<"attempt_superseded", "-">>)
            /\ <<"attempt_settled", "-">> # ask /\ ~KeyHeld(cleaned, <<"attempt_settled", "-">>)
        BY <1>2, <1>10, <2>2 DEF RowAgrees, Served, ask
      <4>2. QED
        BY <2>3, <2>7, <4>1 DEF HeldBy
    <3>2. QED
      BY <2>2, <2>3, <2>5, <2>7, <3>1 DEF RowAgrees
  <2>9. QED
    BY <1>7, <1>8, <2>3, <2>4, <2>7, <2>8 DEF TrailInv
<1>14. CASE ~settles /\ ~asks
  <2>1. trail' = cleaned
    BY <1>1, <1>5, <1>14
  <2>2. made' = once
    <3>1. {h \in {"attempt_settled"} : settles} = {} /\ {h \in {"manual_review_requested"} : asks} = {}
      BY <1>14
    <3>2. QED
      BY <1>1, <3>1 DEF once
  <2>3. tstate' = tstate \/ (tstate' = "ready" /\ tstate \in Served)
    BY <1>1, <1>3, <1>14
  <2>4. RowAgrees(tstate', trail')
    <3>1. tstate # "absent"
      <4>1. tstate = "absent" => tlive \cup tended = {}
        <5>1. tstate = "absent" => trail = <<>>
          BY <1>2 DEF RowAgrees
        <5>2. QED
          BY <1>2, <5>1, AccountFacts
      <4>2. QED
        BY <1>1, <4>1
    <3>2. QED
      BY <1>2, <1>6, <1>10, <2>1, <2>3, <3>1 DEF RowAgrees, Served
  <2>5. QED
    BY <1>6, <1>7, <1>8, <2>1, <2>2, <2>4 DEF TrailInv
<1>15. QED
  BY <1>12, <1>13, <1>14

-----------------------------------------------------------------------------
(* The theorems *)

\* Nothing is recorded at first.
LEMMA TrailStarts == TrailInit => TrailInv
<1> SUFFICES ASSUME TrailInit PROVE TrailInv
  OBVIOUS
<1>1. trail = <<>> /\ tlive = {} /\ tended = {} /\ tstate = "absent" /\ tevidence = "not_started"
      /\ made = [h \in EventHeads |-> 0]
  BY DEF TrailInit
<1>2. trail \in Seq(Decisions) /\ Len(trail) = 0 /\ DOMAIN trail = {}
  BY <1>1
<1>3. \A h : CountTo(trail, 0, h) = 0
  <2>1. \A h : {i \in 1..0 : trail[i][1] = h} = {}
    OBVIOUS
  <2>2. QED
    BY <2>1, FS_EmptySet DEF CountTo
<1>4. \A h : CountOf(trail, h) = 0
  <2>1. \A h : {i \in DOMAIN trail : trail[i][1] = h} = {}
    BY <1>2
  <2>2. QED
    BY <2>1, FS_EmptySet DEF CountOf
<1>5. Undecided(trail, 0) = 0
  BY <1>3 DEF Undecided
<1>6. Kept(trail, made) /\ Alternates(trail) /\ OneByOne(trail) /\ NamesLeases(trail, tlive, tended)
  <2>1. Kept(trail, made)
    BY <1>1, <1>2, <1>4 DEF Kept
  <2>2. Alternates(trail)
    BY <1>2, <1>5 DEF Alternates
  <2>3. OneByOne(trail) /\ NamesLeases(trail, tlive, tended)
    BY <1>1, <1>2 DEF OneByOne, NamesLeases
  <2>4. QED
    BY <2>1, <2>2, <2>3
<1>7. Account(trail, made, tlive, tended)
  BY <1>1, <1>2, <1>6 DEF Account
<1>8. RowAgrees(tstate, trail)
  BY <1>1, <1>2, <1>5 DEF RowAgrees, Open, KeyHeld
<1>9. LeasesInOrder(tlive, tended)
  <2>1. tlive \cup tended = 1..0
    BY <1>1
  <2>2. QED
    BY <1>1, <2>1 DEF LeasesInOrder
<1>10. QED
  BY <1>1, <1>7, <1>8, <1>9 DEF TrailInv, AttemptStates, Evidence

\* The invariant behind both theorems: the account the trail gives, and what
\* row, leases and trail say of one another.
THEOREM TrailInvariant == TrailSpec => []TrailInv
<1>1. TrailInv /\ TrailNext => TrailInv'
  BY InsertAttemptKeeps, WalkKeeps, HoldIncompatibleKeeps, ResolveKeeps, SupersedeKeeps,
     ObserveCanceledKeeps, LeaseAttemptKeeps, FinalizeServingKeeps DEF TrailNext
<1>2. TrailInv /\ UNCHANGED trailVars => TrailInv'
  BY DEF TrailInv, trailVars
<1>3. QED
  BY <1>1, <1>2, TrailStarts, PTL DEF TrailSpec

\* The rows, the trail and the count of facts keep their types, however many
\* servings and decisions there are (TrailTypeOK).
THEOREM TrailTypes == TrailSpec => []TrailTypeOK
<1>1. TrailInv => TrailTypeOK
  BY DEF TrailInv, TrailTypeOK, Account, LeasesInOrder
<1>2. QED
  BY <1>1, TrailInvariant, PTL

\* The trail stays a true account: every fact has one event, holds and
\* decisions alternate and agree with the row, and servings do not overlap,
\* for any number of servings, any budget and any number of decisions
\* (RecordEvent, RecordRepeatableEvent, one_live_lease_per_attempt).
THEOREM TrailStaysTrue == TrailSpec => []TrailIsTrue
<1>1. ASSUME TrailInv PROVE EveryFactIsKept
  BY <1>1 DEF TrailInv, Account, Kept, EveryFactIsKept
<1>2. ASSUME TrailInv PROVE ReviewsAlternate
  BY <1>2 DEF TrailInv, Account, Alternates, RowAgrees, Open, ReviewsAlternate
<1>3. ASSUME TrailInv PROVE ServingsDoNotOverlap
  BY <1>3 DEF TrailInv, Account, OneByOne, ServingsDoNotOverlap
<1>4. TrailInv => TrailIsTrue
  BY <1>1, <1>2, <1>3 DEF TrailIsTrue
<1>5. QED
  BY <1>4, TrailInvariant, PTL

-----------------------------------------------------------------------------
(***************************************************************************)
(* CacheLanes                                                              *)
(***************************************************************************)

USE LanesAssumption

GCType ==
  [at : {"idle", "listed", "run", "volume"}, seen : SUBSET LaneIds, evict : SUBSET LaneIds,
   orphans : SUBSET LaneIds, id : {0} \cup LaneIds, failed : SUBSET LaneIds]

\* The types, and that a lane with a row is in the order of use.
LaneTypes ==
  /\ row \in [LaneIds -> {"none", "free"} \cup Jobs] /\ DOMAIN pool = LaneIds
  /\ recent \in Seq(LaneIds)
  /\ \A l \in LaneIds : row[l] # "none" => \E i \in 1..Len(recent) : recent[i] = l
  /\ minted \in 0..Len(LaneSize) /\ volumes \subseteq LaneIds
  /\ job \in [Jobs -> {"new", "leased", "ready", "mounted", "uncached", "removed", "done"}]
  /\ lane \in [Jobs -> {0} \cup LaneIds]
  /\ gc \in GCType

\* Rows and volumes are made for ids that were handed out, and never again for
\* one whose row is gone.
MintedInv ==
  /\ \A l \in LaneIds : row[l] # "none" => l <= minted
  /\ \A l \in volumes \cup gc.seen : l <= minted
  /\ gc.id <= minted

\* A job that was handed a lane holds its row until it gives it back, and its
\* volume is there once it was ensured.
HeldInv ==
  /\ \A j \in Jobs : job[j] \in {"leased", "ready", "mounted"} => lane[j] \in LaneIds /\ row[lane[j]] = j
  /\ \A j \in Jobs : job[j] \in {"ready", "mounted"} => lane[j] \in volumes

\* A volume that a collection is to remove belongs to no row, and one that it
\* listed and that has none is still to be removed or could not be.
CollectInv ==
  /\ gc.id # 0 => row[gc.id] = "none"
  /\ gc.at = "volume" <=> gc.id # 0
  /\ OrphansAreDead
  /\ gc.at \in {"run", "volume"} =>
       \A l \in gc.seen \cap volumes : row[l] # "none" \/ l \in gc.failed \cup gc.orphans \cup {gc.id}

LaneInv == LaneTypes /\ MintedInv /\ HeldInv /\ CollectInv /\ PoolWithinLimit

-----------------------------------------------------------------------------
(* The order of use *)

\* The lanes are numbered from one.
LEMMA LaneIdsFacts ==
  Len(LaneSize) \in Nat /\ LaneIds = 1..Len(LaneSize) /\ LaneIds \subseteq Nat \ {0}
    /\ IsFiniteSet(LaneIds)
<1>1. Len(LaneSize) \in Nat /\ LaneIds = 1..Len(LaneSize)
  BY DEF LaneIds
<1>2. IsFiniteSet(1..Len(LaneSize))
  BY <1>1, FS_Interval
<1> QED
  BY <1>1, <1>2

\* What is compared is a number.
LEMMA LaneNumbers ==
  ASSUME LaneTypes
  PROVE  /\ minted \in Nat /\ gc.id \in Nat /\ gc.id \in {0} \cup LaneIds
         /\ \A l \in LaneIds : l \in Nat /\ l # 0
         /\ gc.seen \subseteq LaneIds /\ gc.orphans \subseteq LaneIds /\ volumes \subseteq LaneIds
<1>1. /\ gc.id \in {0} \cup LaneIds /\ gc.seen \subseteq LaneIds /\ gc.orphans \subseteq LaneIds
      /\ volumes \subseteq LaneIds /\ minted \in Nat
  BY LaneIdsFacts DEF LaneTypes, GCType
<1>2. \A l \in LaneIds : l \in Nat /\ l # 0
  BY LaneIdsFacts
<1> QED
  BY <1>1, <1>2

\* A lane with a row has a place in the order.
LEMMA RankFacts ==
  ASSUME LaneTypes, NEW l \in LaneIds, row[l] # "none"
  PROVE  RankOf(l) \in 1..Len(recent) /\ recent[RankOf(l)] = l
<1>1. \E i \in DOMAIN recent : recent[i] = l
  BY DEF LaneTypes
<1>2. DOMAIN recent = 1..Len(recent)
  BY DEF LaneTypes
<1> QED
  BY <1>1, <1>2 DEF RankOf

\* The warmest free lane of a pool is one: the order has a last place
\* (FindFreeCacheLane).
LEMMA FreeLaneFound ==
  ASSUME LaneTypes, NEW p, FreeLanes(p) # {}
  PROVE  FindFreeCacheLane(p) \in FreeLanes(p)
<1> DEFINE n == Len(recent)
           T == {n - RankOf(l) : l \in FreeLanes(p)}
<1>1. \A l \in FreeLanes(p) : RankOf(l) \in 1..n
  BY RankFacts DEF FreeLanes
<1>2. n \in Nat
  BY DEF LaneTypes
<1>3. T \subseteq Nat /\ T # {}
  BY <1>1, <1>2
<1>4. \E x \in T : \A y \in T : ~(<<y, x>> \in OpToRel(<, Nat))
  <2> HIDE DEF T
  <2> QED
    BY <1>3, NatLessThanWellFounded, WFMin
<1>5. PICK x \in T : \A y \in T : ~(y < x)
  BY <1>3, <1>4 DEF OpToRel
<1>6. PICK l \in FreeLanes(p) : x = n - RankOf(l)
  BY <1>5
<1>7. ASSUME NEW y \in FreeLanes(p) PROVE RankOf(y) <= RankOf(l)
  <2>1. n - RankOf(y) \in T
    OBVIOUS
  <2>2. ~(n - RankOf(y) < n - RankOf(l))
    BY <1>5, <1>6, <2>1
  <2> QED
    BY <1>1, <1>2, <2>2
<1> QED
  BY <1>7 DEF FindFreeCacheLane

\* Taking a lane out of the order leaves the others in it.
LEMMA WithoutKeeps ==
  ASSUME LaneTypes, NEW l \in LaneIds
  PROVE  /\ Without(l) \in Seq(LaneIds)
         /\ \A x \in LaneIds : (x # l /\ row[x] # "none")
              => \E i \in 1..Len(Without(l)) : Without(l)[i] = x
<1>0. recent \in Seq(LaneIds) /\ \A x \in LaneIds : row[x] # "none"
        => \E i \in 1..Len(recent) : recent[i] = x
  BY DEF LaneTypes
<1>1. CASE row[l] = "none"
  BY <1>0, <1>1 DEF Without
<1>2. CASE row[l] # "none"
  <2> DEFINE k == RankOf(l)
             n == Len(recent)
             a == SubSeq(recent, 1, k - 1)
             b == SubSeq(recent, k + 1, n)
  <2>1. k \in 1..n /\ recent[k] = l /\ n \in Nat
    BY <1>0, <1>2, RankFacts
  <2>2. Without(l) = a \o b
    BY <1>2 DEF Without
  <2> HIDE DEF k
  <2>3. \A i \in 1..n : recent[i] \in LaneIds
    BY <1>0
  <2>4. /\ a \in Seq(LaneIds) /\ Len(a) = k - 1
        /\ \A i \in 1..k - 1 : a[i] = recent[i]
    BY <2>1, <2>3, SubSeqProperties
  <2>5. /\ b \in Seq(LaneIds) /\ Len(b) = n - k
        /\ \A i \in 1..n - k : b[i] = recent[k + i]
    <3>1. /\ b \in Seq(LaneIds) /\ Len(b) = IF k + 1 <= n THEN n - (k + 1) + 1 ELSE 0
          /\ \A i \in 1..n - (k + 1) + 1 : b[i] = recent[(k + 1) + i - 1]
      <4>1. k + 1 \in Int /\ n \in Int /\ \A i \in k + 1..n : recent[i] \in LaneIds
        BY <2>1, <2>3
      <4> QED
        BY <4>1, SubSeqProperties
    <3> QED
      BY <2>1, <3>1
  <2> HIDE DEF a, b
  <2>6. /\ a \o b \in Seq(LaneIds) /\ Len(a \o b) = n - 1
        /\ \A i \in 1..n - 1 : (a \o b)[i] = IF i <= k - 1 THEN a[i] ELSE b[i - (k - 1)]
    <3>1. /\ a \o b \in Seq(LaneIds) /\ Len(a \o b) = Len(a) + Len(b)
          /\ \A i \in 1..Len(a) + Len(b) : (a \o b)[i] = IF i <= Len(a) THEN a[i] ELSE b[i - Len(a)]
      <4>1. a \in Seq(LaneIds) /\ b \in Seq(LaneIds)
        BY <2>4, <2>5
      <4>2. QED
        BY <4>1, ConcatProperties, Zenon
    <3>2. Len(a) + Len(b) = n - 1
      BY <2>1, <2>4, <2>5
    <3> QED
      BY <2>4, <3>1, <3>2
  <2>7. ASSUME NEW x \in LaneIds, x # l, row[x] # "none" PROVE \E i \in 1..n - 1 : (a \o b)[i] = x
    <3>1. PICK i \in 1..n : recent[i] = x
      BY <1>0, <2>7
    <3>2. i # k
      BY <2>1, <2>7, <3>1
    <3>3. CASE i < k
      <4>1. i \in 1..n - 1 /\ (a \o b)[i] = recent[i]
        BY <2>1, <2>4, <2>6, <3>3
      <4> QED
        BY <3>1, <4>1
    <3>4. CASE i > k
      <4>0. i - 1 \in 1..n - 1 /\ i - k \in 1..n - k /\ ~(i - 1 <= k - 1) /\ (i - 1) - (k - 1) = i - k
        BY <2>1, <3>1, <3>4
      <4>1. (a \o b)[i - 1] = b[i - k]
        BY <2>6, <4>0
      <4>2. b[i - k] = recent[i]
        BY <2>1, <2>5, <3>1, <4>0
      <4> QED
        BY <3>1, <4>0, <4>1, <4>2
    <3>5. i < k \/ i > k
      BY <2>1, <3>1, <3>2
    <3> QED
      BY <3>3, <3>4, <3>5
  <2> QED
    BY <2>2, <2>6, <2>7
<1> QED
  BY <1>1, <1>2

\* A lane that is used comes last, and the others keep a place.
LEMMA UsedKeeps ==
  ASSUME LaneTypes, NEW l \in LaneIds
  PROVE  /\ Used(l) \in Seq(LaneIds)
         /\ \A x \in LaneIds : (x = l \/ row[x] # "none") => \E i \in 1..Len(Used(l)) : Used(l)[i] = x
<1>1. /\ Without(l) \in Seq(LaneIds)
      /\ \A x \in LaneIds : (x # l /\ row[x] # "none") => \E i \in 1..Len(Without(l)) : Without(l)[i] = x
  BY WithoutKeeps
<1>2. /\ Used(l) \in Seq(LaneIds) /\ Len(Used(l)) = Len(Without(l)) + 1 /\ Len(Without(l)) \in Nat
      /\ \A i \in 1..Len(Without(l)) : Used(l)[i] = Without(l)[i]
      /\ Used(l)[Len(Without(l)) + 1] = l
  BY <1>1, AppendProperties DEF Used
<1>3. Len(Without(l)) + 1 \in 1..Len(Used(l)) /\ 1..Len(Without(l)) \subseteq 1..Len(Used(l))
  BY <1>2
<1>4. ASSUME NEW x \in LaneIds, x # l, row[x] # "none" PROVE \E i \in 1..Len(Used(l)) : Used(l)[i] = x
  <2>1. PICK i \in 1..Len(Without(l)) : Without(l)[i] = x
    BY <1>1, <1>4
  <2> QED
    BY <1>2, <1>3, <2>1
<1> QED
  BY <1>2, <1>3, <1>4

-----------------------------------------------------------------------------
(* How many lanes a pool has *)

\* The lanes of a pool, which are finitely many.
LanesOf(p) == {l \in LaneIds : row[l] # "none" /\ pool[l] = p}

\* A step that adds no lane to a pool keeps the pool within its limit.
LEMMA PoolShrinks ==
  ASSUME PoolWithinLimit, \A j \in Jobs : LanesOf(PoolOf[j])' \subseteq LanesOf(PoolOf[j])
  PROVE  PoolWithinLimit'
<1> SUFFICES ASSUME NEW j \in Jobs PROVE CountLanes(PoolOf[j])' <= MaxLanes
  BY DEF PoolWithinLimit
<1> DEFINE S == LanesOf(PoolOf[j])
           T == LanesOf(PoolOf[j])'
<1>1. CountLanes(PoolOf[j]) = Cardinality(S) /\ CountLanes(PoolOf[j])' = Cardinality(T)
  BY DEF CountLanes, LanesOf
<1>2. S \subseteq LaneIds /\ T \subseteq S
  BY DEF LanesOf
<1> HIDE DEF S, T
<1>3. IsFiniteSet(S)
  BY <1>2, LaneIdsFacts, FS_Subset
<1>4. IsFiniteSet(T) /\ Cardinality(T) <= Cardinality(S)
  BY <1>2, <1>3, FS_Subset
<1>5. Cardinality(S) \in Nat /\ Cardinality(T) \in Nat
  BY <1>3, <1>4, FS_CardinalityType
<1>6. Cardinality(S) <= MaxLanes
  BY <1>1 DEF PoolWithinLimit
<1> QED
  BY <1>1, <1>4, <1>5, <1>6

\* One lane more is made only below the limit (LeaseCacheLane).
LEMMA PoolGrows ==
  ASSUME PoolWithinLimit, NEW j \in Jobs, ~(CountLanes(PoolOf[j]) >= MaxLanes), NEW l \in LaneIds,
         LanesOf(PoolOf[j])' = LanesOf(PoolOf[j]) \cup {l},
         \A k \in Jobs : PoolOf[k] # PoolOf[j] => LanesOf(PoolOf[k])' = LanesOf(PoolOf[k])
  PROVE  PoolWithinLimit'
<1> SUFFICES ASSUME NEW k \in Jobs PROVE CountLanes(PoolOf[k])' <= MaxLanes
  BY DEF PoolWithinLimit
<1>1. CASE PoolOf[k] # PoolOf[j]
  <2>1. CountLanes(PoolOf[k])' = CountLanes(PoolOf[k])
    BY <1>1 DEF CountLanes, LanesOf
  <2> QED
    BY <2>1 DEF PoolWithinLimit
<1>2. CASE PoolOf[k] = PoolOf[j]
  <2> DEFINE S == LanesOf(PoolOf[j])
  <2>1. CountLanes(PoolOf[j]) = Cardinality(S) /\ CountLanes(PoolOf[k])' = Cardinality(S \cup {l})
    BY <1>2 DEF CountLanes, LanesOf
  <2>2. S \subseteq LaneIds
    BY DEF LanesOf
  <2> HIDE DEF S
  <2>3. IsFiniteSet(S)
    BY <2>2, LaneIdsFacts, FS_Subset
  <2>4. Cardinality(S) \in Nat
    BY <2>3, FS_CardinalityType
  <2>5. Cardinality(S \cup {l}) = IF l \in S THEN Cardinality(S) ELSE Cardinality(S) + 1
    BY <2>3, FS_AddElement
  <2> QED
    BY <2>1, <2>4, <2>5
<1> QED
  BY <1>1, <1>2

-----------------------------------------------------------------------------
(* A job and its lane *)

\* An empty pool satisfies LaneInv.
LEMMA LaneInitInv == LanesInit => LaneInv
<1> SUFFICES ASSUME LanesInit PROVE LaneInv
  OBVIOUS
<1> USE DEF LanesInit
<1>0. /\ NoGC \in GCType /\ NoGC.at = "idle" /\ NoGC.seen = {} /\ NoGC.orphans = {} /\ NoGC.id = 0
  BY DEF NoGC, GCType
<1>1. LaneTypes
  BY <1>0, LaneIdsFacts DEF LaneTypes
<1>2. MintedInv /\ HeldInv /\ CollectInv
  BY <1>0 DEF MintedInv, HeldInv, CollectInv, OrphansAreDead
<1>3. PoolWithinLimit
  <2> SUFFICES ASSUME NEW j \in Jobs PROVE CountLanes(PoolOf[j]) <= MaxLanes
    BY DEF PoolWithinLimit
  <2>1. {l \in LaneIds : row[l] # "none" /\ pool[l] = PoolOf[j]} = {}
    OBVIOUS
  <2>2. CountLanes(PoolOf[j]) = 0
    BY <2>1, FS_EmptySet DEF CountLanes
  <2> QED
    BY <2>2
<1> QED
  BY <1>1, <1>2, <1>3 DEF LaneInv

\* A job is handed a lane nobody has: a free one, or one with a new id.
LEMMA HandKeeps ==
  ASSUME LaneInv, NEW j \in Jobs, NEW l \in LaneIds, job[j] = "new", Hand(j, l, "leased"),
         UNCHANGED <<volumes, gc>>,
         DOMAIN pool' = LaneIds, minted' \in 0..Len(LaneSize), minted <= minted', l <= minted',
         row[l] = "free" \/ (row[l] = "none" /\ l > minted)
  PROVE  LaneTypes' /\ MintedInv' /\ HeldInv' /\ CollectInv'
<1>0. LaneTypes /\ MintedInv /\ HeldInv /\ CollectInv
  BY DEF LaneInv
<1>1. /\ row' = [row EXCEPT ![l] = j] /\ recent' = Used(l) /\ lane' = [lane EXCEPT ![j] = l]
      /\ job' = [job EXCEPT ![j] = "leased"]
  BY DEF Hand
<1>2. /\ row' \in [LaneIds -> {"none", "free"} \cup Jobs] /\ row'[l] = j
      /\ \A x \in LaneIds : x # l => row'[x] = row[x]
      /\ lane' \in [Jobs -> {0} \cup LaneIds] /\ lane'[j] = l /\ \A k \in Jobs : k # j
           => lane'[k] = lane[k]
      /\ job' \in [Jobs -> {"new", "leased", "ready", "mounted", "uncached", "removed", "done"}]
      /\ job'[j] = "leased" /\ \A k \in Jobs : k # j => job'[k] = job[k]
  BY <1>0, <1>1 DEF LaneTypes
<1>3. LaneTypes'
  <2>1. /\ Used(l) \in Seq(LaneIds)
        /\ \A x \in LaneIds : (x = l \/ row[x] # "none") => \E i \in 1..Len(Used(l)) : Used(l)[i] = x
    BY <1>0, UsedKeeps
  <2>2. recent' \in Seq(LaneIds) /\ \A x \in LaneIds : row'[x] # "none"
          => \E i \in 1..Len(recent') : recent'[i] = x
    BY <1>1, <1>2, <2>1
  <2> QED
    BY <1>0, <1>2, <2>2 DEF LaneTypes
<1>4. /\ minted \in Nat /\ gc.id \in Nat /\ gc.id \in {0} \cup LaneIds
           /\ \A x \in LaneIds : x \in Nat /\ x # 0
      /\ gc.seen \subseteq LaneIds /\ gc.orphans \subseteq LaneIds /\ volumes \subseteq LaneIds
      /\ minted' \in Nat
  BY <1>0, <1>3, LaneNumbers DEF LaneTypes
<1>5. l # gc.id /\ l \notin gc.orphans
  BY <1>0, <1>4 DEF CollectInv, OrphansAreDead, MintedInv
<1>6. MintedInv'
  <2>1. \A x \in LaneIds : row'[x] # "none" => x <= minted'
    BY <1>0, <1>2, <1>4 DEF MintedInv
  <2>2. \A x \in volumes \cup gc.seen : x <= minted'
    BY <1>0, <1>4 DEF MintedInv
  <2> QED
    BY <1>0, <1>4, <2>1, <2>2 DEF MintedInv
<1>7. HeldInv'
  BY <1>0, <1>2 DEF HeldInv
<1>8. CollectInv'
  <2>1. OrphansAreDead'
    <3>1. ASSUME NEW x \in gc.orphans PROVE row'[x] = "none" /\ x <= minted'
      <4>1. x # l /\ x \in LaneIds /\ row[x] = "none" /\ x <= minted
        BY <1>0, <1>4, <1>5 DEF CollectInv, OrphansAreDead
      <4> QED
        BY <1>2, <1>4, <4>1
    <3> QED
      BY <3>1 DEF OrphansAreDead
  <2> QED
    BY <1>0, <1>2, <1>4, <1>5, <2>1 DEF CollectInv
<1> QED
  BY <1>3, <1>6, <1>7, <1>8

\* Leasing a lane in one transaction (LeaseCacheLane).
LEMMA LeaseKeeps ==
  ASSUME LaneInv, NEW j \in Jobs, LeaseCacheLane(j) PROVE LaneInv'
<1>0. LaneTypes /\ MintedInv /\ HeldInv /\ CollectInv /\ PoolWithinLimit
  BY DEF LaneInv
<1> DEFINE p == PoolOf[j]
<1>1. job[j] = "new" /\ UNCHANGED <<volumes, gc>> /\ minted \in 0..Len(LaneSize) /\ Len(LaneSize) \in Nat
  BY <1>0, LaneIdsFacts DEF LeaseCacheLane, LaneTypes
<1>2. CASE FreeLanes(p) # {}
  <2> DEFINE l == FindFreeCacheLane(p)
  <2>1. Hand(j, l, "leased") /\ UNCHANGED <<pool, minted>>
    BY <1>2 DEF LeaseCacheLane
  <2>2. l \in LaneIds /\ row[l] = "free"
    BY <1>0, <1>2, FreeLaneFound DEF FreeLanes
  <2> HIDE DEF l
  <2>3. l <= minted
    BY <1>0, <2>2 DEF MintedInv
  <2>4. LaneTypes' /\ MintedInv' /\ HeldInv' /\ CollectInv'
    BY <1>0, <1>1, <2>1, <2>2, <2>3, HandKeeps DEF LaneTypes
  <2>5. \A x \in LaneIds : row'[x] # "none" => row[x] # "none"
    BY <1>0, <2>1, <2>2 DEF Hand, LaneTypes
  <2>6. PoolWithinLimit'
    BY <1>0, <2>1, <2>5, PoolShrinks DEF LanesOf
  <2> QED
    BY <2>4, <2>6 DEF LaneInv
<1>3. CASE FreeLanes(p) = {} /\ CountLanes(p) >= MaxLanes
  <2>1. job' = [job EXCEPT ![j] = "uncached"] /\ UNCHANGED <<row, recent, pool, minted, lane>>
    BY <1>3 DEF LeaseCacheLane
  <2>2. LaneTypes' /\ MintedInv' /\ HeldInv' /\ CollectInv'
    BY <1>0, <1>1, <2>1 DEF LaneTypes, MintedInv, HeldInv, CollectInv, OrphansAreDead
  <2>3. PoolWithinLimit'
    BY <1>0, <2>1, PoolShrinks DEF LanesOf
  <2> QED
    BY <2>2, <2>3 DEF LaneInv
<1>4. CASE FreeLanes(p) = {} /\ ~(CountLanes(p) >= MaxLanes)
  <2> DEFINE l == minted + 1
  <2>1. /\ minted < Len(LaneSize) /\ minted' = minted + 1 /\ pool' = [pool EXCEPT ![l] = p]
        /\ Hand(j, l, "leased")
    BY <1>4 DEF LeaseCacheLane
  <2>2. l \in LaneIds /\ l > minted /\ l <= minted' /\ minted <= minted' /\ minted' \in 0..Len(LaneSize)
    BY <1>1, <2>1, LaneIdsFacts
  <2> HIDE DEF l
  <2>3. row[l] = "none"
    BY <1>0, <1>1, <2>2, LaneIdsFacts DEF MintedInv
  <2>4. DOMAIN pool' = LaneIds /\ pool'[l] = p /\ \A x \in LaneIds : x # l => pool'[x] = pool[x]
    BY <1>0, <2>1, <2>2 DEF LaneTypes
  <2>5. LaneTypes' /\ MintedInv' /\ HeldInv' /\ CollectInv'
    BY <1>0, <1>1, <2>1, <2>2, <2>3, <2>4, HandKeeps
  <2>6. row'[l] = j /\ \A x \in LaneIds : x # l => row'[x] = row[x]
    BY <1>0, <2>1, <2>2 DEF Hand, LaneTypes
  <2>7. LanesOf(p)' = LanesOf(p) \cup {l} /\ \A k \in Jobs : PoolOf[k] # p
          => LanesOf(PoolOf[k])' = LanesOf(PoolOf[k])
    BY <2>2, <2>3, <2>4, <2>6 DEF LanesOf
  <2>8. PoolWithinLimit'
    BY <1>0, <1>4, <2>2, <2>7, PoolGrows
  <2> QED
    BY <2>5, <2>8 DEF LaneInv
<1> QED
  BY <1>2, <1>3, <1>4

\* A job's other steps: its volume comes to exist, it gives its lane back, it
\* ends; each touches its own lane and no other.
LEMMA JobKeeps ==
  ASSUME LaneInv, NEW j \in Jobs, Job(j) PROVE LaneInv'
<1>0. LaneTypes /\ MintedInv /\ HeldInv /\ CollectInv /\ PoolWithinLimit
  BY DEF LaneInv
<1>1. /\ minted \in Nat /\ gc.id \in {0} \cup LaneIds /\ \A x \in LaneIds : x \in Nat /\ x # 0
      /\ gc.seen \subseteq LaneIds /\ gc.orphans \subseteq LaneIds /\ volumes \subseteq LaneIds
  BY <1>0, LaneNumbers
\* the shape of each of them
<1>2. ASSUME UNCHANGED <<pool, recent, minted, lane, gc>>,
             NEW s \in {"ready", "mounted", "uncached", "removed", "done"},
             job' = [job EXCEPT ![j] = s], row' = row \/ ReleaseCacheLane(j),
             volumes' \in {volumes, volumes \cup {lane[j]}}, volumes' = volumes \/ job[j] = "leased",
             s \in {"ready", "mounted"} => /\ row' = row /\ job[j] \in {"leased", "ready", "mounted"}
                                           /\ lane[j] \in volumes'
      PROVE  LaneInv'
  <2>1. /\ job' \in [Jobs -> {"new", "leased", "ready", "mounted", "uncached", "removed", "done"}]
        /\ job'[j] = s
        /\ \A k \in Jobs : k # j => job'[k] = job[k]
    BY <1>0, <1>2 DEF LaneTypes
  <2>2. /\ row' \in [LaneIds -> {"none", "free"} \cup Jobs]
        /\ \A x \in LaneIds : row'[x] = row[x] \/ (row[x] = j /\ row'[x] = "free")
    BY <1>0, <1>2 DEF LaneTypes, ReleaseCacheLane
  <2>3. \A x \in LaneIds : row'[x] = "none" <=> row[x] = "none"
    BY <1>0, <2>2 DEF LaneTypes
  <2>4. volumes' \subseteq LaneIds /\ \A x \in volumes' : x \in volumes
          \/ (x = lane[j] /\ row[x] # "none")
    BY <1>0, <1>1, <1>2 DEF HeldInv
  <2>5. LaneTypes'
    BY <1>0, <1>2, <2>1, <2>2, <2>3, <2>4 DEF LaneTypes
  <2>6. MintedInv'
    BY <1>0, <1>1, <1>2, <2>3, <2>4 DEF MintedInv
  <2>7. HeldInv'
    <3>1. ASSUME NEW k \in Jobs, job'[k] \in {"leased", "ready", "mounted"}
          PROVE  lane[k] \in LaneIds /\ row'[lane[k]] = k
      <4>1. CASE k = j
        BY <1>0, <1>2, <2>1, <3>1, <4>1 DEF HeldInv
      <4>2. CASE k # j
        BY <1>0, <2>1, <2>2, <3>1, <4>2 DEF HeldInv
      <4> QED
        BY <4>1, <4>2
    <3>2. ASSUME NEW k \in Jobs, job'[k] \in {"ready", "mounted"} PROVE lane[k] \in volumes'
      BY <1>0, <1>2, <2>1, <3>2 DEF HeldInv
    <3> QED
      BY <1>2, <3>1, <3>2 DEF HeldInv
  <2>8. CollectInv'
    <3>1. OrphansAreDead'
      BY <1>0, <1>1, <1>2, <2>3 DEF CollectInv, OrphansAreDead
    <3> QED
      BY <1>0, <1>1, <1>2, <2>3, <2>4, <3>1 DEF CollectInv
  <2>9. PoolWithinLimit'
    BY <1>0, <1>2, <2>3, PoolShrinks DEF LanesOf
  <2> QED
    BY <2>5, <2>6, <2>7, <2>8, <2>9 DEF LaneInv
<1>3. CASE EnsureOwnedVolume(j)
  BY <1>2, <1>3 DEF EnsureOwnedVolume
<1>4. CASE Mount(j)
  <2>1. lane[j] \in volumes
    BY <1>0, <1>4 DEF Mount, HeldInv
  <2> QED
    BY <1>2, <1>4, <2>1 DEF Mount
<1>5. CASE CapsuleRemoved(j)
  BY <1>2, <1>5 DEF CapsuleRemoved
<1>6. CASE Finalize(j)
  BY <1>2, <1>6 DEF Finalize
<1>7. ASSUME NEW created \in BOOLEAN, NEW returned \in BOOLEAN, EnsureFails(j, created, returned)
      PROVE  LaneInv'
  BY <1>2, <1>7 DEF EnsureFails
<1> QED
  BY <1>3, <1>4, <1>5, <1>6, <1>7, LeaseKeeps DEF Job

-----------------------------------------------------------------------------
(* The collection *)

\* A collection deletes a row only while it is free, and removes a volume only
\* of an id that has no row and never gets one again (PlanGC, RunGC).
LEMMA CollectKeeps ==
  ASSUME LaneInv, Collect PROVE LaneInv'
<1>0. LaneTypes /\ MintedInv /\ HeldInv /\ CollectInv /\ PoolWithinLimit /\ gc \in GCType
  BY DEF LaneInv, LaneTypes
<1>1. /\ minted \in Nat /\ gc.id \in {0} \cup LaneIds /\ \A x \in LaneIds : x \in Nat /\ x # 0
      /\ gc.seen \subseteq LaneIds /\ gc.orphans \subseteq LaneIds /\ volumes \subseteq LaneIds
  BY <1>0, LaneNumbers
\* only the collection's own state changes
<1>2. ASSUME UNCHANGED <<row, pool, recent, minted, volumes, job, lane>>, gc' \in GCType,
             gc'.seen \subseteq volumes \cup gc.seen, gc'.id = 0 \/ gc'.id \in gc.orphans,
             gc'.at = "volume" <=> gc'.id # 0,
             \A l \in gc'.orphans : l \in gc.orphans \/ (l \in gc.seen /\ row[l] = "none"),
             gc'.at \in {"run", "volume"} =>
               \A l \in gc'.seen \cap volumes : row[l] # "none"
                 \/ l \in gc'.failed \cup gc'.orphans \cup {gc'.id}
      PROVE  LaneInv'
  <2>1. LaneTypes' /\ HeldInv'
    BY <1>0, <1>2 DEF LaneTypes, HeldInv
  <2>2. MintedInv'
    BY <1>0, <1>1, <1>2 DEF MintedInv, CollectInv, OrphansAreDead
  <2>3. CollectInv'
    <3>1. OrphansAreDead'
      BY <1>0, <1>2 DEF CollectInv, OrphansAreDead, MintedInv
    <3>2. gc'.id # 0 => row[gc'.id] = "none"
      BY <1>0, <1>2 DEF CollectInv, OrphansAreDead
    <3> QED
      BY <1>2, <3>1, <3>2 DEF CollectInv
  <2>4. PoolWithinLimit'
    BY <1>0, <1>2, PoolShrinks DEF LanesOf
  <2> QED
    BY <2>1, <2>2, <2>3, <2>4 DEF LaneInv
<1>3. CASE ListVolumes
  <2>1. gc' = [NoGC EXCEPT !.at = "listed", !.seen = volumes]
          /\ UNCHANGED <<row, pool, recent, minted, volumes, job, lane>>
    BY <1>3 DEF ListVolumes
  <2>2. gc' \in GCType /\ gc'.at = "listed" /\ gc'.seen = volumes /\ gc'.orphans = {} /\ gc'.id = 0
    BY <1>1, <2>1 DEF NoGC, GCType
  <2> QED
    BY <1>2, <2>1, <2>2
<1>4. CASE EndGC \/ CollectorEnds
  <2>1. gc' = NoGC /\ UNCHANGED <<row, pool, recent, minted, volumes, job, lane>>
    BY <1>4 DEF EndGC, CollectorEnds
  <2>2. gc' \in GCType /\ gc'.at = "idle" /\ gc'.seen = {} /\ gc'.orphans = {} /\ gc'.id = 0
    BY <2>1 DEF NoGC, GCType
  <2> QED
    BY <1>2, <2>1, <2>2
<1>5. ASSUME NEW expired \in SUBSET FreeNow, NEW allFree \in BOOLEAN, PlanGC(expired, allFree)
      PROVE  LaneInv'
  <2> DEFINE evict == IF allFree THEN FreeNow ELSE expired \cup ByUse(expired)
  <2>1. /\ gc' = [gc EXCEPT !.at = "run", !.orphans = OrphansOf, !.evict = evict] /\ gc.at = "listed"
        /\ UNCHANGED <<row, pool, recent, minted, volumes, job, lane>>
    BY <1>5 DEF PlanGC
  <2>2. evict \subseteq LaneIds /\ OrphansOf \subseteq LaneIds
    BY <1>1 DEF FreeNow, ByUse, OrphansOf
  <2> HIDE DEF evict
  <2>3. gc' \in GCType /\ gc'.at = "run" /\ gc'.orphans = OrphansOf /\ gc'.seen = gc.seen
          /\ gc'.id = gc.id
    BY <1>0, <2>1, <2>2 DEF GCType
  <2>4. gc'.id = 0
    BY <1>0, <2>1, <2>3 DEF CollectInv
  <2> QED
    BY <1>2, <2>1, <2>3, <2>4 DEF OrphansOf
<1>6. ASSUME NEW l \in LaneIds, DeleteLane(l) PROVE LaneInv'
  <2>1. /\ gc.at = "run" /\ row[l] = "free" /\ row' = [row EXCEPT ![l] = "none"] /\ recent' = Without(l)
        /\ gc' = [gc EXCEPT !.at = "volume", !.id = l, !.evict = @ \ {l}]
        /\ UNCHANGED <<pool, minted, volumes, job, lane>>
    BY <1>6 DEF DeleteLane, DeleteFreeCacheLane
  <2>2. /\ gc' \in GCType /\ gc'.at = "volume" /\ gc'.id = l /\ gc'.seen = gc.seen
        /\ gc'.orphans = gc.orphans
        /\ gc'.failed = gc.failed
    BY <1>0, <2>1 DEF GCType
  <2>3. /\ row' \in [LaneIds -> {"none", "free"} \cup Jobs] /\ row'[l] = "none"
        /\ \A x \in LaneIds : x # l => row'[x] = row[x]
    BY <1>0, <2>1 DEF LaneTypes
  <2>4. LaneTypes'
    <3>1. /\ recent' \in Seq(LaneIds)
          /\ \A x \in LaneIds : row'[x] # "none" => \E i \in 1..Len(recent') : recent'[i] = x
      BY <1>0, <2>1, <2>3, WithoutKeeps
    <3> QED
      BY <1>0, <2>1, <2>2, <2>3, <3>1 DEF LaneTypes
  <2>5. MintedInv'
    BY <1>0, <1>1, <2>1, <2>2, <2>3 DEF MintedInv
  <2>6. HeldInv'
    BY <1>0, <2>1, <2>3 DEF HeldInv
  <2>7. CollectInv'
    <3>1. OrphansAreDead'
      BY <1>0, <1>1, <2>1, <2>2, <2>3 DEF CollectInv, OrphansAreDead
    <3>2. gc.id = 0
      BY <1>0, <2>1 DEF CollectInv
    <3>3. \A x \in gc.seen \cap volumes : row'[x] # "none" \/ x \in gc.failed \cup gc.orphans \cup {l}
      BY <1>0, <1>1, <2>1, <2>3, <3>2 DEF CollectInv
    <3> QED
      BY <1>1, <2>1, <2>2, <2>3, <3>1, <3>3 DEF CollectInv
  <2>8. PoolWithinLimit'
    BY <1>0, <2>1, <2>3, PoolShrinks DEF LanesOf
  <2> QED
    BY <2>4, <2>5, <2>6, <2>7, <2>8 DEF LaneInv
<1>7. ASSUME NEW l \in LaneIds, SkipLane(l) PROVE LaneInv'
  <2>1. /\ gc.at = "run" /\ gc' = [gc EXCEPT !.evict = @ \ {l}]
        /\ UNCHANGED <<row, pool, recent, minted, volumes, job, lane>>
    BY <1>7 DEF SkipLane
  <2>2. /\ gc' \in GCType /\ gc'.at = gc.at /\ gc'.id = gc.id /\ gc'.seen = gc.seen
        /\ gc'.orphans = gc.orphans
        /\ gc'.failed = gc.failed
    BY <1>0, <2>1 DEF GCType
  <2>3. gc.id = 0
    BY <1>0, <2>1 DEF CollectInv
  <2>4. \A x \in gc.seen \cap volumes : row[x] # "none" \/ x \in gc.failed \cup gc.orphans \cup {gc.id}
    BY <1>0, <2>1 DEF CollectInv
  <2> QED
    BY <1>2, <2>1, <2>2, <2>3, <2>4
<1>8. ASSUME NEW l \in LaneIds, RemoveOrphanVolume(l) PROVE LaneInv'
  <2>1. /\ gc.at = "run" /\ l \in gc.orphans
        /\ gc' = [gc EXCEPT !.at = "volume", !.id = l, !.orphans = @ \ {l}]
        /\ UNCHANGED <<row, pool, recent, minted, volumes, job, lane>>
    BY <1>8 DEF RemoveOrphanVolume
  <2>2. /\ gc' \in GCType /\ gc'.at = "volume" /\ gc'.id = l /\ gc'.seen = gc.seen
        /\ gc'.orphans = gc.orphans \ {l}
        /\ gc'.failed = gc.failed
    BY <1>0, <2>1 DEF GCType
  <2>3. gc.id = 0
    BY <1>0, <2>1 DEF CollectInv
  <2>4. \A x \in gc.seen \cap volumes : row[x] # "none" \/ x \in gc.failed \cup gc.orphans \cup {gc.id}
    BY <1>0, <2>1 DEF CollectInv
  <2>5. \A x \in gc'.seen \cap volumes : row[x] # "none"
          \/ x \in gc'.failed \cup gc'.orphans \cup {gc'.id}
    BY <1>1, <2>2, <2>3, <2>4
  <2> QED
    BY <1>1, <1>2, <2>1, <2>2, <2>5
<1>9. ASSUME NEW removed \in BOOLEAN, RemoveVolume(removed) PROVE LaneInv'
  <2>1. /\ gc.at = "volume" /\ volumes' = (IF removed THEN volumes \ {gc.id} ELSE volumes)
        /\ gc' = [gc EXCEPT !.at = "run", !.id = 0, !.failed = IF removed THEN @ ELSE @ \cup {gc.id}]
        /\ UNCHANGED <<row, pool, recent, minted, job, lane>>
    BY <1>9 DEF RemoveVolume
  <2>2. /\ gc'.at = "run" /\ gc'.id = 0 /\ gc'.seen = gc.seen /\ gc'.orphans = gc.orphans
        /\ gc'.evict = gc.evict
        /\ gc'.failed = IF removed THEN gc.failed ELSE gc.failed \cup {gc.id}
    BY <1>0, <2>1 DEF GCType
  <2>3. gc.id \in LaneIds /\ row[gc.id] = "none"
    BY <1>0, <1>1, <2>1 DEF CollectInv
  <2>4. gc' \in GCType
    BY <1>0, <2>1, <2>3 DEF GCType
  <2>5. LaneTypes'
    BY <1>0, <2>1, <2>4 DEF LaneTypes
  <2>6. MintedInv'
    BY <1>0, <1>1, <2>1, <2>2 DEF MintedInv
  <2>7. HeldInv'
    <3>1. ASSUME NEW j \in Jobs, job[j] \in {"ready", "mounted"} PROVE lane[j] # gc.id
      BY <1>0, <2>3, <3>1 DEF HeldInv
    <3> QED
      BY <1>0, <2>1, <3>1 DEF HeldInv
  <2>8. CollectInv'
    <3>1. OrphansAreDead'
      BY <1>0, <2>1, <2>2 DEF CollectInv, OrphansAreDead
    <3>2. \A x \in gc'.seen \cap volumes' : row[x] # "none" \/ x \in gc'.failed \cup gc'.orphans
      BY <1>0, <2>1, <2>2 DEF CollectInv
    <3> QED
      BY <2>1, <2>2, <3>1, <3>2 DEF CollectInv
  <2>9. PoolWithinLimit'
    BY <1>0, <2>1, PoolShrinks DEF LanesOf
  <2> QED
    BY <2>5, <2>6, <2>7, <2>8, <2>9 DEF LaneInv
<1> QED
  BY <1>3, <1>4, <1>5, <1>6, <1>7, <1>8, <1>9 DEF Collect

-----------------------------------------------------------------------------
(* What the lanes promise *)

\* Jobs and the collection between them keep all of it.
LEMMA LaneStep == LaneInv /\ [LanesNext]_laneVars => LaneInv'
<1> SUFFICES ASSUME LaneInv, [LanesNext]_laneVars PROVE LaneInv'
  OBVIOUS
<1>1. CASE UNCHANGED laneVars
  BY <1>1
  DEF laneVars, LaneInv, LaneTypes, MintedInv, HeldInv, CollectInv, OrphansAreDead, PoolWithinLimit,
      CountLanes
<1> QED
  BY <1>1, JobKeeps, CollectKeeps DEF LanesNext

\* LaneInv is an invariant of the lanes and their collector.
LEMMA LaneInvariant == LanesSpec => []LaneInv
  BY LaneInitInv, LaneStep, PTL DEF LanesSpec

\* A lane that a job has ensured is its own and is there until its capsule is
\* gone, whatever a collection planned before; what a plan calls an orphan has
\* no row and never gets one; and no pool has more lanes than it may
\* (LeaseCacheLane, DeleteFreeCacheLane, PlanGC).
THEOREM LanesAreAlwaysSafe == LanesSpec => []LanesAreSafe
<1>1. ASSUME LaneInv PROVE LanesAreSafe
  <2>1. LaneStaysWithItsJob
    BY <1>1, LaneNumbers DEF LaneInv, HeldInv, CollectInv, LaneStaysWithItsJob
  <2> QED
    BY <1>1, <2>1 DEF LaneInv, CollectInv, LanesAreSafe
<1> QED
  BY <1>1, LaneInvariant, PTL

\* A collection that ends has taken every listed volume without a row, those
\* whose removal failed excepted, whatever jobs did meanwhile (RunGC).
THEOREM PassAlwaysCollects == LanesSpec => PassCollects
<1> DEFINE Collected == EndGC => \A l \in gc.seen : l \in volumes => row[l] # "none" \/ l \in gc.failed
<1>1. ASSUME LaneInv PROVE Collected
  <2> SUFFICES ASSUME EndGC, NEW l \in gc.seen, l \in volumes PROVE row[l] # "none" \/ l \in gc.failed
    OBVIOUS
  <2>1. gc.at = "run" /\ gc.orphans = {} /\ gc.id = 0 /\ l # 0
    BY <1>1, LaneNumbers DEF EndGC, LaneInv, CollectInv
  <2> QED
    BY <1>1, <2>1 DEF LaneInv, CollectInv
<1>2. LaneInv /\ [LanesNext]_laneVars => [Collected]_laneVars
  BY <1>1
<1> HIDE DEF Collected
<1>3. LanesSpec => [][Collected]_laneVars
  BY <1>2, LaneInvariant, PTL DEF LanesSpec
<1> QED
  BY <1>3 DEF PassCollects, Collected

-----------------------------------------------------------------------------
(* What a plan weighs *)

\* The weight of lanes without one another's: it adds up.
LEMMA PlanBytesFacts ==
  ASSUME NEW A \in SUBSET LaneIds, NEW B \in SUBSET LaneIds
  PROVE  /\ PlanBytes(A) \in Nat
         /\ A \cap B = {} => PlanBytes(A \cup B) = PlanBytes(A) + PlanBytes(B)
         /\ A \subseteq B => PlanBytes(A) <= PlanBytes(B)
<1>1. ASSUME NEW X \in SUBSET LaneIds
      PROVE  /\ IsFiniteSet(X \cap gc.seen) /\ \A x \in X \cap gc.seen : LaneSize[x] \in Nat
             /\ Total(LaneSize, X \cap gc.seen) \in Nat
  <2>1. X \cap gc.seen \subseteq LaneIds /\ \A x \in X \cap gc.seen : LaneSize[x] \in Nat
    BY DEF LaneIds
  <2>2. IsFiniteSet(X \cap gc.seen)
    BY <2>1, LaneIdsFacts, FS_Subset
  <2>3. QED
    BY <2>1, <2>2, TotalNat
<1>2. ASSUME NEW X \in SUBSET LaneIds, NEW Y \in SUBSET LaneIds, X \cap Y = {}
      PROVE  PlanBytes(X \cup Y) = PlanBytes(X) + PlanBytes(Y)
  <2> DEFINE P == X \cap gc.seen
             Q == Y \cap gc.seen
  <2>1. P \cap Q = {} /\ (X \cup Y) \cap gc.seen = P \cup Q
    BY <1>2
  <2>2. IsFiniteSet(P) /\ IsFiniteSet(Q) /\ \A x \in P \cup Q : LaneSize[x] \in Int
    <3>1. IsFiniteSet(P) /\ \A x \in P : LaneSize[x] \in Nat
      BY <1>1
    <3>2. IsFiniteSet(Q) /\ \A x \in Q : LaneSize[x] \in Nat
      BY <1>1
    <3> HIDE DEF P, Q
    <3>3. QED
      BY <3>1, <3>2
  <2>3. Bytes((X \cup Y) \cap gc.seen) = Total(LaneSize, P \cup Q)
    BY <2>1 DEF Bytes
  <2>4. Bytes(X \cap gc.seen) = Total(LaneSize, P) /\ Bytes(Y \cap gc.seen) = Total(LaneSize, Q)
    BY DEF Bytes
  <2> HIDE DEF P, Q
  <2>5. Total(LaneSize, P \cup Q) = Total(LaneSize, P) + Total(LaneSize, Q)
    BY <2>1, <2>2, TotalUnion
  <2>6. QED
    BY <2>3, <2>4, <2>5 DEF PlanBytes
<1>3. \A X \in SUBSET LaneIds : PlanBytes(X) \in Nat
  BY <1>1 DEF PlanBytes, Bytes
<1>4. ASSUME A \subseteq B PROVE PlanBytes(A) <= PlanBytes(B)
  <2>1. B = A \cup (B \ A) /\ A \cap (B \ A) = {} /\ B \ A \in SUBSET LaneIds
    BY <1>4
  <2>2. PlanBytes(A \cup (B \ A)) = PlanBytes(A) + PlanBytes(B \ A)
    BY <1>2, <2>1
  <2>3. PlanBytes(B) = PlanBytes(A) + PlanBytes(B \ A)
    BY <2>1, <2>2
  <2>4. PlanBytes(A) \in Nat /\ PlanBytes(B \ A) \in Nat
    BY <1>3, <2>1
  <2>5. QED
    BY <2>3, <2>4
<1>5. QED
  BY <1>2, <1>3, <1>4

\* Of the lanes of a set that have rows, one was used before all others.
LEMMA OldestLane ==
  ASSUME LaneTypes, NEW X \in SUBSET FreeNow, X # {}
  PROVE  \E l \in X : \A x \in X : ~Older(x, l)
<1>1. \A l \in X : RankOf(l) \in Nat
  <2>1. \A l \in X : l \in LaneIds /\ row[l] # "none"
    BY DEF FreeNow
  <2>2. QED
    BY <2>1, RankFacts
<1> DEFINE T == {RankOf(l) : l \in X}
<1>2. T \in SUBSET Nat /\ T # {}
  BY <1>1
<1>3. PICK n \in T : \A m \in T : n <= m
  <2> HIDE DEF T
  <2> QED
    BY <1>2, LeastNatural
<1>4. PICK l \in X : n = RankOf(l)
  BY <1>3
<1>5. ASSUME NEW x \in X PROVE ~Older(x, l)
  <2>1. RankOf(x) \in T /\ RankOf(x) \in Nat /\ RankOf(l) \in Nat
    BY <1>1
  <2>2. RankOf(l) <= RankOf(x)
    BY <1>3, <1>4, <2>1
  <2>3. QED
    BY <2>1, <2>2 DEF Older
<1>6. QED
  BY <1>5

\* A plan takes the oldest free lanes until the target is met, and stops there
\* (PlanGC).
LEMMA PlanIsExact ==
  ASSUME LaneTypes, NEW expired \in SUBSET FreeNow, PlanGC(expired, FALSE)
  PROVE  LET rows == {l \in LaneIds : row[l] # "none"}
             kept == PlanBytes(rows \ gc'.evict)
         IN  /\ kept <= TargetBytes \/ FreeNow \subseteq gc'.evict
             /\ \A l \in gc'.evict \ expired :
                  (\A x \in gc'.evict \ expired : ~Older(l, x)) => kept + PlanBytes({l}) > TargetBytes
<1> DEFINE rows == {l \in LaneIds : row[l] # "none"}
           rest == FreeNow \ expired
           before(l) == {x \in rest : Older(x, l)}
           taken == gc'.evict
<1>1. taken = expired \cup ByUse(expired) /\ gc.seen \subseteq LaneIds
  BY DEF PlanGC, LaneTypes, GCType
<1>2. \A l : l \in ByUse(expired) <=> l \in rest /\ PlanBytes(rows \ expired) - PlanBytes(before(l)) > TargetBytes
  BY DEF ByUse
<1>3. FreeNow \subseteq rows /\ rows \subseteq LaneIds /\ rest \subseteq rows /\ \A l : before(l) \subseteq rest
  BY DEF FreeNow
<1>4. ByUse(expired) \subseteq rest /\ taken \ expired = ByUse(expired) /\ taken \subseteq rows
  BY <1>1, <1>2, <1>3
<1> DEFINE base == PlanBytes(rows \ expired)
           kept == PlanBytes(rows \ taken)
<1>5. base \in Nat /\ kept \in Nat /\ \A l : PlanBytes(before(l)) \in Nat
  BY <1>3, PlanBytesFacts
<1>6. ASSUME NEW l \in FreeNow, l \notin taken PROVE kept <= TargetBytes
  <2>1. FreeNow \ taken # {} /\ FreeNow \ taken \in SUBSET FreeNow
    BY <1>6
  <2>2. PICK m \in FreeNow \ taken : \A x \in FreeNow \ taken : ~Older(x, m)
    BY <2>1, OldestLane
  <2>3. m \in rest /\ m \notin ByUse(expired)
    BY <1>1, <2>2
  <2>4. base - PlanBytes(before(m)) <= TargetBytes
    <3>1. ~(base - PlanBytes(before(m)) > TargetBytes)
      BY <1>2, <2>3
    <3>2. base \in Nat /\ PlanBytes(before(m)) \in Nat /\ TargetBytes \in Nat
      BY <1>5
    <3> HIDE DEF base, before
    <3>3. QED
      BY <3>1, <3>2
  <2>5. before(m) \subseteq taken /\ before(m) \subseteq rows \ expired
    BY <1>3, <2>2
  <2>6. /\ (rows \ taken) \cap before(m) = {} /\ (rows \ taken) \cup before(m) \subseteq rows \ expired
        /\ rows \ taken \in SUBSET LaneIds /\ before(m) \in SUBSET LaneIds /\ rows \ expired \in SUBSET LaneIds
    BY <1>1, <1>3, <2>5
  <2> HIDE DEF rows, before, taken
  <2>7. PlanBytes((rows \ taken) \cup before(m)) = kept + PlanBytes(before(m))
    BY <2>6, PlanBytesFacts
  <2>8. PlanBytes((rows \ taken) \cup before(m)) <= base
    <3>1. (rows \ taken) \cup before(m) \in SUBSET LaneIds
      BY <2>6
    <3>2. QED
      BY <2>6, <3>1, PlanBytesFacts
  <2>9. QED
    BY <1>5, <2>4, <2>7, <2>8
<1>7. ASSUME NEW l \in taken \ expired, \A x \in taken \ expired : ~Older(l, x)
      PROVE  kept + PlanBytes({l}) > TargetBytes
  <2>1. l \in ByUse(expired) /\ l \in rest /\ base - PlanBytes(before(l)) > TargetBytes
    BY <1>2, <1>4
  <2>2. ASSUME NEW x \in ByUse(expired), x # l PROVE x \in before(l)
    <3>1. x \in rest /\ ~Older(l, x)
      BY <1>4, <1>7
    <3>2. x \in LaneIds /\ l \in LaneIds /\ row[x] # "none" /\ row[l] # "none"
      BY <1>3, <2>1, <3>1
    <3>3. /\ RankOf(x) \in 1..Len(recent) /\ RankOf(l) \in 1..Len(recent)
          /\ recent[RankOf(x)] = x /\ recent[RankOf(l)] = l
      BY <3>2, RankFacts
    <3>4. RankOf(x) # RankOf(l)
      BY <2>2, <3>3
    <3>5. QED
      BY <3>1, <3>3, <3>4 DEF Older
  <2>3. /\ rows \ expired \subseteq ((rows \ taken) \cup before(l)) \cup {l}
        /\ rows \ taken \in SUBSET LaneIds /\ before(l) \in SUBSET LaneIds /\ {l} \in SUBSET LaneIds
        /\ rows \ expired \in SUBSET LaneIds
    BY <1>1, <1>3, <2>1, <2>2
  <2> DEFINE young == before(l) \ (rows \ taken)
             last == {l} \ ((rows \ taken) \cup young)
  <2>4. /\ rows \ expired \subseteq ((rows \ taken) \cup young) \cup last
        /\ (rows \ taken) \cap young = {} /\ ((rows \ taken) \cup young) \cap last = {}
        /\ young \in SUBSET LaneIds /\ last \in SUBSET LaneIds /\ young \subseteq before(l) /\ last \subseteq {l}
    BY <2>3
  <2> HIDE DEF rows, before, taken, young, last
  <2>5. PlanBytes((rows \ taken) \cup young) = kept + PlanBytes(young)
    BY <2>3, <2>4, PlanBytesFacts
  <2>6. PlanBytes(((rows \ taken) \cup young) \cup last) = PlanBytes((rows \ taken) \cup young) + PlanBytes(last)
    <3>1. (rows \ taken) \cup young \in SUBSET LaneIds
      BY <2>3, <2>4
    <3>2. QED
      BY <2>4, <3>1, PlanBytesFacts
  <2>7. base <= PlanBytes(((rows \ taken) \cup young) \cup last)
    <3>1. ((rows \ taken) \cup young) \cup last \in SUBSET LaneIds
      BY <2>3, <2>4
    <3>2. QED
      BY <2>3, <2>4, <3>1, PlanBytesFacts
  <2>8. PlanBytes(young) <= PlanBytes(before(l)) /\ PlanBytes(last) <= PlanBytes({l})
    BY <2>3, <2>4, PlanBytesFacts
  <2>9. PlanBytes(young) \in Nat /\ PlanBytes(last) \in Nat /\ PlanBytes({l}) \in Nat
    BY <2>3, <2>4, PlanBytesFacts
  <2>10. QED
    BY <1>5, <2>1, <2>5, <2>6, <2>7, <2>8, <2>9
<1>8. kept <= TargetBytes \/ FreeNow \subseteq taken
  BY <1>6
<1>9. QED
  BY <1>7, <1>8

\* A plan without an emergency meets its target or takes every free lane, and
\* takes none it could have kept, for any lanes, sizes and target (PlanGC).
THEOREM PlanAlwaysMeetsTarget == LanesSpec => PlanMeetsTarget
<1> DEFINE Exact ==
      \A expired \in SUBSET FreeNow : PlanGC(expired, FALSE) =>
        LET rows == {l \in LaneIds : row[l] # "none"}
            kept == PlanBytes(rows \ gc'.evict)
        IN  /\ kept <= TargetBytes \/ FreeNow \subseteq gc'.evict
            /\ \A l \in gc'.evict \ expired :
                 (\A x \in gc'.evict \ expired : ~Older(l, x)) => kept + PlanBytes({l}) > TargetBytes
<1>1. ASSUME LaneInv PROVE Exact
  BY <1>1, PlanIsExact DEF LaneInv
<1>2. LaneInv /\ [LanesNext]_laneVars => [Exact]_laneVars
  BY <1>1
<1> HIDE DEF Exact
<1>3. LanesSpec => [][Exact]_laneVars
  BY <1>2, LaneInvariant, PTL DEF LanesSpec
<1> QED
  BY <1>3 DEF PlanMeetsTarget, Exact

\* A collection takes what it must and no more, in its plan and at its end, for
\* any jobs, pools, lanes, sizes and target (PlanGC, RunGC).
THEOREM CollectionsAreExact == LanesSpec => CollectionIsExact
BY PassAlwaysCollects, PlanAlwaysMeetsTarget DEF CollectionIsExact

-----------------------------------------------------------------------------
(* Type correctness *)

\* The order of use names each lane once, and only lanes with a row.
OnceEach(s) == \A i, k \in 1..Len(s) : s[i] = s[k] => i = k
\* The order of use names lanes that have a row, each once.
OrderInv ==
  /\ pool \in [LaneIds -> {"none"} \cup {PoolOf[j] : j \in Jobs}]
  /\ OnceEach(recent) /\ \A i \in 1..Len(recent) : row[recent[i]] # "none"

\* A lane that is taken out of the order is in it no more.
LEMMA WithoutIsExact ==
  ASSUME LaneTypes, OrderInv, NEW l \in LaneIds
  PROVE  /\ OnceEach(Without(l))
         /\ \A i \in 1..Len(Without(l)) : Without(l)[i] # l /\ row[Without(l)[i]] # "none"
         /\ Without(l) \in Seq(LaneIds)
<1>0. Without(l) \in Seq(LaneIds)
  BY WithoutKeeps
<1>1. CASE row[l] = "none"
  BY <1>0, <1>1 DEF Without, OrderInv
<1>2. CASE row[l] # "none"
  <2> DEFINE k == RankOf(l)
             n == Len(recent)
             a == SubSeq(recent, 1, k - 1)
             b == SubSeq(recent, k + 1, n)
  <2>1. k \in 1..n /\ recent[k] = l /\ n \in Nat /\ recent \in Seq(LaneIds)
    BY <1>2, RankFacts DEF LaneTypes
  <2>2. Without(l) = a \o b
    BY <1>2 DEF Without
  <2> HIDE DEF k
  <2>3. \A i \in 1..n : recent[i] \in LaneIds
    BY <2>1
  <2>4. /\ a \in Seq(LaneIds) /\ Len(a) = k - 1
        /\ \A i \in 1..k - 1 : a[i] = recent[i]
    BY <2>1, <2>3, SubSeqProperties
  <2>5. /\ b \in Seq(LaneIds) /\ Len(b) = n - k
        /\ \A i \in 1..n - k : b[i] = recent[k + i]
    <3>1. /\ b \in Seq(LaneIds) /\ Len(b) = IF k + 1 <= n THEN n - (k + 1) + 1 ELSE 0
          /\ \A i \in 1..n - (k + 1) + 1 : b[i] = recent[(k + 1) + i - 1]
      <4>1. k + 1 \in Int /\ n \in Int /\ \A i \in k + 1..n : recent[i] \in LaneIds
        BY <2>1, <2>3
      <4> QED
        BY <4>1, SubSeqProperties
    <3> QED
      BY <2>1, <3>1
  <2> HIDE DEF a, b
  <2>6. /\ Len(a \o b) = n - 1
        /\ \A i \in 1..n - 1 : (a \o b)[i] = IF i <= k - 1 THEN a[i] ELSE b[i - (k - 1)]
    <3>1. /\ Len(a \o b) = Len(a) + Len(b)
          /\ \A i \in 1..Len(a) + Len(b) : (a \o b)[i] = IF i <= Len(a) THEN a[i] ELSE b[i - Len(a)]
      BY <2>4, <2>5, ConcatProperties
    <3> QED
      BY <2>1, <2>4, <2>5, <3>1
  \* where an element of the shorter order was
  <2> DEFINE from(i) == IF i < k THEN i ELSE i + 1
  <2>7. ASSUME NEW i \in 1..n - 1
        PROVE  from(i) \in 1..n /\ from(i) # k /\ (a \o b)[i] = recent[from(i)]
    <3>1. CASE i < k
      <4>1. i <= k - 1 /\ i \in 1..k - 1
        BY <2>1, <3>1
      <4>2. (a \o b)[i] = a[i]
        BY <2>6, <4>1
      <4>3. QED
        BY <2>1, <2>4, <3>1, <4>1, <4>2
    <3>2. CASE ~(i < k)
      <4>1. ~(i <= k - 1) /\ i - (k - 1) \in 1..n - k /\ k + (i - (k - 1)) = i + 1
        BY <2>1, <3>2
      <4>2. (a \o b)[i] = b[i - (k - 1)]
        BY <2>6, <4>1
      <4>3. b[i - (k - 1)] = recent[i + 1]
        BY <2>5, <4>1
      <4>4. QED
        BY <2>1, <3>2, <4>2, <4>3
    <3>3. QED
      BY <3>1, <3>2
  <2>8. OnceEach(a \o b)
    <3> SUFFICES ASSUME NEW i \in 1..n - 1, NEW j \in 1..n - 1, (a \o b)[i] = (a \o b)[j] PROVE i = j
      BY <2>6 DEF OnceEach
    <3>1. /\ from(i) \in 1..n /\ from(j) \in 1..n /\ recent[from(i)] = recent[from(j)]
      BY <2>7
    <3> HIDE DEF from
    <3>2. from(i) = from(j)
      BY <3>1 DEF OrderInv, OnceEach
    <3>3. QED
      BY <2>1, <3>2 DEF from
  <2>9. ASSUME NEW i \in 1..n - 1 PROVE (a \o b)[i] # l /\ row[(a \o b)[i]] # "none"
    <3>1. from(i) \in 1..n /\ from(i) # k /\ (a \o b)[i] = recent[from(i)]
      BY <2>7
    <3> HIDE DEF from
    <3>2. QED
      BY <2>1, <3>1 DEF OrderInv, OnceEach
  <2> QED
    BY <1>0, <2>2, <2>6, <2>8, <2>9
<1> QED
  BY <1>1, <1>2

\* Every step keeps the order exact.
LEMMA OrderStep == LaneInv /\ OrderInv /\ [LanesNext]_laneVars => OrderInv'
<1> SUFFICES ASSUME LaneInv, OrderInv, [LanesNext]_laneVars PROVE OrderInv'
  OBVIOUS
<1>0. /\ LaneTypes /\ recent \in Seq(LaneIds) /\ DOMAIN row = LaneIds
      /\ row \in [LaneIds -> {"none", "free"} \cup Jobs] /\ "none" \notin Jobs
      /\ \A i \in 1..Len(recent) : recent[i] \in LaneIds
  BY DEF LaneInv, LaneTypes
<1>1. ASSUME recent' = recent, pool' = pool, \A l \in LaneIds : row[l] # "none" => row'[l] # "none"
      PROVE  OrderInv'
  BY <1>0, <1>1 DEF OrderInv
<1>2. ASSUME NEW j \in Jobs, NEW l \in LaneIds, Hand(j, l, "leased"),
             pool' \in [LaneIds -> {"none"} \cup {PoolOf[k] : k \in Jobs}]
      PROVE  OrderInv'
  <2> DEFINE w == Without(l)
             N == Len(w)
  <2>1. /\ OnceEach(w) /\ w \in Seq(LaneIds)
        /\ \A i \in 1..N : w[i] # l /\ row[w[i]] # "none"
    BY <1>0, WithoutIsExact
  <2>2. row' = [row EXCEPT ![l] = j] /\ recent' = Append(w, l)
    BY <1>2 DEF Hand, Used
  <2> HIDE DEF w
  <2>3. /\ N \in Nat /\ Len(recent') = N + 1 /\ recent'[N + 1] = l
        /\ \A i \in 1..N : recent'[i] = w[i] /\ w[i] \in LaneIds
    BY <2>1, <2>2
  <2> HIDE DEF N
  <2>4. OnceEach(recent')
    <3> SUFFICES ASSUME NEW i \in 1..(N + 1), NEW k \in 1..(N + 1), recent'[i] = recent'[k] PROVE i = k
      BY <2>3 DEF OnceEach
    <3>1. CASE i = N + 1 /\ k # N + 1
      BY <2>1, <2>3, <3>1
    <3>2. CASE i # N + 1 /\ k = N + 1
      BY <2>1, <2>3, <3>2
    <3>3. CASE i # N + 1 /\ k # N + 1
      <4>1. i \in 1..N /\ k \in 1..N /\ w[i] = w[k]
        BY <2>3, <3>3
      <4>2. QED
        BY <2>1, <4>1 DEF OnceEach, N
    <3>4. QED
      BY <3>1, <3>2, <3>3
  <2>5. ASSUME NEW i \in 1..(N + 1) PROVE row'[recent'[i]] # "none"
    <3>1. CASE i = N + 1
      BY <1>0, <2>2, <2>3, <3>1
    <3>2. CASE i # N + 1
      <4>1. i \in 1..N
        BY <2>3, <3>2
      <4>2. QED
        BY <1>0, <2>1, <2>2, <2>3, <4>1
    <3>3. QED
      BY <3>1, <3>2
  <2> QED
    BY <1>2, <2>3, <2>4, <2>5 DEF OrderInv
<1>3. CASE UNCHANGED laneVars
  BY <1>1, <1>3 DEF laneVars
<1>4. ASSUME NEW j \in Jobs, LeaseCacheLane(j) PROVE OrderInv'
  <2> DEFINE p == PoolOf[j]
  <2>1. CASE FreeLanes(p) # {}
    <3>1. Hand(j, FindFreeCacheLane(p), "leased") /\ pool' = pool
      BY <1>4, <2>1 DEF LeaseCacheLane
    <3>2. FindFreeCacheLane(p) \in LaneIds
      BY <1>0, <2>1, FreeLaneFound DEF FreeLanes
    <3>3. QED
      BY <1>2, <3>1, <3>2 DEF OrderInv
  <2>2. CASE FreeLanes(p) = {} /\ CountLanes(p) >= MaxLanes
    BY <1>1, <1>4, <2>2 DEF LeaseCacheLane
  <2>3. CASE FreeLanes(p) = {} /\ ~(CountLanes(p) >= MaxLanes)
    <3>1. minted < Len(LaneSize) /\ pool' = [pool EXCEPT ![minted + 1] = p] /\ Hand(j, minted + 1, "leased")
      BY <1>4, <2>3 DEF LeaseCacheLane
    <3>2. minted + 1 \in LaneIds
      BY <1>0, <3>1, LaneIdsFacts DEF LaneTypes
    <3>3. pool' \in [LaneIds -> {"none"} \cup {PoolOf[k] : k \in Jobs}]
      BY <3>1 DEF OrderInv
    <3>4. QED
      BY <1>2, <3>1, <3>2, <3>3
  <2>4. QED
    BY <2>1, <2>2, <2>3
<1>5. ASSUME NEW j \in Jobs, Job(j), ~LeaseCacheLane(j) PROVE OrderInv'
  <2>1. recent' = recent /\ pool' = pool /\ (row' = row \/ ReleaseCacheLane(j))
    BY <1>5 DEF Job, EnsureOwnedVolume, Mount, CapsuleRemoved, Finalize, EnsureFails
  <2>2. \A l \in LaneIds : row[l] # "none" => row'[l] # "none"
    BY <2>1 DEF ReleaseCacheLane
  <2>3. QED
    BY <1>1, <2>1, <2>2
<1>6. ASSUME NEW l \in LaneIds, DeleteLane(l) PROVE OrderInv'
  <2>1. row' = [row EXCEPT ![l] = "none"] /\ recent' = Without(l) /\ pool' = pool
    BY <1>6 DEF DeleteLane, DeleteFreeCacheLane
  <2>2. /\ OnceEach(recent') /\ recent' \in Seq(LaneIds)
        /\ \A i \in 1..Len(recent') : recent'[i] # l /\ row[recent'[i]] # "none"
    BY <1>0, <2>1, WithoutIsExact
  <2>3. \A i \in 1..Len(recent') : recent'[i] \in LaneIds
    BY <2>2
  <2>4. QED
    BY <1>0, <2>1, <2>2, <2>3 DEF OrderInv
<1>7. CASE Collect /\ ~\E l \in LaneIds : DeleteLane(l)
  <2>1. recent' = recent /\ pool' = pool /\ row' = row
    BY <1>7 DEF Collect, ListVolumes, EndGC, CollectorEnds, PlanGC, SkipLane, RemoveOrphanVolume, RemoveVolume
  <2>2. QED
    BY <1>1, <2>1
<1> QED
  BY <1>3, <1>4, <1>5, <1>6, <1>7 DEF LanesNext

\* No lane has been used at first.
LEMMA OrderInit == LanesInit => OrderInv
BY DEF LanesInit, OrderInv, OnceEach

\* The rows, the order of use, the volumes and the collection have their types,
\* and the order names exactly the lanes with a row (LanesTypeOK).
LEMMA LanesTyped == LaneInv /\ OrderInv => LanesTypeOK
<1> SUFFICES ASSUME LaneInv, OrderInv PROVE LanesTypeOK
  OBVIOUS
<1>1. LaneTypes
  BY DEF LaneInv
<1>2. DOMAIN recent = 1..Len(recent) /\ \A i \in 1..Len(recent) : recent[i] \in LaneIds
  BY <1>1 DEF LaneTypes
<1>3. {recent[i] : i \in DOMAIN recent} = {l \in LaneIds : row[l] # "none"}
  <2>1. ASSUME NEW l \in LaneIds, row[l] # "none" PROVE \E i \in DOMAIN recent : recent[i] = l
    BY <1>1, <1>2, <2>1 DEF LaneTypes
  <2>2. QED
    BY <1>2, <2>1 DEF OrderInv
<1>4. QED
  BY <1>1, <1>3 DEF LaneTypes, OrderInv, LanesTypeOK, GCType

\* The lanes keep their types, for any jobs, pools and sizes.
THEOREM LanesTypes == LanesSpec => []LanesTypeOK
<1>1. LanesInit => LaneInv /\ OrderInv
  BY LaneInitInv, OrderInit
<1>2. LaneInv /\ OrderInv /\ [LanesNext]_laneVars => (LaneInv /\ OrderInv)'
  BY LaneStep, OrderStep
<1>3. QED
  BY <1>1, <1>2, LanesTyped, PTL DEF LanesSpec

HIDE LanesAssumption

-----------------------------------------------------------------------------
(***************************************************************************)
(* The parts side by side                                                  *)
(***************************************************************************)

\* A behaviour of the books is one of each part, so that what is proved of a
\* part holds of the books too.
THEOREM BooksAreTheirParts == BooksSpec => AllocatorSpec /\ TrailSpec /\ LanesSpec
<1> DEFINE v == <<allocatorVars, trailVars, laneVars, part>>
<1>1. BooksInit => AllocatorInit /\ TrailInit /\ LanesInit
  BY DEF BooksInit
<1>2. [BooksNext]_v => [AllocatorNext]_allocatorVars
  BY DEF BooksNext, CreditPart, TrailPart, LanesPart
<1>3. [BooksNext]_v => [TrailNext]_trailVars
  BY DEF BooksNext, CreditPart, TrailPart, LanesPart
<1>4. [BooksNext]_v => [LanesNext]_laneVars
  BY DEF BooksNext, CreditPart, TrailPart, LanesPart
<1>5. QED
  BY <1>1, <1>2, <1>3, <1>4, PTL DEF BooksSpec, AllocatorSpec, TrailSpec, LanesSpec

\* Every part of the books keeps its types, for every value of the constants.
THEOREM BooksTypes == BooksSpec => []BooksTypeOK
<1>1. ASSUME part \in {"credit", "trail", "lanes"}, AllocatorTypeOK, TrailTypeOK, LanesTypeOK PROVE BooksTypeOK
  BY <1>1 DEF BooksTypeOK
<1>2. BooksSpec => [](part \in {"credit", "trail", "lanes"})
  <2>1. BooksInit => part \in {"credit", "trail", "lanes"}
    BY DEF BooksInit
  <2>2. part \in {"credit", "trail", "lanes"} /\ [BooksNext]_<<allocatorVars, trailVars, laneVars, part>>
          => (part \in {"credit", "trail", "lanes"})'
    BY DEF BooksNext, CreditPart, TrailPart, LanesPart
  <2>3. QED
    BY <2>1, <2>2, PTL DEF BooksSpec
<1>3. QED
  BY <1>1, <1>2, BooksAreTheirParts, AllocatorTypes, TrailTypes, LanesTypes, PTL
=============================================================================
