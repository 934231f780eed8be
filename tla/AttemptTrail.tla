---------------------------- MODULE AttemptTrail ----------------------------
(***************************************************************************)
(* The append-only trail of one attempt (attempt_events).  Every store     *)
(* transaction that moves the attempt writes the event that explains it in *)
(* the same commit.  An insert is idempotent per key, so whether a second  *)
(* serving's facts are kept or taken for replays of the first serving's    *)
(* depends on what its keys carry: nothing, a lease, or a count.           *)
(***************************************************************************)
EXTENDS Vocabulary, Integers, Sequences, FiniteSets

CONSTANTS
  MaxServings,  \* bound: leases of the attempt
  TrailBudget,  \* servings before an automatic requeue becomes a review
  TrailResolves \* bound: how often an operator may send the attempt back

ASSUME TrailAssumption == {MaxServings, TrailBudget, TrailResolves} \subseteq Nat

TrailLeases == 1..MaxServings

VARIABLES
  tstate, tevidence, \* the attempt's row
  tlive, tended,     \* its leases that are not released, and those that are
  trail,             \* the keys of its events about decisions, in order of insertion
  made               \* history: how many facts of each kind were committed

trailVars == <<tstate, tevidence, tlive, tended, trail, made>>

\* The first component of a key.  Those of a serving carry its lease, those of
\* a decision a person takes part in carry a count and the rest carry nothing.
\* (Events of evidence carry their rung, so a second serving's are taken for
\* replays of the first one's; they are left out.)
PerServing == {"lease_attached", "cleanup_completed"}
Repeatable == {"manual_review_requested", "operator_resolved"}
OnceOnly   == {"attempt_created", "attempt_settled", "attempt_superseded", "remote_canceled"}
EventHeads == PerServing \cup Repeatable \cup OnceOnly

CountOf(t, head) == Cardinality({i \in DOMAIN t : t[i][1] = head})
KeyHeld(t, key)  == \E i \in DOMAIN t : t[i] = key

\* RecordEvent: ON CONFLICT (attempt_id, idempotency_key) DO NOTHING.
RecordEvent(t, head, carried) ==
  IF KeyHeld(t, <<head, carried>>) THEN t ELSE Append(t, <<head, carried>>)

\* Mutant: a fixed key for a decision that can be made again.
RecordRepeatableEvent_Fixed(t, head) == RecordEvent(t, head, 0)

\* RecordRepeatableEvent: the key counts the events of its kind so far, and
\* the insert has no conflict clause.
RecordRepeatableEvent(t, head) == Append(t, <<head, CountOf(t, head)>>)

Commits(heads) == made' = [h \in EventHeads |-> IF h \in heads THEN made[h] + 1 ELSE made[h]]

Decisions == (PerServing \X TrailLeases) \cup (Repeatable \X Nat) \cup (OnceOnly \X {"-"})

TrailTypeOK ==
  /\ tstate \in AttemptStates /\ tevidence \in Evidence
  /\ tlive \in SUBSET TrailLeases /\ tended \in SUBSET (TrailLeases \ tlive)
  /\ trail \in Seq(Decisions)
  /\ made \in [EventHeads -> Nat]

TrailInit ==
  /\ tstate = "absent" /\ tevidence = "not_started"
  /\ tlive = {} /\ tended = {}
  /\ trail = <<>> /\ made = [h \in EventHeads |-> 0]

-----------------------------------------------------------------------------
InsertAttempt ==
  /\ tstate = "absent"
  /\ tstate' = "ready"
  /\ trail' = RecordEvent(trail, "attempt_created", "-") /\ Commits({"attempt_created"})
  /\ UNCHANGED <<tevidence, tlive, tended>>

\* Fresh identifiers, numbered.
NextLease == Cardinality(tlive \cup tended) + 1

\* Mutant: the partial index one_live_lease_per_attempt is missing.
LeaseAttempt_NoIndex(l) ==
  /\ tstate = "ready" /\ l = NextLease
  /\ tstate' = "leased" /\ tlive' = tlive \cup {l}
  /\ trail' = RecordEvent(trail, "lease_attached", l) /\ Commits({"lease_attached"})
  /\ UNCHANGED <<tevidence, tended>>

LeaseAttempt(l) ==
  /\ tstate = "ready" /\ l = NextLease /\ tlive = {}
  /\ tstate' = "leased" /\ tlive' = tlive \cup {l}
  /\ trail' = RecordEvent(trail, "lease_attached", l) /\ Commits({"lease_attached"})
  /\ UNCHANGED <<tevidence, tended>>

\* The walk of a serving writes no event of its own.
AdvanceAttempt ==
  /\ tlive # {}
  /\ \/ tstate = "leased" /\ tstate' = "preparing"
     \/ tstate = "preparing" /\ tstate' = "prepared"
     \/ tstate \in PreAuthorization /\ tstate' = "starting"
     \/ tstate = "starting" /\ tstate' = "running"
  /\ UNCHANGED <<tevidence, tlive, tended, trail, made>>

\* A serving observes: the next rungs follow the capsule's own order, an exit
\* may be all that a successor of the controller ever sees.
RecordEvidence(e) ==
  /\ tlive # {} /\ evidenceRank[tevidence] < evidenceRank[e]
  /\ e = "start_authorized" => tstate = "starting"
  /\ e = "running_observed" => tevidence = "start_authorized"
  /\ tevidence' = e
  /\ UNCHANGED <<tstate, tlive, tended, trail, made>>

\* HoldAttempt: an image that does not speak the protocol, found before the
\* runtime counts as prepared.
HoldIncompatible ==
  /\ tlive # {} /\ tevidence = "not_started"
  /\ tstate \in OpenAttempt \ {"manual_review"}
  /\ tstate' = "manual_review"
  /\ trail' = RecordRepeatableEvent(trail, "manual_review_requested")
  /\ Commits({"manual_review_requested"})
  /\ UNCHANGED <<tevidence, tlive, tended>>

\* Manager.Finalize: the cleanup's event, then that of the disposition.
FinalizeServing(l, obs) ==
  LET what     == DispositionOf(tstate, tevidence, obs)
      again    == what = "requeue" /\ Cardinality(tlive \cup tended) < TrailBudget
      settles  == what \in {"settle_completed", "settle_started"}
      held     == what # "nothing" /\ ~again /\ ~settles
      cleaned  == RecordEvent(trail, "cleanup_completed", l)
  IN
  /\ l \in tlive
  /\ tlive' = tlive \ {l} /\ tended' = tended \cup {l}
  /\ tstate' = IF again THEN "ready" ELSE IF settles THEN "settled"
              ELSE IF held THEN "manual_review" ELSE tstate
  /\ tevidence' = IF again THEN "not_started" ELSE tevidence
  /\ trail' = IF settles THEN RecordEvent(cleaned, "attempt_settled", "-")
              ELSE IF held THEN RecordRepeatableEvent(cleaned, "manual_review_requested")
              ELSE cleaned
  /\ Commits({"cleanup_completed"} \cup {h \in {"attempt_settled"} : settles}
            \cup {h \in {"manual_review_requested"} : held})

\* Mutant: an operator may decide about an attempt nobody holds.
ResolveReviewToReady_AnyOpen ==
  /\ tstate \in {"manual_review", "leased"} /\ made["operator_resolved"] < TrailResolves
  /\ tstate' = "ready" /\ tevidence' = "not_started"
  /\ trail' = RecordRepeatableEvent(trail, "operator_resolved") /\ Commits({"operator_resolved"})
  /\ UNCHANGED <<tlive, tended>>

ResolveReviewToReady ==
  /\ tstate = "manual_review" /\ made["operator_resolved"] < TrailResolves
  /\ tstate' = "ready" /\ tevidence' = "not_started"
  /\ trail' = RecordRepeatableEvent(trail, "operator_resolved") /\ Commits({"operator_resolved"})
  /\ UNCHANGED <<tlive, tended>>

ResolveReviewToSettled ==
  /\ tstate = "manual_review"
  /\ tstate' = "settled"
  /\ trail' = RecordRepeatableEvent(trail, "operator_resolved") /\ Commits({"operator_resolved"})
  /\ UNCHANGED <<tevidence, tlive, tended>>

SupersedeOpenAttempt ==
  /\ tstate \in PreAuthorization \cup {"ready", "manual_review"} /\ tevidence \in Retriable
  /\ tstate' = "superseded"
  /\ trail' = RecordEvent(trail, "attempt_superseded", "-") /\ Commits({"attempt_superseded"})
  /\ UNCHANGED <<tevidence, tlive, tended>>

\* A cancellation closes a ready attempt and is recorded either way, once; an
\* attempt that is closed is found by the name of a runtime that served it.
ObserveCanceled ==
  /\ tstate \in OpenAttempt \/ tlive \cup tended # {}
  /\ tstate' = IF tstate = "ready" THEN "canceled" ELSE tstate
  /\ trail' = RecordEvent(trail, "remote_canceled", "-")
  /\ IF KeyHeld(trail, <<"remote_canceled", "-">>) THEN UNCHANGED made ELSE Commits({"remote_canceled"})
  /\ UNCHANGED <<tevidence, tlive, tended>>

TrailNext ==
  \/ InsertAttempt \/ AdvanceAttempt \/ HoldIncompatible
  \/ ResolveReviewToReady \/ ResolveReviewToSettled \/ SupersedeOpenAttempt \/ ObserveCanceled
  \/ \E e \in Evidence : RecordEvidence(e)
  \/ \E l \in TrailLeases :
       LeaseAttempt(l) \/ \E obs \in Observations : FinalizeServing(l, obs)

TrailSpec == TrailInit /\ [][TrailNext]_trailVars

-----------------------------------------------------------------------------
(* Properties *)

\* Every fact but an evidence advance has an event of its own, however often
\* the attempt is served, held and sent back, no key is used twice, and a
\* redelivered cancellation adds none: what the lease and the count in a key are
\* there for.
EveryFactIsKept ==
  /\ \A h \in EventHeads : CountOf(trail, h) = made[h]
  /\ \A i, j \in DOMAIN trail : trail[i] = trail[j] => i = j

\* The holds among the first n events that no decision among them has ended.
CountTo(t, n, head) == Cardinality({i \in 1..n : t[i][1] = head})
Undecided(t, n) == CountTo(t, n, "manual_review_requested") - CountTo(t, n, "operator_resolved")

\* Holds and the decisions that end them alternate in the trail, and the row
\* is in review exactly while one hold is undecided (a redelivery that
\* supersedes a held attempt leaves its hold undecided).
ReviewsAlternate ==
  /\ \A n \in 0..Len(trail) : Undecided(trail, n) \in {0, 1}
  /\ tstate = "manual_review" => Undecided(trail, Len(trail)) = 1
  /\ tstate \notin {"manual_review", "superseded"} => Undecided(trail, Len(trail)) = 0

\* The trail shows one serving at a time: a lease is attached only after the
\* cleanup of the lease before it, and cleaned up only after it was attached
\* (one_live_lease_per_attempt).
ServingsDoNotOverlap ==
  \A j \in DOMAIN trail :
    /\ trail[j][1] = "lease_attached" =>
         \A i \in 1..(j - 1) : trail[i][1] = "lease_attached" =>
           \E k \in i..j : trail[k] = <<"cleanup_completed", trail[i][2]>>
    /\ trail[j][1] = "cleanup_completed" =>
         \E i \in 1..j : trail[i] = <<"lease_attached", trail[j][2]>>

\* The trail is a true account of an attempt however often it is served: no
\* fact is lost or told twice, holds and decisions alternate, and one serving
\* ends before the next begins (RecordRepeatableEvent, LeaseAttempt).
TrailIsTrue == EveryFactIsKept /\ ReviewsAlternate /\ ServingsDoNotOverlap
=============================================================================
