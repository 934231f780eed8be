----------------------------- MODULE ScaleSets ------------------------------
(***************************************************************************)
(* One binding's scale set at the provider.  A name is looked up, found    *)
(* free, written down as an intention, created and recorded, and between   *)
(* any two of these calls the process may end, an answer may be lost, or   *)
(* somebody else may make or remove a set of that name.  What is found     *)
(* under the name is adopted only on the strength of the binding's row.    *)
(*                                                                         *)
(* A create whose answer was lost has taken effect, or never will, by the  *)
(* time somebody removes a set by hand or an uninstall runs.               *)
(***************************************************************************)
EXTENDS Integers

CONSTANTS
  MaxSets,  \* bound: sets the provider makes
  MaxEnds   \* bound: ends of a process, and uninstalls

ASSUME ScaleSetsAssumption == MaxSets \in Nat /\ MaxEnds \in Nat

VARIABLES
  remoteSet,    \* the set at the name, and whether this instance made it
  madeSets,     \* sets made so far
  lateCreate,   \* a create whose answer was lost may still take effect
  setRow,       \* the binding's row: -1 absent, 0 an intention, else an id
  ensure,       \* the process: its step, what it knows and the set in hand
  refused,      \* history: sets of others that a pass refused
  removed,      \* history: a set this instance had made, found its own or recorded is gone
  ends,
  undisturbed   \* whether nobody interferes and nothing fails any more

setVars == <<remoteSet, madeSets, lateCreate, setRow, ensure, refused, removed, ends, undisturbed>>

NoSet == [id |-> 0, own |-> FALSE]
Down == [at |-> "down", known |-> 0, intended |-> FALSE, set |-> 0]
EnsureAt(s) == ensure' = [ensure EXCEPT !.at = s]

ScaleSetsTypeOK ==
  /\ remoteSet \in [id : 0..MaxSets, own : BOOLEAN] /\ madeSets \in 0..MaxSets /\ lateCreate \in BOOLEAN
  /\ setRow \in -1..MaxSets
  /\ ensure \in [at : {"down", "idle", "lookup", "intend", "create", "record", "ensured", "purge"},
                 known : 0..MaxSets, intended : BOOLEAN, set : 0..MaxSets]
  /\ refused \subseteq 1..MaxSets /\ removed \in BOOLEAN /\ ends \in 0..MaxEnds /\ undisturbed \in BOOLEAN

ScaleSetsInit ==
  /\ remoteSet = NoSet /\ madeSets = 0 /\ lateCreate = FALSE /\ setRow = -1 /\ ensure = Down
  /\ refused = {} /\ removed = FALSE /\ ends = 0 /\ undisturbed = FALSE

-----------------------------------------------------------------------------
(* The binding's loop *)

GitHubScaleSetID == IF setRow > 0 THEN setRow ELSE 0

\* The id is read once, when the process builds its bindings.
BuildBindings ==
  /\ ensure.at = "down" /\ ensure' = [Down EXCEPT !.at = "idle", !.known = GitHubScaleSetID]
  /\ UNCHANGED <<remoteSet, madeSets, lateCreate, setRow, refused, removed, ends, undisturbed>>

\* Mutant: the intention is written before the name is looked up.
ReadIntent_Records ==
  /\ ensure.at = "idle" /\ ensure' = [ensure EXCEPT !.at = "lookup", !.intended = setRow >= 0]
  /\ setRow' = IF setRow < 0 THEN 0 ELSE setRow
  /\ UNCHANGED <<remoteSet, madeSets, lateCreate, refused, removed, ends, undisturbed>>

\* Whether there is a row at all is read on every pass.
ReadIntent ==
  /\ ensure.at = "idle" /\ ensure' = [ensure EXCEPT !.at = "lookup", !.intended = setRow >= 0]
  /\ UNCHANGED <<remoteSet, madeSets, lateCreate, setRow, refused, removed, ends, undisturbed>>

\* Mutant: only a recorded id proves a set this instance's.
Adoptable_KnownOnly(id) == ensure.known = id

\* A known id must match; without one an intention is proof enough.
Adoptable(id) == IF ensure.known > 0 THEN ensure.known = id ELSE ensure.intended

\* Mutant: the set is created before the intention is written.
WhenFree_Creates == "create"

WhenFree == "intend"

LookUp ==
  /\ ensure.at = "lookup"
  /\ CASE remoteSet = NoSet -> EnsureAt(WhenFree) /\ UNCHANGED refused
       [] remoteSet # NoSet /\ Adoptable(remoteSet.id) ->
            ensure' = [ensure EXCEPT !.at = "record", !.set = remoteSet.id] /\ UNCHANGED refused
       [] OTHER -> EnsureAt("idle") /\ refused' = IF remoteSet.own THEN refused ELSE refused \cup {remoteSet.id}
  /\ UNCHANGED <<remoteSet, madeSets, lateCreate, setRow, removed, ends, undisturbed>>

\* The row has no id from now on, whatever it had.
RecordIntent ==
  /\ ensure.at = "intend" /\ setRow' = 0 /\ EnsureAt("create")
  /\ UNCHANGED <<remoteSet, madeSets, lateCreate, refused, removed, ends, undisturbed>>

Make(own) == madeSets < MaxSets /\ madeSets' = madeSets + 1 /\ remoteSet' = [id |-> madeSets + 1, own |-> own]

\* Made and answered; made, and the answer lost; or lost on its way.  A name
\* that was taken since it was found free is refused by the provider.
CreateScaleSet(outcome) ==
  /\ ensure.at = "create" /\ (undisturbed => outcome = "made")
  /\ IF remoteSet = NoSet /\ outcome \in {"made", "unheard"} THEN Make(TRUE) ELSE UNCHANGED <<remoteSet, madeSets>>
  /\ lateCreate' = (lateCreate \/ outcome = "late")
  /\ IF remoteSet = NoSet /\ outcome = "made"
       THEN ensure' = [ensure EXCEPT !.at = "record", !.set = madeSets + 1] ELSE EnsureAt("idle")
  /\ UNCHANGED <<setRow, refused, removed, ends, undisturbed>>

RecordSet ==
  /\ ensure.at = "record" /\ setRow' = ensure.set
  /\ ensure' = [ensure EXCEPT !.at = "ensured", !.known = ensure.set]
  /\ UNCHANGED <<remoteSet, madeSets, lateCreate, refused, removed, ends, undisturbed>>

\* A lookup, the setting of an adopted set, or a write fails; the pass is retried.
PassFails ==
  /\ ensure.at \in {"lookup", "intend", "record"} /\ ~undisturbed /\ EnsureAt("idle")
  /\ UNCHANGED <<remoteSet, madeSets, lateCreate, setRow, refused, removed, ends, undisturbed>>

ProcessEnds ==
  /\ ensure.at # "down" /\ ~undisturbed /\ ends < MaxEnds /\ ends' = ends + 1 /\ ensure' = Down
  /\ UNCHANGED <<remoteSet, madeSets, lateCreate, setRow, refused, removed, undisturbed>>

-----------------------------------------------------------------------------
(* The uninstall, which needs the state lock *)

\* Only the recorded set is deleted.
ScaleSetVerdict == remoteSet # NoSet /\ remoteSet.id = setRow

\* A different set under the name stops the command; a row without an id is
\* passed over, and so are all rows when the operator keeps the sets.
DeleteScaleSets(asked) ==
  /\ ensure.at = "down" /\ ~lateCreate /\ ~undisturbed /\ ends < MaxEnds /\ ends' = ends + 1
  /\ IF asked /\ setRow > 0
       THEN /\ remoteSet = NoSet \/ ScaleSetVerdict
            /\ remoteSet' = NoSet /\ removed' = (removed \/ remoteSet # NoSet)
       ELSE UNCHANGED <<remoteSet, removed>>
  /\ EnsureAt("purge")
  /\ UNCHANGED <<madeSets, lateCreate, setRow, refused, undisturbed>>

\* What is left at the provider is from then on nobody's.
PurgeBindings ==
  /\ ensure.at = "purge" /\ ensure' = Down /\ setRow' = -1 /\ removed' = FALSE
  /\ remoteSet' = [remoteSet EXCEPT !.own = FALSE]
  /\ UNCHANGED <<madeSets, lateCreate, refused, ends, undisturbed>>

-----------------------------------------------------------------------------
(* The provider and others *)

LateCreateLands(took) ==
  /\ lateCreate /\ lateCreate' = FALSE
  /\ IF took /\ remoteSet = NoSet THEN Make(TRUE) ELSE UNCHANGED <<remoteSet, madeSets>>
  /\ UNCHANGED <<setRow, ensure, refused, removed, ends, undisturbed>>

OthersMake ==
  /\ ~undisturbed /\ remoteSet = NoSet /\ Make(FALSE)
  /\ UNCHANGED <<lateCreate, setRow, ensure, refused, removed, ends, undisturbed>>

OthersRemove ==
  /\ ~undisturbed /\ ~lateCreate /\ remoteSet # NoSet /\ remoteSet' = NoSet
  /\ removed' = (removed \/ remoteSet.own \/ remoteSet.id \in {setRow, ensure.set})
  /\ UNCHANGED <<madeSets, lateCreate, setRow, ensure, refused, ends, undisturbed>>

\* From some moment on the binding is left alone and every call succeeds.
CalmBegins ==
  /\ ~undisturbed /\ ~lateCreate /\ madeSets < MaxSets /\ undisturbed' = TRUE
  /\ UNCHANGED <<remoteSet, madeSets, lateCreate, setRow, ensure, refused, removed, ends>>

EnsurePass ==
  \/ BuildBindings \/ ReadIntent \/ LookUp \/ RecordIntent \/ RecordSet \/ PurgeBindings
  \/ \E outcome \in {"made", "unheard", "late", "refused"} : CreateScaleSet(outcome)

ScaleSetsNext ==
  \/ EnsurePass \/ PassFails \/ ProcessEnds \/ OthersMake \/ OthersRemove \/ CalmBegins
  \/ \E asked \in BOOLEAN : DeleteScaleSets(asked)
  \/ \E took \in BOOLEAN : LateCreateLands(took)

ScaleSetsSpec == ScaleSetsInit /\ [][ScaleSetsNext]_setVars

\* The loop retries the pass, and a process that ended is started again.
ScaleSetsFairness == WF_setVars(EnsurePass)

-----------------------------------------------------------------------------
(* Properties *)

\* A set this instance made is recorded, or the binding's row says that it was
\* about to be made: no end of the process and no lost answer leaves a set the
\* instance cannot account for (the order of EnsureScaleSet).
OwnSetIsAccounted == remoteSet.own => setRow \in {0, remoteSet.id}

\* A set of somebody else's that one pass refused is not adopted by a later
\* one, across restarts, unless somebody had removed the recorded set
\* (recordIntent is called only once the name is free).
RefusedStaysRefused == removed \/ setRow \notin refused

\* A binding that is left alone gets its scale set, whatever was lost or cut
\* short before, unless the name is somebody else's or the recorded set was
\* removed by hand (ensureScaleSet, retried by the loop).
BindingIsEnsured ==
  undisturbed ~> (ensure.at = "ensured" \/ removed \/ (remoteSet # NoSet /\ ~remoteSet.own))
=============================================================================
