--------------------------- MODULE AttemptContract --------------------------
(***************************************************************************)
(* What the serving machinery promises about one accepted attempt, with no *)
(* lease, capsule or crash in sight: work is returned to the queue or      *)
(* withdrawn only while no runner has taken it, a runner takes it at most  *)
(* once, and only an operator's decision makes it servable again after a   *)
(* hold.  (docs/product-contract.md: "Accepted work is not lost", "A       *)
(* restart adopts running work; it never re-runs it".)                     *)
(***************************************************************************)
EXTENDS Naturals

CONSTANT Attempts

VARIABLES
  status,   \* where the attempt stands
  runs      \* how often a runner took it since it was last made servable

vars == <<status, runs>>

Statuses == {"unknown", "queued", "serving", "held", "withdrawn", "closed"}

Moves(a, from, to) == status[a] \in from /\ status' = [status EXCEPT ![a] = to]

Init ==
  /\ status = [a \in Attempts |-> "unknown"]
  /\ runs = [a \in Attempts |-> 0]

Arrive(a) == Moves(a, {"unknown"}, "queued") /\ UNCHANGED runs

Serve(a) == Moves(a, {"queued"}, "serving") /\ UNCHANGED runs

Run(a) ==
  /\ status[a] = "serving" /\ runs[a] = 0
  /\ runs' = [runs EXCEPT ![a] = 1]
  /\ UNCHANGED status

\* Back to the queue: nothing consumed the work.
Return(a) == runs[a] = 0 /\ Moves(a, {"serving"}, "queued") /\ UNCHANGED runs

\* Superseded by a redelivery, or canceled by the provider: nothing consumed it.
Withdraw(a) ==
  /\ runs[a] = 0
  /\ Moves(a, {"queued", "serving", "held"}, "withdrawn")
  /\ UNCHANGED runs

\* Held for a person: the outcome cannot be told, or retrying is pointless.
Hold(a) == Moves(a, {"queued", "serving"}, "held") /\ UNCHANGED runs

\* Settled, by what was observed or by an operator.
Close(a) == Moves(a, {"serving", "held"}, "closed") /\ UNCHANGED runs

Reopen(a) ==
  /\ Moves(a, {"held"}, "queued")
  /\ runs' = [runs EXCEPT ![a] = 0]

Next ==
  \E a \in Attempts :
    \/ Arrive(a) \/ Serve(a) \/ Run(a) \/ Return(a) \/ Withdraw(a)
    \/ Hold(a) \/ Close(a) \/ Reopen(a)

Spec == Init /\ [][Next]_vars

=============================================================================
