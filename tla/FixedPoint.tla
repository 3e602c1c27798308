------------------------------ MODULE FixedPoint ------------------------------
(***************************************************************************)
(* What the ledger of the strong coupling promises of a physical step: its *)
(* candidates are all computed from the same committed parent, it commits  *)
(* the first candidate that ends two converged ones in a row and is        *)
(* acceptable itself, no unsafe candidate precedes a commit, and a step    *)
(* that fails is the last one.  PredictorConsistentStrongLedger is the     *)
(* rule in the source; the program that runs the engines repeats it.       *)
(***************************************************************************)
EXTENDS Integers, Sequences

CONSTANTS Steps,          \* bound: the physical steps of a run (three)
          MaxIterations   \* candidates a step may take

VARIABLES
  step,    \* the physical step
  rows,    \* its candidates so far, each with the gates it passed
  status   \* "running", "failed" or "passed"

vars == <<step, rows, status>>

Row == [safe : BOOLEAN, near : BOOLEAN, cd : BOOLEAN]

Init == step = 1 /\ rows = <<>> /\ status = "running"

\* Candidate n may be committed.
AcceptedAt(n) ==
  /\ n >= 2
  /\ \A i \in 1 .. n : rows[i].safe
  /\ rows[n].near /\ rows[n - 1].near /\ rows[n].cd

Accepted == AcceptedAt(Len(rows))

Candidate(row) ==
  /\ status = "running" /\ Len(rows) < MaxIterations /\ ~Accepted
  /\ \A i \in 1 .. Len(rows) : rows[i].safe
  /\ rows' = Append(rows, row) /\ UNCHANGED <<step, status>>

Commit ==
  /\ status = "running" /\ Accepted
  /\ step' = step + 1 /\ rows' = <<>>
  /\ status' = IF step = Steps THEN "passed" ELSE "running"

\* An exception, an unsafe candidate or the iteration limit.
Fail == /\ status = "running" /\ status' = "failed" /\ UNCHANGED <<step, rows>>

Next == (\E row \in Row : Candidate(row)) \/ Commit \/ Fail

Spec == Init /\ [][Next]_vars
-----------------------------------------------------------------------------
\* Only the last candidate of a step may be one to commit, or an unsafe one.
FirstAccepted == \A n \in 1 .. Len(rows) - 1 : rows[n].safe /\ ~AcceptedAt(n)
===============================================================================
