----------------------------- MODULE CommitTree -----------------------------
(***************************************************************************)
(* What the multi-slice driver promises, without saying how: a coupled run *)
(* is a tree of durable commits.  Each commit extends exactly the commit   *)
(* the run stood on when the step began, one step further; what was        *)
(* published stays published; and the run moves onto a commit only after   *)
(* it is durable.  A run that breaks, before or after its publication,     *)
(* continues from a commit that is durable, or from the initial condition. *)
(*                                                                         *)
(* Taken from the "Checkpoint transaction semantics" of the scheduler: the *)
(* publication of a committed manifest is the only durable commit point.   *)
(***************************************************************************)
EXTENDS Integers

CONSTANTS Ids,      \* identities of the commits, e.g. the checkpoint ids
          Root,     \* the initial condition, which no checkpoint stores
          MaxStep   \* bound: the last step of the run

VARIABLES durable,  \* the committed checkpoints
          base,     \* the commit (or Root) the coupled run stands on
          tip,      \* a commit published and not yet moved onto, or Root
          phase     \* "ready", "working" or "broken"

vars == <<durable, base, tip, phase>>

Commits == [id : Ids, step : 0..MaxStep, parent : Ids \cup {Root}]

\* v is at step n: a durable commit of that step, or the initial condition,
\* which precedes step 0.
AtStep(v, n) == IF v = Root THEN n = -1
                ELSE \E c \in durable : c.id = v /\ c.step = n

\* The states a run may stand on.
Standing == {Root} \cup {c.id : c \in durable}

Init == durable = {} /\ base = Root /\ tip = Root /\ phase = "ready"

Begin == /\ phase = "ready"
         /\ phase' = "working"
         /\ UNCHANGED <<durable, base, tip>>

\* The commit becomes durable; its publisher may break before it knows.
Publish(id, n) ==
  /\ phase = "working" /\ tip = Root
  /\ \A c \in durable : c.id # id
  /\ AtStep(base, n - 1)
  /\ durable' = durable \cup {[id |-> id, step |-> n, parent |-> base]}
  /\ \/ tip' = id /\ phase' = "working"
     \/ tip' = Root /\ phase' = "broken"
  /\ UNCHANGED base

\* The run moves onto the commit it has just published.
Advance == /\ phase = "working" /\ tip # Root
           /\ base' = tip
           /\ tip' = Root
           /\ phase' = "ready"
           /\ UNCHANGED durable

Break == /\ phase = "working"
         /\ tip' = Root
         /\ phase' = "broken"
         /\ UNCHANGED <<durable, base>>

\* A recovery, a restart or a fresh start: from any state, because a crash
\* may come at any time.
Resume == /\ base' \in Standing
          /\ tip' = Root
          /\ phase' = "ready"
          /\ UNCHANGED durable

Next == \/ Begin
        \/ \E id \in Ids, n \in 0..MaxStep : Publish(id, n)
        \/ Advance
        \/ Break
        \/ Resume

Spec == Init /\ [][Next]_vars
-----------------------------------------------------------------------------
TypeOK == /\ durable \subseteq Commits
          /\ base \in Ids \cup {Root}
          /\ tip \in Ids \cup {Root}
          /\ phase \in {"ready", "working", "broken"}

(***************************************************************************)
(* Every durable commit continues a durable commit of the step before it,  *)
(* or the initial condition at step 0, and no two commits share an id: the *)
(* commits form a tree whose depth is the step number.                     *)
(***************************************************************************)
Tree == /\ \A c \in durable : AtStep(c.parent, c.step - 1)
        /\ \A c, d \in durable : c.id = d.id => c = d

\* The coupled run never stands on a state that could be lost in a crash.
StandsOnDurable == base \in Standing /\ tip \in Standing
=============================================================================
