-------------------------- MODULE StagedStructure --------------------------
(***************************************************************************)
(* The structural solver as its driver sees it: a correction is staged and *)
(* becomes the committed state only when it is durable, and what the       *)
(* solver goes back to, after a failure or a crash, is the committed state *)
(* or one that is durable.                                                 *)
(*                                                                         *)
(* Taken from the staging rules of MultiSliceScheduler.run_step and of the *)
(* StructureAdapter it drives: correct_all stages, finalize_committed,     *)
(* discard_staged and load_checkpoint are the ways out.                    *)
(***************************************************************************)
CONSTANTS Ids,   \* identities of the corrections
          Root   \* the initial state, and "nothing staged"

VARIABLES committed, staged, durable

vars == <<committed, staged, durable>>

Init == committed = Root /\ staged = Root /\ durable = {}

Stage == /\ staged = Root
         /\ staged' \in Ids \ durable
         /\ UNCHANGED <<committed, durable>>

\* What is made durable is the driver's affair.  One that does not see that it
\* has been made durable discards it.
Publish == /\ \E v \in Ids : durable' = durable \cup {v}
           /\ staged' \in {staged, Root}
           /\ UNCHANGED committed

Finalize == /\ staged \in durable
            /\ committed' = staged /\ staged' = Root
            /\ UNCHANGED durable

Discard == /\ staged' = Root
           /\ UNCHANGED <<committed, durable>>

Load == /\ committed' \in durable \cup {Root}
        /\ staged' = Root
        /\ UNCHANGED durable

Next == Stage \/ Publish \/ Finalize \/ Discard \/ Load

Spec == Init /\ [][Next]_vars
-----------------------------------------------------------------------------
\* The committed state can always be found again.
CommittedDurable == committed \in durable \cup {Root}
=============================================================================
