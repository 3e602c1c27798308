---------------------------- MODULE MotionExchange ----------------------------
(***************************************************************************)
(* What a coupled step asks of its slices, without files or processes: a   *)
(* motion is given to every slice, no load is taken before all slices have *)
(* their motion, every load answers this step's motion, and the step is    *)
(* committed when all loads are there.                                     *)
(***************************************************************************)
EXTENDS Integers

CONSTANT Slices

VARIABLES
  done,      \* the committed steps
  asked,     \* per slice: the last step whose motion it was given
  answered   \* per slice: the step whose motion its accepted load answers

vars == <<done, asked, answered>>

Init == done = 0 /\ asked = [s \in Slices |-> 0] /\ answered = [s \in Slices |-> 0]

Ask(s) ==
  /\ asked[s] = done /\ asked' = [asked EXCEPT ![s] = done + 1]
  /\ UNCHANGED <<done, answered>>

Answer(s) ==
  /\ \A t \in Slices : asked[t] = done + 1
  /\ answered[s] = done /\ answered' = [answered EXCEPT ![s] = asked[s]]
  /\ UNCHANGED <<done, asked>>

Commit ==
  /\ \A s \in Slices : answered[s] = done + 1
  /\ done' = done + 1 /\ UNCHANGED <<asked, answered>>

\* A new run continues from the committed steps, whatever the last one asked.
Restart ==
  /\ asked' = [s \in Slices |-> done] /\ answered' = [s \in Slices |-> done]
  /\ UNCHANGED done

Next == Commit \/ Restart \/ \E s \in Slices : Ask(s) \/ Answer(s)

Spec == Init /\ [][Next]_vars
-----------------------------------------------------------------------------
\* No slice is more than one step ahead of the committed ones, and none has its
\* answer before all have their motion.
Lockstep ==
  \A s \in Slices :
    /\ asked[s] \in {done, done + 1} /\ answered[s] \in {done, asked[s]}
    /\ answered[s] # done => \A t \in Slices : asked[t] = done + 1
=============================================================================
