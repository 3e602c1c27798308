-------------------------- MODULE CommitTreeProofs --------------------------
(***************************************************************************)
(* What every implementation of the commit tree inherits.                  *)
(***************************************************************************)
EXTENDS CommitTree, TLAPS

CommitTreeInv == TypeOK /\ Tree /\ StandsOnDurable

LEMMA CommitTreeInit == Init => CommitTreeInv
BY DEF Init, CommitTreeInv, TypeOK, Tree, StandsOnDurable, Standing, Commits

\* The one step that adds a commit: what it extends was durable before, and
\* its id is new.
LEMMA PublishStep ==
  ASSUME CommitTreeInv, NEW id \in Ids, NEW n \in 0..MaxStep, Publish(id, n)
  PROVE  CommitTreeInv'
<1> DEFINE c == [id |-> id, step |-> n, parent |-> base]
<1>1. /\ durable' = durable \cup {c}
      /\ c.id = id /\ c.step = n /\ c.parent = base
  BY DEF Publish
<1>2. TypeOK'
  BY <1>1 DEF CommitTreeInv, TypeOK, Publish, Commits
<1>3. \A v, k : AtStep(v, k) => AtStep(v, k)'
  BY <1>1 DEF AtStep
<1>4. Tree'
  <2>1. ASSUME NEW d \in durable'  PROVE AtStep(d.parent, d.step - 1)'
    <3>1. CASE d \in durable
      BY <1>3, <3>1 DEF CommitTreeInv, Tree
    <3>2. CASE d = c
      BY <1>1, <1>3, <3>2 DEF Publish
    <3>3. QED BY <1>1, <2>1, <3>1, <3>2
  <2>2. ASSUME NEW d \in durable', NEW e \in durable', d.id = e.id  PROVE d = e
    BY <1>1, <2>2 DEF CommitTreeInv, Tree, Publish
  <2>3. QED BY <2>1, <2>2 DEF Tree
<1>5. StandsOnDurable'
  BY <1>1 DEF CommitTreeInv, StandsOnDurable, Standing, Publish
<1>6. QED BY <1>2, <1>4, <1>5 DEF CommitTreeInv

LEMMA CommitTreeStep == CommitTreeInv /\ [Next]_vars => CommitTreeInv'
<1> SUFFICES ASSUME CommitTreeInv, [Next]_vars  PROVE CommitTreeInv'
  OBVIOUS
<1> USE DEF CommitTreeInv, TypeOK, Tree, StandsOnDurable, Standing, AtStep
<1>1. CASE Begin    BY <1>1 DEF Begin
<1>2. ASSUME NEW id \in Ids, NEW n \in 0..MaxStep, Publish(id, n)  PROVE CommitTreeInv'
  BY <1>2, PublishStep
<1>3. CASE Advance  BY <1>3 DEF Advance
<1>4. CASE Break    BY <1>4 DEF Break
<1>5. CASE Resume   BY <1>5 DEF Resume, Commits
<1>6. CASE UNCHANGED vars  BY <1>6 DEF vars
<1>7. QED BY <1>1, <1>2, <1>3, <1>4, <1>5, <1>6 DEF Next

(***************************************************************************)
(* The durable commits form a tree, each a step deeper than its parent,    *)
(* and the run stands on a durable commit in every state.                  *)
(***************************************************************************)
THEOREM CommitTreeTheorem == Spec => [](Tree /\ StandsOnDurable)
<1>1. CommitTreeInv => Tree /\ StandsOnDurable
  BY DEF CommitTreeInv
<1>2. QED BY <1>1, CommitTreeInit, CommitTreeStep, PTL DEF Spec
=============================================================================
