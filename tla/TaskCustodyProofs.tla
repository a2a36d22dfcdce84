------------------------- MODULE TaskCustodyProofs -------------------------
(***************************************************************************)
(* The abstract custody specification promises what it is named for: no    *)
(* sequence of rewrites, stashes and releases loses a task that no undo    *)
(* out of order has exposed.  With Transfer's refinement (KeepsCustody)    *)
(* this is what transfers promise.                                         *)
(***************************************************************************)
EXTENDS TaskCustody, TLAPS

\* Every document holds some of the original tasks, and so does the vault.
TypeOK == held \in [Docs -> SUBSET Originals] /\ vault \subseteq Originals

IInv == TypeOK /\ NothingLost

\* A document gives up only what is kept elsewhere.
LEMMA RewriteKeeps ==
    ASSUME IInv, NEW d \in Docs, Rewrite(d)
    PROVE  IInv'
<1> USE DEF IInv, TypeOK
<1>1. PICK S \in SUBSET Originals :
         /\ \A a \in held[d] \ (S \cup exposed) :
               a \in vault \/ \E e \in Docs \ {d} : a \in held[e]
         /\ held' = [held EXCEPT ![d] = S]
  BY DEF Rewrite
<1>2. /\ vault' = vault /\ exposed' = exposed
      /\ held'[d] = S /\ \A e \in Docs \ {d} : held'[e] = held[e]
  BY <1>1 DEF Rewrite
<1>3. ASSUME NEW a \in Originals, a \notin exposed PROVE Somewhere(a)'
  <2>1. Somewhere(a)
    BY <1>3 DEF NothingLost
  <2>2. CASE a \in held[d] \ S
    BY <1>1, <1>2, <1>3, <2>2 DEF Somewhere
  <2>3. CASE a \notin held[d] \ S
    BY <1>2, <2>1, <2>3 DEF Somewhere
  <2> QED
    BY <2>2, <2>3
<1> QED
  BY <1>1, <1>2, <1>3 DEF NothingLost

\* What leaves the vault is in a document.
LEMMA ReleaseKeeps == IInv /\ Release => IInv'
<1> SUFFICES ASSUME IInv, Release PROVE IInv'
  OBVIOUS
<1>1. PICK S \in SUBSET vault :
         /\ \A a \in S \ exposed : \E d \in Docs : a \in held[d]
         /\ vault' = vault \ S
  BY DEF Release
<1> QED
  BY <1>1 DEF Release, IInv, TypeOK, NothingLost, Somewhere

\* No task is ever lost, unless an undo out of order exposed it: it is in a document or in
\* the vault.
THEOREM NothingIsLost == Spec => []NothingLost
<1>1. Init => IInv
  BY DEF Init, IInv, TypeOK
<1>2. IInv /\ [Next]_vars => IInv'
  <2> SUFFICES ASSUME IInv, [Next]_vars PROVE IInv'
    OBVIOUS
  <2>1. CASE Stash
    BY <2>1 DEF Stash, IInv, TypeOK, NothingLost, Somewhere
  <2>2. CASE Release
    BY <2>2, ReleaseKeeps
  <2>3. CASE Expose
    BY <2>3 DEF Expose, IInv, TypeOK, NothingLost, Somewhere
  <2>4. CASE \E d \in Docs : Rewrite(d)
    BY <2>4, RewriteKeeps
  <2>5. CASE UNCHANGED vars
    BY <2>5 DEF vars, IInv, TypeOK, NothingLost, Somewhere
  <2> QED
    BY <2>1, <2>2, <2>3, <2>4, <2>5 DEF Next
<1>3. IInv => NothingLost
  BY DEF IInv
<1> QED
  BY <1>1, <1>2, <1>3, PTL DEF Spec
=============================================================================
