-------------------------- MODULE AtomicSaveProofs --------------------------
(***************************************************************************)
(* Proofs about AtomicSave, for every number of saves.  All but the first  *)
(* theorem assume that the rename which undoes a failed rename succeeds;   *)
(* without that they are false (see the README).                           *)
(***************************************************************************)
EXTENDS AtomicSave, TLAPS

\* Every variable keeps its type.
THEOREM TypeCorrect == Spec => []TypeOK
<1> USE SaveConstants DEF SaveConstants
<1>1. Init => TypeOK
  BY DEF Init, TypeOK, File, Only, Version, Stages
<1>2. TypeOK /\ [Next]_vars => TypeOK'
  <2> SUFFICES ASSUME TypeOK, [Next]_vars
               PROVE  TypeOK'
    OBVIOUS
  <2> USE DEF TypeOK, File, Version, Stages
  <2>1. CASE Open
    BY <2>1 DEF Open
  <2>2. CASE Begin
    BY <2>2 DEF Begin
  <2>3. CASE WriteTempOk \/ WriteTempFails \/ CheckOk \/ CheckFails
    BY <2>3 DEF WriteTempOk, WriteTempFails, CheckOk, CheckFails, Fail, Step, WriteTemp
  <2>4. CASE AsideOk \/ AsideFails
    BY <2>4 DEF AsideOk, AsideFails, Fail, Step, SetAside, DropBackup
  <2>5. CASE SwapOk \/ SwapFails
    BY <2>5 DEF SwapOk, SwapFails, Fail, Step, Swap, PutBack
  <2>6. CASE Complete
    BY <2>6 DEF Complete, DropBackup
  <2>7. CASE Crash
    BY <2>7 DEF Crash, WriteTemp
  <2>8. CASE UNCHANGED vars
    BY <2>8 DEF vars
  <2> QED
    BY <2>1, <2>2, <2>3, <2>4, <2>5, <2>6, <2>7, <2>8 DEF Next
<1> QED
  BY <1>1, <1>2, PTL DEF Spec

-----------------------------------------------------------------------------
\* Where the content that the running save replaces is, at every stage.
Holding ==
    /\ ~open => stage = "idle"
    /\ open /\ stage # "swap" => f.main \in Version
    /\ stage \in {"write", "check", "aside"} => f.main = before
    /\ stage = "swap" => f.main = Gone /\ f.bak = before /\ before \in Version
    /\ stage \in {"check", "aside", "swap"} => f.tmp = version
    /\ stage = "drop" => f.main = version

\* How the recoverable version, the newest one and the acknowledged one relate.
Ordering ==
    /\ Recoverable(f) \in Version
    /\ acked <= Recoverable(f) /\ Recoverable(f) <= version
    /\ stage # "idle" => acked < version
    /\ stage \in {"write", "check", "aside", "swap"} => Recoverable(f) < version

\* The inductive invariant.
IInv == TypeOK /\ Holding /\ Ordering

\* The inductive invariant holds initially, and no step breaks it.
LEMMA Inductive ==
    ASSUME PutBackMayFail = FALSE
    PROVE  /\ Init => IInv
           /\ IInv /\ [Next]_vars => IInv'
<1> USE SaveConstants DEF SaveConstants, IInv, TypeOK, Holding, Ordering, File, Version, Stages, Recoverable
<1>1. Init => IInv
  BY DEF Init, Only
<1>2. IInv /\ [Next]_vars => IInv'
  <2> SUFFICES ASSUME IInv, [Next]_vars
               PROVE  IInv'
    OBVIOUS
  <2>1. CASE Open
    BY <2>1 DEF Open
  <2>2. CASE Begin
    BY <2>2 DEF Begin
  <2>3. CASE WriteTempOk
    BY <2>3 DEF WriteTempOk, Step, WriteTemp
  <2>4. CASE WriteTempFails
    BY <2>4 DEF WriteTempFails, Fail, WriteTemp
  <2>5. CASE CheckOk
    BY <2>5 DEF CheckOk, Step
  <2>6. CASE CheckFails
    BY <2>6 DEF CheckFails, Fail, WriteTemp
  <2>7. CASE AsideOk
    BY <2>7 DEF AsideOk, Step, SetAside
  <2>8. CASE AsideFails
    BY <2>8 DEF AsideFails, Fail, DropBackup
  <2>9. CASE SwapOk
    BY <2>9 DEF SwapOk, Step, Swap
  <2>10. CASE SwapFails
    BY <2>10 DEF SwapFails, Fail, PutBack
  <2>11. CASE Complete
    BY <2>11 DEF Complete, DropBackup
  <2>12. CASE Crash
    BY <2>12 DEF Crash, WriteTemp
  <2>13. CASE UNCHANGED vars
    BY <2>13 DEF vars
  <2> QED
    BY <2>1, <2>2, <2>3, <2>4, <2>5, <2>6, <2>7, <2>8, <2>9, <2>10, <2>11, <2>12, <2>13
       DEF Next
<1> QED
  BY <1>1, <1>2

\* Whatever fails and wherever the process dies, a complete version that is not
\* older than the last acknowledged one can be recovered.
THEOREM NeverLosesASave ==
    ASSUME PutBackMayFail = FALSE
    PROVE  Spec => []SavedVersionSurvives
<1>1. IInv => SavedVersionSurvives
  BY SaveConstants DEF SaveConstants, IInv, TypeOK, Ordering, SavedVersionSurvives, Version
<1> QED
  BY <1>1, Inductive, PTL DEF Spec

\* A save that returns an error leaves the document as the save found it, if the
\* restoring rename does not fail as well.
THEOREM ErrorsAreHarmless ==
    ASSUME PutBackMayFail = FALSE
    PROVE  Spec => FailedSaveKeepsOriginal
<1> DEFINE A == (stage # "idle" /\ stage' = "idle" /\ open' /\ acked' = acked)
                   => f'.main = before
<1>1. IInv /\ [Next]_vars => [A]_vars
  <2> SUFFICES ASSUME IInv, Next
               PROVE  A
    BY DEF vars
  <2> USE SaveConstants
      DEF SaveConstants, IInv, TypeOK, Holding, Ordering, File, Version, Recoverable
  <2>1. CASE Open \/ Begin \/ WriteTempOk \/ CheckOk \/ AsideOk \/ SwapOk
    BY <2>1 DEF Open, Begin, WriteTempOk, CheckOk, AsideOk, SwapOk, Step
  <2>2. CASE WriteTempFails \/ CheckFails \/ AsideFails
    BY <2>2 DEF WriteTempFails, CheckFails, AsideFails, WriteTemp, DropBackup
  <2>3. CASE SwapFails
    BY <2>3 DEF SwapFails, PutBack
  <2>4. CASE Complete \/ Crash
    BY <2>4 DEF Complete, Crash
  <2> QED
    BY <2>1, <2>2, <2>3, <2>4 DEF Next
<1> QED
  BY <1>1, Inductive, PTL DEF Spec, FailedSaveKeepsOriginal

\* To a reader that falls back to the backup, a document is the register of
\* DurableRegister: it changes version in one step, and only forward.
THEOREM Refinement ==
    ASSUME PutBackMayFail = FALSE
    PROVE  Spec => SavesAtomically
<1>1. Init => Register!Init
  BY SaveConstants DEF SaveConstants, Init, Register!Init, Only, Recoverable
<1>2. IInv /\ [Next]_vars => [Register!Next]_<<Recoverable(f), acked>>
  <2> SUFFICES ASSUME IInv, [Next]_vars
               PROVE  Register!Next \/ UNCHANGED <<Recoverable(f), acked>>
    OBVIOUS
  <2> USE SaveConstants
      DEF SaveConstants, IInv, TypeOK, Holding, Ordering, File, Version, Stages, Recoverable
  <2>1. CASE Open \/ Begin \/ Crash
    BY <2>1 DEF Open, Begin, Crash, WriteTemp
  <2>2. CASE WriteTempOk \/ WriteTempFails \/ CheckOk \/ CheckFails
    BY <2>2 DEF WriteTempOk, WriteTempFails, CheckOk, CheckFails, Fail, Step, WriteTemp
  <2>3. CASE AsideOk \/ AsideFails
    BY <2>3 DEF AsideOk, AsideFails, Fail, Step, SetAside, DropBackup
  <2>4. CASE SwapOk
    BY <2>4 DEF SwapOk, Step, Swap, Register!Next, Register!Commit
  <2>5. CASE SwapFails
    BY <2>5 DEF SwapFails, Fail, PutBack
  <2>6. CASE Complete
    BY <2>6 DEF Complete, DropBackup, Register!Next, Register!Acknowledge
  <2>7. CASE UNCHANGED vars
    BY <2>7 DEF vars
  <2> QED
    BY <2>1, <2>2, <2>3, <2>4, <2>5, <2>6, <2>7 DEF Next
<1> QED
  BY <1>1, <1>2, Inductive, PTL DEF Spec, SavesAtomically, Register!Spec
=============================================================================
