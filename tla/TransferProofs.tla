--------------------------- MODULE TransferProofs ---------------------------
(***************************************************************************)
(* Proofs about Transfer, for any documents and tasks and any number of    *)
(* transfers, crashes, failing calls and foreign writes.                   *)
(***************************************************************************)
EXTENDS Transfer, TLAPS

\* Every call, as the three entries that it leaves.
LEMMA FileCalls ==
    ASSUME NEW C, NEW g \in File(C), NEW v
    PROVE  /\ WriteTemp(g, v) = [main |-> g.main, bak |-> g.bak, tmp |-> v]
           /\ SetAside(g) = [main |-> Gone, bak |-> g.main, tmp |-> g.tmp]
           /\ Swap(g) = [main |-> g.tmp, bak |-> g.bak, tmp |-> Gone]
           /\ DropBackup(g) = [main |-> g.main, bak |-> Gone, tmp |-> g.tmp]
           /\ g.main = Gone /\ g.bak # Gone =>
                 PutBack(g) = [main |-> g.bak, bak |-> Gone, tmp |-> g.tmp]
           /\ g.main # Gone \/ g.bak = Gone => PutBack(g) = g
           /\ g.main = Gone => SetAsideIfPresent(g) = g
           /\ g.main # Gone => SetAsideIfPresent(g) = SetAside(g)
<1> USE DEF File
<1>1. WriteTemp(g, v) = [main |-> g.main, bak |-> g.bak, tmp |-> v]
  BY DEF WriteTemp
<1>2. SetAside(g) = [main |-> Gone, bak |-> g.main, tmp |-> g.tmp]
  BY DEF SetAside
<1>3. Swap(g) = [main |-> g.tmp, bak |-> g.bak, tmp |-> Gone]
  BY DEF Swap
<1>4. DropBackup(g) = [main |-> g.main, bak |-> Gone, tmp |-> g.tmp]
  BY DEF DropBackup
<1>5. /\ g.main = Gone /\ g.bak # Gone =>
            PutBack(g) = [main |-> g.bak, bak |-> Gone, tmp |-> g.tmp]
      /\ g.main # Gone \/ g.bak = Gone => PutBack(g) = g
  BY DEF PutBack
<1>6. /\ g.main = Gone => SetAsideIfPresent(g) = g
      /\ g.main # Gone => SetAsideIfPresent(g) = SetAside(g)
  BY DEF SetAsideIfPresent
<1> QED
  BY <1>1, <1>2, <1>3, <1>4, <1>5, <1>6

\* A call on a file gives a file again.
LEMMA FileTypes ==
    ASSUME NEW C, NEW g \in File(C), NEW v \in C \cup {Gone}
    PROVE  /\ WriteTemp(g, v) \in File(C)
           /\ SetAside(g) \in File(C)
           /\ SetAsideIfPresent(g) \in File(C)
           /\ Swap(g) \in File(C)
           /\ DropBackup(g) \in File(C)
           /\ PutBack(g) \in File(C)
           /\ DropBackup(Swap(g)) \in File(C)
BY DEF File, WriteTemp, SetAside, Swap, DropBackup, PutBack, SetAsideIfPresent

\* The three ways a document's content is made are well typed.
LEMMA ContentTypes ==
    ASSUME NEW d \in Content, NEW i \in Ids
    PROVE  /\ \A a \in Tasks : Insert(d, i, a) \in Content
           /\ Remove(d, i) \in Content
           /\ RaiseNext(d, i + 1) \in Content
<1> USE TransferConstants DEF TransferConstants, Content, Ids
<1>1. \A a \in Tasks : Insert(d, i, a) \in Content
  BY DEF Insert
<1>2. Remove(d, i) \in Content
  BY DEF Remove
<1>3. RaiseNext(d, i + 1) \in Content
  BY DEF RaiseNext
<1> QED
  BY <1>1, <1>2, <1>3

\* The fields of a manifest.
LEMMA ManifestTypes ==
    ASSUME NEW m \in Manifest
    PROVE  /\ m.src \in Docs /\ m.tgt \in Docs
           /\ m.task \in Tasks /\ m.sid \in Ids /\ m.tid \in Ids
           /\ m.srcFp \in Content /\ m.tgtFp \in Content
           /\ m # Nil
BY TransferConstants DEF TransferConstants, Manifest

\* Whoever is named by the thread, the interface or a journal has a plan.
Planned ==
    /\ pc # "rest" => txn \in Txns /\ plan[txn] # Nil
    /\ \A t \in Txns : t \in todo \/ t \in reported \/ t \in {banner, asked} \/ journal[t] # NoFile
                         => plan[t] # Nil

\* Only a task with an attachment has one copied, and undo has a target backup.
Prepared ==
    /\ \A t \in Txns : plan[t] # Nil /\ plan[t].copyAsset => plan[t].task \in Attached
    /\ pc = "restore_target" => undo[txn].target # Gone

\* TypeOK and what it takes to preserve it.
TypeInv == TypeOK /\ Planned /\ Prepared

\* The type invariant holds initially.
LEMMA TypeInit == Init => TypeInv
<1> SUFFICES ASSUME Init PROVE TypeInv
  OBVIOUS
<1> USE TransferConstants DEF TransferConstants, Init
<1>1. docs \in [Docs -> File(Content)]
  BY DEF File, Only
<1>2. journal \in [Txns -> File(Record)] /\ \A t \in Txns : journal[t] = NoFile
  BY DEF File, Only, NoFile
<1>3. assets \subseteq Docs \X Attached
  OBVIOUS
<1> QED
  BY <1>1, <1>2, <1>3 DEF TypeInv, TypeOK, Planned, Prepared, Steps

\* Where control goes keeps the types of the thread and of the interface.
ThreadOK ==
    /\ op \in {"none", "transfer", "scan", "complete", "undo"}
    /\ pc \in Steps
    /\ txn \in Txns \cup {Nil}
    /\ stage \in {"write", "aside", "swap"}
    /\ mem \subseteq Phases
    /\ todo \subseteq Txns /\ reported \subseteq Txns /\ banner \in Txns \cup {Nil}
    /\ asked \in Txns \cup {Nil}
    /\ pc # "rest" => txn \in Txns /\ plan[txn] # Nil
    /\ \A t \in Txns : t \in todo \/ t \in reported \/ t \in {banner, asked} => plan[t] # Nil

BoundsOK == crashes \in 0 .. MaxCrashes /\ faults \in 0 .. MaxFaults /\ edits \in 0 .. MaxEdits

\* An error return keeps them.
LEMMA FailTypes ==
    ASSUME TypeInv, pc # "rest", Fail, UNCHANGED plan
    PROVE  ThreadOK' /\ pc' # "restore_target"
BY TransferConstants
   DEF TypeInv, TypeOK, Planned, ThreadOK, TransferConstants, Fail, Goto, Return, Steps

\* The next step is a step, and the target of an undo is restored first.
LEMMA AfterTypes ==
    ASSUME TypeInv, pc # "rest", Goto(After), mem' \subseteq Phases,
           UNCHANGED <<plan, uiVars>>
    PROVE  ThreadOK' /\ pc' # "restore_target"
<1>1. After \in Steps /\ After # "restore_target"
  BY DEF After, AfterRestore, Steps, LogSteps, SaveSteps, FileSteps
<1> QED
  BY <1>1 DEF TypeInv, TypeOK, Planned, ThreadOK, Goto, uiVars

\* A failing call stays within the bound.
LEMMA FaultTypes == TypeInv /\ Fault => BoundsOK'
BY TransferConstants DEF TypeInv, TypeOK, TransferConstants, Fault, BoundsOK

\* No step breaks the type invariant.
LEMMA TypeStep == TypeInv /\ [Next]_vars => TypeInv'
<1> SUFFICES ASSUME TypeInv, [Next]_vars
             PROVE  TypeInv'
  OBVIOUS
<1> USE DEF TypeInv, TypeOK, Planned, Prepared
<1> DEFINE Undo3 == [target : Content \cup {Gone}, source : Content \cup {Gone},
                     record : {"ready", "undone", Gone}]
           Parts == /\ docs' \in [Docs -> File(Content)]
                    /\ journal' \in [Txns -> File(Record)]
                    /\ plan' \in [Txns -> Manifest \cup {Nil}]
                    /\ undo' \in [Txns -> Undo3]
                    /\ assets' \subseteq Docs \X Attached
                    /\ exposed' \subseteq Tasks
                    /\ ThreadOK' /\ BoundsOK'
                    /\ \A t \in Txns : journal'[t] # NoFile => plan'[t] # Nil
                    /\ Prepared'
<1>0. SUFFICES Parts
  BY DEF ThreadOK, BoundsOK
<1>1. ASSUME NEW t \in Txns, Start(t) PROVE Parts
  <2>1. PICK kind \in {"Copy", "Move"}, s, d \in Docs, i, id \in Ids :
           /\ s # d /\ docs[d].main # Gone
           /\ Contains(s, i)
           /\ Allocates(docs[d].main, id)
           /\ plan' = [plan EXCEPT ![t] = NewPlan(kind, s, d, i, id)]
    BY <1>1, Zenon DEF Start
  <2>2. docs[s].main \in Content /\ docs[d].main \in Content
    BY <2>1 DEF File, Contains
  <2>3. docs[s].main.at[i] \in Tasks
    BY <2>1, <2>2 DEF Contains, TaskIds, Content
  <2>4. <<s, docs[s].main.at[i]>> \in assets => docs[s].main.at[i] \in Attached
    OBVIOUS
  <2>5. plan'[t] \in Manifest /\ plan' \in [Txns -> Manifest \cup {Nil}]
    BY <2>1, <2>2, <2>3 DEF NewPlan, CopyRequired, Manifest
  <2>6. plan'[t] # Nil /\ (plan'[t].copyAsset => plan'[t].task \in Attached)
    BY <2>1, <2>4, <2>5, ManifestTypes DEF NewPlan, CopyRequired
  <2>7. \A u \in Txns \ {t} : plan'[u] = plan[u]
    BY <2>1
  <2> QED
    BY <1>1, <2>5, <2>6, <2>7
       DEF Start, ThreadOK, BoundsOK, Steps, fsVars, uiVars, boundVars
<1>2. CASE Revalidate \/ CheckSource
  <2>1. pc \in {"revalidate", "check_source"}
    BY <1>2 DEF Revalidate, CheckSource
  <2>2. ThreadOK' /\ pc' # "restore_target"
    <3>1. CASE Fail
      BY <1>2, <2>1, <3>1, FailTypes DEF Revalidate, CheckSource
    <3>2. CASE ~Fail
      BY <1>2, <2>1, <3>2
         DEF Revalidate, CheckSource, Goto, ThreadOK, Steps, LogSteps, SaveSteps, uiVars
    <3> QED
      BY <3>1, <3>2
  <2> QED
    BY <1>2, <2>2 DEF Revalidate, CheckSource, BoundsOK, fsVars, boundVars
<1>3. CASE LogWrite \/ LogAside
  <2>1. txn \in Txns /\ plan[txn] # Nil /\ journal[txn] \in File(Record)
    BY <1>3 DEF LogWrite, LogAside, LogSteps
  <2>2. pc \in LogSteps => [entries |-> mem \cup {LoggedPhase}] \in Record
    BY DEF LogSteps, LoggedPhase, Record, Phases
  <2>3. \E g \in File(Record) : SetJournal(g)
    BY <1>3, <2>1, <2>2, FileTypes DEF LogWrite, LogAside
  <2>4. ThreadOK' /\ pc' # "restore_target"
    BY <1>3 DEF LogWrite, LogAside, LogSteps, ThreadOK, uiVars
  <2> QED
    BY <1>3, <2>1, <2>3, <2>4 DEF LogWrite, LogAside, SetJournal, BoundsOK, boundVars
<1>4. CASE LogSwap
  <2>1. txn \in Txns /\ plan[txn] # Nil /\ Swap(journal[txn]) \in File(Record)
    BY <1>4, FileTypes DEF LogSwap, LogSteps
  <2>2. mem' \subseteq Phases
    BY <1>4 DEF LogSwap, LogSteps, LoggedPhase, Phases
  <2>3. ThreadOK' /\ pc' # "restore_target"
    BY <1>4, <2>2, AfterTypes DEF LogSwap, LogSteps
  <2> QED
    BY <1>4, <2>1, <2>3 DEF LogSwap, SetJournal, BoundsOK, boundVars
<1>5. CASE LogFails
  <2>1. txn \in Txns /\ plan[txn] # Nil /\ PutBack(journal[txn]) \in File(Record)
    BY <1>5, FileTypes DEF LogFails, LogSteps
  <2>2. \E g \in File(Record) : SetJournal(g)
    BY <1>5, <2>1 DEF LogFails
  <2>3. ThreadOK' /\ pc' # "restore_target"
    BY <1>5, FailTypes DEF LogFails, LogSteps
  <2> QED
    BY <1>5, <2>1, <2>2, <2>3, FaultTypes DEF LogFails, SetJournal
<1>6. CASE SaveWrite \/ SaveAside \/ SaveSwap \/ SaveFails
  <2>1. pc \in SaveSteps /\ txn \in Txns /\ P \in Manifest
    BY <1>6 DEF SaveWrite, SaveAside, SaveSwap, SaveFails, SaveSteps, P
  <2>2. SavedDoc \in Docs /\ docs[SavedDoc] \in File(Content)
    BY <2>1, ManifestTypes DEF SavedDoc
  <2>3. SavedContent \in Content \cup {Gone}
    <3>1. CASE pc = "save_target"
      BY <2>1, <3>1, ManifestTypes, ContentTypes DEF SavedContent
    <3>2. CASE pc = "save_source"
      BY <2>1, <3>2, ManifestTypes, ContentTypes DEF SavedContent
    <3>3. CASE pc = "restore_target"
      BY <2>1, <3>3, ManifestTypes, ContentTypes DEF SavedContent
    <3>4. CASE pc = "restore_source"
      BY <2>1, <3>4 DEF SavedContent
    <3> QED
      BY <2>1, <3>1, <3>2, <3>3, <3>4 DEF SaveSteps
  <2>4. \E g \in File(Content) : SetDoc(g)
    BY <1>6, <2>2, <2>3, FileTypes DEF SaveWrite, SaveAside, SaveSwap, SaveFails
  <2>5. docs' \in [Docs -> File(Content)]
    BY <2>2, <2>4 DEF SetDoc
  <2>6. CASE SaveWrite \/ SaveAside
    BY <2>1, <2>5, <2>6
       DEF SaveWrite, SaveAside, ThreadOK, BoundsOK, SaveSteps, uiVars, boundVars
  <2>7. CASE SaveSwap
    <3>1. ThreadOK' /\ pc' # "restore_target"
      BY <2>1, <2>7, AfterTypes DEF SaveSwap, SaveSteps
    <3> QED
      BY <2>5, <2>7, <3>1 DEF SaveSwap, BoundsOK, boundVars
  <2>8. CASE SaveFails
    <3>1. ThreadOK' /\ pc' # "restore_target"
      BY <2>1, <2>8, FailTypes DEF SaveFails, SaveSteps
    <3> QED
      BY <2>5, <2>8, <3>1, FaultTypes DEF SaveFails
  <2> QED
    BY <1>6, <2>6, <2>7, <2>8
<1>7. CASE StageAssets
  <2>1. txn \in Txns /\ P \in Manifest /\ (P.copyAsset => P.task \in Attached)
    BY <1>7 DEF StageAssets, P
  <2>2. assets' \subseteq Docs \X Attached
    BY <1>7, <2>1, ManifestTypes DEF StageAssets
  <2>3. ThreadOK' /\ pc' # "restore_target"
    BY <1>7, AfterTypes DEF StageAssets
  <2> QED
    BY <1>7, <2>2, <2>3 DEF StageAssets, BoundsOK, boundVars
<1>8. CASE WriteUndoFile
  <2>1. txn \in Txns /\ P \in Manifest /\ undo[txn] \in Undo3
    BY <1>8 DEF WriteUndoFile, P
  <2>2. undo' \in [Txns -> Undo3]
    BY <1>8, <2>1, ManifestTypes DEF WriteUndoFile
  <2>3. ThreadOK' /\ pc' # "restore_target"
    BY <1>8, AfterTypes DEF WriteUndoFile
  <2> QED
    BY <1>8, <2>2, <2>3 DEF WriteUndoFile, BoundsOK, boundVars
<1>9. CASE MarkUndone
  <2>1. txn \in Txns /\ undo[txn] \in Undo3
    BY <1>9 DEF MarkUndone
  <2>2. undo' \in [Txns -> Undo3]
    BY <1>9, <2>1 DEF MarkUndone
  <2> QED
    BY <1>9, <2>2, TransferConstants
       DEF MarkUndone, Return, ThreadOK, BoundsOK, Steps, boundVars, TransferConstants
<1>10. CASE FileFails
  <2>1. ThreadOK' /\ pc' # "restore_target"
    BY <1>10, FailTypes DEF FileFails, FileSteps
  <2> QED
    BY <1>10, <2>1, FaultTypes DEF FileFails, fsVars
<1>11. CASE Clean
  BY <1>11 DEF Clean, SetJournal, NoFile, Only, File, Return, ThreadOK, BoundsOK, Steps, boundVars
<1>12. CASE Cleanup
  <2>1. ThreadOK' /\ BoundsOK' /\ pc' = "rest"
    BY <1>12 DEF Cleanup, Return, ThreadOK, BoundsOK, Steps, uiVars, boundVars
  <2>2. CASE UNCHANGED fsVars
    BY <1>12, <2>1, <2>2 DEF Cleanup, fsVars
  <2>3. CASE ~UNCHANGED fsVars
    <3>1. /\ RollBack(txn) /\ UNCHANGED docs
          /\ undo' = [undo EXCEPT ![txn] = [target |-> Gone, source |-> Gone, record |-> Gone]]
      BY <1>12, <2>3 DEF Cleanup
    <3>2. NoFile \in File(Record)
      BY DEF NoFile, Only, File
    <3> QED
      BY <1>12, <2>1, <3>1, <3>2 DEF Cleanup, RollBack
  <2> QED
    BY <2>2, <2>3
<1>13. ASSUME NEW t \in Txns, RecoverOne(t) PROVE Parts
  <2>1. plan[t] # Nil
    BY <1>13 DEF RecoverOne
  <2>2. journal' \in [Txns -> File(Record)] /\ assets' \subseteq Docs \X Attached
        /\ \A u \in Txns : journal'[u] # NoFile => journal[u] # NoFile
    <3>1. PICK g \in File(Record) : g = NoFile
      BY DEF NoFile, Only, File
    <3>2. CASE RollBack(t)
      BY <2>1, <3>1, <3>2 DEF RollBack
    <3>3. CASE ~RollBack(t)
      BY <1>13, <3>1, <3>3 DEF RecoverOne, KeepDuplicate
    <3> QED
      BY <3>2, <3>3
  <2>3. ThreadOK'
    BY <1>13, <2>1 DEF RecoverOne, RollBack, KeepDuplicate, TakeNext, ThreadOK
  <2> QED
    BY <1>13, <2>2, <2>3 DEF RecoverOne, BoundsOK, boundVars
<1>14. CASE Reopen \/ Crash
  <2>1. StartScan /\ BoundsOK'
    BY <1>14, TransferConstants
       DEF Reopen, Crash, NoFault, BoundsOK, boundVars, TransferConstants, StartScan
  <2>2. \A t \in Listed : plan[t] # Nil
    BY DEF Listed, NoFile, Only
  <2>4. asked' \in Txns \cup {Nil}
    BY <1>14 DEF Reopen, Crash
  <2>5. asked' # Nil => asked' = asked
    BY <1>14 DEF Reopen, Crash
  <2>6. /\ op' \in {"none", "scan"} /\ pc' = "rest" /\ txn' = Nil /\ stage' = "write" /\ mem' = {}
        /\ todo' = Listed /\ reported' = {} /\ banner' = Nil /\ plan' = plan
    BY <2>1 DEF StartScan
  <2>7. \A t \in Txns : t \in todo' \/ t \in reported' \/ t \in {banner', asked'} => plan'[t] # Nil
    BY <2>2, <2>4, <2>5, <2>6, TransferConstants DEF TransferConstants
  <2>3. ThreadOK' /\ pc' = "rest"
    BY <2>4, <2>6, <2>7 DEF Listed, ThreadOK, Steps
  <2> QED
    BY <2>1, <2>3 DEF StartScan, fsVars
<1>15. CASE Dismiss
  BY <1>15, TransferConstants
     DEF Dismiss, ThreadOK, BoundsOK, fsVars, threadVars, boundVars, TransferConstants
<1>16. ASSUME NEW t \in Txns, CompleteMove(t) PROVE Parts
  <2>1. Recoverable(journal[t]).entries \subseteq Phases
    BY <1>16 DEF CompleteMove, Recoverable, File, Record
  <2> QED
    BY <1>16, <2>1 DEF CompleteMove, ThreadOK, BoundsOK, Steps, SaveSteps, fsVars, uiVars, boundVars
<1>17. ASSUME NEW t \in Txns, Undo(t) PROVE Parts
  <2>1. MovedAfter(t) \subseteq Tasks
    BY ManifestTypes DEF MovedAfter
  <2>2. ThreadOK' /\ BoundsOK'
    <3>1. /\ op' = "undo" /\ pc' = "restore_target" /\ txn' = t /\ asked' = Nil /\ plan[t] # Nil
          /\ UNCHANGED <<plan, stage, mem, todo, reported, banner, boundVars>>
      BY <1>17, TransferConstants DEF Undo, TransferConstants
    <3>2. Nil \notin Txns
      BY TransferConstants DEF TransferConstants
    <3>3. \A u \in Txns : u \in todo' \/ u \in reported' \/ u \in {banner', asked'} => plan'[u] # Nil
      BY <3>1, <3>2
    <3> QED
      BY <3>1, <3>3 DEF ThreadOK, BoundsOK, Steps, SaveSteps, boundVars
  <2>3. exposed' \subseteq Tasks /\ pc' = "restore_target"
    BY <1>17, <2>1 DEF Undo
  <2>4. UNCHANGED fsVars /\ UNCHANGED plan
    BY <1>17 DEF Undo, fsVars
  <2>5. undo[t].target # Gone /\ txn' = t
    BY <1>17 DEF Undo
  <2> QED
    BY <2>2, <2>3, <2>4, <2>5 DEF fsVars
<1>18. ASSUME NEW d \in Docs, ExternalAdd(d) \/ ExternalDelete(d) PROVE Parts
  <2>1. PICK e \in Content : Rewrite(d, e)
    <3>1. docs[d].main # Gone => docs[d].main \in Content
      BY DEF File
    <3> QED
      BY <1>18, <3>1, ContentTypes DEF ExternalAdd, ExternalDelete, TaskIds
  <2>2. docs' \in [Docs -> File(Content)]
    <3>1. [docs[d] EXCEPT !.main = e] \in File(Content)
      BY <2>1 DEF File
    <3>2. docs' = [docs EXCEPT ![d] = [docs[d] EXCEPT !.main = e]]
      BY <2>1 DEF Rewrite
    <3> QED
      BY <3>1, <3>2
  <2> QED
    BY <2>1, <2>2, TransferConstants
       DEF Rewrite, ThreadOK, BoundsOK, threadVars, uiVars, TransferConstants
<1>19. CASE UNCHANGED vars
  BY <1>19 DEF vars, fsVars, threadVars, uiVars, boundVars, ThreadOK, BoundsOK
<1>20. ASSUME NEW t \in Txns, ClickUndo(t) PROVE Parts
  BY <1>20 DEF ClickUndo, ThreadOK, BoundsOK, fsVars, threadVars, boundVars
<1> QED
  BY <1>1, <1>2, <1>3, <1>4, <1>5, <1>6, <1>7, <1>8, <1>9, <1>10, <1>11, <1>12, <1>13,
     <1>14, <1>15, <1>16, <1>17, <1>18, <1>19, <1>20
     DEF Next, Engine, User, Environment

\* Every variable of the transfer engine keeps its type.
THEOREM TypeCorrect == Spec => []TypeOK
<1>1. TypeInv => TypeOK
  BY DEF TypeInv
<1> QED
  BY <1>1, TypeInit, TypeStep, PTL DEF Spec

-----------------------------------------------------------------------------
(* No transfer takes a task out of a document unproved                     *)

UndoSteps  == {"restore_target", "restore_source", "mark_undone"}
Logged     == Steps \ (UndoSteps \cup {"rest", "revalidate", "log_started", "cleanup"})
ToTarget   == {"log_started", "stage_assets", "log_staged", "backup_target", "save_target"}

\* Which command is at which steps.
OpInv ==
    /\ pc \in UndoSteps => op = "undo"
    /\ op \in {"none", "scan"} => pc = "rest"
    /\ pc = "rest" => stage = "write"

\* From its creation on, the journal on disk tells what the one in memory does.
JournalInv ==
    /\ pc \in Logged => /\ Recoverable(journal[txn]) \in Record
                         /\ Recoverable(journal[txn]).entries = mem
    /\ pc \in LogSteps /\ stage # "write" =>
           journal[txn].tmp = [entries |-> mem \cup {LoggedPhase}]
    /\ pc = "save_source" => "TargetCommitted" \in mem

\* Document d may have changed since content e was read, but every original task
\* that it holds now was there then.
Overwrites(d, e) ==
    /\ Text(d) \in Content
    /\ \A i \in Ids : Text(d).at[i] \in Originals => e.at[i] = Text(d).at[i]

\* What a transfer is about to write over a document has its original tasks.
DocInv ==
    /\ pc \in ToTarget =>
          /\ Overwrites(P.tgt, P.tgtFp)
          /\ docs[P.tgt].main # Gone \/ (pc = "save_target" /\ stage = "swap")
    /\ pc = "save_source" =>
          /\ Overwrites(P.src, P.srcFp)
          /\ docs[P.src].main # Gone \/ stage = "swap"
    /\ pc \in {"save_target", "save_source"} /\ stage # "write" =>
          docs[SavedDoc].tmp = SavedContent
    /\ \A t \in Txns : plan[t] # Nil => plan[t].tgtFp.at[plan[t].tid] = Nil

\* The inductive invariant.
CutInv == TypeInv /\ OpInv /\ JournalInv /\ DocInv

\* Nil is not a task of any document.
LEMMA NilNotOriginal == Nil \notin Originals
BY DEF Originals, Held, TaskIds

\* A task that another program may delete is no original.
LEMMA DeletableNotOriginal == \A a \in Deletable : a \notin Originals
BY DEF Originals

\* An error return leaves the steps that the invariant is about.
LEMMA FailLeaves == pc # "rest" /\ Fail => pc' \in {"cleanup", "rest"} /\ stage' = "write"
BY DEF Fail, Goto, Return

\* Where the steps lead.
LEMMA AfterLeads ==
    ASSUME pc \in Steps
    PROVE  /\ After \in UndoSteps => pc \in UndoSteps
           /\ After \in Logged => pc \in Logged \cup {"log_started"}
           /\ After \in ToTarget => pc \in ToTarget \ {"save_target"}
           /\ After \notin {"save_source", "log_started"}
           /\ pc \in LogSteps \cup SaveSteps \cup (FileSteps \ {"mark_undone"})
                 => After # "rest"
<1>1. After \in UndoSteps => pc \in UndoSteps
  BY DEF After, AfterRestore, UndoSteps, Steps, LogSteps, SaveSteps, FileSteps
<1>2. After \in Logged => pc \in Logged \cup {"log_started"}
  <2>1. CASE pc \in UndoSteps \cup {"rest", "revalidate", "cleanup"}
    BY <2>1 DEF After, AfterRestore, UndoSteps, Logged, Steps, LogSteps, SaveSteps, FileSteps
  <2>2. CASE pc \notin UndoSteps \cup {"rest", "revalidate", "cleanup"}
    BY <2>2 DEF Logged
  <2> QED
    BY <2>1, <2>2
<1>3. After \in ToTarget => pc \in ToTarget \ {"save_target"}
  BY DEF After, AfterRestore, ToTarget, Steps, LogSteps, SaveSteps, FileSteps
<1>4. After \notin {"save_source", "log_started"}
  BY DEF After, AfterRestore, Steps, LogSteps, SaveSteps, FileSteps
<1>5. pc \in LogSteps \cup SaveSteps \cup (FileSteps \ {"mark_undone"}) => After # "rest"
  BY DEF After, AfterRestore, LogSteps, SaveSteps, FileSteps
<1> QED
  BY <1>1, <1>2, <1>3, <1>4, <1>5

\* The invariant holds initially.
LEMMA CutInit == Init => CutInv
BY TypeInit DEF CutInv, OpInv, JournalInv, DocInv, Init, UndoSteps, Logged, ToTarget, Steps,
               LogSteps

\* A step keeps the control part.
LEMMA OpStep == CutInv /\ [Next]_vars => OpInv'
<1> SUFFICES ASSUME CutInv, [Next]_vars
             PROVE  OpInv'
  OBVIOUS
<1> USE DEF CutInv, TypeInv, TypeOK, OpInv
<1>1. CASE \E t \in Txns : Start(t) \/ CompleteMove(t) \/ Undo(t)
  BY <1>1 DEF Start, CompleteMove, Undo, UndoSteps
<1>2. CASE Fail /\ pc # "rest"
  BY <1>2, FailLeaves DEF Fail, Goto, Return, UndoSteps
<1>3. CASE Goto(After) /\ pc \in LogSteps \cup SaveSteps \cup (FileSteps \ {"mark_undone"})
  BY <1>3, AfterLeads DEF Goto, UndoSteps, LogSteps, SaveSteps, FileSteps
<1>4. CASE Revalidate \/ CheckSource
  BY <1>2, <1>4 DEF Revalidate, CheckSource, Goto, UndoSteps
<1>5. CASE LogWrite \/ LogAside \/ SaveWrite \/ SaveAside
  BY <1>5 DEF LogWrite, LogAside, SaveWrite, SaveAside, LogSteps, SaveSteps
<1>6. CASE LogSwap \/ SaveSwap \/ StageAssets \/ WriteUndoFile
  BY <1>3, <1>6 DEF LogSwap, SaveSwap, StageAssets, WriteUndoFile, FileSteps
<1>7. CASE LogFails \/ SaveFails \/ FileFails
  BY <1>2, <1>7 DEF LogFails, SaveFails, FileFails, LogSteps, SaveSteps, FileSteps
<1>8. CASE MarkUndone \/ Clean \/ Cleanup
  BY <1>8 DEF MarkUndone, Clean, Cleanup, Return, UndoSteps
<1>9. CASE \E t \in Txns : RecoverOne(t)
  BY <1>9 DEF RecoverOne, TakeNext, UndoSteps
<1>10. CASE Reopen \/ Crash
  BY <1>10 DEF Reopen, Crash, StartScan, UndoSteps
<1>11. CASE Dismiss \/ (\E t \in Txns : ClickUndo(t))
            \/ (\E d \in Docs : ExternalAdd(d) \/ ExternalDelete(d)) \/ UNCHANGED vars
  BY <1>11 DEF Dismiss, ClickUndo, ExternalAdd, ExternalDelete, Rewrite, vars, threadVars
<1> QED
  BY <1>1, <1>4, <1>5, <1>6, <1>7, <1>8, <1>9, <1>10, <1>11
     DEF Next, Engine, User, Environment

\* A step keeps the journal part.
LEMMA JournalStep == CutInv /\ [Next]_vars => JournalInv'
<1> SUFFICES ASSUME CutInv, [Next]_vars
             PROVE  JournalInv'
  OBVIOUS
<1> USE DEF CutInv, TypeInv, TypeOK, JournalInv
<1>0. /\ {"rest", "revalidate", "cleanup", "restore_target"} \cap (Logged \cup LogSteps) = {}
      /\ "log_started" \notin Logged /\ {"check_source", "save_source"} \subseteq Logged
      /\ LogSteps \subseteq Logged \cup {"log_started"}
  BY DEF Logged, Steps, UndoSteps, LogSteps, SaveSteps, FileSteps
<1>1. CASE \E t \in Txns : Start(t) \/ Undo(t)
  BY <1>0, <1>1 DEF Start, Undo
<1>2. ASSUME NEW t \in Txns, CompleteMove(t) PROVE JournalInv'
  <2>1. Recoverable(journal[t]) \in Record
    BY <1>2 DEF CompleteMove, Recoverable, File
  <2>2. "save_source" \notin LogSteps
    BY DEF LogSteps
  <2> QED
    BY <1>2, <2>1, <2>2 DEF CompleteMove, MayCutSource, fsVars
<1>3. CASE Fail /\ pc # "rest"
  BY <1>0, <1>3, FailLeaves
<1>4. CASE Revalidate
  BY <1>0, <1>3, <1>4 DEF Revalidate, Goto
<1>5. CASE CheckSource
  BY <1>0, <1>3, <1>5 DEF CheckSource, Goto, MayCutSource, fsVars
<1>6. CASE LogWrite \/ LogAside
  <2>1. txn \in Txns /\ journal[txn] \in File(Record)
    BY <1>6 DEF LogWrite, LogAside, LogSteps, Planned
  <2>2. CASE LogWrite
    <3>1. journal'[txn] = WriteTemp(journal[txn], [entries |-> mem \cup {LoggedPhase}])
      BY <2>1, <2>2 DEF LogWrite, SetJournal
    <3>2. /\ journal'[txn].tmp = [entries |-> mem \cup {LoggedPhase}]
          /\ Recoverable(journal'[txn]) = Recoverable(journal[txn])
      BY <2>1, <3>1 DEF WriteTemp, File, Recoverable
    <3> QED
      BY <2>2, <3>2 DEF LogWrite, LoggedPhase
  <2>3. CASE LogAside
    <3>1. journal'[txn] = SetAsideIfPresent(journal[txn])
      BY <2>1, <2>3 DEF LogAside, SetJournal
    <3>2. /\ journal'[txn].tmp = journal[txn].tmp
          /\ Recoverable(journal'[txn]) = Recoverable(journal[txn])
      BY <2>1, <3>1 DEF SetAsideIfPresent, SetAside, File, Recoverable
    <3> QED
      BY <2>3, <3>2 DEF LogAside, LoggedPhase
  <2> QED
    BY <1>6, <2>2, <2>3
<1>7. CASE LogSwap
  <2>1. txn \in Txns /\ journal[txn] \in File(Record)
    BY <1>7 DEF LogSwap, LogSteps, Planned
  <2>2. mem' = mem \cup {LoggedPhase} /\ journal[txn].tmp = [entries |-> mem']
    BY <1>7 DEF LogSwap
  <2>3. journal'[txn].main = [entries |-> mem']
    BY <1>7, <2>1, <2>2 DEF LogSwap, SetJournal, Swap
  <2>4. [entries |-> mem'] \in Record
    BY <2>2, <2>1, <1>7 DEF Record, LogSwap, LogSteps, LoggedPhase, Phases
  <2>5. Recoverable(journal'[txn]) = [entries |-> mem']
    BY <2>3, <2>4, TransferConstants DEF Recoverable, TransferConstants
  <2> QED
    BY <1>7, <2>4, <2>5, AfterLeads DEF LogSwap, Goto
<1>8. CASE SaveWrite \/ SaveAside
  BY <1>8 DEF SaveWrite, SaveAside, SaveSteps, LogSteps
<1>9. CASE SaveSwap \/ StageAssets \/ WriteUndoFile
  <2>1. /\ pc \notin LogSteps /\ Goto(After) /\ UNCHANGED <<journal, mem>>
    BY <1>9 DEF SaveSwap, StageAssets, WriteUndoFile, SaveSteps, LogSteps
  <2> QED
    BY <2>1, AfterLeads DEF Goto, LogSteps
<1>10. CASE LogFails \/ SaveFails \/ FileFails
  BY <1>3, <1>10 DEF LogFails, SaveFails, FileFails, LogSteps, SaveSteps, FileSteps
<1>11. CASE MarkUndone \/ Clean \/ Cleanup \/ Reopen \/ Crash
  BY <1>0, <1>11 DEF MarkUndone, Clean, Cleanup, Return, Reopen, Crash, StartScan
<1>12. CASE \E t \in Txns : RecoverOne(t)
  BY <1>0, <1>12 DEF RecoverOne, OpInv
<1>13. CASE Dismiss \/ (\E t \in Txns : ClickUndo(t))
            \/ (\E d \in Docs : ExternalAdd(d) \/ ExternalDelete(d)) \/ UNCHANGED vars
  BY <1>13 DEF Dismiss, ClickUndo, ExternalAdd, ExternalDelete, Rewrite, vars, fsVars,
               threadVars, LoggedPhase
<1> QED
  BY <1>1, <1>2, <1>4, <1>5, <1>6, <1>7, <1>8, <1>9, <1>10, <1>11, <1>12, <1>13
     DEF Next, Engine, User, Environment

\* What another program writes over a document keeps its original tasks in place.
LEMMA ForeignWrites ==
    ASSUME TypeInv, NEW d \in Docs, ExternalAdd(d) \/ ExternalDelete(d)
    PROVE  \E e \in Content :
             /\ Rewrite(d, e)
             /\ docs[d].main \in Content /\ docs[d].main # Gone
             /\ \A i \in Ids :
                   \/ e.at[i] = docs[d].main.at[i]
                   \/ e.at[i] \notin Originals /\ docs[d].main.at[i] \notin Originals
<1> USE DEF TypeInv, TypeOK
<1>1. docs[d].main \in Content /\ docs[d].main # Gone
  BY DEF ExternalAdd, ExternalDelete, File
<1>2. CASE ExternalAdd(d)
  <2>1. PICK id \in Ids, a \in Tasks \ (Originals \cup Deletable) :
           Allocates(docs[d].main, id) /\ Rewrite(d, Insert(docs[d].main, id, a))
    BY <1>2 DEF ExternalAdd
  <2>2. docs[d].main.at[id] = Nil
    BY <1>1, <2>1, TransferConstants DEF Allocates, TaskIds, Ids, TransferConstants
  <2>3. Insert(docs[d].main, id, a) \in Content
    BY <1>1, <2>1, ContentTypes
  <2>4. \A i \in Ids \ {id} : Insert(docs[d].main, id, a).at[i] = docs[d].main.at[i]
    BY <1>1 DEF Insert, Content
  <2>5. Insert(docs[d].main, id, a).at[id] = a
    BY <1>1, <2>1 DEF Insert, Content
  <2>6. \A i \in Ids : LET e == Insert(docs[d].main, id, a) IN
           \/ e.at[i] = docs[d].main.at[i]
           \/ e.at[i] \notin Originals /\ docs[d].main.at[i] \notin Originals
    BY <2>1, <2>2, <2>4, <2>5, NilNotOriginal
  <2> USE <2>3
  <2> WITNESS Insert(docs[d].main, id, a) \in Content
  <2> QED
    BY <1>1, <2>1, <2>6
<1>3. CASE ExternalDelete(d)
  <2>1. PICK id \in Ids :
           /\ docs[d].main.at[id] \in Deletable
           /\ Rewrite(d, Remove(docs[d].main, id))
    BY <1>3 DEF ExternalDelete, TaskIds
  <2>2. Remove(docs[d].main, id) \in Content
    BY <1>1, <2>1, ContentTypes
  <2>3. \A i \in Ids \ {id} : Remove(docs[d].main, id).at[i] = docs[d].main.at[i]
    BY <1>1 DEF Remove, Content
  <2>4. Remove(docs[d].main, id).at[id] = Nil
    BY <1>1, <2>1 DEF Remove, Content
  <2>5. \A i \in Ids : LET e == Remove(docs[d].main, id) IN
           \/ e.at[i] = docs[d].main.at[i]
           \/ e.at[i] \notin Originals /\ docs[d].main.at[i] \notin Originals
    <3>1. docs[d].main.at[id] \notin Originals
      BY <2>1, DeletableNotOriginal
    <3> QED
      BY <2>1, <2>3, <2>4, <3>1, NilNotOriginal
  <2> USE <2>2
  <2> WITNESS Remove(docs[d].main, id) \in Content
  <2> QED
    BY <1>1, <2>1, <2>5
<1> QED
  BY <1>2, <1>3

\* What can be read under a file's name, after each call of a save.
LEMMA Readable ==
    ASSUME NEW C, NEW g \in File(C), NEW v
    PROVE  /\ Recoverable(WriteTemp(g, v)) = Recoverable(g)
           /\ WriteTemp(g, v).main = g.main
           /\ g.main # Gone => Recoverable(SetAside(g)) = Recoverable(g)
           /\ g.main # Gone => Recoverable(DropBackup(g)) = Recoverable(g)
           /\ Recoverable(PutBack(g)) = Recoverable(g)
           /\ g.tmp # Gone => Recoverable(DropBackup(Swap(g))) = g.tmp
<1>1. g \in File(C) /\ Swap(g) \in [main : {g.tmp}, bak : {g.bak}, tmp : {Gone}]
  BY FileCalls
<1>2. DropBackup(Swap(g)).main = g.tmp
  BY <1>1 DEF DropBackup
<1>3. /\ Recoverable(WriteTemp(g, v)) = Recoverable(g)
      /\ WriteTemp(g, v).main = g.main
      /\ g.main # Gone => Recoverable(SetAside(g)) = Recoverable(g)
      /\ g.main # Gone => Recoverable(DropBackup(g)) = Recoverable(g)
  BY FileCalls DEF Recoverable
<1>4. Recoverable(PutBack(g)) = Recoverable(g)
  BY FileCalls DEF Recoverable, PutBack, File
<1> QED
  BY <1>2, <1>3, <1>4 DEF Recoverable

\* Nothing that a transfer waits to write over has been touched.
Waits == /\ UNCHANGED <<docs, plan>>
         /\ \/ UNCHANGED <<pc, txn, stage>>
            \/ pc' \notin ToTarget \cup {"save_source"}
            \/ Goto(After) /\ pc \in Steps \ SaveSteps

\* Such a step keeps the part about documents.
LEMMA DocWaits == CutInv /\ Waits => DocInv'
<1> SUFFICES ASSUME CutInv, Waits PROVE DocInv'
  OBVIOUS
<1> USE DEF CutInv, DocInv, Waits
<1>1. CASE UNCHANGED <<pc, txn, stage>>
  <2>1. P' = P /\ (\A d \in Docs : Text(d)' = Text(d)) /\ SavedDoc' = SavedDoc
    BY <1>1 DEF P, Text, SavedDoc
  <2>2. pc \in {"save_target", "save_source"} => SavedContent' = SavedContent
    BY <1>1, <2>1 DEF SavedContent
  <2> QED
    BY <1>1, <2>1, <2>2 DEF Overwrites, Text, P
<1>2. CASE pc' \notin ToTarget \cup {"save_source"}
  BY <1>2 DEF ToTarget
<1>3. CASE Goto(After) /\ pc \in Steps \ SaveSteps
  <2>1. P' = P /\ stage' = "write" /\ pc' = After
    BY <1>3 DEF P, Goto
  <2>2. pc' # "save_source" /\ (pc' \in ToTarget => pc \in ToTarget \ {"save_target"})
    BY <1>3, <2>1, AfterLeads
  <2> QED
    BY <2>1, <2>2 DEF Overwrites, Text, P
<1> QED
  BY <1>1, <1>2, <1>3

\* A step keeps the part about documents.
LEMMA DocStep == CutInv /\ [Next]_vars => DocInv'
<1> SUFFICES ASSUME CutInv, [Next]_vars PROVE DocInv'
  OBVIOUS
<1> USE DEF CutInv, TypeInv, TypeOK
<1>0. /\ {"rest", "cleanup", "restore_target", "check_source"} \cap (ToTarget \cup {"save_source"}) = {}
      /\ SaveSteps \cap (LogSteps \cup FileSteps) = {} /\ LogSteps \cup FileSteps \subseteq Steps
  BY DEF ToTarget, Steps, LogSteps, SaveSteps, FileSteps
<1>1. ASSUME NEW t \in Txns, Start(t) PROVE DocInv'
  <2>1. PICK kind \in {"Copy", "Move"}, s, d \in Docs, i, id \in Ids :
           /\ s # d /\ docs[d].main # Gone
           /\ Contains(s, i)
           /\ Allocates(docs[d].main, id)
           /\ plan' = [plan EXCEPT ![t] = NewPlan(kind, s, d, i, id)]
    BY <1>1, Zenon DEF Start
  <2>2. docs[d].main \in Content
    BY <2>1 DEF File
  <2>3. docs[d].main.at[id] = Nil
    BY <2>1, <2>2, TransferConstants DEF Allocates, TaskIds, Ids, TransferConstants
  <2>4. plan'[t].tgtFp = docs[d].main /\ plan'[t].tid = id
    BY <2>1 DEF NewPlan
  <2>5. \A u \in Txns \ {t} : plan'[u] = plan[u]
    BY <2>1
  <2>6. \A u \in Txns : plan'[u] # Nil => plan'[u].tgtFp.at[plan'[u].tid] = Nil
    BY <2>3, <2>4, <2>5 DEF DocInv
  <2> QED
    BY <1>1, <2>6 DEF Start, DocInv, ToTarget
<1>2. CASE Waits
  BY <1>2, DocWaits
<1>3. ASSUME Fail, pc # "rest", UNCHANGED plan PROVE DocInv'
  BY <1>0, <1>3, FailLeaves DEF DocInv
<1>4. CASE Revalidate
  <2>1. CASE Fail
    BY <1>3, <1>4, <2>1 DEF Revalidate
  <2>2. CASE ~Fail
    <3>1. /\ P \in Manifest /\ P' = P /\ UNCHANGED <<docs, plan>>
          /\ docs[P.tgt].main = P.tgtFp /\ pc' = "log_started" /\ stage' = "write"
      BY <1>4, <2>2 DEF Revalidate, Goto, fsVars, P, Planned
    <3>2. Text(P.tgt) = P.tgtFp /\ P.tgtFp \in Content /\ docs[P.tgt].main # Gone
      BY <3>1, ManifestTypes, TransferConstants DEF Text, Recoverable, TransferConstants
    <3> QED
      BY <3>1, <3>2 DEF DocInv, Overwrites, Text, P
  <2> QED
    BY <2>1, <2>2
<1>5. CASE CheckSource
  <2>1. CASE Fail
    BY <1>3, <1>5, <2>1 DEF CheckSource
  <2>2. CASE ~Fail
    <3>1. /\ P \in Manifest /\ P' = P /\ UNCHANGED <<docs, plan>>
          /\ docs[P.src].main = P.srcFp /\ pc' = "save_source" /\ stage' = "write"
      BY <1>5, <2>2 DEF CheckSource, MayCutSource, Goto, fsVars, P, Planned
    <3>2. Text(P.src) = P.srcFp /\ P.srcFp \in Content /\ docs[P.src].main # Gone
      BY <3>1, ManifestTypes, TransferConstants DEF Text, Recoverable, TransferConstants
    <3> QED
      BY <3>1, <3>2 DEF DocInv, Overwrites, Text, P, ToTarget
  <2> QED
    BY <2>1, <2>2
<1>6. ASSUME NEW t \in Txns, CompleteMove(t) PROVE DocInv'
  <2>1. /\ plan[t] \in Manifest /\ P' = plan[t] /\ UNCHANGED <<docs, plan>>
        /\ docs[plan[t].src].main = plan[t].srcFp /\ pc' = "save_source" /\ stage' = "write"
    BY <1>6 DEF CompleteMove, MayCutSource, fsVars, P, Planned, OpInv
  <2>2. /\ docs[plan[t].src].main # Gone /\ Text(plan[t].src) = plan[t].srcFp
        /\ plan[t].srcFp \in Content
    BY <2>1, ManifestTypes, TransferConstants DEF Text, Recoverable, TransferConstants
  <2> QED
    BY <2>1, <2>2 DEF DocInv, Overwrites, Text, P, ToTarget
<1>7. CASE LogWrite \/ LogAside
  <2>1. UNCHANGED <<docs, plan, pc, txn>> /\ pc \notin SaveSteps /\ stage' # stage
    BY <1>0, <1>7 DEF LogWrite, LogAside
  <2>2. P' = P
    BY <2>1 DEF P
  <2> QED
    BY <2>1, <2>2 DEF DocInv, Overwrites, Text, P, SaveSteps
<1>8. CASE LogSwap \/ StageAssets \/ WriteUndoFile
  BY <1>0, <1>2, <1>8 DEF LogSwap, StageAssets, WriteUndoFile, Waits, FileSteps
<1>9. CASE LogFails \/ SaveFails \/ FileFails
  BY <1>3, <1>9 DEF LogFails, SaveFails, FileFails, fsVars, LogSteps, SaveSteps, FileSteps
<1>10. CASE SaveWrite \/ SaveAside
  <2>1. /\ UNCHANGED <<plan, undo, pc, txn>> /\ P' = P /\ P \in Manifest
        /\ SavedDoc' = SavedDoc /\ SavedContent' = SavedContent
    BY <1>10 DEF SaveWrite, SaveAside, P, SavedDoc, SavedContent, SaveSteps, Planned
  <2>2. SavedDoc \in Docs /\ docs[SavedDoc] \in File(Content)
    BY <2>1, ManifestTypes DEF SavedDoc
  <2>3. \A d \in Docs \ {SavedDoc} : docs'[d] = docs[d]
    BY <1>10, <2>2 DEF SaveWrite, SaveAside, SetDoc
  <2>4. CASE pc \notin {"save_target", "save_source"}
    BY <1>10, <2>1, <2>4 DEF DocInv, SaveWrite, SaveAside, SaveSteps, ToTarget
  <2>5. CASE pc \in {"save_target", "save_source"} /\ SaveWrite
    <3>1. docs'[SavedDoc] = WriteTemp(docs[SavedDoc], SavedContent)
      BY <2>2, <2>5 DEF SaveWrite, SetDoc
    <3>2. /\ Recoverable(docs'[SavedDoc]) = Recoverable(docs[SavedDoc])
          /\ docs'[SavedDoc].main = docs[SavedDoc].main
          /\ docs'[SavedDoc].tmp = SavedContent
      BY <2>2, <3>1, Readable, FileCalls
    <3>3. stage = "write" /\ stage' = "aside"
      BY <2>5 DEF SaveWrite
    <3>4. (pc = "save_target" => SavedDoc = P.tgt) /\ (pc = "save_source" => SavedDoc = P.src)
      BY DEF SavedDoc
    <3> QED
      BY <2>1, <2>3, <2>5, <3>2, <3>3, <3>4 DEF DocInv, Overwrites, Text, P, ToTarget
  <2>6. CASE pc \in {"save_target", "save_source"} /\ SaveAside
    <3>1. stage = "aside" /\ stage' = "swap"
      BY <2>6 DEF SaveAside
    <3>2. (pc = "save_target" => SavedDoc = P.tgt) /\ (pc = "save_source" => SavedDoc = P.src)
      BY DEF SavedDoc
    <3>3. docs[SavedDoc].main # Gone
      BY <2>6, <3>1, <3>2 DEF DocInv, ToTarget
    <3>4. docs'[SavedDoc] = SetAside(docs[SavedDoc])
      BY <2>2, <2>6 DEF SaveAside, SetDoc
    <3>5. Recoverable(docs'[SavedDoc]) = Recoverable(docs[SavedDoc])
      BY <2>2, <3>3, <3>4, Readable
    <3>6. docs'[SavedDoc].tmp = docs[SavedDoc].tmp
      BY <3>4 DEF SetAside
    <3> QED
      BY <2>1, <2>3, <2>6, <3>1, <3>2, <3>5, <3>6 DEF DocInv, Overwrites, Text, P, ToTarget
  <2> QED
    BY <1>10, <2>4, <2>5, <2>6
<1>11. CASE SaveSwap
  <2>1. pc' \notin ToTarget \cup {"save_source"}
    BY <1>11, AfterLeads DEF SaveSwap, Goto, After, AfterRestore, ToTarget, SaveSteps
  <2> QED
    BY <1>11, <2>1 DEF SaveSwap, DocInv, ToTarget
<1>12. CASE MarkUndone \/ Clean \/ Cleanup
  <2>1. pc' = "rest" /\ UNCHANGED plan
    BY <1>12 DEF MarkUndone, Clean, Cleanup, Return
  <2> QED
    BY <1>0, <2>1 DEF DocInv
<1>13. CASE Reopen \/ Crash \/ \E t \in Txns : Undo(t)
  BY <1>0, <1>2, <1>13 DEF Reopen, Crash, StartScan, Undo, Waits, fsVars
<1>14. CASE (\E t \in Txns : RecoverOne(t) \/ ClickUndo(t)) \/ Dismiss \/ UNCHANGED vars
  BY <1>2, <1>14 DEF RecoverOne, TakeNext, ClickUndo, Dismiss, Waits, vars, fsVars, threadVars
<1>15. ASSUME NEW d \in Docs, ExternalAdd(d) \/ ExternalDelete(d) PROVE DocInv'
  <2>1. PICK e \in Content :
           /\ Rewrite(d, e)
           /\ docs[d].main \in Content /\ docs[d].main # Gone
           /\ \A i \in Ids :
                 \/ e.at[i] = docs[d].main.at[i]
                 \/ e.at[i] \notin Originals /\ docs[d].main.at[i] \notin Originals
    BY <1>15, ForeignWrites
  <2>2. /\ UNCHANGED <<plan, undo, pc, txn, stage>> /\ P' = P
        /\ SavedDoc' = SavedDoc /\ SavedContent' = SavedContent
    BY <2>1 DEF Rewrite, threadVars, P, SavedDoc, SavedContent
  <2>3. \A k \in Docs \ {d} : docs'[k] = docs[k]
    BY <2>1 DEF Rewrite
  <2>4. docs'[d].main = e /\ docs'[d].tmp = docs[d].tmp /\ e # Gone
    BY <2>1, TransferConstants DEF Rewrite, File, TransferConstants
  <2>5. Text(d) = docs[d].main /\ Text(d)' = e
    BY <2>1, <2>4 DEF Text, Recoverable
  <2>6. \A k \in Docs, g \in Content : Overwrites(k, g) => Overwrites(k, g)'
    BY <2>1, <2>3, <2>5 DEF Overwrites, Text
  <2>7. \A k \in Docs : docs'[k].tmp = docs[k].tmp /\ (docs[k].main # Gone => docs'[k].main # Gone)
    BY <2>3, <2>4
  <2>8. pc \in ToTarget \cup {"save_source", "save_target"} => P \in Manifest
    BY DEF P, Planned, ToTarget
  <2>9. pc \in {"save_source", "save_target"} => SavedDoc \in Docs
    BY <2>8, ManifestTypes DEF SavedDoc
  <2>10. pc \in ToTarget => Overwrites(P.tgt, P.tgtFp)'
    BY <2>2, <2>6, <2>8, ManifestTypes DEF DocInv
  <2>11. pc = "save_source" => Overwrites(P.src, P.srcFp)'
    BY <2>2, <2>6, <2>8, ManifestTypes DEF DocInv
  <2> QED
    BY <2>2, <2>7, <2>8, <2>9, <2>10, <2>11, ManifestTypes DEF DocInv, P
<1> QED
  BY <1>1, <1>4, <1>5, <1>6, <1>7, <1>8, <1>9, <1>10, <1>11, <1>12, <1>13, <1>14, <1>15
     DEF Next, Engine, User, Environment

\* The moved task leaves its source by writing Remove(srcFp, sid) over it; what is
\* written over the target only adds a task where there was none.
LEMMA SavesLose ==
    ASSUME CutInv, pc \in {"save_target", "save_source"}, NEW i \in Ids,
           Text(SavedDoc).at[i] \in Originals, SavedContent.at[i] # Text(SavedDoc).at[i]
    PROVE  pc = "save_source" /\ SavedDoc = P.src /\ i = P.sid
<1> USE DEF CutInv, TypeInv, TypeOK, DocInv
<1>1. P \in Manifest
  BY DEF P, Planned
<1>2. CASE pc = "save_target"
  <2>1. Overwrites(P.tgt, P.tgtFp) /\ SavedDoc = P.tgt
    BY <1>2 DEF ToTarget, SavedDoc
  <2>2. P.tgtFp.at[i] = Text(SavedDoc).at[i]
    BY <2>1 DEF Overwrites
  <2>3. P.tgtFp.at[P.tid] = Nil
    BY <1>1, <1>2 DEF P, Planned
  <2>4. i # P.tid
    BY <2>2, <2>3, NilNotOriginal
  <2>5. Insert(P.tgtFp, P.tid, P.task).at[i] = P.tgtFp.at[i]
    BY <1>1, <2>4, ManifestTypes DEF Insert, Content
  <2> QED
    BY <1>2, <2>2, <2>5 DEF SavedContent
<1>3. CASE pc = "save_source"
  <2>1. Overwrites(P.src, P.srcFp) /\ SavedDoc = P.src
    BY <1>3 DEF SavedDoc
  <2>2. P.srcFp.at[i] = Text(SavedDoc).at[i]
    BY <2>1 DEF Overwrites
  <2>3. i # P.sid => Remove(P.srcFp, P.sid).at[i] = P.srcFp.at[i]
    BY <1>1, ManifestTypes DEF Remove, Content
  <2> QED
    BY <1>3, <2>1, <2>2, <2>3 DEF SavedContent
<1> QED
  BY <1>2, <1>3

\* Every step of the specification cuts a source only with proof.
LEMMA CutStep ==
    ASSUME CutInv, [Next]_vars, NEW d \in Docs, NEW i \in Ids,
           op \in {"transfer", "complete"},
           Text(d).at[i] \in Originals, Text(d)'.at[i] # Text(d).at[i]
    PROVE  /\ d = P.src /\ i = P.sid
           /\ "TargetCommitted" \in Recoverable(journal[txn]).entries
<1> USE DEF CutInv, TypeInv, TypeOK
<1>1. ASSUME UNCHANGED docs PROVE FALSE
  BY <1>1 DEF Text
<1>2. CASE SaveWrite \/ SaveAside \/ SaveSwap \/ SaveFails
  <2>1. /\ pc \in SaveSteps /\ P \in Manifest
        /\ stage \in {"write", "aside", "swap"}
    BY <1>2 DEF SaveWrite, SaveAside, SaveSwap, SaveFails, SaveSteps, P, Planned
  <2>2. pc \in {"save_target", "save_source"}
    BY <2>1 DEF OpInv, UndoSteps, SaveSteps
  <2>3. SavedDoc \in Docs /\ docs[SavedDoc] \in File(Content)
    BY <2>1, ManifestTypes DEF SavedDoc
  <2>4. \A k \in Docs \ {SavedDoc} : docs'[k] = docs[k]
    BY <1>2, <2>3 DEF SaveWrite, SaveAside, SaveSwap, SaveFails, SetDoc
  <2>5. d = SavedDoc
    BY <2>4 DEF Text
  <2>6. stage = "aside" => docs[SavedDoc].main # Gone
    BY <2>2 DEF DocInv, ToTarget, SavedDoc
  <2>7. CASE SaveWrite \/ SaveAside \/ SaveFails
    <3>1. \/ docs'[d] = docs[d]
          \/ docs'[d] = WriteTemp(docs[d], SavedContent)
          \/ docs[d].main # Gone /\ docs'[d] = SetAside(docs[d])
          \/ docs[d].main # Gone /\ docs'[d] = DropBackup(docs[d])
          \/ docs'[d] = PutBack(docs[d])
      BY <2>1, <2>3, <2>5, <2>6, <2>7 DEF SaveWrite, SaveAside, SaveFails, SetDoc
    <3>2. Recoverable(docs'[d]) = Recoverable(docs[d])
      <4> DEFINE g == docs[d]
      <4>1. g \in File(Content)
        BY <2>3, <2>5
      <4>2. /\ Recoverable(WriteTemp(g, SavedContent)) = Recoverable(g)
            /\ g.main # Gone => Recoverable(SetAside(g)) = Recoverable(g)
            /\ g.main # Gone => Recoverable(DropBackup(g)) = Recoverable(g)
            /\ Recoverable(PutBack(g)) = Recoverable(g)
        BY <4>1, Readable
      <4> QED
        BY <3>1, <4>2
    <3> QED
      BY <3>2 DEF Text
  <2>8. CASE SaveSwap
    <3>1. docs'[d] = DropBackup(Swap(docs[d])) /\ docs[d].tmp = SavedContent
      BY <2>2, <2>3, <2>5, <2>8 DEF SaveSwap, SetDoc, DocInv
    <3>2. SavedContent \in Content
      BY <2>1, <2>2, ManifestTypes, ContentTypes DEF SavedContent
    <3>3. Text(d)' = SavedContent
      BY <2>3, <2>5, <3>1, <3>2, Readable, TransferConstants DEF Text, TransferConstants
    <3>4. pc = "save_source" /\ d = P.src /\ i = P.sid
      BY <2>2, <2>5, <3>3, SavesLose
    <3>5. "TargetCommitted" \in mem /\ Recoverable(journal[txn]).entries = mem
      BY <3>4 DEF JournalInv, Logged, Steps, SaveSteps, UndoSteps
    <3> QED
      BY <3>4, <3>5
  <2> QED
    BY <1>2, <2>7, <2>8
<1>3. ASSUME NEW k \in Docs, ExternalAdd(k) \/ ExternalDelete(k) PROVE FALSE
  <2>1. PICK e \in Content :
           /\ Rewrite(k, e)
           /\ docs[k].main \in Content /\ docs[k].main # Gone
           /\ \A j \in Ids :
                 \/ e.at[j] = docs[k].main.at[j]
                 \/ e.at[j] \notin Originals /\ docs[k].main.at[j] \notin Originals
    BY <1>3, ForeignWrites
  <2>2. \A m \in Docs \ {k} : docs'[m] = docs[m]
    BY <2>1 DEF Rewrite
  <2>3. d = k
    BY <2>2 DEF Text
  <2>4. docs'[k].main = e /\ e # Gone
    BY <2>1, TransferConstants DEF Rewrite, File, TransferConstants
  <2>5. Text(k) = docs[k].main /\ Text(k)' = e
    BY <2>1, <2>4 DEF Text, Recoverable
  <2> QED
    BY <2>1, <2>3, <2>5
<1>4. CASE ~(SaveWrite \/ SaveAside \/ SaveSwap \/ SaveFails)
           /\ ~\E k \in Docs : ExternalAdd(k) \/ ExternalDelete(k)
  <2>1. UNCHANGED docs
    BY <1>4 DEF Next, Engine, User, Environment, vars, fsVars, Revalidate, CheckSource,
                LogWrite, LogAside, LogSwap, LogFails, StageAssets, WriteUndoFile,
                MarkUndone, FileFails, Clean, Cleanup, RecoverOne, Reopen, Crash,
                StartScan, Dismiss, Start, CompleteMove, ClickUndo, Undo
  <2> QED
    BY <1>1, <2>1
<1> QED
  BY <1>2, <1>3, <1>4

\* The invariant is inductive.
LEMMA CutInductive == CutInv /\ [Next]_vars => CutInv'
BY TypeStep, OpStep, JournalStep, DocStep DEF CutInv

\* Whatever crashes, fails or is edited meanwhile, no transfer and no completion
\* takes an original task out of a document, except the moved task out of its
\* source when TargetCommitted is on disk.
THEOREM SourceCutProved == Spec => SourceCutIsProved
<1>1. CutInv /\ [Next]_vars =>
         [\A d \in Docs, i \in Ids :
            /\ op \in {"transfer", "complete"}
            /\ Text(d).at[i] \in Originals
            /\ Text(d)'.at[i] # Text(d).at[i]
            => /\ d = P.src /\ i = P.sid
               /\ "TargetCommitted" \in Recoverable(journal[txn]).entries]_vars
  BY CutStep
<1> QED
  BY <1>1, CutInit, CutInductive, PTL DEF Spec, SourceCutIsProved

(***************************************************************************)
(* No sequence of transfers, crashes, failing calls, recoveries,           *)
(* completions, undos and foreign writes loses a task (OriginalsSurvive,   *)
(* KeepsCustody), and an undo that is reported done is complete.           *)
(*                                                                         *)
(* A task can be cut from a document without a backup only where the       *)
(* journal of an interrupted move says that its target has it.  The        *)
(* invariant says more than that the target still has it: whichever of     *)
(* the pending cuts are made, and whichever of the transfers that can be   *)
(* undone is, every task stays somewhere (AnchorInv).  The tasks that an   *)
(* undo out of order gives up (exposed) are the exception.                 *)
(***************************************************************************)

\* The content of undo.json and of the two backups, and when they are written.
AfterCommit == {"backup_source", "log_backup", "check_source", "save_source", "log_source",
                "write_record", "log_completed", "clean"}
AfterBackup == AfterCommit \ {"backup_source"}
CompleteSteps == {"save_source", "log_source", "log_completed", "clean"}
MoveSteps == {"backup_source", "log_backup", "check_source", "save_source", "log_source",
              "restore_source"}

\* Which command is at which step.
ControlInv ==
    /\ op = "transfer" => pc \notin UndoSteps \cup {"rest"}
    /\ op = "undo" => pc \in UndoSteps /\ asked = Nil
    /\ op = "complete" => pc \in CompleteSteps /\ P.kind = "Move"
    /\ pc \in MoveSteps => P.kind = "Move"

\* Error returns keep the control part.
LEMMA FailControl ==
    ASSUME ControlInv, Fail, plan' = plan
    PROVE  ControlInv'
<1> USE DEF ControlInv, Fail
<1>1. CASE op = "transfer"
  BY <1>1 DEF Goto, UndoSteps, CompleteSteps, MoveSteps
<1>2. CASE op # "transfer"
  BY <1>2 DEF Return, CompleteSteps, MoveSteps, UndoSteps
<1> QED
  BY <1>1, <1>2

\* Where the steps of each command lead.
LEMMA AfterControl ==
    ASSUME ControlInv, OpInv, pc \in LogSteps \cup SaveSteps \cup (FileSteps \ {"mark_undone"})
    PROVE  /\ op = "transfer" => After \notin UndoSteps \cup {"rest", "cleanup"}
           /\ op = "undo" => After \in UndoSteps
           /\ op = "complete" => After \in CompleteSteps
           /\ After \in MoveSteps => P.kind = "Move"
           /\ After # "cleanup" /\ op \in {"transfer", "undo", "complete"} \cup {op}
BY DEF ControlInv, OpInv, After, AfterRestore, UndoSteps, CompleteSteps, MoveSteps,
       LogSteps, SaveSteps, FileSteps

\* Every step keeps the control part.
LEMMA ControlStep == CutInv /\ ControlInv /\ [Next]_vars => ControlInv'
<1> SUFFICES ASSUME CutInv, ControlInv, [Next]_vars PROVE ControlInv'
  OBVIOUS
<1>0. TypeInv /\ OpInv /\ JournalInv
  BY DEF CutInv
<1> USE DEF TypeInv, TypeOK
<1>1. ASSUME NEW t \in Txns, Start(t) PROVE ControlInv'
  BY <1>0, <1>1 DEF Start, UndoSteps, CompleteSteps, MoveSteps, ControlInv
<1>2. CASE Revalidate \/ CheckSource
  <2>1. CASE Fail
    BY <1>2, <2>1, FailControl DEF Revalidate, CheckSource
  <2>2. CASE ~Fail
    BY <1>0, <1>2, <2>2 DEF Revalidate, CheckSource, Goto, uiVars, ControlInv,
                       UndoSteps, CompleteSteps, MoveSteps, P
  <2> QED
    BY <2>1, <2>2
<1>3. CASE LogWrite \/ LogAside \/ SaveWrite \/ SaveAside
  BY <1>3 DEF LogWrite, LogAside, SaveWrite, SaveAside, uiVars, ControlInv, P
<1>4. CASE LogSwap \/ SaveSwap \/ StageAssets \/ WriteUndoFile
  <2>1. pc \in LogSteps \cup SaveSteps \cup (FileSteps \ {"mark_undone"})
    BY <1>4 DEF LogSwap, SaveSwap, StageAssets, WriteUndoFile, FileSteps
  <2>2. pc' = After /\ UNCHANGED <<op, txn, plan, asked>> /\ P' = P
    BY <1>4 DEF LogSwap, SaveSwap, StageAssets, WriteUndoFile, Goto, uiVars, P
  <2> QED
    BY <1>0, <2>1, <2>2, AfterControl DEF ControlInv
<1>5. CASE LogFails \/ SaveFails \/ FileFails
  BY <1>5, FailControl DEF LogFails, SaveFails, FileFails
<1>6. CASE MarkUndone \/ Cleanup \/ Clean \/ Reopen \/ Crash
  BY <1>6 DEF MarkUndone, Cleanup, Clean, Return, Reopen, Crash, StartScan, ControlInv, MoveSteps
<1>7. ASSUME NEW t \in Txns, RecoverOne(t) PROVE ControlInv'
  BY <1>0, <1>7 DEF RecoverOne, TakeNext, ControlInv, OpInv, MoveSteps
<1>8. CASE Dismiss \/ \E t \in Txns : ClickUndo(t)
  BY <1>0, <1>8 DEF Dismiss, ClickUndo, ControlInv, threadVars, OpInv, MoveSteps, P
<1>9. ASSUME NEW t \in Txns, CompleteMove(t) PROVE ControlInv'
  BY <1>0, <1>9 DEF CompleteMove, ControlInv, CompleteSteps, MoveSteps, P
<1>10. ASSUME NEW t \in Txns, Undo(t) PROVE ControlInv'
  BY <1>0, <1>10 DEF Undo, ControlInv, UndoSteps, MoveSteps
<1>11. CASE (\E d \in Docs : ExternalAdd(d) \/ ExternalDelete(d)) \/ UNCHANGED vars
  BY <1>11 DEF ExternalAdd, ExternalDelete, Rewrite, threadVars, uiVars, vars, ControlInv, P
<1> QED
  BY <1>1, <1>2, <1>3, <1>4, <1>5, <1>6, <1>7, <1>8, <1>9, <1>10, <1>11
     DEF Next, Engine, User, Environment

-----------------------------------------------------------------------------
(* What the in-memory journal says, and which steps log a commit           *)

\* A new transfer is planned from what the documents hold at that moment.
LEMMA StartFacts ==
    ASSUME TypeInv, OpInv, NEW t \in Txns, Start(t)
    PROVE  /\ plan[t] = Nil /\ op = "none" /\ pc = "rest" /\ stage = "write"
           /\ op' = "transfer" /\ pc' = "revalidate" /\ txn' = t /\ P' = plan'[t]
           /\ UNCHANGED <<docs, journal, undo, stage, mem, banner>>
           /\ \A u \in Txns \ {t} : plan'[u] = plan[u]
           /\ plan'[t] \in Manifest
           /\ plan'[t].src # plan'[t].tgt
           /\ docs[plan'[t].src].main = plan'[t].srcFp
           /\ docs[plan'[t].tgt].main = plan'[t].tgtFp
           /\ plan'[t].srcFp.at[plan'[t].sid] = plan'[t].task
           /\ plan'[t].tgtFp.next <= plan'[t].tid
<1> USE DEF TypeInv, TypeOK
<1>1. PICK kind \in {"Copy", "Move"}, s, d \in Docs, i, id \in Ids :
         /\ s # d /\ docs[d].main # Gone
         /\ Contains(s, i)
         /\ Allocates(docs[d].main, id)
         /\ plan' = [plan EXCEPT ![t] = NewPlan(kind, s, d, i, id)]
  BY Zenon DEF Start
<1>2. docs[s].main \in Content /\ docs[d].main \in Content
  BY <1>1 DEF File, Contains
<1>3. docs[s].main.at[i] \in Tasks
  BY <1>1, <1>2 DEF Contains, TaskIds, Content
<1>4. plan'[t] = NewPlan(kind, s, d, i, id) /\ \A u \in Txns \ {t} : plan'[u] = plan[u]
  BY <1>1
<1>5. NewPlan(kind, s, d, i, id) \in Manifest
  BY <1>1, <1>2, <1>3 DEF NewPlan, CopyRequired, Manifest
<1>6. docs[d].main.next <= id
  BY <1>1 DEF Allocates
<1>7. /\ NewPlan(kind, s, d, i, id).src = s /\ NewPlan(kind, s, d, i, id).tgt = d
      /\ NewPlan(kind, s, d, i, id).sid = i /\ NewPlan(kind, s, d, i, id).tid = id
      /\ NewPlan(kind, s, d, i, id).srcFp = docs[s].main
      /\ NewPlan(kind, s, d, i, id).tgtFp = docs[d].main
      /\ NewPlan(kind, s, d, i, id).task = docs[s].main.at[i]
  BY DEF NewPlan
<1>8. /\ plan[t] = Nil /\ op = "none"
      /\ op' = "transfer" /\ pc' = "revalidate" /\ txn' = t
      /\ UNCHANGED <<docs, journal, undo, stage, mem, banner>>
  BY DEF Start, fsVars, uiVars
<1>9. pc = "rest" /\ stage = "write"
  BY <1>8 DEF OpInv
<1>10. P' = plan'[t]
  BY <1>8 DEF P
<1> QED
  BY <1>1, <1>4, <1>5, <1>6, <1>7, <1>8, <1>9, <1>10

\* The in-memory journal is empty before the first append, and tells of the target
\* commit after it.
MemInv ==
    /\ pc \in {"rest", "revalidate", "log_started"} => mem = {}
    /\ pc \in AfterCommit => "TargetCommitted" \in mem

\* Every step keeps MemInv.
LEMMA MemStep == CutInv /\ ControlInv /\ MemInv /\ [Next]_vars => MemInv'
<1> SUFFICES ASSUME CutInv, ControlInv, MemInv, [Next]_vars PROVE MemInv'
  OBVIOUS
<1>0. TypeInv /\ OpInv /\ JournalInv
  BY DEF CutInv
<1> USE DEF MemInv
<1>1. ASSUME NEW t \in Txns, Start(t) PROVE MemInv'
  BY <1>0, <1>1, StartFacts DEF AfterCommit
<1>2. ASSUME Fail PROVE MemInv'
  BY <1>2 DEF Fail, Goto, Return, AfterCommit
<1>3. CASE Revalidate \/ CheckSource
  BY <1>2, <1>3 DEF Revalidate, CheckSource, Goto, AfterCommit
<1>4. CASE LogWrite \/ LogAside \/ SaveWrite \/ SaveAside
  BY <1>4 DEF LogWrite, LogAside, SaveWrite, SaveAside
<1>5. CASE LogSwap \/ SaveSwap \/ StageAssets \/ WriteUndoFile
  <2>1. pc \in LogSteps \cup SaveSteps \cup (FileSteps \ {"mark_undone"})
    BY <1>5 DEF LogSwap, SaveSwap, StageAssets, WriteUndoFile, FileSteps
  <2>2. pc' = After
    BY <1>5 DEF LogSwap, SaveSwap, StageAssets, WriteUndoFile, Goto
  <2>3. mem' = mem \/ (mem' = mem \cup {LoggedPhase} /\ pc \in LogSteps)
    BY <1>5 DEF LogSwap, SaveSwap, StageAssets, WriteUndoFile
  <2>4. pc = "log_target" => "TargetCommitted" \in mem'
    BY <1>5, <2>1 DEF LogSwap, SaveSwap, StageAssets, WriteUndoFile, LoggedPhase, LogSteps, SaveSteps
  <2>5. After \notin {"rest", "revalidate", "log_started"}
    BY <2>1 DEF After, AfterRestore, LogSteps, SaveSteps, FileSteps
  <2>6. After \in AfterCommit => pc \in AfterCommit \cup {"log_target"}
    BY <2>1 DEF After, AfterRestore, LogSteps, SaveSteps, FileSteps, AfterCommit
  <2> QED
    BY <2>2, <2>3, <2>4, <2>5, <2>6
<1>6. CASE LogFails \/ SaveFails \/ FileFails
  BY <1>2, <1>6 DEF LogFails, SaveFails, FileFails
<1>7. CASE MarkUndone \/ Cleanup \/ Clean \/ Reopen \/ Crash
  BY <1>7 DEF MarkUndone, Cleanup, Clean, Return, Reopen, Crash, StartScan, AfterCommit
<1>8. CASE \E t \in Txns : RecoverOne(t) \/ Undo(t)
  BY <1>8 DEF RecoverOne, Undo, AfterCommit
<1>9. CASE \E t \in Txns : CompleteMove(t)
  BY <1>9 DEF CompleteMove, MayCutSource
<1>10. CASE Dismiss \/ (\E t \in Txns : ClickUndo(t))
            \/ (\E d \in Docs : ExternalAdd(d) \/ ExternalDelete(d)) \/ UNCHANGED vars
  BY <1>10 DEF Dismiss, ClickUndo, ExternalAdd, ExternalDelete, Rewrite, threadVars, vars
<1> QED
  BY <1>1, <1>3, <1>4, <1>5, <1>6, <1>7, <1>8, <1>9, <1>10
     DEF Next, Engine, User, Environment

\* The journal of t, as recovery would read it, says that the target has the task.
Committed(t) ==
    /\ Recoverable(journal[t]) # Gone
    /\ "TargetCommitted" \in Recoverable(journal[t]).entries

\* A journal keeps what it says through every call of an append; it gets one more
\* phase, or it is removed.
LEMMA JournalMoves ==
    ASSUME CutInv, [Next]_vars, NEW t \in Txns
    PROVE  \/ Recoverable(journal'[t]) = Recoverable(journal[t])
           \/ journal'[t] = NoFile /\ (Clean \/ Cleanup \/ \E u \in Txns : RecoverOne(u))
           \/ /\ LogSwap /\ t = txn
              /\ Recoverable(journal'[t]) = [entries |-> mem \cup {LoggedPhase}]
<1> DEFINE Goal == \/ Recoverable(journal'[t]) = Recoverable(journal[t])
                   \/ journal'[t] = NoFile /\ (Clean \/ Cleanup \/ \E u \in Txns : RecoverOne(u))
                   \/ /\ LogSwap /\ t = txn
                      /\ Recoverable(journal'[t]) = [entries |-> mem \cup {LoggedPhase}]
<1>0. TypeInv /\ OpInv /\ JournalInv
  BY DEF CutInv
<1> USE DEF TypeInv, TypeOK
<1>1. CASE journal' = journal
  BY <1>1
<1>2. CASE LogWrite \/ LogAside \/ LogSwap \/ LogFails
  <2>1. txn \in Txns /\ journal[txn] \in File(Record)
    BY <1>0, <1>2 DEF LogWrite, LogAside, LogSwap, LogFails, LogSteps, Planned
  <2>2. CASE t # txn
    BY <1>0, <1>2, <2>1, <2>2 DEF LogWrite, LogAside, LogSwap, LogFails, SetJournal
  <2>3. CASE t = txn /\ LogSwap
    <3>1. journal[txn].tmp = [entries |-> mem \cup {LoggedPhase}]
      BY <1>0, <2>3 DEF JournalInv, LogSwap
    <3>2. journal'[txn] = Swap(journal[txn])
      BY <1>0, <2>1, <2>3 DEF LogSwap, SetJournal
    <3>3. journal'[txn].main = [entries |-> mem \cup {LoggedPhase}]
      BY <2>1, <3>1, <3>2 DEF Swap
    <3>4. [entries |-> mem \cup {LoggedPhase}] \in Record
      BY <1>0, <2>3 DEF Record, LogSwap, LogSteps, LoggedPhase, Phases
    <3>5. Recoverable(journal'[txn]) = [entries |-> mem \cup {LoggedPhase}]
      BY <3>3, <3>4, TransferConstants DEF Recoverable, TransferConstants
    <3> QED
      BY <2>3, <3>5
  <2>4. CASE t = txn /\ ~LogSwap
    <3>1. \/ journal'[t] = journal[t]
          \/ journal'[t] = WriteTemp(journal[t], [entries |-> mem \cup {LoggedPhase}])
          \/ journal'[t] = SetAsideIfPresent(journal[t])
          \/ journal'[t] = PutBack(journal[t])
      BY <1>0, <1>2, <2>1, <2>4 DEF LogWrite, LogAside, LogFails, SetJournal
    <3>2. PICK g \in File(Record) : g = journal[t]
      BY <2>1, <2>4
    <3>3. /\ Recoverable(WriteTemp(g, [entries |-> mem \cup {LoggedPhase}])) = Recoverable(g)
          /\ g.main # Gone => Recoverable(SetAside(g)) = Recoverable(g)
          /\ Recoverable(PutBack(g)) = Recoverable(g)
      BY Readable
    <3>4. Recoverable(SetAsideIfPresent(g)) = Recoverable(g)
      BY <3>3 DEF SetAsideIfPresent
    <3> QED
      BY <3>1, <3>2, <3>3, <3>4
  <2> QED
    BY <2>2, <2>3, <2>4
<1>3. CASE Clean \/ Cleanup \/ \E u \in Txns : RecoverOne(u)
  <2>1. \/ \E u \in Txns : journal' = [journal EXCEPT ![u] = NoFile]
        \/ journal' = journal
    <3>1. Clean \/ Cleanup => txn \in Txns
      BY <1>0 DEF Clean, Cleanup, Planned
    <3> QED
      BY <1>3, <3>1 DEF Clean, Cleanup, RecoverOne, SetJournal, RollBack, KeepDuplicate, fsVars
  <2> QED
    BY <1>0, <1>3, <2>1
<1>4. CASE /\ ~(LogWrite \/ LogAside \/ LogSwap \/ LogFails)
           /\ ~(Clean \/ Cleanup \/ \E u \in Txns : RecoverOne(u))
  <2>1. journal' = journal
    BY <1>4 DEF Next, Engine, User, Environment, Revalidate, CheckSource, SaveWrite, SaveAside,
                SaveSwap, SaveFails, StageAssets, WriteUndoFile, MarkUndone, FileFails, Reopen,
                Crash, StartScan, Dismiss, Start, CompleteMove, ClickUndo, Undo, ExternalAdd,
                ExternalDelete, Rewrite, vars, fsVars
  <2> QED
    BY <1>1, <2>1
<1> QED
  BY <1>2, <1>3, <1>4

\* A target commit gets on disk by the append for it.
LEMMA CommittedMoves ==
    ASSUME CutInv, MemInv, [Next]_vars, NEW t \in Txns, Committed(t)'
    PROVE  Committed(t) \/ (LogSwap /\ pc = "log_target" /\ t = txn)
<1>1. Recoverable(NoFile) = Gone
  BY DEF Recoverable, NoFile, Only
<1>2. CASE Recoverable(journal'[t]) = Recoverable(journal[t])
  BY <1>2 DEF Committed
<1>3. CASE journal'[t] = NoFile
  BY <1>1, <1>3 DEF Committed
<1>4. CASE /\ LogSwap /\ t = txn
           /\ Recoverable(journal'[t]) = [entries |-> mem \cup {LoggedPhase}]
  <2>1. "TargetCommitted" \in mem \cup {LoggedPhase}
    BY <1>4 DEF Committed
  <2>2. pc \in LogSteps
    BY <1>4 DEF LogSwap
  <2>3. LoggedPhase = "TargetCommitted" => pc = "log_target"
    BY <2>2 DEF LoggedPhase, LogSteps
  <2>4. CASE "TargetCommitted" \in mem
    <3>1. pc \in Logged
      BY <2>2, <2>4 DEF MemInv, Logged, Steps, LogSteps, UndoSteps
    <3>2. Recoverable(journal[txn]) \in Record /\ Recoverable(journal[txn]).entries = mem
      BY <3>1 DEF CutInv, JournalInv
    <3> QED
      BY <1>4, <2>4, <3>2, TransferConstants DEF Committed, TransferConstants
  <2> QED
    BY <1>4, <2>1, <2>3, <2>4
<1> QED
  BY <1>2, <1>3, <1>4, JournalMoves

\* While it goes on, a transfer never takes back that the target was committed.
LEMMA CommittedStays ==
    ASSUME CutInv, [Next]_vars, op = "transfer", op' = "transfer", txn' = txn, Committed(txn),
           txn \in Txns, pc # "log_started"
    PROVE  Committed(txn)'
<1>1. CASE Recoverable(journal'[txn]) = Recoverable(journal[txn])
  BY <1>1 DEF Committed
<1>2. CASE Clean \/ Cleanup \/ \E u \in Txns : RecoverOne(u)
  BY <1>2 DEF Clean, Cleanup, Return, RecoverOne
<1>3. CASE /\ LogSwap
           /\ Recoverable(journal'[txn]) = [entries |-> mem \cup {LoggedPhase}]
  <2>1. pc \in Logged
    BY <1>3 DEF LogSwap, Logged, Steps, LogSteps, UndoSteps
  <2>2. Recoverable(journal[txn]).entries = mem
    BY <2>1 DEF CutInv, JournalInv
  <2>3. [entries |-> mem \cup {LoggedPhase}] \in Record
    BY <1>3 DEF CutInv, TypeInv, TypeOK, Record, LogSwap, LogSteps, LoggedPhase, Phases
  <2> QED
    BY <1>3, <2>2, <2>3, TransferConstants DEF Committed, TransferConstants
<1> QED
  BY <1>1, <1>2, <1>3, JournalMoves

-----------------------------------------------------------------------------
(* The undo directories                                                    *)

\* The steps that lead to another step of the same command.
Leads ==
    \/ pc' = pc
    \/ op = "transfer" /\ pc' = "cleanup"
    \/ pc = "revalidate" /\ pc' = "log_started"
    \/ pc = "check_source" /\ pc' = "save_source"
    \/ pc \in LogSteps \cup SaveSteps \cup (FileSteps \ {"mark_undone"}) /\ pc' = After

\* A command begins, goes on, or is over.
LEMMA ThreadMoves ==
    ASSUME CutInv, ControlInv, [Next]_vars
    PROVE  \/ \E t \in Txns : Start(t) \/ CompleteMove(t) \/ Undo(t)
           \/ op' \in {"none", "scan"} /\ pc' = "rest" /\ UNCHANGED plan
           \/ op' = op /\ txn' = txn /\ UNCHANGED plan /\ P' = P /\ Leads
<1> DEFINE Ends  == op' \in {"none", "scan"} /\ pc' = "rest" /\ UNCHANGED plan
           Goes  == op' = op /\ txn' = txn /\ UNCHANGED plan /\ Leads
<1>0. OpInv /\ (Goes => P' = P)
  BY DEF CutInv, P
<1>1. ASSUME Fail, UNCHANGED plan PROVE Ends \/ Goes
  BY <1>0, <1>1 DEF Fail, Goto, Return, Leads
<1>2. CASE Revalidate \/ CheckSource
  BY <1>0, <1>1, <1>2 DEF Revalidate, CheckSource, Goto, Leads
<1>3. CASE LogWrite \/ LogAside \/ SaveWrite \/ SaveAside
  BY <1>0, <1>3 DEF LogWrite, LogAside, SaveWrite, SaveAside, Leads
<1>4. CASE LogSwap \/ SaveSwap \/ StageAssets \/ WriteUndoFile
  BY <1>0, <1>4 DEF LogSwap, SaveSwap, StageAssets, WriteUndoFile, Goto, Leads, FileSteps
<1>5. CASE LogFails \/ SaveFails \/ FileFails
  BY <1>0, <1>1, <1>5 DEF LogFails, SaveFails, FileFails
<1>6. CASE MarkUndone \/ Cleanup \/ Clean \/ Reopen \/ Crash
  BY <1>0, <1>6 DEF MarkUndone, Cleanup, Clean, Return, Reopen, Crash, StartScan
<1>7. CASE \E t \in Txns : RecoverOne(t)
  BY <1>0, <1>7 DEF RecoverOne, TakeNext, OpInv
<1>8. CASE Dismiss \/ (\E t \in Txns : ClickUndo(t))
           \/ (\E d \in Docs : ExternalAdd(d) \/ ExternalDelete(d)) \/ UNCHANGED vars
  BY <1>0, <1>8 DEF Dismiss, ClickUndo, ExternalAdd, ExternalDelete, Rewrite, threadVars, vars, Leads
<1>9. CASE \E t \in Txns : Start(t) \/ CompleteMove(t) \/ Undo(t)
  BY <1>9
<1> QED
  BY <1>0, <1>2, <1>3, <1>4, <1>5, <1>6, <1>7, <1>8, <1>9
     DEF Next, Engine, User, Environment

\* What the undo directories hold.
UndoFileInv ==
    /\ \A t \in Txns : plan[t] = Nil =>
          undo[t].record = Gone /\ undo[t].source = Gone /\ undo[t].target = Gone
    /\ \A t \in Txns : undo[t].source # Gone =>
          plan[t].kind = "Move" /\ undo[t].source = plan[t].srcFp
    /\ \A t \in Txns : undo[t].target # Gone => undo[t].target = plan[t].tgtFp
    /\ \A t \in Txns : undo[t].record # Gone /\ plan[t].kind = "Move" => undo[t].source # Gone
    /\ op = "transfer" /\ pc \in AfterBackup /\ P.kind = "Move" => undo[txn].source # Gone
    /\ op = "transfer" /\ undo[txn].record # Gone =>
          pc \in {"log_completed", "clean", "cleanup"} /\ Committed(txn)
    /\ op = "undo" => undo[txn].record = "ready"

\* Every step keeps UndoFileInv.
LEMMA UndoFileStep ==
    CutInv /\ ControlInv /\ MemInv /\ UndoFileInv /\ [Next]_vars => UndoFileInv'
<1> SUFFICES ASSUME CutInv, ControlInv, MemInv, UndoFileInv, [Next]_vars PROVE UndoFileInv'
  OBVIOUS
<1>0. /\ TypeInv /\ OpInv
      /\ undo \in [Txns -> [target : Content \cup {Gone}, source : Content \cup {Gone},
                            record : {"ready", "undone", Gone}]]
      /\ Nil \notin Txns /\ Gone \notin Content
      /\ pc # "rest" => txn \in Txns /\ plan[txn] # Nil /\ P = plan[txn] /\ P \in Manifest
  BY TransferConstants DEF CutInv, TypeInv, TypeOK, Planned, P, TransferConstants
<1>1. ASSUME NEW t \in Txns, Start(t) PROVE UndoFileInv'
  <2>1. /\ plan[t] = Nil /\ op' = "transfer" /\ pc' = "revalidate" /\ txn' = t
        /\ undo' = undo /\ \A u \in Txns \ {t} : plan'[u] = plan[u]
    BY <1>0, <1>1, StartFacts
  <2> QED
    BY <2>1 DEF UndoFileInv, AfterBackup, AfterCommit
<1>2. ASSUME UNCHANGED plan,
             /\ \A t \in Txns : plan[t] = Nil =>
                   undo'[t].record = Gone /\ undo'[t].source = Gone /\ undo'[t].target = Gone
             /\ \A t \in Txns : undo'[t].source # Gone =>
                   plan[t].kind = "Move" /\ undo'[t].source = plan[t].srcFp
             /\ \A t \in Txns : undo'[t].target # Gone => undo'[t].target = plan[t].tgtFp
             /\ \A t \in Txns : undo'[t].record # Gone /\ plan[t].kind = "Move" => undo'[t].source # Gone,
             op' = "transfer" => op = "transfer" /\ txn' = txn,
             op' = "transfer" /\ pc' \in AfterBackup /\ P.kind = "Move" => undo'[txn].source # Gone,
             op' = "transfer" /\ undo'[txn].record # Gone =>
                 pc' \in {"log_completed", "clean", "cleanup"} /\ Committed(txn)',
             op' = "undo" => undo'[txn'].record = "ready"
      PROVE  UndoFileInv'
  BY <1>2 DEF UndoFileInv, P
<1>3. ASSUME UNCHANGED <<plan, undo>>,
             \/ \E t \in Txns : CompleteMove(t) \/ Undo(t)
             \/ op' \in {"none", "scan"}
             \/ op' = op /\ txn' = txn /\ P' = P /\ Leads /\ pc # "backup_source" /\ pc # "write_record"
             \/ op' = op /\ txn' = txn /\ P' = P /\ pc' = "cleanup"
      PROVE  UndoFileInv'
  <2>1. CASE op' = "transfer"
    <3>1. /\ op = "transfer" /\ txn' = txn /\ P' = P
          /\ pc' = "cleanup" \/ (Leads /\ pc # "backup_source" /\ pc # "write_record")
      BY <1>3, <2>1 DEF CompleteMove, Undo
    <3>2. pc # "rest" /\ txn \in Txns
      BY <1>0, <3>1 DEF ControlInv
    <3>3. pc' \in AfterBackup /\ P.kind = "Move" => pc \in AfterBackup
      BY <3>1 DEF Leads, After, AfterRestore, AfterBackup, AfterCommit, LogSteps, SaveSteps, FileSteps
    <3>4. ASSUME undo[txn].record # Gone
          PROVE  pc' \in {"log_completed", "clean", "cleanup"} /\ Committed(txn)'
      <4>1. pc \in {"log_completed", "clean", "cleanup"} /\ Committed(txn)
        BY <3>1, <3>4 DEF UndoFileInv
      <4>2. pc' \in {"log_completed", "clean", "cleanup"}
        BY <3>1, <4>1 DEF Leads, After, LogSteps, SaveSteps, FileSteps
      <4>3. Committed(txn)'
        BY <2>1, <3>1, <3>2, <4>1, CommittedStays
      <4> QED
        BY <4>2, <4>3
    <3> QED
      BY <1>2, <1>3, <2>1, <3>1, <3>3, <3>4 DEF UndoFileInv
  <2>2. CASE op' = "undo"
    <3>1. undo[txn'].record = "ready"
      BY <1>3, <2>2 DEF CompleteMove, Undo, UndoFileInv
    <3> QED
      BY <1>2, <1>3, <2>2, <3>1 DEF UndoFileInv
  <2>3. CASE op' \notin {"transfer", "undo"}
    BY <1>2, <1>3, <2>3 DEF UndoFileInv
  <2> QED
    BY <2>1, <2>2, <2>3
<1>4. CASE WriteUndoFile
  <2>1. /\ pc \in {"backup_target", "backup_source", "write_record"}
        /\ UNCHANGED <<plan, op, txn, journal>> /\ pc' = After
        /\ txn \in Txns /\ P = plan[txn] /\ P # Nil
    BY <1>0, <1>4, ManifestTypes DEF WriteUndoFile, Goto
  <2>2. op = "transfer"
    BY <1>0, <2>1 DEF OpInv, ControlInv, UndoSteps, CompleteSteps, TypeInv, TypeOK
  <2>3. \A t \in Txns \ {txn} : undo'[t] = undo[t]
    BY <1>0, <1>4 DEF WriteUndoFile
  <2>4. undo[txn] \in [target : Content \cup {Gone}, source : Content \cup {Gone},
                       record : {"ready", "undone", Gone}]
    BY <1>0, <2>1
  <2>5. undo[txn].record = Gone
    BY <2>1, <2>2 DEF UndoFileInv
  <2>6. CASE pc = "backup_target"
    <3>1. /\ undo'[txn].target = P.tgtFp /\ undo'[txn].source = undo[txn].source
          /\ undo'[txn].record = Gone
      BY <1>0, <1>4, <2>1, <2>4, <2>5, <2>6 DEF WriteUndoFile
    <3>2. pc' \notin AfterBackup
      BY <2>1, <2>6 DEF After, AfterBackup, AfterCommit
    <3> QED
      BY <1>2, <2>1, <2>2, <2>3, <3>1, <3>2 DEF UndoFileInv
  <2>7. CASE pc = "backup_source"
    <3>1. /\ undo'[txn].source = P.srcFp /\ undo'[txn].target = undo[txn].target
          /\ undo'[txn].record = Gone
      BY <1>0, <1>4, <2>1, <2>4, <2>5, <2>7 DEF WriteUndoFile
    <3>2. P.kind = "Move" /\ P.srcFp # Gone
      BY <1>0, <2>1, <2>7, ManifestTypes DEF ControlInv, MoveSteps
    <3> QED
      BY <1>2, <2>1, <2>2, <2>3, <3>1, <3>2 DEF UndoFileInv
  <2>8. CASE pc = "write_record"
    <3>1. /\ undo'[txn].source = undo[txn].source /\ undo'[txn].target = undo[txn].target
          /\ undo'[txn].record = "ready"
      BY <1>0, <1>4, <2>1, <2>4, <2>8 DEF WriteUndoFile
    <3>2. pc' = "log_completed" /\ pc \in AfterCommit /\ pc \in AfterBackup /\ pc \in Logged
      BY <2>1, <2>8 DEF After, AfterBackup, AfterCommit, Logged, Steps, FileSteps, UndoSteps
    <3>3. Recoverable(journal[txn]) \in Record /\ Recoverable(journal[txn]).entries = mem
      BY <3>2 DEF CutInv, JournalInv
    <3>4. Committed(txn)'
      BY <2>1, <3>2, <3>3, TransferConstants DEF Committed, MemInv, TransferConstants
    <3> QED
      BY <1>2, <2>1, <2>2, <2>3, <3>1, <3>2, <3>4 DEF UndoFileInv
  <2> QED
    BY <2>1, <2>6, <2>7, <2>8
<1>5. CASE MarkUndone
  <2>1. /\ UNCHANGED plan /\ op' = "none" /\ txn \in Txns /\ op = "undo" /\ plan[txn] # Nil
    BY <1>0, <1>5 DEF MarkUndone, Return, OpInv, UndoSteps
  <2>2. \A t \in Txns \ {txn} : undo'[t] = undo[t]
    BY <1>0, <1>5 DEF MarkUndone
  <2>3. undo'[txn].source = undo[txn].source /\ undo'[txn].target = undo[txn].target
    BY <1>0, <1>5, <2>1 DEF MarkUndone
  <2>4. undo[txn].record # Gone
    BY <2>1, TransferConstants DEF UndoFileInv, TransferConstants
  <2> QED
    BY <1>2, <2>1, <2>2, <2>3, <2>4 DEF UndoFileInv
<1>6. CASE Cleanup
  <2>1. UNCHANGED plan /\ op' = "none" /\ txn \in Txns
    BY <1>0, <1>6 DEF Cleanup, Return
  <2>2. \/ undo' = undo
        \/ undo' = [undo EXCEPT ![txn] = [target |-> Gone, source |-> Gone, record |-> Gone]]
    BY <1>6 DEF Cleanup, fsVars
  <2>3. \A t \in Txns : undo'[t] = undo[t] \/
           (undo'[t].target = Gone /\ undo'[t].source = Gone /\ undo'[t].record = Gone)
    BY <1>0, <2>1, <2>2
  <2> QED
    BY <1>2, <2>1, <2>3 DEF UndoFileInv
<1>7. CASE ~(WriteUndoFile \/ MarkUndone \/ Cleanup) /\ ~\E t \in Txns : Start(t)
  <2>1. UNCHANGED <<plan, undo>>
    BY <1>7 DEF Next, Engine, User, Environment, Revalidate, CheckSource, LogWrite, LogAside, LogSwap,
                LogFails, SaveWrite, SaveAside, SaveSwap, SaveFails, StageAssets, FileFails, Clean,
                RecoverOne, Reopen, Crash, StartScan, Dismiss, CompleteMove, ClickUndo, Undo, ExternalAdd,
                ExternalDelete, Rewrite, vars, fsVars
  <2>2. CASE pc \notin {"backup_source", "write_record"}
    BY <1>3, <1>7, <2>1, <2>2, ThreadMoves
  <2>3. CASE pc \in {"backup_source", "write_record"}
    <3>1. op = "transfer"
      BY <1>0, <2>3 DEF OpInv, ControlInv, UndoSteps, CompleteSteps, TypeInv, TypeOK
    <3>2. FileFails \/ Crash \/ UNCHANGED <<op, pc, txn, plan, undo, journal>>
      BY <1>7, <2>3, <3>1 DEF Next, Engine, User, Environment, Revalidate, CheckSource, LogWrite, LogAside,
                LogSwap, LogFails, SaveWrite, SaveAside, SaveSwap, SaveFails, StageAssets, Clean,
                RecoverOne, Reopen, Dismiss, CompleteMove, ClickUndo, Undo, ExternalAdd,
                ExternalDelete, Rewrite, vars, fsVars, threadVars, LogSteps, SaveSteps
    <3>3. CASE FileFails
      BY <1>3, <2>1, <3>1, <3>3 DEF FileFails, Fail, Goto, P
    <3>4. CASE Crash
      BY <1>3, <2>1, <3>4 DEF Crash, StartScan
    <3>5. CASE UNCHANGED <<op, pc, txn, plan, undo, journal>>
      BY <3>5 DEF UndoFileInv, P, Committed
    <3> QED
      BY <3>2, <3>3, <3>4, <3>5
  <2> QED
    BY <2>2, <2>3
<1> QED
  BY <1>1, <1>4, <1>5, <1>6, <1>7

-----------------------------------------------------------------------------
(* The transfers that can be undone, and what other programs change        *)

\* The transfers that can be undone: the one of the banner, the one that was
\* clicked, and the one that runs.
Undoable(m) ==
    /\ m \in Txns
    /\ m \in {banner, asked} \/ (op \in {"transfer", "undo"} /\ m = txn)

\* No transfer can be undone that could not be before, except a new one.
LEMMA UndoableMoves ==
    ASSUME CutInv, ControlInv, [Next]_vars, NEW m \in Txns, Undoable(m)'
    PROVE  Start(m) \/ Undoable(m)
<1>0. /\ TypeInv /\ OpInv /\ Nil \notin Txns
      /\ banner \in Txns \cup {Nil} /\ asked \in Txns \cup {Nil}
  BY TransferConstants DEF CutInv, TransferConstants, TypeInv, TypeOK
<1>1. ASSUME NEW t \in Txns, Start(t), t # m PROVE Undoable(m)
  <2>1. txn' = t /\ UNCHANGED <<banner, asked>>
    BY <1>1 DEF Start, uiVars
  <2> QED
    BY <1>1, <2>1 DEF Undoable
<1>2. ASSUME banner' = banner, asked' \in {asked, banner, Nil},
             \/ op' \notin {"transfer", "undo"}
             \/ txn' = txn /\ op' = op
      PROVE  Undoable(m)
  BY <1>0, <1>2 DEF Undoable
<1>3. CASE Fail
  BY <1>0, <1>3 DEF Fail, Goto, Return, Undoable
<1>4. CASE Revalidate \/ CheckSource \/ LogFails \/ SaveFails \/ FileFails
  BY <1>2, <1>3, <1>4 DEF Revalidate, CheckSource, LogFails, SaveFails, FileFails, Goto, uiVars
<1>5. CASE \/ LogWrite \/ LogAside \/ LogSwap \/ SaveWrite \/ SaveAside \/ SaveSwap
           \/ StageAssets \/ WriteUndoFile
  BY <1>2, <1>5 DEF LogWrite, LogAside, LogSwap, SaveWrite, SaveAside, SaveSwap, StageAssets,
                    WriteUndoFile, Goto, uiVars
<1>6. CASE Clean
  BY <1>0, <1>6 DEF Clean, Return, Undoable
<1>7. CASE Cleanup \/ \E t \in Txns : CompleteMove(t)
  BY <1>2, <1>7 DEF Cleanup, CompleteMove, Return, uiVars
<1>8. CASE MarkUndone \/ Reopen \/ Crash
  BY <1>0, <1>8 DEF MarkUndone, Reopen, Crash, StartScan, Return, Undoable
<1>9. CASE \E t \in Txns : RecoverOne(t)
  BY <1>2, <1>9 DEF RecoverOne, TakeNext
<1>10. CASE Dismiss
  BY <1>0, <1>10 DEF Dismiss, threadVars, Undoable
<1>11. CASE \E t \in Txns : ClickUndo(t)
  BY <1>2, <1>11 DEF ClickUndo, threadVars
<1>12. CASE \E t \in Txns : Undo(t)
  BY <1>0, <1>12 DEF Undo, Undoable
<1>13. CASE (\E d \in Docs : ExternalAdd(d) \/ ExternalDelete(d)) \/ UNCHANGED vars
  BY <1>2, <1>13 DEF ExternalAdd, ExternalDelete, Rewrite, vars, uiVars, threadVars
<1> QED
  BY <1>1, <1>4, <1>5, <1>6, <1>7, <1>8, <1>9, <1>10, <1>11, <1>12, <1>13
     DEF Next, Engine, User, Environment

\* A transfer that can be undone has a plan.
LEMMA UndoablePlanned ==
    ASSUME CutInv, ControlInv, NEW m \in Txns, Undoable(m)
    PROVE  plan[m] \in Manifest /\ plan[m] # Nil
<1>1. m # Nil /\ Nil \notin Txns
  BY TransferConstants DEF TransferConstants
<1>2. op \in {"transfer", "undo"} => pc # "rest"
  BY DEF ControlInv, UndoSteps
<1>3. plan[m] # Nil
  BY <1>1, <1>2 DEF Undoable, CutInv, TypeInv, Planned
<1> QED
  BY <1>3 DEF CutInv, TypeInv, TypeOK

\* Every step but the planning of a new transfer leaves the plans alone.
LEMMA PlanStays ==
    ASSUME CutInv, ControlInv, [Next]_vars, ~\E t \in Txns : Start(t)
    PROVE  plan' = plan
BY ThreadMoves DEF CompleteMove, Undo

\* Transfers are numbered in the order in which they are planned.
OrderInv ==
    /\ \A t, u \in Txns : t < u /\ plan[u] # Nil => plan[t] # Nil
    /\ op = "transfer" => \A u \in Txns : plan[u] # Nil => u <= txn

\* A transfer that can be undone and is not running has no journal, and it is the
\* newest that can be when its undo runs.
OfferInv ==
    /\ op \in {"transfer", "complete"} => txn \notin {banner, asked}
    /\ \A m \in Txns : m \in {banner, asked} \/ (op = "undo" /\ m = txn) => journal[m] = NoFile
    /\ asked # Nil /\ banner # Nil => asked <= banner
    /\ op = "undo" /\ banner # Nil => txn <= banner
    /\ op = "undo" => MovedAfter(txn) \subseteq exposed

\* Every step keeps the order.
LEMMA OrderStep == CutInv /\ ControlInv /\ OrderInv /\ [Next]_vars => OrderInv'
<1> SUFFICES ASSUME CutInv, ControlInv, OrderInv, [Next]_vars PROVE OrderInv'
  OBVIOUS
<1>0. \A t \in Txns : t \in Nat
  BY DEF Txns
<1>1. ASSUME NEW t \in Txns, Start(t) PROVE OrderInv'
  <2>1. /\ plan[t] = Nil /\ txn' = t /\ \A u \in Txns \ {t} : plan'[u] = plan[u]
    BY <1>1, StartFacts DEF CutInv
  <2>2. \A u \in Txns : u < t => plan[u] # Nil
    BY <1>1 DEF Start
  <2>3. \A u \in Txns : plan[u] # Nil => u < t
    BY <1>0, <2>1 DEF OrderInv
  <2>4. plan'[t] # Nil
    BY <1>1, StartFacts, ManifestTypes DEF CutInv
  <2> QED
    BY <1>0, <2>1, <2>2, <2>3, <2>4 DEF OrderInv
<1>2. CASE ~\E t \in Txns : Start(t)
  <2>1. plan' = plan
    BY <1>2, PlanStays
  <2>2. op' = "transfer" => op = "transfer" /\ txn' = txn
    BY <1>2, ThreadMoves DEF CompleteMove, Undo
  <2> QED
    BY <2>1, <2>2 DEF OrderInv
<1> QED
  BY <1>1, <1>2

\* A journal that is not there stays away from transfers that can be undone.
LEMMA NoJournal ==
    ASSUME CutInv, ControlInv, OfferInv, [Next]_vars, NEW m \in Txns, journal[m] = NoFile,
           op \in {"transfer", "complete"} => m # txn
    PROVE  journal'[m] = NoFile
<1>0. TypeInv /\ OpInv
  BY DEF CutInv
<1> USE DEF TypeInv, TypeOK
<1>1. CASE LogWrite \/ LogAside \/ LogSwap \/ LogFails
  <2>1. pc \in LogSteps /\ txn \in Txns /\ \E g : SetJournal(g)
    BY <1>0, <1>1 DEF LogWrite, LogAside, LogSwap, LogFails, LogSteps, Planned
  <2>2. op \in {"transfer", "complete"}
    BY <1>0, <2>1 DEF OpInv, ControlInv, UndoSteps, LogSteps
  <2> QED
    BY <2>1, <2>2 DEF SetJournal
<1>2. CASE Clean \/ Cleanup \/ \E u \in Txns : RecoverOne(u)
  <2>1. \/ \E u \in Txns : journal' = [journal EXCEPT ![u] = NoFile]
        \/ journal' = journal
    <3>1. Clean \/ Cleanup => txn \in Txns
      BY <1>0 DEF Clean, Cleanup, Planned
    <3> QED
      BY <1>2, <3>1 DEF Clean, Cleanup, RecoverOne, SetJournal, RollBack, KeepDuplicate, fsVars
  <2> QED
    BY <1>0, <2>1
<1>3. CASE /\ ~(LogWrite \/ LogAside \/ LogSwap \/ LogFails)
           /\ ~(Clean \/ Cleanup \/ \E u \in Txns : RecoverOne(u))
  <2>1. journal' = journal
    BY <1>3 DEF Next, Engine, User, Environment, Revalidate, CheckSource, SaveWrite, SaveAside,
                SaveSwap, SaveFails, StageAssets, WriteUndoFile, MarkUndone, FileFails, Reopen,
                Crash, StartScan, Dismiss, Start, CompleteMove, ClickUndo, Undo, ExternalAdd,
                ExternalDelete, Rewrite, vars, fsVars
  <2> QED
    BY <2>1
<1> QED
  BY <1>1, <1>2, <1>3

\* Every step keeps what is said of the transfers that can be undone.
LEMMA OfferStep ==
    CutInv /\ ControlInv /\ OrderInv /\ OfferInv /\ [Next]_vars => OfferInv'
<1> SUFFICES ASSUME CutInv, ControlInv, OrderInv, OfferInv, [Next]_vars PROVE OfferInv'
  OBVIOUS
<1>0. /\ TypeInv /\ OpInv /\ Nil \notin Txns
      /\ banner \in Txns \cup {Nil} /\ asked \in Txns \cup {Nil}
      /\ pc # "rest" => txn \in Txns /\ plan[txn] # Nil
      /\ \A t \in Txns : t \in {banner, asked} => plan[t] # Nil
      /\ \A t \in Txns : t \in Nat /\ (plan[t] = Nil => journal[t] = NoFile)
  BY TransferConstants DEF CutInv, TransferConstants, TypeInv, TypeOK, Planned, Txns
<1>1. ASSUME \A m \in Txns : m \in {banner, asked}' => m \in {banner, asked},
             asked' # Nil /\ banner' # Nil => asked' <= banner',
             op' \in {"transfer", "complete"} => op' = op /\ txn' = txn,
             op' # "undo"
      PROVE  OfferInv'
  <2>1. \A m \in Txns : m \in {banner, asked}' => journal'[m] = NoFile
    BY <1>1, NoJournal DEF OfferInv
  <2>2. op' \in {"transfer", "complete"} => txn' \notin {banner, asked}'
    <3>1. op \in {"transfer", "complete"} => txn \in Txns
      BY <1>0 DEF ControlInv, CompleteSteps
    <3> QED
      BY <1>1, <3>1 DEF OfferInv
  <2> QED
    BY <1>1, <2>1, <2>2 DEF OfferInv
<1>2. ASSUME UNCHANGED <<op, txn, banner, asked, plan, exposed>> PROVE OfferInv'
  <2>1. MovedAfter(txn)' = MovedAfter(txn)
    BY <1>2 DEF MovedAfter
  <2>2. \A m \in Txns : m \in {banner, asked} \/ (op = "undo" /\ m = txn) => journal'[m] = NoFile
    BY NoJournal DEF OfferInv
  <2> QED
    BY <1>2, <2>1, <2>2 DEF OfferInv
<1>3. ASSUME NEW t \in Txns, Start(t) PROVE OfferInv'
  <2>1. /\ plan[t] = Nil /\ op' = "transfer" /\ txn' = t /\ UNCHANGED <<journal, banner, asked>>
    BY <1>3 DEF Start, uiVars, fsVars
  <2> QED
    BY <1>0, <2>1 DEF OfferInv
<1>4. ASSUME Fail PROVE OfferInv'
  <2>1. /\ asked' = asked
        /\ banner' = banner \/ banner' = Nil
        /\ op' = "none" \/ (op' = op /\ txn' = txn /\ op = "transfer")
    BY <1>4 DEF Fail, Goto, Return
  <2> QED
    BY <1>0, <1>1, <2>1 DEF OfferInv
<1>5. CASE Revalidate \/ CheckSource \/ LogFails \/ SaveFails \/ FileFails
  BY <1>2, <1>4, <1>5 DEF Revalidate, CheckSource, LogFails, SaveFails, FileFails, Goto, uiVars
<1>6. CASE \/ LogWrite \/ LogAside \/ LogSwap \/ SaveWrite \/ SaveAside \/ SaveSwap
           \/ StageAssets \/ WriteUndoFile
  BY <1>2, <1>6 DEF LogWrite, LogAside, LogSwap, SaveWrite, SaveAside, SaveSwap, StageAssets,
                    WriteUndoFile, Goto, uiVars
<1>7. CASE Clean
  <2>1. /\ txn \in Txns /\ op' = "none" /\ asked' = asked
        /\ banner' = IF op = "transfer" THEN txn ELSE banner
        /\ journal' = [journal EXCEPT ![txn] = NoFile]
    BY <1>0, <1>7 DEF Clean, Return, SetJournal
  <2>2. \A m \in Txns : m \in {banner, asked}' => journal'[m] = NoFile
    BY <1>0, <2>1 DEF OfferInv, TypeInv, TypeOK
  <2>3. asked' # Nil /\ banner' # Nil => asked' <= banner'
    BY <1>0, <2>1 DEF OfferInv, OrderInv
  <2> QED
    BY <2>1, <2>2, <2>3 DEF OfferInv
<1>8. CASE Cleanup \/ (\E t \in Txns : RecoverOne(t)) \/ Dismiss \/ Reopen \/ Crash \/ MarkUndone
  <2>1. /\ asked' = asked \/ asked' = Nil
        /\ banner' = banner \/ banner' = Nil
        /\ op' \in {"none", "scan"}
    BY <1>8 DEF Cleanup, RecoverOne, TakeNext, Dismiss, Reopen, Crash, StartScan, MarkUndone, Return,
                uiVars, threadVars
  <2> QED
    BY <1>0, <1>1, <2>1 DEF OfferInv
<1>9. ASSUME NEW t \in Txns, ClickUndo(t) PROVE OfferInv'
  <2>1. banner = t /\ asked' = t /\ op # "undo" /\ UNCHANGED <<op, txn, banner, journal>>
    BY <1>9 DEF ClickUndo, threadVars, fsVars
  <2> QED
    BY <1>0, <2>1 DEF OfferInv
<1>10. ASSUME NEW t \in Txns, CompleteMove(t) PROVE OfferInv'
  <2>1. Recoverable(journal[t]) # Gone /\ op' = "complete" /\ txn' = t
        /\ UNCHANGED <<banner, asked, journal>>
    BY <1>10 DEF CompleteMove, uiVars, fsVars
  <2>2. Recoverable(NoFile) = Gone
    BY DEF Recoverable, NoFile, Only
  <2> QED
    BY <1>0, <2>1, <2>2 DEF OfferInv
<1>11. ASSUME NEW t \in Txns, Undo(t) PROVE OfferInv'
  <2>1. /\ asked = t /\ op' = "undo" /\ txn' = t /\ asked' = Nil
        /\ exposed' = exposed \cup MovedAfter(t) /\ UNCHANGED <<banner, journal, plan>>
    BY <1>11 DEF Undo, fsVars
  <2>2. MovedAfter(txn)' = MovedAfter(t)
    BY <2>1 DEF MovedAfter
  <2> QED
    BY <1>0, <2>1, <2>2 DEF OfferInv
<1>12. CASE (\E d \in Docs : ExternalAdd(d) \/ ExternalDelete(d)) \/ UNCHANGED vars
  BY <1>2, <1>12 DEF ExternalAdd, ExternalDelete, Rewrite, vars, uiVars, threadVars
<1> QED
  BY <1>3, <1>5, <1>6, <1>7, <1>8, <1>9, <1>10, <1>11, <1>12
     DEF Next, Engine, User, Environment

\* Task a is not among those that the undo of m gives up.
Live(a, m) == Undoable(m) /\ a \notin MovedAfter(m)

\* Transfer t is a move of task a.
Moves(t, a) == plan[t] # Nil /\ plan[t].kind = "Move" /\ plan[t].task = a

\* A new transfer does not make a task live again for the undo of another one.
LEMMA LiveMoves ==
    ASSUME CutInv, ControlInv, OrderInv, [Next]_vars, NEW m \in Txns, NEW a, Live(a, m)'
    PROVE  \/ Start(m)
           \/ /\ Live(a, m) /\ plan'[m] = plan[m]
              /\ \A t \in Txns : Start(t) => t # m /\ ~Moves(t, a)'
<1>0. /\ TypeInv /\ \A t \in Txns : t \in Nat
  BY DEF CutInv, Txns
<1>1. CASE Start(m)
  BY <1>1
<1>2. CASE ~Start(m)
  <2>1. Undoable(m)
    BY <1>2, UndoableMoves DEF Live
  <2>2. ASSUME NEW t \in Txns, Start(t)
        PROVE  /\ a \notin MovedAfter(m) /\ plan'[m] = plan[m]
               /\ t # m /\ ~Moves(t, a)'
    <3>1. plan[t] = Nil /\ t # m /\ \A u \in Txns \ {t} : plan'[u] = plan[u]
      BY <1>0, <1>2, <2>2, StartFacts DEF CutInv
    <3>2. plan[m] # Nil
      BY <2>1, UndoablePlanned
    <3>3. m < t
      BY <1>0, <3>1, <3>2 DEF OrderInv
    <3>4. \A u \in Txns : m < u /\ plan[u] # Nil => u # t /\ plan'[u] = plan[u]
      BY <3>1
    <3>5. MovedAfter(m) \subseteq MovedAfter(m)'
      BY <3>4 DEF MovedAfter
    <3>6. Moves(t, a)' => a \in MovedAfter(m)'
      BY <3>3 DEF Moves, MovedAfter
    <3> QED
      BY <3>1, <3>5, <3>6 DEF Live
  <2>3. CASE ~\E t \in Txns : Start(t)
    <3>1. plan' = plan
      BY <2>3, PlanStays
    <3>2. MovedAfter(m)' = MovedAfter(m)
      BY <3>1 DEF MovedAfter
    <3> QED
      BY <2>1, <2>3, <3>1, <3>2 DEF Live
  <2> QED
    BY <2>1, <2>2, <2>3 DEF Live
<1> QED
  BY <1>1, <1>2

\* What another program writes over a document: the original tasks stay in place,
\* an id that was given out is not reused, and NEXTUNIQUEID does not go back.
LEMMA ForeignEffects ==
    ASSUME TypeInv, NEW d \in Docs, ExternalAdd(d) \/ ExternalDelete(d)
    PROVE  \E e \in Content :
             /\ Rewrite(d, e)
             /\ docs[d].main \in Content /\ docs[d].main # Gone
             /\ docs[d].main.next <= e.next
             /\ \A i \in Ids : docs[d].main.at[i] \in Originals => e.at[i] = docs[d].main.at[i]
             /\ \A i \in Ids : e.at[i] \in Originals => e.at[i] = docs[d].main.at[i]
             /\ \A i \in Ids : i < docs[d].main.next => e.at[i] \in {docs[d].main.at[i], Nil}
<1> USE DEF TypeInv, TypeOK
<1>1. docs[d].main \in Content /\ docs[d].main # Gone
  BY DEF ExternalAdd, ExternalDelete, File
<1>2. PICK c \in Content : c = docs[d].main
  BY <1>1
<1>3. c.next \in Nat /\ \A i \in Ids : i \in Nat
  BY <1>2, TransferConstants DEF Content, Ids, TransferConstants
<1>4. CASE ExternalAdd(d)
  <2>1. PICK id \in Ids, a \in Tasks \ (Originals \cup Deletable) :
           Allocates(c, id) /\ Rewrite(d, Insert(c, id, a))
    BY <1>2, <1>4 DEF ExternalAdd
  <2>2. PICK e \in Content : e = Insert(c, id, a)
    BY <2>1, ContentTypes
  <2>3. c.next <= id /\ c.at[id] = Nil
    BY <1>3, <2>1 DEF Allocates, TaskIds
  <2>4. e.next = id + 1 /\ e.at[id] = a /\ \A i \in Ids \ {id} : e.at[i] = c.at[i]
    BY <2>1, <2>2 DEF Insert, Content
  <2>5. \A i \in Ids : i < c.next => i # id
    BY <1>3, <2>1, <2>3
  <2>6. c.next <= e.next
    BY <1>3, <2>1, <2>3, <2>4
  <2> QED
    BY <1>1, <1>2, <2>1, <2>2, <2>3, <2>4, <2>5, <2>6, NilNotOriginal
<1>5. CASE ExternalDelete(d)
  <2>1. PICK id \in Ids : c.at[id] \in Deletable /\ Rewrite(d, Remove(c, id))
    BY <1>2, <1>5 DEF ExternalDelete, TaskIds
  <2>2. PICK e \in Content : e = Remove(c, id)
    BY <2>1, ContentTypes
  <2>3. e.next = c.next /\ e.at[id] = Nil /\ \A i \in Ids \ {id} : e.at[i] = c.at[i]
    BY <2>1, <2>2 DEF Remove, Content
  <2>4. c.at[id] \notin Originals
    BY <2>1, DeletableNotOriginal
  <2>5. c.next <= e.next
    BY <1>3, <2>3
  <2> QED
    BY <1>1, <1>2, <2>1, <2>2, <2>3, <2>4, <2>5, NilNotOriginal
<1> QED
  BY <1>4, <1>5

-----------------------------------------------------------------------------
(* What documents hold, and what a step makes of them                      *)

\* Every document can be read; those of a transfer that can be undone are there
\* between its saves; and what an undo is about to rename over one is its backup.
FilesInv ==
    /\ \A d \in Docs : Text(d) \in Content
    /\ \A m \in Txns : Undoable(m) => \A d \in {plan[m].src, plan[m].tgt} :
          docs[d].main # Gone \/ (pc \in SaveSteps /\ stage = "swap" /\ d = SavedDoc)
    /\ pc \in {"restore_target", "restore_source"} /\ stage # "write" =>
          docs[SavedDoc].tmp = SavedContent

\* What the running save writes, and over what.
LEMMA SaveFacts ==
    ASSUME CutInv, ControlInv, UndoFileInv, FilesInv, pc \in SaveSteps
    PROVE  /\ txn \in Txns /\ P = plan[txn] /\ P \in Manifest /\ P # Nil
           /\ SavedDoc \in Docs /\ SavedDoc \in {P.src, P.tgt}
           /\ docs[SavedDoc] \in File(Content)
           /\ SavedContent \in Content
           /\ stage # "swap" => docs[SavedDoc].main # Gone
           /\ stage # "write" => docs[SavedDoc].tmp = SavedContent
           /\ pc = "save_target" => /\ SavedDoc = P.tgt /\ op = "transfer"
                                    /\ SavedContent = Insert(P.tgtFp, P.tid, P.task)
           /\ pc = "save_source" => /\ SavedDoc = P.src /\ P.kind = "Move"
                                    /\ op \in {"transfer", "complete"}
                                    /\ SavedContent = Remove(P.srcFp, P.sid)
           /\ pc = "restore_target" => /\ SavedDoc = P.tgt /\ op = "undo" /\ Undoable(txn)
                                       /\ SavedContent = RaiseNext(P.tgtFp, P.tid + 1)
           /\ pc = "restore_source" => /\ SavedDoc = P.src /\ op = "undo" /\ Undoable(txn)
                                       /\ SavedContent = P.srcFp /\ P.kind = "Move"
<1>0. TypeInv /\ OpInv /\ DocInv /\ pc # "rest"
  BY DEF CutInv, SaveSteps
<1>1. txn \in Txns /\ P = plan[txn] /\ P \in Manifest /\ P # Nil
  BY <1>0 DEF TypeInv, TypeOK, Planned, P
<1>2. SavedDoc \in {P.src, P.tgt} /\ SavedDoc \in Docs /\ docs[SavedDoc] \in File(Content)
  BY <1>0, <1>1, ManifestTypes DEF SavedDoc, TypeInv, TypeOK
<1>3. /\ op \in {"transfer", "complete", "undo"}
      /\ op = "undo" => pc \in {"restore_target", "restore_source"}
      /\ op # "undo" => pc \in {"save_target", "save_source"}
      /\ op = "complete" => pc = "save_source"
  BY <1>0 DEF OpInv, ControlInv, UndoSteps, SaveSteps, CompleteSteps, TypeInv, TypeOK
<1>4. CASE pc = "save_target"
  <2>1. SavedDoc = P.tgt /\ SavedContent = Insert(P.tgtFp, P.tid, P.task) /\ op = "transfer"
    BY <1>3, <1>4 DEF SavedDoc, SavedContent
  <2>2. SavedContent \in Content
    BY <1>1, <2>1, ManifestTypes, ContentTypes
  <2>3. /\ stage # "swap" => docs[SavedDoc].main # Gone
        /\ stage # "write" => docs[SavedDoc].tmp = SavedContent
    BY <1>0, <1>4, <2>1 DEF DocInv, ToTarget
  <2> QED
    BY <1>1, <1>2, <1>4, <2>1, <2>2, <2>3
<1>5. CASE pc = "save_source"
  <2>1. SavedDoc = P.src /\ SavedContent = Remove(P.srcFp, P.sid) /\ P.kind = "Move"
    BY <1>5 DEF SavedDoc, SavedContent, ControlInv, MoveSteps
  <2>2. SavedContent \in Content
    BY <1>1, <2>1, ManifestTypes, ContentTypes
  <2>3. /\ stage # "swap" => docs[SavedDoc].main # Gone
        /\ stage # "write" => docs[SavedDoc].tmp = SavedContent
    BY <1>0, <1>5, <2>1 DEF DocInv
  <2> QED
    BY <1>1, <1>2, <1>3, <1>5, <2>1, <2>2, <2>3
<1>6. CASE pc \in {"restore_target", "restore_source"}
  <2>1. op = "undo" /\ undo[txn].record = "ready"
    BY <1>3, <1>6 DEF UndoFileInv
  <2>2. Undoable(txn)
    BY <1>1, <2>1 DEF Undoable
  <2>3. /\ stage # "swap" => docs[SavedDoc].main # Gone
        /\ stage # "write" => docs[SavedDoc].tmp = SavedContent
    BY <1>1, <1>2, <1>6, <2>2 DEF FilesInv
  <2>4. CASE pc = "restore_target"
    <3>1. undo[txn].target = P.tgtFp
      BY <1>0, <1>1, <2>4 DEF TypeInv, Prepared, UndoFileInv
    <3>2. SavedDoc = P.tgt /\ SavedContent = RaiseNext(P.tgtFp, P.tid + 1)
      BY <2>4, <3>1 DEF SavedDoc, SavedContent
    <3>3. SavedContent \in Content
      BY <1>1, <3>2, ManifestTypes, ContentTypes
    <3> QED
      BY <1>1, <1>2, <2>1, <2>2, <2>3, <2>4, <3>2, <3>3
  <2>5. CASE pc = "restore_source"
    <3>1. P.kind = "Move"
      BY <2>5 DEF ControlInv, MoveSteps
    <3>2. undo[txn].source = P.srcFp
      BY <1>1, <2>1, <3>1, TransferConstants DEF UndoFileInv, TransferConstants
    <3>3. SavedDoc = P.src /\ SavedContent = P.srcFp
      BY <2>5, <3>2 DEF SavedDoc, SavedContent
    <3>4. SavedContent \in Content
      BY <1>1, <3>3, ManifestTypes
    <3> QED
      BY <1>1, <1>2, <2>1, <2>2, <2>3, <2>5, <3>1, <3>3, <3>4
  <2> QED
    BY <1>6, <2>4, <2>5
<1> QED
  BY <1>4, <1>5, <1>6 DEF SaveSteps

\* The calls of a save, as what they do to the document.
LEMMA SaveCalls ==
    ASSUME CutInv, ControlInv, UndoFileInv, FilesInv,
           SaveWrite \/ SaveAside \/ SaveSwap \/ SaveFails
    PROVE  /\ pc \in SaveSteps
           /\ \A d \in Docs \ {SavedDoc} : docs'[d] = docs[d]
           /\ SaveWrite => docs'[SavedDoc] = WriteTemp(docs[SavedDoc], SavedContent)
           /\ SaveAside => docs'[SavedDoc] = SetAside(docs[SavedDoc])
           /\ SaveSwap => docs'[SavedDoc] = DropBackup(Swap(docs[SavedDoc]))
           /\ SaveFails /\ stage = "write" => docs'[SavedDoc] = docs[SavedDoc]
           /\ SaveFails /\ stage = "aside" => docs'[SavedDoc] = DropBackup(docs[SavedDoc])
           /\ SaveFails /\ stage = "swap" => docs'[SavedDoc] = PutBack(docs[SavedDoc])
<1>1. pc \in SaveSteps
  BY DEF SaveWrite, SaveAside, SaveSwap, SaveFails
<1>2. SavedDoc \in Docs /\ docs \in [Docs -> File(Content)]
  BY <1>1, SaveFacts DEF CutInv, TypeInv, TypeOK
<1>3. SaveWrite => docs' = [docs EXCEPT ![SavedDoc] = WriteTemp(docs[SavedDoc], SavedContent)]
  BY DEF SaveWrite, SetDoc
<1>4. SaveAside => docs' = [docs EXCEPT ![SavedDoc] = SetAside(docs[SavedDoc])]
  BY DEF SaveAside, SetDoc
<1>5. SaveSwap => docs' = [docs EXCEPT ![SavedDoc] = DropBackup(Swap(docs[SavedDoc]))]
  BY DEF SaveSwap, SetDoc
<1>6. SaveFails /\ stage = "write" => docs' = [docs EXCEPT ![SavedDoc] = docs[SavedDoc]]
  BY DEF SaveFails, SetDoc
<1>7. SaveFails /\ stage = "aside" => docs' = [docs EXCEPT ![SavedDoc] = DropBackup(docs[SavedDoc])]
  BY DEF SaveFails, SetDoc
<1>8. SaveFails /\ stage = "swap" => docs' = [docs EXCEPT ![SavedDoc] = PutBack(docs[SavedDoc])]
  BY DEF SaveFails, SetDoc
<1>9. SaveFails => stage \in {"write", "aside", "swap"}
  BY DEF SaveFails
<1> QED
  BY <1>1, <1>2, <1>3, <1>4, <1>5, <1>6, <1>7, <1>8, <1>9

\* What can be read of the documents changes by the last call of a save and by what
\* other programs write.
LEMMA TextMoves ==
    ASSUME CutInv, ControlInv, UndoFileInv, FilesInv, [Next]_vars
    PROVE  \/ \A d \in Docs : Text(d)' = Text(d)
           \/ /\ SaveSwap
              /\ \A d \in Docs : Text(d)' = IF d = SavedDoc THEN SavedContent ELSE Text(d)
           \/ \E d \in Docs : ExternalAdd(d) \/ ExternalDelete(d)
<1>1. CASE SaveWrite \/ SaveAside \/ SaveSwap \/ SaveFails
  <2>1. pc \in SaveSteps /\ \A d \in Docs \ {SavedDoc} : Text(d)' = Text(d)
    BY <1>1, SaveCalls DEF Text
  <2>2. PICK g \in File(Content) : g = docs[SavedDoc]
    BY <2>1, SaveFacts
  <2>3. PICK v \in Content : v = SavedContent
    BY <2>1, SaveFacts
  <2>4. /\ Recoverable(WriteTemp(g, v)) = Recoverable(g)
        /\ g.main # Gone => Recoverable(SetAside(g)) = Recoverable(g)
        /\ g.main # Gone => Recoverable(DropBackup(g)) = Recoverable(g)
        /\ Recoverable(PutBack(g)) = Recoverable(g)
        /\ g.tmp # Gone => Recoverable(DropBackup(Swap(g))) = g.tmp
    BY Readable
  <2>5. v # Gone
    BY TransferConstants DEF TransferConstants
  <2>6. CASE SaveSwap
    <3>1. g.tmp = v
      BY <2>1, <2>2, <2>3, <2>6, SaveFacts DEF SaveSwap
    <3>2. docs'[SavedDoc] = DropBackup(Swap(g))
      BY <1>1, <2>2, <2>6, SaveCalls
    <3> QED
      BY <2>1, <2>3, <2>4, <2>5, <2>6, <3>1, <3>2 DEF Text
  <2>7. CASE ~SaveSwap
    <3>1. stage # "swap" => g.main # Gone
      BY <2>1, <2>2, SaveFacts
    <3>2. \/ docs'[SavedDoc] = WriteTemp(g, v)
          \/ stage = "aside" /\ docs'[SavedDoc] = SetAside(g)
          \/ docs'[SavedDoc] = g
          \/ stage = "aside" /\ docs'[SavedDoc] = DropBackup(g)
          \/ docs'[SavedDoc] = PutBack(g)
      BY <1>1, <2>2, <2>3, <2>7, SaveCalls DEF SaveAside, SaveFails
    <3>3. Recoverable(docs'[SavedDoc]) = Recoverable(docs[SavedDoc])
      BY <2>2, <2>4, <3>1, <3>2
    <3> QED
      BY <2>1, <3>3 DEF Text
  <2> QED
    BY <2>6, <2>7
<1>2. CASE ~(SaveWrite \/ SaveAside \/ SaveSwap \/ SaveFails)
           /\ ~\E k \in Docs : ExternalAdd(k) \/ ExternalDelete(k)
  <2>1. UNCHANGED docs
    BY <1>2 DEF Next, Engine, User, Environment, vars, fsVars, Revalidate, CheckSource,
                LogWrite, LogAside, LogSwap, LogFails, StageAssets, WriteUndoFile,
                MarkUndone, FileFails, Clean, Cleanup, RecoverOne, Reopen, Crash,
                StartScan, Dismiss, Start, CompleteMove, ClickUndo, Undo
  <2> QED
    BY <2>1 DEF Text
<1> QED
  BY <1>1, <1>2

\* What can happen during a save.
LEMMA SaveThread ==
    ASSUME CutInv, ControlInv, [Next]_vars, pc \in SaveSteps
    PROVE  \/ SaveWrite \/ SaveAside \/ SaveSwap \/ SaveFails
           \/ Crash
           \/ \E t \in Txns : ClickUndo(t)
           \/ \E d \in Docs : ExternalAdd(d) \/ ExternalDelete(d)
           \/ UNCHANGED vars
<1>1. op \notin {"none", "scan"} /\ pc \notin LogSteps \cup FileSteps
  BY DEF CutInv, OpInv, SaveSteps, LogSteps, FileSteps
<1> QED
  BY <1>1 DEF Next, Engine, User, Environment, Revalidate, CheckSource, LogWrite, LogAside, LogSwap,
              LogFails, StageAssets, WriteUndoFile, MarkUndone, FileFails, Clean, Cleanup,
              RecoverOne, Reopen, Dismiss, Start, CompleteMove, ClickUndo, Undo, SaveSteps, FileSteps

\* A document that can be read keeps a main file, except between the renames.
LEMMA FilesStep ==
    CutInv /\ ControlInv /\ UndoFileInv /\ FilesInv /\ [Next]_vars => FilesInv'
<1> SUFFICES ASSUME CutInv, ControlInv, UndoFileInv, FilesInv, [Next]_vars PROVE FilesInv'
  OBVIOUS
<1>0. /\ TypeInv /\ OpInv
      /\ docs \in [Docs -> File(Content)] /\ Gone \notin Content
  BY TransferConstants DEF CutInv, TypeInv, TypeOK, TransferConstants
<1>1. \A d \in Docs : Text(d)' \in Content
  <2>1. CASE \A d \in Docs : Text(d)' = Text(d)
    BY <2>1 DEF FilesInv
  <2>2. CASE /\ SaveSwap
             /\ \A d \in Docs : Text(d)' = IF d = SavedDoc THEN SavedContent ELSE Text(d)
    BY <2>2, SaveFacts DEF FilesInv, SaveSwap
  <2>3. ASSUME NEW k \in Docs, ExternalAdd(k) \/ ExternalDelete(k)
        PROVE  \A d \in Docs : Text(d)' \in Content
    <3>1. PICK e \in Content : Rewrite(k, e)
      BY <1>0, <2>3, ForeignEffects
    <3>2. docs'[k].main = e /\ e # Gone /\ \A d \in Docs \ {k} : docs'[d] = docs[d]
      BY <1>0, <3>1 DEF Rewrite, File
    <3> QED
      BY <3>1, <3>2 DEF Text, Recoverable, FilesInv
  <2> QED
    BY <2>1, <2>2, <2>3, TextMoves
<1> DEFINE Ready(m, d) == docs[d].main # Gone \/ (pc \in SaveSteps /\ stage = "swap" /\ d = SavedDoc)
<1>2. ASSUME NEW m \in Txns, Undoable(m)', NEW d \in {plan'[m].src, plan'[m].tgt}
      PROVE  docs'[d].main # Gone \/ (pc \in SaveSteps /\ stage = "swap" /\ d = SavedDoc)'
  <2>1. CASE Start(m)
    <3>1. /\ docs' = docs /\ plan'[m] \in Manifest
          /\ docs[plan'[m].src].main = plan'[m].srcFp /\ docs[plan'[m].tgt].main = plan'[m].tgtFp
      BY <1>0, <2>1, StartFacts
    <3> QED
      BY <1>0, <1>2, <3>1, ManifestTypes
  <2>2. CASE Undoable(m) /\ plan'[m] = plan[m]
    <3>1. /\ d \in {plan[m].src, plan[m].tgt}
          /\ docs[d].main # Gone \/ (pc \in SaveSteps /\ stage = "swap" /\ d = SavedDoc)
      BY <1>2, <2>2 DEF FilesInv
    <3>2. d \in Docs
      BY <2>2, <3>1, UndoablePlanned, ManifestTypes
    <3>3. CASE pc \in SaveSteps
      <4>1. SavedDoc \in Docs /\ docs[SavedDoc] \in File(Content) /\ SavedContent \in Content
        BY <3>3, SaveFacts
      <4>2. CASE SaveWrite \/ SaveAside
        <5>1. UNCHANGED <<pc, txn, plan>> /\ SavedDoc' = SavedDoc
          BY <4>2 DEF SaveWrite, SaveAside, SavedDoc, P
        <5>2. CASE d # SavedDoc
          BY <3>1, <3>2, <4>2, <5>2, SaveCalls
        <5>3. CASE d = SavedDoc /\ SaveAside
          BY <3>3, <5>1, <5>3 DEF SaveAside
        <5>4. CASE d = SavedDoc /\ SaveWrite
          <6>1. docs'[d] = WriteTemp(docs[d], SavedContent) /\ docs[d].main # Gone
            BY <3>3, <5>4, SaveCalls, SaveFacts DEF SaveWrite
          <6> QED
            BY <4>1, <5>4, <6>1, FileCalls
        <5> QED
          BY <4>2, <5>2, <5>3, <5>4
      <4>3. CASE SaveSwap
        <5>1. docs[SavedDoc].tmp = SavedContent
          BY <3>3, <4>3, SaveFacts DEF SaveSwap
        <5>2. DropBackup(Swap(docs[SavedDoc])).main = docs[SavedDoc].tmp
          BY <4>1 DEF Swap, DropBackup
        <5> QED
          BY <1>0, <3>1, <3>2, <4>1, <4>3, <5>1, <5>2, SaveCalls
      <4>4. CASE SaveFails
        <5>1. CASE d # SavedDoc
          BY <3>1, <3>2, <4>4, <5>1, SaveCalls
        <5>2. CASE d = SavedDoc /\ stage \in {"write", "aside"}
          <6>1. docs[d].main # Gone
            BY <3>3, <5>2, SaveFacts
          <6>2. DropBackup(docs[d]).main = docs[d].main
            BY <4>1, <5>2, FileCalls
          <6> QED
            BY <4>4, <5>2, <6>1, <6>2, SaveCalls
        <5>3. CASE d = SavedDoc /\ stage = "swap"
          <6>1. Recoverable(docs[d]) \in Content
            BY <3>2 DEF FilesInv, Text
          <6>2. PutBack(docs[d]).main # Gone
            BY <1>0, <3>2, <6>1 DEF PutBack, Recoverable, File
          <6> QED
            BY <4>4, <5>3, <6>2, SaveCalls
        <5> QED
          BY <4>4, <5>1, <5>2, <5>3 DEF SaveFails
      <4>5. CASE Crash
        BY <1>2, <4>5, TransferConstants DEF Crash, StartScan, Undoable, TransferConstants
      <4>6. ASSUME NEW k \in Docs, ExternalAdd(k) \/ ExternalDelete(k)
            PROVE  docs'[d].main # Gone \/ (pc \in SaveSteps /\ stage = "swap" /\ d = SavedDoc)'
        <5>1. PICK e \in Content : Rewrite(k, e)
          BY <1>0, <4>6, ForeignEffects
        <5>2. UNCHANGED <<pc, txn, stage, plan>> /\ SavedDoc' = SavedDoc
          BY <5>1 DEF Rewrite, threadVars, SavedDoc, P
        <5>3. docs'[k].main = e /\ e # Gone /\ \A j \in Docs \ {k} : docs'[j] = docs[j]
          BY <1>0, <5>1 DEF Rewrite, File
        <5> QED
          BY <3>1, <3>2, <5>2, <5>3
      <4>7. CASE UNCHANGED vars \/ \E t \in Txns : ClickUndo(t)
        BY <3>1, <4>7 DEF vars, fsVars, threadVars, ClickUndo, SavedDoc, P
      <4> QED
        BY <3>3, <4>2, <4>3, <4>4, <4>5, <4>6, <4>7, SaveThread
    <3>4. CASE pc \notin SaveSteps
      <4>1. docs[d].main # Gone
        BY <3>1, <3>4
      <4>2. ASSUME NEW k \in Docs, ExternalAdd(k) \/ ExternalDelete(k) PROVE docs'[d].main # Gone
        <5>1. PICK e \in Content : Rewrite(k, e)
          BY <1>0, <4>2, ForeignEffects
        <5>2. docs'[k].main = e /\ e # Gone /\ \A j \in Docs \ {k} : docs'[j] = docs[j]
          BY <1>0, <5>1 DEF Rewrite, File
        <5> QED
          BY <3>2, <4>1, <5>2
      <4>3. CASE ~\E k \in Docs : ExternalAdd(k) \/ ExternalDelete(k)
        <5>1. docs' = docs
          BY <3>4, <4>3 DEF Next, Engine, User, Environment, vars, fsVars, Revalidate, CheckSource,
                LogWrite, LogAside, LogSwap, LogFails, StageAssets, WriteUndoFile,
                MarkUndone, FileFails, Clean, Cleanup, RecoverOne, Reopen, Crash,
                StartScan, Dismiss, Start, CompleteMove, ClickUndo, Undo, SaveWrite, SaveAside, SaveSwap, SaveFails
        <5> QED
          BY <4>1, <5>1
      <4> QED
        BY <4>2, <4>3
    <3> QED
      BY <3>3, <3>4
  <2>3. Undoable(m) => Start(m) \/ plan'[m] = plan[m]
    <3>1. Undoable(m) => plan[m] # Nil
      BY UndoablePlanned
    <3>2. \A t \in Txns \ {m} : Start(t) => plan'[m] = plan[m]
      BY <1>0, StartFacts
    <3> QED
      BY <3>2, PlanStays
  <2> QED
    BY <1>2, <2>1, <2>2, <2>3, UndoableMoves
<1>3. ASSUME pc' \in {"restore_target", "restore_source"}, stage' # "write"
      PROVE  (docs[SavedDoc].tmp = SavedContent)'
  <2>1. ASSUME stage' = "write" PROVE FALSE
    BY <1>3, <2>1
  <2>2. pc \in {"restore_target", "restore_source"}
    <3>1. CASE pc' = pc
      BY <1>3, <3>1
    <3>2. CASE \E t \in Txns : Undo(t) \/ CompleteMove(t) \/ Start(t)
      BY <1>0, <1>3, <3>2 DEF OpInv, Undo, CompleteMove, Start
    <3>3. CASE LogSwap \/ SaveSwap \/ StageAssets \/ WriteUndoFile
      BY <2>1, <3>3 DEF LogSwap, SaveSwap, StageAssets, WriteUndoFile, Goto
    <3>4. CASE Fail
      BY <2>1, <3>4 DEF Fail, Goto, Return
    <3>5. CASE pc' # pc /\ ~Fail /\ ~(LogSwap \/ SaveSwap \/ StageAssets \/ WriteUndoFile)
               /\ ~\E t \in Txns : Undo(t) \/ CompleteMove(t) \/ Start(t)
      BY <1>3, <3>5 DEF Next, Engine, User, Environment, vars, threadVars, Revalidate, CheckSource,
                LogWrite, LogAside, LogFails, SaveWrite, SaveAside, SaveFails, Goto,
                MarkUndone, FileFails, Clean, Cleanup, RecoverOne, Reopen, Crash, Return,
                StartScan, Dismiss, ClickUndo, ExternalAdd, ExternalDelete, Rewrite
    <3> QED
      BY <3>1, <3>2, <3>3, <3>4, <3>5
  <2>3. pc \in SaveSteps
    BY <2>2 DEF SaveSteps
  <2>4. SavedDoc \in Docs /\ docs[SavedDoc] \in File(Content)
    BY <2>3, SaveFacts
  <2>5. ASSUME UNCHANGED <<pc, txn, plan, undo>>
        PROVE  SavedDoc' = SavedDoc /\ SavedContent' = SavedContent
    BY <2>2, <2>5 DEF SavedDoc, SavedContent, P
  <2>6. CASE SaveWrite
    <3>1. SavedDoc' = SavedDoc /\ SavedContent' = SavedContent
      BY <2>5, <2>6 DEF SaveWrite
    <3>2. docs'[SavedDoc] = WriteTemp(docs[SavedDoc], SavedContent)
      BY <2>6, SaveCalls
    <3> QED
      BY <2>4, <3>1, <3>2, FileCalls
  <2>7. CASE SaveAside
    <3>1. SavedDoc' = SavedDoc /\ SavedContent' = SavedContent
      BY <2>5, <2>7 DEF SaveAside
    <3>2. docs'[SavedDoc] = SetAside(docs[SavedDoc]) /\ docs[SavedDoc].tmp = SavedContent
      BY <2>2, <2>7, SaveCalls DEF FilesInv, SaveAside
    <3> QED
      BY <2>4, <3>1, <3>2, FileCalls
  <2>8. CASE SaveSwap \/ SaveFails \/ Crash
    BY <2>1, <2>8 DEF SaveSwap, SaveFails, Crash, StartScan, Goto, Fail, Return
  <2>9. ASSUME NEW k \in Docs, ExternalAdd(k) \/ ExternalDelete(k)
        PROVE  (docs[SavedDoc].tmp = SavedContent)'
    <3>1. PICK e \in Content : Rewrite(k, e)
      BY <1>0, <2>9, ForeignEffects
    <3>2. UNCHANGED <<pc, txn, stage, plan, undo>>
      BY <3>1 DEF Rewrite, threadVars
    <3>3. docs'[SavedDoc].tmp = docs[SavedDoc].tmp
      BY <1>0, <2>4, <3>1 DEF Rewrite, File
    <3> QED
      BY <1>3, <2>2, <2>5, <3>2, <3>3 DEF FilesInv
  <2>10. CASE UNCHANGED vars \/ \E t \in Txns : ClickUndo(t)
    BY <1>3, <2>2, <2>5, <2>10 DEF vars, fsVars, threadVars, ClickUndo, FilesInv
  <2> QED
    BY <2>3, <2>6, <2>7, <2>8, <2>9, <2>10, SaveThread
<1> QED
  BY <1>1, <1>2, <1>3 DEF FilesInv

-----------------------------------------------------------------------------
(* The ids that documents give out                                         *)

\* The save of a source begins over the very document that the plan was made from.
LEMMA EnterSource ==
    ASSUME CutInv, ControlInv, [Next]_vars, pc' = "save_source"
    PROVE  \/ pc = "save_source" /\ txn' = txn /\ plan' = plan /\ P' = P
           \/ /\ pc # "save_source" /\ plan' = plan /\ docs' = docs /\ journal' = journal
              /\ txn' \in Txns /\ P' = plan[txn'] /\ P' \in Manifest
              /\ docs[P'.src].main = P'.srcFp
<1>0. TypeInv
  BY DEF CutInv
<1>1. ASSUME NEW t \in Txns, CompleteMove(t)
      PROVE  /\ pc # "save_source" /\ plan' = plan /\ docs' = docs /\ journal' = journal
             /\ txn' \in Txns /\ P' = plan[txn'] /\ P' \in Manifest
             /\ docs[P'.src].main = P'.srcFp
  <2>1. /\ op = "none" /\ plan' = plan /\ docs' = docs /\ journal' = journal /\ txn' = t
        /\ docs[plan[t].src].main = plan[t].srcFp /\ t \in reported
    BY <1>1 DEF CompleteMove, fsVars, MayCutSource
  <2>2. pc = "rest" /\ plan[t] # Nil
    BY <1>0, <2>1 DEF CutInv, OpInv, TypeInv, Planned
  <2>3. P' = plan[t] /\ plan[t] \in Manifest
    BY <1>0, <2>1, <2>2 DEF P, TypeInv, TypeOK
  <2> QED
    BY <2>1, <2>2, <2>3
<1>2. ASSUME NEW t \in Txns, Start(t) \/ Undo(t) PROVE FALSE
  BY <1>2 DEF Start, Undo
<1>3. CASE op' = op /\ txn' = txn /\ UNCHANGED plan /\ P' = P /\ Leads /\ pc # "save_source"
  <2>1. pc = "check_source"
    BY <1>3 DEF Leads, After, AfterRestore, LogSteps, SaveSteps, FileSteps
  <2>2. op \notin {"none", "scan"} /\ pc \notin LogSteps \cup SaveSteps \cup FileSteps
    BY <2>1 DEF CutInv, OpInv, LogSteps, SaveSteps, FileSteps
  <2>3. CheckSource
    BY <1>3, <2>1, <2>2 DEF Next, Engine, User, Environment, Revalidate, LogWrite, LogAside, LogSwap,
              LogFails, SaveWrite, SaveAside, SaveSwap, SaveFails, StageAssets, WriteUndoFile,
              MarkUndone, FileFails, Clean, Cleanup, RecoverOne, Reopen, Crash, StartScan, Dismiss,
              Start, CompleteMove, ClickUndo, Undo, ExternalAdd, ExternalDelete, Rewrite, vars, threadVars, FileSteps
  <2>4. MayCutSource(txn, mem) /\ UNCHANGED <<docs, journal>>
    BY <1>3, <2>3 DEF CheckSource, Fail, Goto, Return, fsVars
  <2>5. txn \in Txns /\ plan[txn] # Nil /\ P = plan[txn] /\ P \in Manifest
    BY <1>0, <2>1 DEF TypeInv, TypeOK, Planned, P
  <2> QED
    BY <1>3, <2>4, <2>5 DEF MayCutSource
<1> QED
  BY <1>1, <1>2, <1>3, ThreadMoves

\* No task stops being given up.
LEMMA ExposedGrows == [Next]_vars => exposed \subseteq exposed'
BY DEF Next, Engine, User, Environment, vars, Revalidate, CheckSource, LogWrite, LogAside, LogSwap,
       LogFails, StageAssets, WriteUndoFile, MarkUndone, FileFails, Clean, Cleanup, RecoverOne, Reopen,
       Crash, StartScan, Dismiss, Start, CompleteMove, ClickUndo, Undo, SaveWrite, SaveAside, SaveSwap,
       SaveFails, ExternalAdd, ExternalDelete, Rewrite

\* The transfer that runs is the newest: its undo gives up no task.
LEMMA NewestLive ==
    ASSUME CutInv, ControlInv, OrderInv, op = "transfer", NEW a
    PROVE  Live(a, txn)
<1>1. txn \in Txns
  BY DEF ControlInv, CutInv, TypeInv, Planned
<1>2. MovedAfter(txn) = {}
  <2>1. \A u \in Txns : txn < u => plan[u] = Nil
    <3>1. \A u, t \in Txns : t < u => ~(u <= t)
      BY DEF Txns
    <3> QED
      BY <1>1, <3>1 DEF OrderInv
  <2> QED
    BY <2>1 DEF MovedAfter
<1> QED
  BY <1>1, <1>2 DEF Live, Undoable

\* The undo that runs has given up what newer transfers moved.
LEMMA UndoneLive ==
    ASSUME CutInv, ControlInv, OfferInv, op = "undo", NEW a, a \notin exposed
    PROVE  /\ Live(a, txn)
           /\ \A m \in Txns : m \in {banner, asked} /\ m # txn => ~Moves(m, a)
<1>1. txn \in Txns /\ asked = Nil /\ Nil \notin Txns
  BY TransferConstants DEF ControlInv, UndoSteps, CutInv, TypeInv, Planned, TransferConstants
<1>2. a \notin MovedAfter(txn)
  BY DEF OfferInv
<1>3. \A t, m \in Txns : t <= m /\ m # t => t < m
  BY DEF Txns
<1>4. \A m \in Txns : m = banner /\ m # txn => txn < m
  BY <1>1, <1>3 DEF OfferInv
<1>5. \A m \in Txns : txn < m /\ Moves(m, a) => a \in MovedAfter(txn)
  BY DEF Moves, MovedAfter
<1> QED
  BY <1>1, <1>2, <1>4, <1>5 DEF Live, Undoable

\* No planned move of task a out of document d was planned with a higher NEXTUNIQUEID.
Floor(a, d, n) == \A t \in Txns : Moves(t, a) /\ plan[t].src = d => plan[t].srcFp.next <= n

\* NEXTUNIQUEID never goes back behind a planned move of a task that is not given
\* up, whether or not a transfer is undone and whether or not the pending save is
\* made.
NextInv ==
    /\ \A t \in Txns : plan[t] # Nil =>
          /\ plan[t].src # plan[t].tgt
          /\ plan[t].srcFp.at[plan[t].sid] = plan[t].task
          /\ plan[t].tgtFp.next <= plan[t].tid
    /\ \A a \in Originals \ exposed :
          /\ \A d \in Docs : Floor(a, d, Text(d).next)
          /\ \A m \in Txns : Live(a, m) =>
                /\ Floor(a, plan[m].src, plan[m].srcFp.next)
                /\ Floor(a, plan[m].tgt, plan[m].tgtFp.next)
          /\ pc = "save_source" => Floor(a, P.src, P.srcFp.next)

\* The numbers are natural.
LEMMA Numbers ==
    /\ \A c \in Content : c.next \in Nat
    /\ \A i \in Ids : i \in Nat
BY TransferConstants DEF Content, Ids, TransferConstants

\* What a save writes has a high enough NEXTUNIQUEID for the moves of a task that is
\* not given up.
LEMMA SavedFloor ==
    ASSUME CutInv, ControlInv, OrderInv, OfferInv, UndoFileInv, FilesInv, NextInv, pc \in SaveSteps,
           NEW a \in Originals \ exposed
    PROVE  /\ Floor(a, SavedDoc, SavedContent.next)
           /\ pc # "save_source" => Live(a, txn)
<1>0. /\ txn \in Txns /\ P = plan[txn] /\ P \in Manifest /\ P # Nil
      /\ P.srcFp \in Content /\ P.tgtFp \in Content /\ P.tid \in Ids
  BY SaveFacts, ManifestTypes
<1>1. \A t \in Txns : Moves(t, a) => plan[t].srcFp.next \in Nat
  BY Numbers, ManifestTypes DEF CutInv, TypeInv, TypeOK, Moves
<1>2. P.tgtFp.next \in Nat /\ P.srcFp.next \in Nat /\ P.tid \in Nat /\ P.tgtFp.next <= P.tid
  BY <1>0, Numbers DEF NextInv
<1>3. CASE pc = "save_target"
  <2>1. SavedDoc = P.tgt /\ SavedContent = Insert(P.tgtFp, P.tid, P.task) /\ op = "transfer"
    BY <1>0, <1>3, SaveFacts
  <2>2. SavedContent.next = P.tid + 1
    BY <2>1 DEF Insert
  <2>3. Live(a, txn)
    BY <1>0, <2>1, NewestLive
  <2>4. Floor(a, P.tgt, P.tgtFp.next)
    BY <1>0, <2>3 DEF NextInv
  <2> QED
    BY <1>1, <1>2, <2>1, <2>2, <2>3, <2>4 DEF Floor
<1>4. CASE pc = "save_source"
  <2>1. SavedDoc = P.src /\ SavedContent = Remove(P.srcFp, P.sid)
    BY <1>4, SaveFacts
  <2>2. SavedContent.next = P.srcFp.next
    BY <1>0, <2>1 DEF Remove, Content
  <2> QED
    BY <1>4, <2>1, <2>2 DEF NextInv
<1>5. CASE pc = "restore_target"
  <2>1. SavedDoc = P.tgt /\ SavedContent = RaiseNext(P.tgtFp, P.tid + 1) /\ op = "undo"
    BY <1>0, <1>5, SaveFacts
  <2>2. P.tgtFp.next <= SavedContent.next /\ SavedContent.next \in Nat
    BY <1>0, <1>2, <2>1 DEF RaiseNext, Content
  <2>3. Live(a, txn)
    BY <1>0, <2>1, UndoneLive
  <2>4. Floor(a, P.tgt, P.tgtFp.next)
    BY <1>0, <2>3 DEF NextInv
  <2> QED
    BY <1>1, <1>2, <2>1, <2>2, <2>3, <2>4 DEF Floor
<1>6. CASE pc = "restore_source"
  <2>1. SavedDoc = P.src /\ SavedContent = P.srcFp /\ op = "undo"
    BY <1>0, <1>6, SaveFacts
  <2>2. Live(a, txn)
    BY <1>0, <2>1, UndoneLive
  <2> QED
    BY <1>0, <2>1, <2>2 DEF NextInv
<1> QED
  BY <1>3, <1>4, <1>5, <1>6 DEF SaveSteps

\* Every step keeps it.
LEMMA NextStep ==
    /\ CutInv /\ ControlInv /\ OrderInv /\ OfferInv /\ UndoFileInv /\ FilesInv /\ NextInv
    /\ [Next]_vars
    => NextInv'
<1> SUFFICES ASSUME CutInv, ControlInv, OrderInv, OfferInv, UndoFileInv, FilesInv, NextInv, [Next]_vars
             PROVE  NextInv'
  OBVIOUS
<1>0. /\ TypeInv /\ OpInv
      /\ docs \in [Docs -> File(Content)] /\ Gone \notin Content /\ Nil \notin Txns
      /\ \A t \in Txns : plan[t] # Nil => /\ plan[t] \in Manifest
                                          /\ plan[t].srcFp.next \in Nat /\ plan[t].tgtFp.next \in Nat
      /\ \A d \in Docs : Text(d).next \in Nat
  BY TransferConstants, Numbers, ManifestTypes DEF CutInv, TypeInv, TypeOK, TransferConstants, FilesInv
<1>1. ASSUME NEW t \in Txns, Start(t) PROVE NextInv'
  <2>1. /\ op' = "transfer" /\ pc' = "revalidate" /\ txn' = t /\ docs' = docs
        /\ plan[t] = Nil /\ \A u \in Txns \ {t} : plan'[u] = plan[u]
        /\ plan'[t] \in Manifest
        /\ plan'[t].src # plan'[t].tgt
        /\ docs[plan'[t].src].main = plan'[t].srcFp
        /\ docs[plan'[t].tgt].main = plan'[t].tgtFp
        /\ plan'[t].srcFp.at[plan'[t].sid] = plan'[t].task
        /\ plan'[t].tgtFp.next <= plan'[t].tid
    BY <1>0, <1>1, StartFacts
  <2>2. /\ plan'[t].src \in Docs /\ plan'[t].tgt \in Docs
        /\ plan'[t].srcFp \in Content /\ plan'[t].tgtFp \in Content
        /\ plan'[t].srcFp.next \in Nat
    BY <2>1, ManifestTypes, Numbers
  <2>3. Text(plan'[t].src) = plan'[t].srcFp /\ Text(plan'[t].tgt) = plan'[t].tgtFp
    BY <1>0, <2>1, <2>2 DEF Text, Recoverable
  <2>4. \A d \in Docs : Text(d)' = Text(d)
    BY <2>1 DEF Text
  <2>5. exposed' = exposed
    BY <1>1 DEF Start
  <2>6. plan'[t].srcFp.next <= plan'[t].srcFp.next
    BY <2>2
  <2>7. ASSUME NEW a \in Originals \ exposed
        PROVE  /\ \A d \in Docs : Floor(a, d, Text(d).next)'
               /\ \A m \in Txns : Live(a, m)' =>
                     /\ Floor(a, plan[m].src, plan[m].srcFp.next)'
                     /\ Floor(a, plan[m].tgt, plan[m].tgtFp.next)'
    <3>1. \A u \in Txns \ {t} : Moves(u, a)' <=> Moves(u, a)
      BY <2>1 DEF Moves
    <3>2. \A d \in Docs, u \in Txns \ {t} :
             Moves(u, a)' /\ plan'[u].src = d => plan'[u].srcFp.next <= Text(d).next
      BY <2>1, <2>7, <3>1 DEF NextInv, Floor
    <3>3. \A d \in Docs : Floor(a, d, Text(d).next)'
      BY <2>3, <2>4, <2>6, <3>2 DEF Floor
    <3>4. Floor(a, plan[t].src, plan[t].srcFp.next)' /\ Floor(a, plan[t].tgt, plan[t].tgtFp.next)'
      <4>1. Floor(a, plan[t].src, plan[t].srcFp.next)'
        BY <2>2, <2>3, <2>6, <3>2 DEF Floor
      <4>2. Floor(a, plan[t].tgt, plan[t].tgtFp.next)'
        BY <2>1, <2>2, <2>3, <3>2 DEF Floor
      <4> QED
        BY <4>1, <4>2
    <3>5. ASSUME NEW m \in Txns \ {t}, Live(a, m)'
          PROVE  Floor(a, plan[m].src, plan[m].srcFp.next)' /\ Floor(a, plan[m].tgt, plan[m].tgtFp.next)'
      <4>1. Live(a, m) /\ plan'[m] = plan[m] /\ ~Moves(t, a)'
        <5>1. ~Start(m)
          BY <2>1, <3>5 DEF Start
        <5> QED
          BY <1>1, <3>5, <5>1, LiveMoves
      <4>2. Floor(a, plan[m].src, plan[m].srcFp.next) /\ Floor(a, plan[m].tgt, plan[m].tgtFp.next)
        BY <2>7, <4>1 DEF NextInv
      <4> QED
        BY <2>1, <3>1, <4>1, <4>2 DEF Floor
    <3> QED
      BY <3>3, <3>4, <3>5
  <2>8. \A u \in Txns : plan'[u] # Nil =>
          /\ plan'[u].src # plan'[u].tgt
          /\ plan'[u].srcFp.at[plan'[u].sid] = plan'[u].task
          /\ plan'[u].tgtFp.next <= plan'[u].tid
    BY <2>1 DEF NextInv
  <2> QED
    BY <2>1, <2>5, <2>7, <2>8 DEF NextInv
<1>2. CASE ~\E t \in Txns : Start(t)
  <2>1. plan' = plan
    BY <1>2, PlanStays
  <2>2. exposed \subseteq exposed'
    BY ExposedGrows
  <2>3. ASSUME NEW a \in Originals \ exposed'
        PROVE  /\ \A d \in Docs : Floor(a, d, Text(d).next)'
               /\ \A m \in Txns : Live(a, m)' =>
                     /\ Floor(a, plan[m].src, plan[m].srcFp.next)'
                     /\ Floor(a, plan[m].tgt, plan[m].tgtFp.next)'
               /\ pc' = "save_source" => Floor(a, P.src, P.srcFp.next)'
    <3>1. a \in Originals \ exposed /\ \A t \in Txns : Moves(t, a)' <=> Moves(t, a)
      BY <2>1, <2>2, <2>3 DEF Moves
    <3>2. \A m \in Txns : Live(a, m)' => Live(a, m)
      BY <1>2, LiveMoves
    <3>3. \A m \in Txns : Live(a, m)' =>
            Floor(a, plan[m].src, plan[m].srcFp.next)' /\ Floor(a, plan[m].tgt, plan[m].tgtFp.next)'
      BY <2>1, <3>1, <3>2 DEF NextInv, Floor
    <3>4. \A d \in Docs : Floor(a, d, Text(d).next)
      BY <3>1 DEF NextInv
    <3>5. \A d \in Docs : Floor(a, d, Text(d).next)'
      <4>1. ASSUME NEW d \in Docs, Floor(a, d, Text(d)'.next) PROVE Floor(a, d, Text(d).next)'
        BY <2>1, <3>1, <4>1 DEF Floor
      <4>2. CASE \A d \in Docs : Text(d)' = Text(d)
        BY <3>4, <4>1, <4>2
      <4>3. CASE /\ SaveSwap
                 /\ \A d \in Docs : Text(d)' = IF d = SavedDoc THEN SavedContent ELSE Text(d)
        BY <3>1, <3>4, <4>1, <4>3, SavedFloor DEF SaveSwap
      <4>4. ASSUME NEW k \in Docs, ExternalAdd(k) \/ ExternalDelete(k)
            PROVE  \A d \in Docs : Floor(a, d, Text(d)'.next)
        <5>1. PICK e \in Content : /\ Rewrite(k, e) /\ docs[k].main # Gone
                                   /\ docs[k].main.next <= e.next
          BY <1>0, <4>4, ForeignEffects
        <5>2. docs'[k].main = e /\ e # Gone /\ \A d \in Docs \ {k} : docs'[d] = docs[d]
          BY <1>0, <5>1 DEF Rewrite, File
        <5>3. \A d \in Docs : Text(d)' = Text(d) \/ (Text(d).next <= Text(d)'.next /\ Text(d)'.next \in Nat)
          BY <5>1, <5>2, Numbers DEF Text, Recoverable
        <5> QED
          BY <1>0, <3>4, <5>3 DEF Floor, Moves
      <4> QED
        BY <4>1, <4>2, <4>3, <4>4, TextMoves
    <3>6. pc' = "save_source" => Floor(a, P.src, P.srcFp.next)'
      <4>1. CASE pc = "save_source" /\ P' = P
        BY <2>1, <3>1, <4>1 DEF NextInv, Floor
      <4>2. ASSUME P' \in Manifest, docs[P'.src].main = P'.srcFp
            PROVE  Floor(a, P.src, P.srcFp.next)'
        <5>1. P'.src \in Docs /\ Text(P'.src) = P'.srcFp
          BY <1>0, <4>2, ManifestTypes DEF Text, Recoverable
        <5>2. Floor(a, P'.src, P'.srcFp.next)
          BY <3>4, <5>1
        <5> QED
          BY <2>1, <3>1, <5>2 DEF Floor
      <4> QED
        BY <4>1, <4>2, EnterSource
    <3> QED
      BY <3>3, <3>5, <3>6
  <2> QED
    BY <2>1, <2>3 DEF NextInv
<1> QED
  BY <1>1, <1>2

-----------------------------------------------------------------------------
(* What an undo would write over                                           *)

\* Document d may have changed since content e was read, but it still holds every
\* original task of e, in its place.
Retains(d, e) == \A i \in Ids : e.at[i] \in Originals => Text(d).at[i] = e.at[i]

\* What transfer m wrote, or is going to write, over its target.
Received(m) == Insert(plan[m].tgtFp, plan[m].tid, plan[m].task)

\* What the documents of the transfer that runs still have of what it read and
\* wrote, and those of the undo that runs, at the steps that rely on it.
KeptInv ==
    /\ op = "transfer" => Overwrites(P.src, P.srcFp) /\ Overwrites(P.tgt, Received(txn))
    /\ pc = "log_target" =>
          /\ P.tid < Text(P.tgt).next
          /\ P.task \in Originals => Text(P.tgt).at[P.tid] = P.task
    /\ pc \in {"restore_source", "mark_undone"} =>
          /\ Retains(P.tgt, P.tgtFp)
          /\ P.tid < Text(P.tgt).next /\ Text(P.tgt).at[P.tid] = Nil
    /\ pc = "mark_undone" /\ P.kind = "Move" => Retains(P.src, P.srcFp)
    /\ pc = "save_source" => Retains(P.src, P.srcFp) /\ P.srcFp.next <= Text(P.src).next

\* The last call of a save.
LEMMA SwapEffect ==
    ASSUME CutInv, ControlInv, UndoFileInv, FilesInv, SaveSwap
    PROVE  /\ pc \in SaveSteps /\ pc' = After /\ P' = P
           /\ UNCHANGED <<op, txn, plan, undo, journal, banner, asked, exposed>>
           /\ \A d \in Docs : Text(d)' = IF d = SavedDoc THEN SavedContent ELSE Text(d)
<1>1. pc \in SaveSteps /\ \A d \in Docs \ {SavedDoc} : Text(d)' = Text(d)
  BY SaveCalls DEF Text
<1>2. PICK g \in File(Content) : g = docs[SavedDoc]
  BY <1>1, SaveFacts
<1>3. g.tmp = SavedContent /\ SavedContent # Gone
  BY <1>1, <1>2, SaveFacts, TransferConstants DEF SaveSwap, TransferConstants
<1>4. Recoverable(docs'[SavedDoc]) = SavedContent
  BY <1>2, <1>3, SaveCalls, Readable
<1>5. pc' = After /\ P' = P /\ UNCHANGED <<op, txn, plan, undo, journal, banner, asked, exposed>>
  BY DEF SaveSwap, Goto, uiVars, P
<1> QED
  BY <1>1, <1>4, <1>5 DEF Text

\* Every other step leaves the original tasks where they are.
LEMMA TextEffects ==
    ASSUME CutInv, ControlInv, UndoFileInv, FilesInv, [Next]_vars, ~SaveSwap, NEW d \in Docs
    PROVE  /\ Text(d) \in Content /\ Text(d)' \in Content
           /\ Text(d).next <= Text(d)'.next
           /\ \A i \in Ids : Text(d).at[i] \in Originals => Text(d)'.at[i] = Text(d).at[i]
           /\ \A i \in Ids : Text(d)'.at[i] \in Originals => Text(d)'.at[i] = Text(d).at[i]
           /\ \A i \in Ids : i < Text(d).next => Text(d)'.at[i] \in {Text(d).at[i], Nil}
<1>1. Text(d) \in Content /\ Text(d).next \in Nat
  BY Numbers DEF FilesInv
<1>2. CASE Text(d)' = Text(d)
  BY <1>1, <1>2
<1>3. ASSUME NEW k \in Docs, ExternalAdd(k) \/ ExternalDelete(k), Text(d)' # Text(d)
      PROVE  /\ Text(d)' \in Content
             /\ Text(d).next <= Text(d)'.next
             /\ \A i \in Ids : Text(d).at[i] \in Originals => Text(d)'.at[i] = Text(d).at[i]
             /\ \A i \in Ids : Text(d)'.at[i] \in Originals => Text(d)'.at[i] = Text(d).at[i]
             /\ \A i \in Ids : i < Text(d).next => Text(d)'.at[i] \in {Text(d).at[i], Nil}
  <2>1. PICK e \in Content :
             /\ Rewrite(k, e)
             /\ docs[k].main \in Content /\ docs[k].main # Gone
             /\ docs[k].main.next <= e.next
             /\ \A i \in Ids : docs[k].main.at[i] \in Originals => e.at[i] = docs[k].main.at[i]
             /\ \A i \in Ids : e.at[i] \in Originals => e.at[i] = docs[k].main.at[i]
             /\ \A i \in Ids : i < docs[k].main.next => e.at[i] \in {docs[k].main.at[i], Nil}
    BY <1>3, ForeignEffects DEF CutInv
  <2>2. docs'[k].main = e /\ e # Gone /\ \A j \in Docs \ {k} : docs'[j] = docs[j]
    BY <2>1, TransferConstants DEF Rewrite, File, TransferConstants, CutInv, TypeInv, TypeOK
  <2>3. d = k
    BY <1>3, <2>2 DEF Text
  <2>4. Text(d) = docs[k].main /\ Text(d)' = e
    BY <2>1, <2>2, <2>3 DEF Text, Recoverable
  <2> QED
    BY <2>1, <2>4
<1> QED
  BY <1>1, <1>2, <1>3, TextMoves

\* Only the last call of a save leads on from it.
LEMMA OnlySwapLeads ==
    ASSUME CutInv, ControlInv, [Next]_vars, ~SaveSwap,
           pc' \in {"log_target", "restore_source", "mark_undone"}
    PROVE  pc' = pc /\ txn' = txn /\ plan' = plan /\ P' = P
<1>1. CASE pc \in SaveSteps /\ pc' # pc
  BY <1>1, SaveThread DEF SaveWrite, SaveAside, SaveFails, Fail, Goto, Return, Crash, StartScan, ClickUndo,
       ExternalAdd, ExternalDelete, Rewrite, vars, threadVars
<1>2. CASE pc \notin SaveSteps /\ pc' # pc
  BY <1>2, ThreadMoves DEF Start, CompleteMove, Undo, Leads, After, AfterRestore, LogSteps, SaveSteps, FileSteps
<1>3. CASE pc' = pc
  BY <1>3, ThreadMoves DEF Start, CompleteMove, Undo, CutInv, OpInv
<1> QED
  BY <1>1, <1>2, <1>3

\* What the save of the running step writes over its document, for each step.
LEMMA SavedTasks ==
    ASSUME CutInv, ControlInv, UndoFileInv, FilesInv, NextInv, KeptInv, pc \in SaveSteps
    PROVE  /\ P.src # P.tgt
           /\ pc = "save_target" => /\ SavedContent = Received(txn)
                                    /\ SavedContent.next = P.tid + 1 /\ SavedContent.at[P.tid] = P.task
                                    /\ \A i \in Ids \ {P.tid} : SavedContent.at[i] = P.tgtFp.at[i]
           /\ pc = "save_source" => /\ SavedContent.next = P.srcFp.next
                                    /\ SavedContent.at[P.sid] = Nil
                                    /\ \A i \in Ids \ {P.sid} : SavedContent.at[i] = P.srcFp.at[i]
           /\ pc = "restore_target" => /\ SavedContent.at = P.tgtFp.at /\ SavedContent.at[P.tid] = Nil
                                       /\ P.tid < SavedContent.next
<1>0. /\ txn \in Txns /\ P = plan[txn] /\ P \in Manifest /\ P # Nil
      /\ P.srcFp \in Content /\ P.tgtFp \in Content
      /\ P.tid \in Ids /\ P.sid \in Ids /\ P.tid \in Nat
      /\ P.srcFp.next \in Nat /\ P.tgtFp.next \in Nat
  BY SaveFacts, ManifestTypes, Numbers
<1>1. P.src # P.tgt /\ P.tgtFp.next <= P.tid
  BY <1>0 DEF NextInv
<1>2. P.tgtFp.at[P.tid] = Nil
  BY <1>0 DEF CutInv, DocInv
<1>3. CASE pc = "save_target"
  <2>1. SavedContent = Insert(P.tgtFp, P.tid, P.task) /\ SavedContent = Received(txn)
    BY <1>0, <1>3, SaveFacts DEF Received
  <2> QED
    BY <1>0, <1>1, <1>3, <2>1 DEF Insert, Content
<1>4. CASE pc = "save_source"
  <2>1. SavedContent = Remove(P.srcFp, P.sid)
    BY <1>4, SaveFacts
  <2> QED
    BY <1>0, <1>1, <1>4, <2>1 DEF Remove, Content
<1>5. CASE pc = "restore_target"
  <2>1. SavedContent = RaiseNext(P.tgtFp, P.tid + 1)
    BY <1>5, SaveFacts
  <2>2. SavedContent.at = P.tgtFp.at /\ SavedContent.next =
           IF P.tgtFp.next < P.tid + 1 THEN P.tid + 1 ELSE P.tgtFp.next
    BY <1>0, <2>1 DEF RaiseNext, Content
  <2> QED
    BY <1>0, <1>1, <1>2, <1>5, <2>2
<1> QED
  BY <1>1, <1>3, <1>4, <1>5

\* Every step keeps KeptInv.
LEMMA KeptStep ==
    CutInv /\ ControlInv /\ UndoFileInv /\ FilesInv /\ NextInv /\ KeptInv /\ [Next]_vars => KeptInv'
<1> SUFFICES ASSUME CutInv, ControlInv, UndoFileInv, FilesInv, NextInv, KeptInv, [Next]_vars
             PROVE  KeptInv'
  OBVIOUS
<1>0. /\ TypeInv /\ OpInv /\ Gone \notin Content /\ FilesInv'
  BY TransferConstants, FilesStep DEF CutInv, TransferConstants
<1>1. ASSUME NEW t \in Txns, Start(t) PROVE KeptInv'
  <2>1. /\ op' = "transfer" /\ pc' = "revalidate" /\ txn' = t /\ docs' = docs
        /\ plan'[t] \in Manifest
        /\ docs[plan'[t].src].main = plan'[t].srcFp
        /\ docs[plan'[t].tgt].main = plan'[t].tgtFp
    BY <1>0, <1>1, StartFacts
  <2>2. /\ plan'[t].src \in Docs /\ plan'[t].tgt \in Docs /\ plan'[t].tid \in Ids
        /\ plan'[t].srcFp \in Content /\ plan'[t].tgtFp \in Content /\ plan'[t] # Nil
    BY <2>1, ManifestTypes
  <2>3. Text(plan[t].src)' = plan'[t].srcFp /\ Text(plan[t].tgt)' = plan'[t].tgtFp
    BY <1>0, <2>1, <2>2 DEF Text, Recoverable
  <2>4. plan'[t].tgtFp.at[plan'[t].tid] = Nil
    <3>1. DocInv'
      BY CutInductive DEF CutInv
    <3> QED
      BY <2>2, <3>1 DEF DocInv
  <2>5. \A i \in Ids \ {plan'[t].tid} : Received(t)'.at[i] = plan'[t].tgtFp.at[i]
    BY <2>2 DEF Received, Insert, Content
  <2>6. Overwrites(plan[t].src, plan[t].srcFp)' /\ Overwrites(plan[t].tgt, Received(t))'
    <3>1. Overwrites(plan[t].src, plan[t].srcFp)'
      BY <2>2, <2>3 DEF Overwrites, Text
    <3>2. \A i \in Ids : plan'[t].tgtFp.at[i] \in Originals => Received(t)'.at[i] = plan'[t].tgtFp.at[i]
      BY <2>4, <2>5, NilNotOriginal
    <3>3. Overwrites(plan[t].tgt, Received(t))'
      BY <2>2, <2>3, <3>2 DEF Overwrites, Text
    <3> QED
      BY <3>1, <3>3
  <2>7. P' = plan'[t] /\ Received(txn)' = Received(t)'
    BY <2>1 DEF P, Received
  <2>8. Overwrites(P.src, P.srcFp)' /\ Overwrites(P.tgt, Received(txn))'
    BY <2>6, <2>7 DEF Overwrites, Text
  <2> QED
    BY <2>1, <2>8 DEF KeptInv
<1>2. CASE ~(\E t \in Txns : Start(t)) /\ ~SaveSwap
  <2>1. op' = "transfer" => /\ op = "transfer" /\ txn' = txn /\ plan' = plan /\ P' = P
                            /\ P \in Manifest /\ Received(txn)' = Received(txn)
    <3>1. op' = "transfer" => op = "transfer" /\ txn' = txn /\ P' = P
      BY <1>2, ThreadMoves DEF CompleteMove, Undo
    <3>2. plan' = plan
      BY <1>2, PlanStays
    <3>3. op = "transfer" => P \in Manifest
      BY <1>0 DEF ControlInv, TypeInv, TypeOK, Planned, P
    <3> QED
      BY <3>1, <3>2, <3>3 DEF Received
  <2>2. \A d \in Docs : \A e : Overwrites(d, e) =>
           Text(d)' \in Content /\ \A i \in Ids : Text(d)'.at[i] \in Originals => e.at[i] = Text(d)'.at[i]
    BY <1>2, TextEffects DEF Overwrites
  <2>3. ASSUME op' = "transfer"
        PROVE  Overwrites(P.src, P.srcFp)' /\ Overwrites(P.tgt, Received(txn))'
    <3>1. P' = P /\ Received(txn)' = Received(txn)
      BY <2>1, <2>3
    <3>2. Overwrites(P.src, P.srcFp) /\ Overwrites(P.tgt, Received(txn))
      BY <2>1, <2>3 DEF KeptInv
    <3>3. PICK s, g, c, e : s \in Docs /\ g \in Docs /\ s = P.src /\ g = P.tgt /\ c = P.srcFp /\ e = Received(txn)
      BY <2>1, <2>3, ManifestTypes
    <3>4. /\ Text(s)' \in Content /\ \A i \in Ids : Text(s)'.at[i] \in Originals => c.at[i] = Text(s)'.at[i]
          /\ Text(g)' \in Content /\ \A i \in Ids : Text(g)'.at[i] \in Originals => e.at[i] = Text(g)'.at[i]
      BY <2>2, <3>2, <3>3
    <3>5. Text(s)' = Text(P.src)' /\ Text(g)' = Text(P.tgt)'
      BY <3>1, <3>3 DEF Text
    <3> QED
      BY <3>1, <3>3, <3>4, <3>5 DEF Overwrites
  <2>4. ASSUME pc' \in {"log_target", "restore_source", "mark_undone"}
        PROVE  /\ pc' = "log_target" =>
                    /\ P'.tid < Text(P.tgt)'.next
                    /\ P'.task \in Originals => Text(P.tgt)'.at[P'.tid] = P'.task
               /\ pc' \in {"restore_source", "mark_undone"} =>
                    /\ Retains(P.tgt, P.tgtFp)'
                    /\ P'.tid < Text(P.tgt)'.next /\ Text(P.tgt)'.at[P'.tid] = Nil
               /\ pc' = "mark_undone" /\ P'.kind = "Move" => Retains(P.src, P.srcFp)'
    <3>1. pc' = pc /\ P' = P
      BY <1>2, <2>4, OnlySwapLeads
    <3>2. P \in Manifest
      BY <1>0, <2>4, <3>1 DEF TypeInv, TypeOK, Planned, P
    <3>3. PICK s, g \in Docs : s = P.src /\ g = P.tgt
      BY <3>2, ManifestTypes
    <3>4. PICK id \in Ids : id = P.tid
      BY <3>2, ManifestTypes
    <3>5. /\ Text(g).next <= Text(g)'.next /\ Text(g).next \in Nat /\ Text(g)'.next \in Nat /\ id \in Nat
          /\ \A i \in Ids : Text(g).at[i] \in Originals => Text(g)'.at[i] = Text(g).at[i]
          /\ \A i \in Ids : Text(s).at[i] \in Originals => Text(s)'.at[i] = Text(s).at[i]
          /\ id < Text(g).next => Text(g)'.at[id] \in {Text(g).at[id], Nil}
      BY <1>2, TextEffects, Numbers
    <3>6. CASE pc = "log_target"
      <4>1. id < Text(g).next /\ (P.task \in Originals => Text(g).at[id] = P.task)
        BY <3>3, <3>4, <3>6 DEF KeptInv
      <4>2. id < Text(g)'.next /\ (P.task \in Originals => Text(g)'.at[id] = P.task)
        BY <3>5, <4>1
      <4> QED
        BY <3>1, <3>3, <3>4, <3>6, <4>2 DEF Text
    <3>7. CASE pc \in {"restore_source", "mark_undone"}
      <4>1. /\ \A i \in Ids : P.tgtFp.at[i] \in Originals => Text(g).at[i] = P.tgtFp.at[i]
            /\ id < Text(g).next /\ Text(g).at[id] = Nil
        BY <3>3, <3>4, <3>7 DEF KeptInv, Retains
      <4>2. /\ \A i \in Ids : P.tgtFp.at[i] \in Originals => Text(g)'.at[i] = P.tgtFp.at[i]
            /\ id < Text(g)'.next /\ Text(g)'.at[id] = Nil
        <5>1. \A i \in Ids : P.tgtFp.at[i] \in Originals => Text(g)'.at[i] = P.tgtFp.at[i]
          BY <3>5, <4>1
        <5>2. Text(g)'.at[id] = Nil
          BY <3>5, <4>1
        <5>3. PICK n, m \in Nat : n = Text(g).next /\ m = Text(g)'.next
          BY <3>5
        <5>4. id < Text(g)'.next
          BY <3>5, <4>1, <5>3
        <5> QED
          BY <5>1, <5>2, <5>4
      <4>3. pc = "mark_undone" /\ P.kind = "Move" =>
               \A i \in Ids : P.srcFp.at[i] \in Originals => Text(s)'.at[i] = P.srcFp.at[i]
        BY <3>3, <3>5, <3>7 DEF KeptInv, Retains
      <4> QED
        BY <3>1, <3>3, <3>4, <3>7, <4>2, <4>3 DEF Text, Retains
    <3> QED
      BY <2>4, <3>1, <3>6, <3>7
  <2>5. ASSUME pc' = "save_source"
        PROVE  Retains(P.src, P.srcFp)' /\ P'.srcFp.next <= Text(P.src)'.next
    <3>1. CASE pc = "save_source" /\ P' = P
      <4>1. P \in Manifest
        BY <1>0, <3>1 DEF TypeInv, TypeOK, Planned, P
      <4>2. PICK s \in Docs, n, k, l \in Nat :
               s = P.src /\ n = P.srcFp.next /\ k = Text(s).next /\ l = Text(s)'.next
        BY <1>2, <4>1, ManifestTypes, TextEffects, Numbers
      <4>3. k <= l /\ \A i \in Ids : Text(s).at[i] \in Originals => Text(s)'.at[i] = Text(s).at[i]
        BY <1>2, <4>2, TextEffects
      <4>4. Retains(P.src, P.srcFp) /\ n <= k
        BY <3>1, <4>2 DEF KeptInv
      <4>5. Text(P.src)' = Text(s)'
        BY <3>1, <4>2 DEF Text
      <4>6. n <= l
        BY <4>2, <4>3, <4>4
      <4> QED
        BY <3>1, <4>2, <4>3, <4>4, <4>5, <4>6 DEF Retains
    <3>2. CASE docs' = docs /\ P' \in Manifest /\ docs[P'.src].main = P'.srcFp
      <4>1. P'.srcFp # Gone /\ P'.srcFp.next \in Nat
        BY <1>0, <3>2, ManifestTypes, Numbers
      <4>2. Text(P.src)' = P'.srcFp
        BY <3>2, <4>1 DEF Text, Recoverable
      <4> QED
        BY <4>1, <4>2 DEF Retains
    <3> QED
      BY <2>5, <3>1, <3>2, EnterSource
  <2> QED
    BY <2>3, <2>4, <2>5 DEF KeptInv
<1>3. CASE SaveSwap
  <2>1. /\ pc \in SaveSteps /\ pc' = After /\ UNCHANGED <<op, txn, plan>> /\ P' = P
        /\ \A d \in Docs : Text(d)' = IF d = SavedDoc THEN SavedContent ELSE Text(d)
    BY <1>3, SwapEffect
  <2>3. /\ txn \in Txns /\ P = plan[txn] /\ P \in Manifest /\ P # Nil /\ SavedContent \in Content
        /\ P.src \in Docs /\ P.tgt \in Docs /\ P.src # P.tgt /\ P.tid \in Ids /\ P.tid \in Nat
    BY <2>1, SaveFacts, SavedTasks, ManifestTypes, Numbers
  <2>4. Received(txn)' = Received(txn)
    BY <2>1 DEF Received
  <2>5. CASE pc = "save_target"
    <3>1. op = "transfer" /\ SavedDoc = P.tgt /\ SavedContent = Received(txn) /\ pc' = "log_target"
          /\ SavedContent.next = P.tid + 1 /\ SavedContent.at[P.tid] = P.task
      BY <2>1, <2>5, SaveFacts, SavedTasks DEF After
    <3>3. Text(P.src)' = Text(P.src) /\ Text(P.tgt)' = SavedContent
      BY <2>1, <2>3, <3>1 DEF Text
    <3>4. Overwrites(P.src, P.srcFp)' /\ Overwrites(P.tgt, Received(txn))'
      BY <2>1, <2>3, <2>4, <3>1, <3>3 DEF KeptInv, Overwrites, Text
    <3>5. P.tid < SavedContent.next
      BY <2>3, <3>1
    <3> QED
      BY <2>1, <3>1, <3>3, <3>4, <3>5 DEF KeptInv
  <2>6. CASE pc = "save_source"
    <3>1. SavedDoc = P.src /\ pc' = "log_source" /\ SavedContent.at[P.sid] = Nil
          /\ \A i \in Ids \ {P.sid} : SavedContent.at[i] = P.srcFp.at[i]
      BY <2>1, <2>6, SaveFacts, SavedTasks DEF After
    <3>2. \A i \in Ids : P.srcFp.at[i] \in Originals => Text(P.src).at[i] = P.srcFp.at[i]
      BY <2>6 DEF KeptInv, Retains
    <3>3. \A i \in Ids : SavedContent.at[i] \in Originals => Text(P.src).at[i] = SavedContent.at[i]
      BY <3>1, <3>2, NilNotOriginal
    <3>4. \A d \in Docs : \A e : Overwrites(d, e) =>
             Text(d)' \in Content /\ \A i \in Ids : Text(d)'.at[i] \in Originals => e.at[i] = Text(d)'.at[i]
      BY <2>1, <2>3, <3>1, <3>3 DEF Overwrites
    <3>5. op' = "transfer" => Overwrites(P.src, P.srcFp)' /\ Overwrites(P.tgt, Received(txn))'
      <4> SUFFICES ASSUME op = "transfer"
                   PROVE  Overwrites(P.src, P.srcFp)' /\ Overwrites(P.tgt, Received(txn))'
        BY <2>1
      <4>1. Overwrites(P.src, P.srcFp) /\ Overwrites(P.tgt, Received(txn))
        BY DEF KeptInv
      <4>2. PICK s, g, c, e : s \in Docs /\ g \in Docs /\ s = P.src /\ g = P.tgt /\ c = P.srcFp /\ e = Received(txn)
        BY <2>3
      <4>3. /\ Text(s)' \in Content /\ \A i \in Ids : Text(s)'.at[i] \in Originals => c.at[i] = Text(s)'.at[i]
            /\ Text(g)' \in Content /\ \A i \in Ids : Text(g)'.at[i] \in Originals => e.at[i] = Text(g)'.at[i]
        BY <3>4, <4>1, <4>2
      <4>4. Text(s)' = Text(P.src)' /\ Text(g)' = Text(P.tgt)'
        BY <2>1, <4>2 DEF Text
      <4> QED
        BY <2>1, <2>4, <4>2, <4>3, <4>4 DEF Overwrites
    <3> QED
      BY <3>1, <3>5 DEF KeptInv
  <2>7. CASE pc = "restore_target"
    <3>1. op = "undo" /\ SavedDoc = P.tgt
          /\ SavedContent.at = P.tgtFp.at /\ SavedContent.at[P.tid] = Nil /\ P.tid < SavedContent.next
          /\ pc' = IF P.kind = "Move" THEN "restore_source" ELSE "mark_undone"
      BY <2>1, <2>7, SaveFacts, SavedTasks DEF After, AfterRestore
    <3>3. Text(P.src)' = Text(P.src) /\ Text(P.tgt)' = SavedContent
      BY <2>1, <2>3, <3>1 DEF Text
    <3>6. Retains(P.tgt, P.tgtFp)'
      BY <2>1, <3>1, <3>3 DEF Retains, Text
    <3> QED
      BY <2>1, <3>1, <3>3, <3>6 DEF KeptInv
  <2>8. CASE pc = "restore_source"
    <3>1. op = "undo" /\ SavedDoc = P.src /\ SavedContent = P.srcFp
          /\ pc' = "mark_undone"
      BY <2>1, <2>8, SaveFacts DEF After
    <3>3. Text(P.src)' = SavedContent /\ Text(P.tgt)' = Text(P.tgt)
      BY <2>1, <2>3, <3>1 DEF Text
    <3>5. Retains(P.src, P.srcFp)'
      BY <2>1, <3>1, <3>3 DEF Retains, Text
    <3>6. /\ Retains(P.tgt, P.tgtFp)'
          /\ P'.tid < Text(P.tgt)'.next /\ Text(P.tgt)'.at[P'.tid] = Nil
      BY <2>1, <2>8, <3>3 DEF KeptInv, Retains, Text
    <3> QED
      BY <2>1, <3>1, <3>5, <3>6 DEF KeptInv
  <2> QED
    BY <2>1, <2>5, <2>6, <2>7, <2>8 DEF SaveSteps
<1> QED
  BY <1>1, <1>2, <1>3

-----------------------------------------------------------------------------
(* Where every task is safe                                                *)

\* Document d as the save that runs found it: what it makes of a source does not
\* depend on what others wrote there since.
Base(d) == IF pc = "save_source" /\ d = P.src THEN P.srcFp ELSE Text(d)

\* The documents as they are, and as they will be once transfer m is undone.
Present == [d \in Docs |-> Base(d)]

Undone(m) ==
    [d \in Docs |->
        IF d = plan[m].tgt THEN RaiseNext(plan[m].tgtFp, plan[m].tid + 1)
        ELSE IF d = plan[m].src /\ plan[m].kind = "Move" THEN plan[m].srcFp
        ELSE Base(d)]

\* The journal of move u may let it be completed.
Pending(u) == plan[u] # Nil /\ plan[u].kind = "Move" /\ Committed(u)

\* In documents w, completing u may take the task under id i out of document d.
Cuts(u, w, d, i) ==
    /\ Pending(u) /\ d = plan[u].src /\ i = plan[u].sid
    /\ w[d].next = plan[u].srcFp.next /\ w[d].at[i] = plan[u].task

\* The undo directory of a move of a among S brings a back.
Stashed(a, S) ==
    \E u \in S : Moves(u, a) /\ undo[u].record = "ready" /\ undo[u].source # Gone

\* Whichever moves of S are completed in documents w, a stays under id i of d.
Holds(a, w, S, d, i) == w[d].at[i] = a /\ \A u \in S : ~Cuts(u, w, d, i)

\* Whichever moves of S are completed in documents w, a is not lost.
Safe(a, w, S) == Stashed(a, S) \/ \E d \in Docs, i \in Ids : Holds(a, w, S, d, i)

\* Task a is under id i of d now, and will be whichever transfer is undone that
\* does not move it.
Anchor(a, d, i) ==
    /\ Holds(a, Present, Txns, d, i)
    /\ \A m \in Txns : Live(a, m) /\ ~Moves(m, a) => Holds(a, Undone(m), Txns, d, i)

\* The undo of a move of task a brings it back.
Returns(a, m) == Live(a, m) /\ Moves(m, a) => Safe(a, Undone(m), Txns \ {m})

\* Every task is safe, now and after each undo that the user may choose.
AnchorInv ==
    \A a \in Originals \ exposed :
        /\ Stashed(a, Txns) \/ \E d \in Docs, i \in Ids : Anchor(a, d, i)
        /\ \A m \in Txns : Returns(a, m)

\* No move of R becomes pending for task a that was not pending among S.
PendingKept(a, S, R) ==
    \A u \in R : Pending(u)' /\ plan'[u].task = a => u \in S /\ Pending(u) /\ plan'[u] = plan[u]

\* Document d of v is where a move of a was planned only if document d of w is.
NextKept(a, w, v, d) ==
    \A u \in Txns : Moves(u, a) /\ plan[u].src = d /\ v[d].next = plan[u].srcFp.next
                      => w[d].next = plan[u].srcFp.next

\* How a task stays in its place when documents w become v.
LEMMA HoldsMoves ==
    ASSUME NEW a, NEW w, NEW v, NEW S \in SUBSET Txns, NEW R \in SUBSET Txns,
           NEW d \in Docs, NEW i \in Ids,
           Holds(a, w, S, d, i), PendingKept(a, S, R), v[d].at[i] = a, NextKept(a, w, v, d)
    PROVE  Holds(a, v, R, d, i)'
<1>1. ASSUME NEW u \in R, Cuts(u, v, d, i)' PROVE FALSE
  <2>1. /\ Pending(u)' /\ d = plan'[u].src /\ i = plan'[u].sid
        /\ v[d].next = plan'[u].srcFp.next /\ plan'[u].task = a
    BY <1>1 DEF Cuts
  <2>2. u \in S /\ Pending(u) /\ plan'[u] = plan[u]
    BY <2>1 DEF PendingKept
  <2>3. Moves(u, a)
    BY <2>1, <2>2 DEF Moves, Pending
  <2>4. w[d].next = plan[u].srcFp.next
    BY <2>1, <2>2, <2>3 DEF NextKept
  <2>5. Cuts(u, w, d, i)
    BY <2>1, <2>2, <2>4 DEF Cuts, Holds
  <2> QED
    BY <2>2, <2>5 DEF Holds
<1> QED
  BY <1>1 DEF Holds

\* A plan is never changed.
LEMMA PlanKept ==
    ASSUME CutInv, ControlInv, [Next]_vars, NEW u \in Txns, plan[u] # Nil
    PROVE  plan'[u] = plan[u]
<1>1. \A t \in Txns : Start(t) => plan'[u] = plan[u]
  BY StartFacts DEF CutInv
<1> QED
  BY <1>1, PlanStays

\* A backup that an undo relies on stays until the undo is done.
LEMMA StashMoves ==
    ASSUME CutInv, ControlInv, UndoFileInv, [Next]_vars, NEW u \in Txns,
           undo[u].record = "ready", undo[u].source # Gone
    PROVE  \/ undo'[u].record = "ready" /\ undo'[u].source = undo[u].source
           \/ MarkUndone /\ u = txn
<1>0. /\ TypeInv
      /\ undo \in [Txns -> [target : Content \cup {Gone}, source : Content \cup {Gone},
                            record : {"ready", "undone", Gone}]]
      /\ undo[u].record # Gone
  BY TransferConstants DEF CutInv, TypeInv, TypeOK, TransferConstants
<1>1. CASE WriteUndoFile
  <2>1. txn \in Txns /\ pc \in {"backup_target", "backup_source", "write_record"} /\ op = "transfer"
    BY <1>0, <1>1 DEF WriteUndoFile, TypeInv, TypeOK, Planned, CutInv, OpInv, ControlInv, UndoSteps,
                      CompleteSteps
  <2>2. u # txn
    BY <1>0, <2>1 DEF UndoFileInv
  <2> QED
    BY <1>0, <1>1, <2>1, <2>2 DEF WriteUndoFile
<1>2. CASE MarkUndone
  BY <1>0, <1>2 DEF MarkUndone
<1>3. CASE Cleanup
  <2>1. txn \in Txns /\ op = "transfer"
    BY <1>0, <1>3 DEF Cleanup, TypeInv, TypeOK, Planned, CutInv, OpInv, ControlInv, UndoSteps, CompleteSteps
  <2>2. CASE u = txn
    <3>1. Committed(txn)
      BY <1>0, <2>1, <2>2 DEF UndoFileInv
    <3> QED
      BY <1>3, <3>1 DEF Cleanup, Committed, TargetHasIt, fsVars
  <2>3. CASE u # txn
    BY <1>0, <1>3, <2>1, <2>3 DEF Cleanup, fsVars
  <2> QED
    BY <2>2, <2>3
<1>4. CASE ~(WriteUndoFile \/ MarkUndone \/ Cleanup)
  <2>1. undo' = undo
    BY <1>4 DEF Next, Engine, User, Environment, Revalidate, CheckSource, LogWrite, LogAside, LogSwap,
                LogFails, SaveWrite, SaveAside, SaveSwap, SaveFails, StageAssets, FileFails, Clean,
                RecoverOne, Reopen, Crash, StartScan, Dismiss, Start, CompleteMove, ClickUndo, Undo, ExternalAdd,
                ExternalDelete, Rewrite, vars, fsVars
  <2> QED
    BY <2>1
<1> QED
  BY <1>1, <1>2, <1>3, <1>4

\* A move becomes pending when its target commit is logged.
LEMMA PendingMoves ==
    ASSUME CutInv, ControlInv, MemInv, [Next]_vars, NEW u \in Txns, Pending(u)'
    PROVE  \/ Pending(u) /\ plan'[u] = plan[u]
           \/ LogSwap /\ pc = "log_target" /\ u = txn
<1>0. TypeInv /\ OpInv
  BY DEF CutInv
<1>1. Committed(u)'
  BY DEF Pending
<1>2. CASE Committed(u)
  <2>1. journal[u] # NoFile
    BY <1>2 DEF Committed, NoFile, Only, Recoverable
  <2>2. plan[u] # Nil
    BY <1>0, <2>1 DEF TypeInv, Planned
  <2>3. plan'[u] = plan[u]
    <3>1. ASSUME NEW t \in Txns, Start(t) PROVE plan'[u] = plan[u]
      BY <1>0, <2>2, <3>1, StartFacts
    <3>2. CASE ~\E t \in Txns : Start(t)
      BY <3>2, ThreadMoves DEF CompleteMove, Undo
    <3> QED
      BY <3>1, <3>2
  <2> QED
    BY <1>2, <2>3 DEF Pending
<1> QED
  BY <1>1, <1>2, CommittedMoves

\* A backup of a among those of S stays, unless the undo of its move is marked done.
LEMMA StashStays ==
    ASSUME CutInv, ControlInv, UndoFileInv, [Next]_vars, NEW a, NEW S \in SUBSET Txns, Stashed(a, S),
           MarkUndone => txn \notin S \/ ~Moves(txn, a)
    PROVE  Stashed(a, S)'
<1>1. PICK u \in S : Moves(u, a) /\ undo[u].record = "ready" /\ undo[u].source # Gone
  BY DEF Stashed
<1>2. undo'[u].record = "ready" /\ undo'[u].source = undo[u].source
  BY <1>1, StashMoves
<1>3. plan'[u] = plan[u]
  BY <1>1, PlanKept DEF Moves
<1> QED
  BY <1>1, <1>2, <1>3 DEF Stashed, Moves

\* No move of a becomes pending, but the one whose target commit is logged.
LEMMA PendingStays ==
    ASSUME CutInv, ControlInv, MemInv, [Next]_vars, NEW a, NEW S \in SUBSET Txns,
           LogSwap /\ pc = "log_target" => txn \notin S \/ ~Moves(txn, a)
    PROVE  PendingKept(a, S, S)
<1> SUFFICES ASSUME NEW u \in S, Pending(u)', plan'[u].task = a
             PROVE  Pending(u) /\ plan'[u] = plan[u]
  BY DEF PendingKept
<1>1. CASE LogSwap /\ pc = "log_target" /\ u = txn
  <2>1. plan' = plan
    BY <1>1 DEF LogSwap
  <2>2. Moves(u, a)
    BY <2>1 DEF Pending, Moves
  <2> QED
    BY <1>1, <2>2
<1> QED
  BY <1>1, PendingMoves

\* The last call of a save, as it changes what the invariant is about.
LEMMA SwapBase ==
    ASSUME CutInv, ControlInv, UndoFileInv, FilesInv, SaveSwap, NEW d \in Docs
    PROVE  /\ d = SavedDoc => Base(d)' = SavedContent
           /\ d # SavedDoc => Base(d)' = Base(d) /\ Base(d) = Text(d)
<1>1. pc \in SaveSteps /\ pc' = After /\ Text(d)' = IF d = SavedDoc THEN SavedContent ELSE Text(d)
  BY SwapEffect
<1>2. pc' # "save_source"
  BY <1>1 DEF After, AfterRestore, SaveSteps
<1>3. pc = "save_source" => SavedDoc = P.src
  BY DEF SavedDoc
<1> QED
  BY <1>1, <1>2, <1>3 DEF Base

\* All that the steps below start from.
KeepInv ==
    /\ CutInv /\ ControlInv /\ OrderInv /\ OfferInv /\ MemInv /\ UndoFileInv
    /\ FilesInv /\ NextInv /\ KeptInv /\ AnchorInv

\* A step that writes none but new tasks over a document takes no original task
\* out of it, and makes no pending completion possible that was not before.
LEMMA BaseMoves ==
    ASSUME KeepInv, [Next]_vars, ~SaveSwap \/ pc = "save_target",
           NEW a \in Originals \ exposed, NEW d \in Docs
    PROVE  /\ \A i \in Ids : Base(d).at[i] = a => Base(d)'.at[i] = a
           /\ \A t \in Txns : /\ Moves(t, a) /\ plan[t].src = d
                              /\ Base(d)'.next = plan[t].srcFp.next
                              => Base(d).next = plan[t].srcFp.next
<1>0. /\ CutInv /\ ControlInv /\ OrderInv /\ OfferInv /\ UndoFileInv /\ FilesInv /\ NextInv /\ KeptInv
      /\ TypeInv /\ OpInv /\ Gone \notin Content
      /\ \A t \in Txns : Moves(t, a) => plan[t] \in Manifest /\ plan[t].srcFp.next \in Nat
      /\ Text(d).next \in Nat
  BY TransferConstants, Numbers, ManifestTypes
     DEF KeepInv, CutInv, TypeInv, TypeOK, TransferConstants, FilesInv, Moves
<1>1. Floor(a, d, Text(d).next)
  BY <1>0 DEF NextInv
<1>2. CASE SaveSwap /\ d = SavedDoc
  <2>1. /\ pc = "save_target" /\ d = P.tgt /\ SavedContent = Received(txn) /\ SavedContent.next = P.tid + 1
        /\ txn \in Txns /\ P = plan[txn] /\ P # Nil /\ P \in Manifest /\ op = "transfer"
    BY <1>0, <1>2, SaveFacts, SavedTasks DEF SaveSteps
  <2>2. Live(a, txn) /\ Base(d) = Text(d) /\ Base(d)' = SavedContent
    BY <1>0, <1>2, <2>1, SwapBase, NewestLive DEF Base
  <2>3. \A i \in Ids : Text(d).at[i] \in Originals => SavedContent.at[i] = Text(d).at[i]
    BY <1>0, <2>1 DEF KeptInv, Overwrites
  <2>4. P.tid \in Nat /\ P.tgtFp.next \in Nat /\ P.tgtFp.next <= P.tid
    BY <1>0, <2>1, ManifestTypes, Numbers DEF NextInv
  <2>5. Floor(a, d, P.tgtFp.next)
    BY <1>0, <2>1, <2>2 DEF NextInv
  <2>6. \A t \in Txns : Moves(t, a) /\ plan[t].src = d => P.tid + 1 # plan[t].srcFp.next
    BY <1>0, <2>4, <2>5 DEF Floor
  <2> QED
    BY <2>1, <2>2, <2>3, <2>6
<1>3. CASE SaveSwap /\ d # SavedDoc
  BY <1>0, <1>3, SwapBase
<1>4. CASE ~SaveSwap
  <2>1. /\ Text(d)' \in Content /\ Text(d)'.next \in Nat
        /\ Text(d).next <= Text(d)'.next
        /\ \A i \in Ids : Text(d).at[i] \in Originals => Text(d)'.at[i] = Text(d).at[i]
    BY <1>0, <1>4, TextEffects, Numbers
  <2>2. CASE pc = "save_source" /\ d = P.src
    <3>1. txn \in Txns /\ P = plan[txn] /\ plan[txn] # Nil /\ P.srcFp.next \in Nat /\ P.kind = "Move"
      <4>1. txn \in Txns /\ P = plan[txn] /\ plan[txn] # Nil /\ P \in Manifest
        BY <1>0, <2>2 DEF TypeInv, TypeOK, Planned, P
      <4> QED
        BY <1>0, <2>2, <4>1, ManifestTypes, Numbers DEF ControlInv, MoveSteps
    <3>2. Base(d) = P.srcFp
      BY <2>2 DEF Base
    <3>3. CASE pc' = "save_source"
      <4>1. P' = P
        BY <1>0, <2>2, <3>3, EnterSource
      <4> QED
        BY <2>2, <3>2, <3>3, <4>1 DEF Base
    <3>4. CASE pc' # "save_source"
      <4>1. Base(d)' = Text(d)'
        BY <3>4 DEF Base
      <4>2. \A i \in Ids : P.srcFp.at[i] \in Originals => Text(d).at[i] = P.srcFp.at[i]
        BY <1>0, <2>2 DEF KeptInv, Retains
      <4>3. Floor(a, d, P.srcFp.next)
        BY <1>0, <2>2 DEF NextInv
      <4>4. P.srcFp.next <= Text(d).next
        BY <1>0, <2>2 DEF KeptInv
      <4>5. \A t \in Txns : /\ Moves(t, a) /\ plan[t].src = d
                            /\ Text(d)'.next = plan[t].srcFp.next
                            => P.srcFp.next = plan[t].srcFp.next
        BY <1>0, <2>1, <3>1, <4>3, <4>4 DEF Floor
      <4> QED
        BY <2>1, <3>2, <4>1, <4>2, <4>5
    <3> QED
      BY <3>3, <3>4
  <2>3. CASE ~(pc = "save_source" /\ d = P.src)
    <3>1. Base(d) = Text(d)
      BY <2>3 DEF Base
    <3>2. CASE pc' = "save_source" /\ d = P'.src
      <4>1. P' \in Manifest /\ docs[d].main = P'.srcFp
        BY <1>0, <2>3, <3>2, EnterSource
      <4>2. Text(d) = P'.srcFp
        BY <1>0, <4>1, ManifestTypes DEF Text, Recoverable
      <4> QED
        BY <3>1, <3>2, <4>2 DEF Base
    <3>3. CASE ~(pc' = "save_source" /\ d = P'.src)
      <4>1. Base(d)' = Text(d)'
        BY <3>3 DEF Base
      <4>2. \A t \in Txns : /\ Moves(t, a) /\ plan[t].src = d
                            /\ Text(d)'.next = plan[t].srcFp.next
                            => Text(d).next = plan[t].srcFp.next
        BY <1>0, <1>1, <2>1 DEF Floor
      <4> QED
        BY <2>1, <3>1, <4>1, <4>2
    <3> QED
      BY <3>2, <3>3
  <2> QED
    BY <2>2, <2>3
<1> QED
  BY <1>2, <1>3, <1>4

\* The save of a source takes no task out of it but the one that it was allowed to.
LEMMA HoldsCut ==
    ASSUME KeepInv, SaveSwap, pc = "save_source", NEW a, NEW w, NEW S \in SUBSET Txns, txn \in S,
           NEW i \in Ids, Holds(a, w, S, P.src, i), w[P.src] = Base(P.src)
    PROVE  SavedContent.at[i] = a /\ SavedContent.next = w[P.src].next
<1>0. CutInv /\ ControlInv /\ MemInv /\ UndoFileInv /\ FilesInv /\ NextInv /\ KeptInv
  BY DEF KeepInv
<1>1. /\ P.kind = "Move" /\ txn \in Txns /\ P = plan[txn] /\ P # Nil
      /\ SavedContent.next = P.srcFp.next
      /\ \A j \in Ids \ {P.sid} : SavedContent.at[j] = P.srcFp.at[j]
  BY <1>0, SaveFacts, SavedTasks DEF SaveSteps
<1>2. Pending(txn)
  <2>1. Recoverable(journal[txn]) \in Record /\ Recoverable(journal[txn]).entries = mem
        /\ "TargetCommitted" \in mem
    BY <1>0 DEF CutInv, JournalInv, Logged, Steps, SaveSteps, UndoSteps
  <2> QED
    BY <1>1, <2>1, TransferConstants DEF Pending, Committed, TransferConstants
<1>3. w[P.src] = P.srcFp
  BY DEF Base
<1>4. P.srcFp.at[P.sid] = P.task
  BY <1>0, <1>1 DEF NextInv
<1>5. Cuts(txn, w, P.src, P.sid)
  BY <1>1, <1>2, <1>3, <1>4 DEF Cuts
<1>6. i # P.sid /\ w[P.src].at[i] = a
  BY <1>5 DEF Holds
<1> QED
  BY <1>1, <1>3, <1>6

\* A task stays in its place in a document that is the same in w and v, or that is
\* the present one, unless an undo is restoring it.
LEMMA WorldMoves ==
    ASSUME KeepInv, [Next]_vars, NEW a \in Originals \ exposed, NEW w, NEW v,
           NEW S \in SUBSET Txns, NEW R \in SUBSET Txns, NEW d \in Docs, NEW i \in Ids,
           Holds(a, w, S, d, i), PendingKept(a, S, R),
           \/ v[d] = w[d]
           \/ /\ w[d] = Base(d) /\ v[d] = Base(d)'
              /\ SaveSwap /\ d = SavedDoc => pc = "save_target" \/ (pc = "save_source" /\ txn \in S)
    PROVE  Holds(a, v, R, d, i)'
<1>0. CutInv /\ ControlInv /\ UndoFileInv /\ FilesInv /\ w[d].at[i] = a
  BY DEF KeepInv, Holds
<1>1. CASE v[d] = w[d]
  <2>1. v[d].at[i] = a /\ NextKept(a, w, v, d)
    BY <1>0, <1>1 DEF NextKept
  <2> QED
    BY <2>1, HoldsMoves
<1>2. CASE w[d] = Base(d) /\ v[d] = Base(d)' /\ (~SaveSwap \/ pc = "save_target")
  <2>1. v[d].at[i] = a
    BY <1>0, <1>2, BaseMoves
  <2>2. NextKept(a, w, v, d)
    BY <1>2, BaseMoves DEF NextKept
  <2> QED
    BY <2>1, <2>2, HoldsMoves
<1>3. CASE w[d] = Base(d) /\ v[d] = Base(d)' /\ SaveSwap /\ d # SavedDoc
  <2>1. v[d] = w[d]
    BY <1>0, <1>3, SwapBase
  <2> QED
    BY <1>1, <2>1
<1>4. CASE w[d] = Base(d) /\ v[d] = Base(d)' /\ SaveSwap /\ d = SavedDoc /\ pc = "save_source" /\ txn \in S
  <2>1. d = P.src /\ Holds(a, w, S, P.src, i) /\ w[P.src] = Base(P.src)
    BY <1>4 DEF SavedDoc
  <2>2. SavedContent.at[i] = a /\ SavedContent.next = w[d].next
    BY <1>4, <2>1, HoldsCut
  <2>3. v[d] = SavedContent
    BY <1>0, <1>4, SwapBase
  <2>4. v[d].at[i] = a /\ NextKept(a, w, v, d)
    BY <2>2, <2>3 DEF NextKept
  <2> QED
    BY <2>4, HoldsMoves
<1> QED
  BY <1>1, <1>2, <1>3, <1>4

\* What an undo of m would make of the documents, before and after a step.
LEMMA UndoneFollows ==
    ASSUME NEW m \in Txns, plan'[m] = plan[m], NEW d \in Docs
    PROVE  \/ /\ d = plan[m].tgt \/ (d = plan[m].src /\ plan[m].kind = "Move")
              /\ Undone(m)'[d] = Undone(m)[d]
           \/ /\ ~(d = plan[m].tgt \/ (d = plan[m].src /\ plan[m].kind = "Move"))
              /\ Undone(m)[d] = Base(d) /\ Undone(m)'[d] = Base(d)'
BY DEF Undone

\* A transfer that begins can be undone: that only gives the documents back as
\* they are, with a larger NEXTUNIQUEID in the target.
LEMMA StartHolds ==
    ASSUME KeepInv, [Next]_vars, NEW a \in Originals \ exposed, NEW m \in Txns, Start(m),
           NEW R \in SUBSET Txns, NEW d \in Docs, NEW i \in Ids, Holds(a, Present, Txns, d, i)
    PROVE  Holds(a, Undone(m), R, d, i)'
<1>0. /\ CutInv /\ ControlInv /\ MemInv /\ UndoFileInv /\ FilesInv /\ NextInv
      /\ TypeInv /\ OpInv /\ Gone \notin Content
      /\ \A t \in Txns : Moves(t, a) => plan[t].srcFp.next \in Nat
  BY TransferConstants, Numbers, ManifestTypes
     DEF KeepInv, CutInv, TypeInv, TypeOK, TransferConstants, Moves
<1>1. PICK w, v : w = Present /\ v = Undone(m)'
  OBVIOUS
<1>2. /\ plan[m] = Nil /\ pc = "rest" /\ pc' = "revalidate" /\ docs' = docs
      /\ plan'[m] \in Manifest
      /\ plan'[m].src # plan'[m].tgt
      /\ docs[plan'[m].src].main = plan'[m].srcFp
      /\ docs[plan'[m].tgt].main = plan'[m].tgtFp
      /\ plan'[m].tgtFp.next <= plan'[m].tid
  BY <1>0, StartFacts
<1>3. PICK s, g \in Docs, c, e \in Content, n \in Ids :
         s = plan'[m].src /\ g = plan'[m].tgt /\ c = plan'[m].srcFp /\ e = plan'[m].tgtFp /\ n = plan'[m].tid
  BY <1>2, ManifestTypes
<1>4. Text(s) = c /\ Text(g) = e /\ e.next \in Nat /\ n \in Nat /\ e.next <= n
  BY <1>0, <1>2, <1>3, Numbers DEF Text, Recoverable
<1>5. w[d] = Text(d) /\ Base(d)' = Text(d)
  BY <1>1, <1>2 DEF Present, Base, Text
<1>6. /\ RaiseNext(e, n + 1).at = e.at /\ RaiseNext(e, n + 1).next = IF e.next < n + 1 THEN n + 1 ELSE e.next
  BY <1>3 DEF RaiseNext, Content
<1>7. v[d] = IF d = g THEN RaiseNext(e, n + 1) ELSE Text(d)
  BY <1>1, <1>3, <1>4, <1>5 DEF Undone
<1>8. Floor(a, g, e.next)
  BY <1>0, <1>4 DEF NextInv
<1>9. v[d].at[i] = a
  BY <1>1, <1>4, <1>5, <1>6, <1>7 DEF Holds
<1>10. NextKept(a, w, v, d)
  <2> SUFFICES ASSUME NEW u \in Txns, Moves(u, a), plan[u].src = d, v[d].next = plan[u].srcFp.next
               PROVE  w[d].next = plan[u].srcFp.next
    BY DEF NextKept
  <2>1. d = g => plan[u].srcFp.next <= e.next
    BY <1>8 DEF Floor
  <2> QED
    BY <1>0, <1>4, <1>5, <1>6, <1>7, <2>1
<1>11. PendingKept(a, Txns, R)
  <2>1. PendingKept(a, Txns, Txns)
    <3>1. ~(LogSwap /\ pc = "log_target")
      BY <1>2
    <3> QED
      BY <1>0, <3>1, PendingStays
  <2> QED
    BY <2>1 DEF PendingKept
<1>12. Holds(a, w, Txns, d, i)
  BY <1>1
<1>13. Holds(a, v, R, d, i)'
  BY <1>9, <1>10, <1>11, <1>12, HoldsMoves
<1> QED
  BY <1>1, <1>13 DEF Holds, Cuts

\* A task stays anchored until its move is committed or undone.
LEMMA AnchorKeeps ==
    ASSUME KeepInv, [Next]_vars, NEW a \in Originals \ exposed, NEW d \in Docs, NEW i \in Ids,
           Anchor(a, d, i),
           LogSwap /\ pc = "log_target" => ~Moves(txn, a),
           SaveSwap /\ pc \in {"restore_target", "restore_source"} => ~Moves(txn, a)
    PROVE  Anchor(a, d, i)'
<1>0. /\ CutInv /\ ControlInv /\ OrderInv /\ OfferInv /\ MemInv /\ UndoFileInv /\ FilesInv
      /\ NextInv /\ KeptInv
  BY DEF KeepInv
<1>1. PendingKept(a, Txns, Txns)
  BY <1>0, PendingStays
<1>2. ASSUME NEW w, NEW v, Holds(a, w, Txns, d, i),
             v[d] = w[d] \/ (w[d] = Base(d) /\ v[d] = Base(d)')
      PROVE  Holds(a, v, Txns, d, i)'
  <2>1. CASE SaveSwap /\ pc \in {"restore_target", "restore_source"} /\ d = SavedDoc /\ v[d] = Base(d)'
    <3>1. /\ txn \in Txns /\ P = plan[txn] /\ op = "undo"
          /\ pc = "restore_target" => d = P.tgt /\ SavedContent = RaiseNext(P.tgtFp, P.tid + 1)
          /\ pc = "restore_source" => d = P.src /\ SavedContent = P.srcFp /\ P.src # P.tgt
                                      /\ P.kind = "Move"
      BY <1>0, <2>1, SaveFacts, SavedTasks DEF SaveSteps, ControlInv, MoveSteps
    <3>2. PICK u : u = Undone(txn)
      OBVIOUS
    <3>3. Live(a, txn) /\ ~Moves(txn, a)
      BY <1>0, <2>1, <3>1, UndoneLive
    <3>4. Holds(a, u, Txns, d, i)
      BY <3>1, <3>2, <3>3 DEF Anchor
    <3>5. u[d] = SavedContent
      BY <2>1, <3>1, <3>2 DEF Undone
    <3>6. v[d] = u[d]
      BY <1>0, <2>1, <3>5, SwapBase
    <3> QED
      BY <1>1, <3>4, <3>6, WorldMoves
  <2>2. CASE ~(SaveSwap /\ pc \in {"restore_target", "restore_source"} /\ d = SavedDoc /\ v[d] = Base(d)')
    <3>1. \/ v[d] = w[d]
          \/ /\ w[d] = Base(d) /\ v[d] = Base(d)'
             /\ SaveSwap /\ d = SavedDoc => pc = "save_target" \/ (pc = "save_source" /\ txn \in Txns)
      BY <1>0, <1>2, <2>2, SaveFacts DEF SaveSwap, SaveSteps
    <3> QED
      BY <1>1, <1>2, <3>1, WorldMoves
  <2> QED
    BY <2>1, <2>2
<1>3. Holds(a, Present, Txns, d, i)'
  <2>1. PICK w, v : w = Present /\ v = Present'
    OBVIOUS
  <2>2. w[d] = Base(d) /\ v[d] = Base(d)' /\ Holds(a, w, Txns, d, i)
    BY <2>1 DEF Present, Anchor
  <2>3. Holds(a, v, Txns, d, i)'
    BY <1>2, <2>2
  <2> QED
    BY <2>1, <2>3 DEF Holds, Cuts
<1>4. ASSUME NEW m \in Txns, Live(a, m)', ~Moves(m, a)' PROVE Holds(a, Undone(m), Txns, d, i)'
  <2>1. CASE Start(m)
    BY <2>1, StartHolds DEF Anchor
  <2>2. CASE Live(a, m) /\ plan'[m] = plan[m]
    <3>1. PICK w, v : w = Undone(m) /\ v = Undone(m)'
      OBVIOUS
    <3>2. ~Moves(m, a)
      BY <1>4, <2>2 DEF Moves
    <3>3. Holds(a, w, Txns, d, i)
      BY <2>2, <3>1, <3>2 DEF Anchor
    <3>4. v[d] = w[d] \/ (w[d] = Base(d) /\ v[d] = Base(d)')
      BY <2>2, <3>1, UndoneFollows
    <3>5. Holds(a, v, Txns, d, i)'
      BY <1>2, <3>3, <3>4
    <3> QED
      BY <3>1, <3>5 DEF Holds, Cuts
  <2> QED
    BY <1>0, <1>4, <2>1, <2>2, LiveMoves
<1> QED
  BY <1>3, <1>4 DEF Anchor

\* When the target commit of its move is logged, a task is anchored in the target if
\* not elsewhere.
LEMMA AnchorCommit ==
    ASSUME KeepInv, [Next]_vars, NEW a \in Originals \ exposed, NEW d \in Docs, NEW i \in Ids,
           Anchor(a, d, i), LogSwap, pc = "log_target", Moves(txn, a)
    PROVE  \E k \in Docs, j \in Ids : Anchor(a, k, j)'
<1>0. /\ CutInv /\ ControlInv /\ OrderInv /\ OfferInv /\ MemInv /\ UndoFileInv /\ FilesInv
      /\ NextInv /\ KeptInv /\ TypeInv
      /\ \A t \in Txns : Moves(t, a) => plan[t].srcFp.next \in Nat
  BY Numbers, ManifestTypes DEF KeepInv, CutInv, TypeInv, TypeOK, Moves
<1>1. /\ txn \in Txns /\ P = plan[txn] /\ P # Nil /\ P \in Manifest /\ op = "transfer" /\ P.task = a
      /\ plan' = plan /\ docs' = docs /\ pc' # "save_source" /\ ~SaveSwap
      /\ UNCHANGED <<banner, asked, op, txn>>
  BY <1>0 DEF LogSwap, Goto, After, TypeInv, TypeOK, Planned, P, CutInv, OpInv, ControlInv, UndoSteps,
              CompleteSteps, Moves, SaveSwap, SaveSteps, uiVars
<1>2. ASSUME NEW m \in Txns, Live(a, m)', ~Moves(m, a)' PROVE FALSE
  <2>1. m \in Txns /\ Undoable(m) /\ a \notin MovedAfter(m) /\ ~Moves(m, a)
    BY <1>1, <1>2 DEF Live, Undoable, MovedAfter, Moves
  <2>2. m <= txn /\ m # txn
    BY <1>0, <1>1, <2>1, UndoablePlanned DEF OrderInv
  <2>3. m < txn
    BY <1>1, <2>2 DEF Txns
  <2> QED
    BY <1>1, <2>1, <2>3 DEF MovedAfter, Moves
<1>3. PICK w : w = Present
  OBVIOUS
<1>4. \A k \in Docs : w[k] = Text(k)
  BY <1>3 DEF Present, Base
<1>5. Present' = w
  BY <1>1, <1>3, <1>4 DEF Present, Base, Text
<1>6. PendingKept(a, Txns, Txns \ {txn})
  <2>1. \A u \in Txns : Pending(u)' => (Pending(u) /\ plan'[u] = plan[u]) \/ u = txn
    BY <1>0, PendingMoves
  <2> QED
    BY <2>1 DEF PendingKept
<1>7. Holds(a, w, Txns, d, i)
  BY <1>3 DEF Anchor
<1>8. Holds(a, w, Txns \ {txn}, d, i)'
  <2>1. PICK R \in SUBSET Txns : R = Txns \ {txn}
    OBVIOUS
  <2>2. Holds(a, w, R, d, i)'
    BY <1>6, <1>7, <2>1, WorldMoves
  <2> QED
    BY <1>1, <2>1, <2>2 DEF Holds
<1>9. CASE ~Cuts(txn, w, d, i)'
  <2>1. Holds(a, w, Txns, d, i)'
    BY <1>8, <1>9 DEF Holds
  <2>2. Holds(a, Present, Txns, d, i)'
    BY <1>5, <2>1 DEF Holds, Cuts
  <2> QED
    BY <1>2, <2>2 DEF Anchor
<1>10. CASE Cuts(txn, w, d, i)'
  <2>1. PICK g \in Docs, gi \in Ids, n \in Nat, e \in Content :
           g = P.tgt /\ gi = P.tid /\ n = P.tid /\ e = P.tgtFp
    BY <1>1, ManifestTypes, Numbers
  <2>2. w[g].at[gi] = a /\ n < w[g].next
    BY <1>0, <1>1, <1>4, <2>1 DEF KeptInv
  <2>3. Floor(a, g, e.next) /\ e.next <= n /\ e.next \in Nat /\ w[g].next \in Nat
    <3>1. Live(a, txn)
      BY <1>0, <1>1, NewestLive
    <3>2. Floor(a, g, e.next) /\ e.next <= n
      BY <1>0, <1>1, <2>1, <3>1 DEF NextInv
    <3>3. w[g] \in Content
      BY <1>0, <1>4 DEF FilesInv
    <3> QED
      BY <3>2, <3>3, Numbers
  <2>4. ASSUME NEW u \in Txns, Cuts(u, w, g, gi)' PROVE FALSE
    <3>1. plan[u].src = g /\ w[g].next = plan[u].srcFp.next /\ Moves(u, a)
      BY <1>1, <2>2, <2>4 DEF Cuts, Pending, Moves
    <3> QED
      BY <1>0, <2>2, <2>3, <3>1 DEF Floor
  <2>5. Holds(a, w, Txns, g, gi)'
    BY <2>2, <2>4 DEF Holds
  <2>6. Holds(a, Present, Txns, g, gi)'
    BY <1>5, <2>5 DEF Holds, Cuts
  <2> QED
    BY <1>2, <2>6 DEF Anchor
<1> QED
  BY <1>9, <1>10

\* When the undo of its move is marked done, a task is where the undo brought it
\* back, or still in another backup.
LEMMA AnchorRestored ==
    ASSUME KeepInv, [Next]_vars, NEW a \in Originals \ exposed, MarkUndone, Moves(txn, a)
    PROVE  Stashed(a, Txns)' \/ \E d \in Docs, i \in Ids : Anchor(a, d, i)'
<1>0. /\ CutInv /\ ControlInv /\ OrderInv /\ OfferInv /\ MemInv /\ UndoFileInv /\ FilesInv
      /\ NextInv /\ KeptInv /\ AnchorInv /\ TypeInv
      /\ \A t \in Txns : Moves(t, a) => plan[t].srcFp.next \in Nat
      /\ \A d \in Docs : Text(d).next \in Nat
  BY Numbers, ManifestTypes DEF KeepInv, CutInv, TypeInv, TypeOK, FilesInv, Moves
<1>1. /\ pc = "mark_undone" /\ pc' = "rest" /\ op = "undo" /\ op' = "none"
      /\ asked = Nil /\ asked' = Nil /\ banner' = Nil
      /\ plan' = plan /\ docs' = docs /\ journal' = journal
  BY <1>0 DEF MarkUndone, Return, CutInv, OpInv, ControlInv, UndoSteps
<1>2. txn \in Txns /\ P = plan[txn] /\ P # Nil /\ P \in Manifest /\ P.kind = "Move" /\ P.task = a
      /\ journal[txn] = NoFile
  BY <1>0, <1>1 DEF TypeInv, TypeOK, Planned, P, Moves, OfferInv
<1>3. Live(a, txn)
  BY <1>0, <1>1, UndoneLive
<1>4. ASSUME NEW m \in Txns, Live(a, m)' PROVE FALSE
  BY <1>1, <1>4, TransferConstants DEF Live, Undoable, TransferConstants
<1>5. Safe(a, Undone(txn), Txns \ {txn})
  BY <1>0, <1>2, <1>3 DEF AnchorInv, Returns
<1>6. CASE Stashed(a, Txns \ {txn})
  <2>1. PICK S \in SUBSET Txns : S = Txns \ {txn}
    OBVIOUS
  <2>2. Stashed(a, S)'
    BY <1>0, <1>6, <2>1, StashStays
  <2>3. \A u \in S : u \in Txns
    OBVIOUS
  <2> QED
    BY <2>2, <2>3 DEF Stashed
<1>7. ASSUME NEW d \in Docs, NEW i \in Ids, Holds(a, Undone(txn), Txns \ {txn}, d, i)
      PROVE  Anchor(a, d, i)'
  <2>1. PICK w, v : w = Undone(txn) /\ v = Present'
    OBVIOUS
  <2>2. PICK s, g \in Docs, gi \in Ids, n \in Nat, c, e \in Content :
           s = P.src /\ g = P.tgt /\ gi = P.tid /\ n = P.tid /\ e = P.tgtFp /\ c = P.srcFp
    BY <1>2, ManifestTypes, Numbers
  <2>3. /\ s # g /\ e.next <= n /\ e.next \in Nat /\ c.next \in Nat
        /\ Floor(a, g, e.next) /\ Floor(a, s, c.next) /\ c.next <= Text(s).next
    <3>1. s # g /\ e.next <= n
      BY <1>0, <1>2, <2>2 DEF NextInv
    <3>2. Floor(a, g, e.next) /\ Floor(a, s, c.next)
      BY <1>0, <1>2, <1>3, <2>2 DEF NextInv
    <3>3. Floor(a, s, Text(s).next)
      BY <1>0 DEF NextInv
    <3>4. c.next <= Text(s).next
      BY <1>2, <2>2, <3>3 DEF Floor
    <3> QED
      BY <3>1, <3>2, <3>4, Numbers
  <2>4. v[d] = Text(d)
    BY <1>1, <2>1 DEF Present, Base, Text
  <2>5. w[d] = IF d = g THEN RaiseNext(e, n + 1) ELSE IF d = s THEN c ELSE Text(d)
    BY <1>1, <1>2, <2>1, <2>2 DEF Undone, Base
  <2>6. /\ n < Text(g).next
        /\ \A j \in Ids : e.at[j] \in Originals => Text(g).at[j] = e.at[j]
        /\ \A j \in Ids : c.at[j] \in Originals => Text(s).at[j] = c.at[j]
    BY <1>0, <1>1, <1>2, <2>2 DEF KeptInv, Retains
  <2>7. RaiseNext(e, n + 1).at = e.at
    BY <2>2 DEF RaiseNext, Content
  <2>8. w[d].at[i] = a
    BY <1>7, <2>1 DEF Holds
  <2>9. v[d].at[i] = a
    BY <2>4, <2>5, <2>6, <2>7, <2>8
  <2>10. NextKept(a, w, v, d)
    <3> SUFFICES ASSUME NEW u \in Txns, Moves(u, a), plan[u].src = d, v[d].next = plan[u].srcFp.next
                 PROVE  w[d].next = plan[u].srcFp.next
      BY DEF NextKept
    <3>1. CASE d = g
      <4>1. plan[u].srcFp.next <= e.next
        BY <2>3, <3>1 DEF Floor
      <4> QED
        BY <1>0, <2>3, <2>4, <2>6, <3>1, <4>1
    <3>2. CASE d = s /\ d # g
      <4>1. plan[u].srcFp.next <= c.next
        BY <2>3, <3>2 DEF Floor
      <4> QED
        BY <1>0, <2>3, <2>4, <2>5, <3>2, <4>1
    <3>3. CASE d # g /\ d # s
      BY <2>4, <2>5, <3>3
    <3> QED
      BY <3>1, <3>2, <3>3
  <2>11. PendingKept(a, Txns \ {txn}, Txns)
    <3>1. Recoverable(NoFile) = Gone
      BY DEF Recoverable, NoFile, Only
    <3>2. \A u \in Txns : Pending(u)' => u # txn /\ Pending(u) /\ plan'[u] = plan[u]
      BY <1>1, <1>2, <3>1 DEF Pending, Committed
    <3> QED
      BY <3>2 DEF PendingKept
  <2>12. Holds(a, w, Txns \ {txn}, d, i)
    BY <1>7, <2>1
  <2>13. Holds(a, v, Txns, d, i)'
    BY <2>9, <2>10, <2>11, <2>12, HoldsMoves
  <2>14. Holds(a, Present, Txns, d, i)'
    BY <2>1, <2>13 DEF Holds, Cuts
  <2> QED
    BY <1>4, <2>14 DEF Anchor
<1> QED
  BY <1>5, <1>6, <1>7 DEF Safe

\* The undo of a move keeps bringing its task back.
LEMMA ReturnsStep ==
    ASSUME KeepInv, [Next]_vars, NEW a \in Originals \ exposed, NEW m \in Txns
    PROVE  Returns(a, m)'
<1> SUFFICES ASSUME Live(a, m)', Moves(m, a)' PROVE Safe(a, Undone(m), Txns \ {m})'
  BY DEF Returns
<1>0. /\ CutInv /\ ControlInv /\ OrderInv /\ OfferInv /\ MemInv /\ UndoFileInv /\ FilesInv
      /\ NextInv /\ KeptInv /\ AnchorInv /\ TypeInv
  BY DEF KeepInv, CutInv
<1>1. PICK S \in SUBSET Txns : S = Txns \ {m}
  OBVIOUS
<1>2. ~MarkUndone
  BY <1>0, TransferConstants
     DEF MarkUndone, Return, Live, Undoable, TransferConstants, ControlInv, CutInv, OpInv, UndoSteps
<1>3. ASSUME Stashed(a, S) PROVE Safe(a, Undone(m), Txns \ {m})'
  <2>1. Stashed(a, S)'
    BY <1>0, <1>2, <1>3, StashStays
  <2>2. Stashed(a, Txns \ {m})'
    BY <1>1, <2>1 DEF Stashed
  <2> QED
    BY <2>2 DEF Safe
<1>4. ASSUME NEW d \in Docs, NEW i \in Ids, Holds(a, Undone(m), S, d, i)'
      PROVE  Safe(a, Undone(m), Txns \ {m})'
  <2>1. Holds(a, Undone(m), Txns \ {m}, d, i)'
    BY <1>1, <1>4 DEF Holds
  <2> QED
    BY <2>1 DEF Safe
<1>5. CASE Start(m)
  <2>1. plan[m] = Nil
    BY <1>5 DEF Start
  <2>2. Stashed(a, Txns) \/ \E d \in Docs, i \in Ids : Holds(a, Present, Txns, d, i)
    BY <1>0 DEF AnchorInv, Anchor
  <2>3. CASE Stashed(a, Txns)
    <3>1. Stashed(a, S)
      BY <1>1, <2>1, <2>3 DEF Stashed, Moves
    <3> QED
      BY <1>3, <3>1
  <2>4. ASSUME NEW d \in Docs, NEW i \in Ids, Holds(a, Present, Txns, d, i)
        PROVE  Safe(a, Undone(m), Txns \ {m})'
    BY <1>4, <1>5, <2>4, StartHolds
  <2> QED
    BY <2>2, <2>3, <2>4
<1>6. CASE Live(a, m) /\ plan'[m] = plan[m]
  <2>1. Moves(m, a) /\ Undoable(m)
    BY <1>6 DEF Moves, Live
  <2>2. Safe(a, Undone(m), S)
    BY <1>0, <1>1, <1>6, <2>1 DEF AnchorInv, Returns
  <2>3. PendingKept(a, S, S)
    <3>1. ASSUME pc = "log_target", txn # m, Moves(txn, a) PROVE FALSE
      <4>1. txn \in Txns /\ op = "transfer"
        BY <1>0, <3>1 DEF TypeInv, TypeOK, Planned, CutInv, OpInv, ControlInv, UndoSteps, CompleteSteps
      <4>2. m <= txn
        BY <1>0, <2>1, <4>1, UndoablePlanned DEF OrderInv
      <4>3. m < txn
        BY <3>1, <4>1, <4>2 DEF Txns
      <4> QED
        BY <1>6, <3>1, <4>1, <4>3 DEF Live, MovedAfter, Moves
    <3> QED
      BY <1>0, <1>1, <3>1, PendingStays
  <2>4. ASSUME NEW d \in Docs, NEW i \in Ids, Holds(a, Undone(m), S, d, i)
        PROVE  Safe(a, Undone(m), Txns \ {m})'
    <3>1. PICK w, v : w = Undone(m) /\ v = Undone(m)'
      OBVIOUS
    <3>2. Holds(a, w, S, d, i)
      BY <2>4, <3>1
    <3>3. \/ /\ d = plan[m].tgt \/ (d = plan[m].src /\ plan[m].kind = "Move")
             /\ v[d] = w[d]
          \/ /\ ~(d = plan[m].tgt \/ (d = plan[m].src /\ plan[m].kind = "Move"))
             /\ w[d] = Base(d) /\ v[d] = Base(d)'
      BY <1>6, <3>1, UndoneFollows
    <3>4. ASSUME SaveSwap, d = SavedDoc, v[d] # w[d]
          PROVE  pc = "save_target" \/ (pc = "save_source" /\ txn \in S)
      <4>1. /\ txn \in Txns /\ P = plan[txn] /\ pc \in SaveSteps
            /\ pc = "save_source" => d = P.src /\ P.kind = "Move"
            /\ pc = "restore_target" => d = P.tgt /\ op = "undo"
            /\ pc = "restore_source" => d = P.src /\ op = "undo" /\ P.kind = "Move"
        BY <1>0, <3>4, SaveFacts DEF SaveSwap, ControlInv, MoveSteps, SaveSteps
      <4>2. op = "undo" => txn = m
        BY <1>0, <2>1, UndoneLive DEF Undoable
      <4>3. txn = m => pc = "save_target"
        BY <3>3, <3>4, <4>1 DEF SaveSteps
      <4>4. pc \notin {"restore_target", "restore_source"}
        BY <4>1, <4>2, <4>3
      <4> QED
        BY <1>1, <4>1, <4>3, <4>4 DEF SaveSteps
    <3>5. Holds(a, v, S, d, i)'
      BY <2>3, <3>2, <3>3, <3>4, WorldMoves
    <3>6. Holds(a, Undone(m), S, d, i)'
      BY <3>1, <3>5 DEF Holds, Cuts
    <3> QED
      BY <1>4, <3>6
  <2>5. CASE Stashed(a, S)
    BY <1>3, <2>5
  <2> QED
    BY <2>2, <2>4, <2>5 DEF Safe
<1> QED
  BY <1>0, <1>5, <1>6, LiveMoves

-----------------------------------------------------------------------------
(* No task is lost, and an undo is complete                                *)

\* Every step keeps every task safe that it does not give up.
LEMMA AnchorStep == KeepInv /\ [Next]_vars => AnchorInv'
<1> SUFFICES ASSUME KeepInv, [Next]_vars, NEW a \in Originals \ exposed'
             PROVE  /\ Stashed(a, Txns)' \/ \E d \in Docs, i \in Ids : Anchor(a, d, i)'
                    /\ \A m \in Txns : Returns(a, m)'
  BY DEF AnchorInv
<1>0. /\ CutInv /\ ControlInv /\ OrderInv /\ OfferInv /\ MemInv /\ UndoFileInv /\ FilesInv
      /\ NextInv /\ KeptInv /\ AnchorInv /\ a \in Originals \ exposed
  BY ExposedGrows DEF KeepInv
<1>1. \A m \in Txns : Returns(a, m)'
  BY <1>0, ReturnsStep
<1>2. CASE Stashed(a, Txns)
  <2>1. CASE MarkUndone /\ Moves(txn, a)
    BY <1>0, <1>1, <2>1, AnchorRestored
  <2>2. CASE ~(MarkUndone /\ Moves(txn, a))
    <3>1. Stashed(a, Txns)'
      BY <1>0, <1>2, <2>2, StashStays
    <3> QED
      BY <1>1, <3>1
  <2> QED
    BY <2>1, <2>2
<1>3. ASSUME NEW d \in Docs, NEW i \in Ids, Anchor(a, d, i)
      PROVE  Stashed(a, Txns)' \/ \E k \in Docs, j \in Ids : Anchor(a, k, j)'
  <2>1. CASE LogSwap /\ pc = "log_target" /\ Moves(txn, a)
    BY <1>0, <1>3, <2>1, AnchorCommit
  <2>2. CASE SaveSwap /\ pc \in {"restore_target", "restore_source"} /\ Moves(txn, a)
    <3>1. txn \in Txns /\ op = "undo" /\ UNCHANGED <<plan, undo>> /\ ~MarkUndone
      BY <1>0, <2>2, SaveFacts, SwapEffect DEF SaveSteps, MarkUndone
    <3>2. undo[txn].record = "ready" /\ undo[txn].source # Gone
      BY <1>0, <2>2, <3>1, TransferConstants DEF UndoFileInv, Moves, TransferConstants
    <3>3. Stashed(a, Txns)
      BY <2>2, <3>1, <3>2 DEF Stashed
    <3> QED
      BY <1>0, <3>1, <3>3, StashStays
  <2>3. CASE /\ ~(LogSwap /\ pc = "log_target" /\ Moves(txn, a))
             /\ ~(SaveSwap /\ pc \in {"restore_target", "restore_source"} /\ Moves(txn, a))
    BY <1>0, <1>3, <2>3, AnchorKeeps
  <2> QED
    BY <2>1, <2>2, <2>3
<1> QED
  BY <1>0, <1>1, <1>2, <1>3 DEF AnchorInv

\* The invariant holds initially.
LEMMA KeepInit == Init => KeepInv
<1> SUFFICES ASSUME Init PROVE KeepInv
  OBVIOUS
<1>0. /\ CutInv /\ Nil \notin Txns /\ Gone \notin Content /\ InitDoc \in [Docs -> Content]
      /\ op = "none" /\ pc = "rest" /\ banner = Nil /\ asked = Nil /\ mem = {} /\ exposed = {}
      /\ \A t \in Txns : /\ plan[t] = Nil
                         /\ undo[t] = [target |-> Gone, source |-> Gone, record |-> Gone]
  BY CutInit, TransferConstants DEF TransferConstants, Init
<1>1. \A d \in Docs : Text(d) = InitDoc[d] /\ Text(d) \in Content
  BY <1>0 DEF Init, Text, Only, Recoverable
<1>2. \A m \in Txns : ~Undoable(m)
  BY <1>0 DEF Undoable
<1>3. ControlInv /\ MemInv /\ OrderInv /\ OfferInv
  BY <1>0 DEF ControlInv, MemInv, OrderInv, OfferInv, MoveSteps, AfterCommit
<1>4. UndoFileInv
  BY <1>0 DEF UndoFileInv
<1>5. FilesInv /\ NextInv /\ KeptInv
  BY <1>0, <1>1, <1>2 DEF FilesInv, NextInv, KeptInv, Floor, Moves, Live
<1>6. ASSUME NEW a \in Originals PROVE \E d \in Docs, i \in Ids : Anchor(a, d, i)
  <2>1. PICK d \in Docs, i \in Ids : InitDoc[d].at[i] = a
    BY DEF Originals, Held, TaskIds
  <2>2. Present[d].at[i] = a
    BY <1>0, <1>1, <2>1 DEF Present, Base
  <2>3. \A u \in Txns : ~Cuts(u, Present, d, i)
    BY <1>0 DEF Cuts, Pending
  <2> QED
    BY <1>2, <2>2, <2>3 DEF Anchor, Holds, Live
<1> QED
  BY <1>0, <1>2, <1>3, <1>4, <1>5, <1>6 DEF KeepInv, AnchorInv, Returns, Live

\* The invariant is inductive.
LEMMA KeepInductive == KeepInv /\ [Next]_vars => KeepInv'
BY CutInductive, ControlStep, OrderStep, OfferStep, MemStep, UndoFileStep, FilesStep, NextStep,
   KeptStep, AnchorStep
   DEF KeepInv

\* A task that an undo directory brings back is in the vault.
LEMMA VaultStashes ==
    ASSUME KeepInv, NEW a \in Originals, Stashed(a, Txns)
    PROVE  a \in Vault
<1>1. PICK u \in Txns : Moves(u, a) /\ undo[u].record = "ready" /\ undo[u].source # Gone
  BY DEF Stashed
<1>2. plan[u] \in Manifest /\ plan[u].sid \in Ids
  BY <1>1, ManifestTypes DEF Moves, KeepInv, CutInv, TypeInv, TypeOK
<1>3. undo[u].source = plan[u].srcFp /\ plan[u].srcFp.at[plan[u].sid] = a
  BY <1>1 DEF KeepInv, UndoFileInv, NextInv, Moves
<1>4. a \in Held(undo[u].source)
  BY <1>2, <1>3, NilNotOriginal DEF Held, TaskIds
<1> QED
  BY <1>1, <1>4 DEF Vault

\* A task that is anchored or stashed is in a document or in the vault.
LEMMA SafeSurvives == KeepInv => OriginalsSurvive
<1> SUFFICES ASSUME KeepInv, NEW a \in Originals \ exposed PROVE InADocument(a) \/ a \in Vault
  BY DEF OriginalsSurvive
<1>1. Stashed(a, Txns) \/ \E d \in Docs, i \in Ids : Holds(a, Present, Txns, d, i)
  BY DEF KeepInv, AnchorInv, Anchor
<1>2. CASE Stashed(a, Txns)
  BY <1>2, VaultStashes
<1>3. CASE ~Stashed(a, Txns)
  <2>1. PICK d \in Docs, i \in Ids : Base(d).at[i] = a
    BY <1>1, <1>3 DEF Holds, Present
  <2>2. Text(d).at[i] = a
    BY <2>1 DEF Base, KeepInv, KeptInv, Retains
  <2>3. a \in Held(Text(d))
    BY <2>2, NilNotOriginal DEF Held, TaskIds
  <2> QED
    BY <2>3 DEF InADocument
<1> QED
  BY <1>2, <1>3

\* Whatever crashes, fails, is recovered, completed, undone or edited meanwhile, no
\* task is lost, unless an undo out of order gave it up: some document holds it, or
\* the source backup of a pending undo.
THEOREM OriginalsAreSafe == Spec => []OriginalsSurvive
BY KeepInit, KeepInductive, SafeSurvives, PTL DEF Spec

\* An undo that is reported done has put the moved task back under its old id and
\* freed its id in the target for good.
LEMMA UndoStep ==
    ASSUME KeepInv, [Next]_vars, NEW t \in Txns,
           undo[t].record = "ready", undo'[t].record = "undone"
    PROVE  LET m == plan[t] IN
           /\ m.kind = "Move" /\ m.task \in Originals => docs[m.src].main.at[m.sid] = m.task
           /\ docs[m.tgt].main.at[m.tid] = Nil
           /\ docs[m.tgt].main.next > m.tid
<1>0. /\ CutInv /\ ControlInv /\ UndoFileInv /\ FilesInv /\ NextInv /\ KeptInv /\ TypeInv
      /\ undo \in [Txns -> [target : Content \cup {Gone}, source : Content \cup {Gone},
                            record : {"ready", "undone", Gone}]]
      /\ Gone # "undone"
  BY TransferConstants DEF KeepInv, CutInv, TypeInv, TypeOK, TransferConstants
<1>1. MarkUndone /\ t = txn
  <2>1. CASE WriteUndoFile
    <3>1. txn \in Txns /\ pc \in {"backup_target", "backup_source", "write_record"}
      BY <1>0, <2>1 DEF WriteUndoFile, TypeInv, TypeOK, Planned
    <3>2. t # txn => undo'[t] = undo[t]
      BY <1>0, <2>1, <3>1 DEF WriteUndoFile
    <3>3. t = txn => undo'[t].record \in {"ready", undo[t].record}
      BY <1>0, <2>1, <3>1 DEF WriteUndoFile
    <3> QED
      BY <3>2, <3>3
  <2>2. CASE MarkUndone
    BY <1>0, <2>2 DEF MarkUndone
  <2>3. CASE Cleanup
    <3>1. undo'[t] = undo[t] \/ undo'[t].record = Gone
      BY <1>0, <2>3 DEF Cleanup, fsVars
    <3> QED
      BY <1>0, <3>1
  <2>4. CASE ~(WriteUndoFile \/ MarkUndone \/ Cleanup)
    <3>1. undo' = undo
      BY <2>4 DEF Next, Engine, User, Environment, Revalidate, CheckSource, LogWrite, LogAside, LogSwap,
                LogFails, SaveWrite, SaveAside, SaveSwap, SaveFails, StageAssets, FileFails, Clean,
                RecoverOne, Reopen, Crash, StartScan, Dismiss, Start, CompleteMove, ClickUndo, Undo, ExternalAdd,
                ExternalDelete, Rewrite, vars, fsVars
    <3> QED
      BY <3>1
  <2> QED
    BY <2>1, <2>2, <2>3, <2>4
<1>2. /\ pc = "mark_undone" /\ P = plan[t] /\ P # Nil /\ P \in Manifest /\ op = "undo" /\ txn = t
  BY <1>0, <1>1 DEF MarkUndone, UndoSteps, CutInv, OpInv, ControlInv, TypeInv, TypeOK, Planned, P
<1>3. PICK m \in Manifest : m = P
  BY <1>2
<1>4. m.src \in Docs /\ m.tgt \in Docs /\ m.sid \in Ids /\ m.tid \in Nat
  BY ManifestTypes, Numbers
<1>5. docs[m.src].main # Gone /\ docs[m.tgt].main # Gone
  <2>1. Undoable(t) /\ pc \notin SaveSteps
    BY <1>2 DEF Undoable, SaveSteps
  <2> QED
    BY <1>0, <1>2, <1>3, <2>1 DEF FilesInv
<1>6. Text(m.src) = docs[m.src].main /\ Text(m.tgt) = docs[m.tgt].main
  BY <1>5 DEF Text, Recoverable
<1>7. m.srcFp.at[m.sid] = m.task
  BY <1>0, <1>2, <1>3 DEF NextInv
<1>8. m.kind = "Move" /\ m.task \in Originals => Text(m.src).at[m.sid] = m.task
  BY <1>0, <1>2, <1>3, <1>4, <1>7 DEF KeptInv, Retains
<1>9. m.tid < Text(m.tgt).next /\ Text(m.tgt).at[m.tid] = Nil
  BY <1>0, <1>2, <1>3 DEF KeptInv
<1>10. Text(m.tgt).next \in Nat
  BY <1>0, <1>4, Numbers DEF FilesInv
<1> QED
  BY <1>2, <1>3, <1>4, <1>6, <1>8, <1>9, <1>10

\* Every undo that is reported done is complete.
THEOREM UndoCompletes == Spec => UndoIsComplete
<1>1. KeepInv /\ [Next]_vars =>
         [\A t \in Txns :
            undo[t].record = "ready" /\ undo'[t].record = "undone"
            => LET m == plan[t] IN
               /\ m.kind = "Move" /\ m.task \in Originals => docs[m.src].main.at[m.sid] = m.task
               /\ docs[m.tgt].main.at[m.tid] = Nil
               /\ docs[m.tgt].main.next > m.tid]_vars
  BY UndoStep
<1> QED
  BY <1>1, KeepInit, KeepInductive, PTL DEF Spec, UndoIsComplete

-----------------------------------------------------------------------------
(* The refinement of TaskCustody                                           *)

\* The originals that a content holds are the ones that it has under an id.
LEMMA HeldOriginals ==
    ASSUME NEW a \in Originals, NEW c
    PROVE  a \in Held(c) <=> \E i \in Ids : c.at[i] = a
BY NilNotOriginal DEF Held, TaskIds

\* No step but the last call of a save changes which originals documents hold.
LEMMA HeldMoves ==
    ASSUME KeepInv, [Next]_vars, ~SaveSwap, NEW d \in Docs, NEW a \in Originals
    PROVE  a \in Held(Text(d))' <=> a \in Held(Text(d))
<1>0. CutInv /\ ControlInv /\ UndoFileInv /\ FilesInv
  BY DEF KeepInv
<1>1. PICK c, e : c = Text(d) /\ e = Text(d)'
  OBVIOUS
<1>2. /\ \A i \in Ids : c.at[i] \in Originals => e.at[i] = c.at[i]
      /\ \A i \in Ids : e.at[i] \in Originals => e.at[i] = c.at[i]
  BY <1>0, <1>1, TextEffects
<1>3. a \in Held(e) <=> a \in Held(c)
  BY <1>2, HeldOriginals
<1>4. Held(Text(d)) = Held(c) /\ Held(Text(d))' = Held(e)
  BY <1>1 DEF Held, TaskIds
<1> QED
  BY <1>3, <1>4

\* The vault gives tasks up only when an undo is marked done, and a save leaves it
\* as it is.
LEMMA VaultMoves ==
    ASSUME KeepInv, [Next]_vars
    PROVE  /\ ~MarkUndone => \A a : a \in Vault => a \in Vault'
           /\ MarkUndone => \A a : a \in Vault' => a \in Vault
           /\ SaveSwap => Vault' = Vault
<1>0. /\ CutInv /\ ControlInv /\ UndoFileInv /\ FilesInv /\ TypeInv
      /\ undo \in [Txns -> [target : Content \cup {Gone}, source : Content \cup {Gone},
                            record : {"ready", "undone", Gone}]]
  BY DEF KeepInv, CutInv, TypeInv, TypeOK
<1>1. \A u \in Txns : undo'[u].source = undo[u].source => Held(undo[u].source)' = Held(undo[u].source)
  BY DEF Held, TaskIds
<1>2. ASSUME NEW a, a \in Vault, ~MarkUndone PROVE a \in Vault'
  <2>1. PICK u \in Txns : /\ undo[u].record = "ready" /\ undo[u].source # Gone
                          /\ a \in Held(undo[u].source)
    BY <1>2 DEF Vault
  <2>2. undo'[u].record = "ready" /\ undo'[u].source = undo[u].source
    BY <1>0, <1>2, <2>1, StashMoves
  <2> QED
    BY <1>1, <2>1, <2>2 DEF Vault
<1>3. ASSUME NEW a, a \in Vault', MarkUndone PROVE a \in Vault
  <2>1. PICK u \in Txns : /\ undo'[u].record = "ready" /\ undo'[u].source # Gone
                          /\ a \in Held(undo[u].source)'
    BY <1>3 DEF Vault
  <2>2. undo[u].record = "ready" /\ undo'[u].source = undo[u].source
    BY <1>0, <1>3, <2>1 DEF MarkUndone
  <2> QED
    BY <1>1, <2>1, <2>2 DEF Vault
<1>4. ASSUME SaveSwap PROVE Vault' = Vault
  <2>1. undo' = undo
    BY <1>4 DEF SaveSwap
  <2> QED
    BY <2>1 DEF Vault, Held, TaskIds
<1> QED
  BY <1>2, <1>3, <1>4

\* Tasks are given up when an undo begins, and only then.
LEMMA ExposedMoves ==
    ASSUME [Next]_vars
    PROVE  exposed' = exposed \/ \E t \in Txns : Undo(t)
BY DEF Next, Engine, User, Environment, vars, Revalidate, CheckSource, LogWrite, LogAside, LogSwap,
       LogFails, StageAssets, WriteUndoFile, MarkUndone, FileFails, Clean, Cleanup, RecoverOne, Reopen,
       Crash, StartScan, Dismiss, Start, CompleteMove, ClickUndo, SaveWrite, SaveAside, SaveSwap,
       SaveFails, ExternalAdd, ExternalDelete, Rewrite

\* A step, as TaskCustody sees it.
LEMMA CustodyStep == KeepInv /\ [Next]_vars => [Custody!Next]_(Custody!vars)
<1> SUFFICES ASSUME KeepInv, [Next]_vars
             PROVE  Custody!Next \/ UNCHANGED Custody!vars
  OBVIOUS
<1>0. CutInv /\ ControlInv /\ UndoFileInv /\ FilesInv
  BY DEF KeepInv
<1>1. PICK h, k, v, w : /\ h = [d \in Docs |-> Held(Text(d)) \cap Originals]
                        /\ k = [d \in Docs |-> Held(Text(d)) \cap Originals]'
                        /\ v = Vault \cap Originals
                        /\ w = (Vault \cap Originals)'
  OBVIOUS
<1>2. PICK x, y : x = exposed \cap Originals /\ y = (exposed \cap Originals)'
  OBVIOUS
<1>3. \A a \in Originals \ y : a \in w \/ \E d \in Docs : a \in k[d]
  <2>1. OriginalsSurvive'
    BY KeepInductive, SafeSurvives, PTL
  <2> QED
    BY <1>1, <1>2, <2>1 DEF OriginalsSurvive, InADocument
<1>4. CASE SaveSwap
  <2>1. y = x
    BY <1>0, <1>4, <1>2, SwapEffect
  <2>2. w = v
    BY <1>1, <1>4, VaultMoves
  <2>3. PICK s \in Docs : s = SavedDoc
    BY <1>0, <1>4, SwapEffect, SaveFacts
  <2>4. \A d \in Docs \ {s} : Text(d)' = Text(d)
    BY <1>0, <1>4, <2>3, SwapEffect
  <2>5. \A d \in Docs \ {s} : Held(Text(d))' = Held(Text(d))
    BY <2>4 DEF Held, TaskIds
  <2>6. k = [h EXCEPT ![s] = k[s]] /\ k[s] \in SUBSET Originals
    BY <1>1, <2>3, <2>5
  <2>7. \A a \in h[s] \ (k[s] \cup x) : a \in v \/ \E e \in Docs \ {s} : a \in h[e]
    <3>1. h[s] \subseteq Originals /\ \A e \in Docs \ {s} : k[e] = h[e]
      BY <1>1, <2>5
    <3> QED
      BY <1>3, <2>2, <2>1, <3>1
  <2>8. Custody!Rewrite(s)
    BY <1>1, <1>2, <2>2, <2>6, <2>7, <2>1 DEF Custody!Rewrite
  <2> QED
    BY <2>8 DEF Custody!Next
<1>5. ASSUME NEW t \in Txns, Undo(t) PROVE Custody!Expose
  <2>1. UNCHANGED <<docs, undo>> /\ exposed' = exposed \cup MovedAfter(t)
    BY <1>5 DEF Undo, fsVars
  <2>2. k = h /\ w = v
    BY <1>1, <2>1 DEF Text, Vault, Held, TaskIds
  <2>3. PICK S : S = MovedAfter(t) \cap Originals
    OBVIOUS
  <2>4. S \in SUBSET Originals /\ y = x \cup S
    BY <1>2, <2>1, <2>3
  <2> QED
    BY <1>1, <1>2, <2>2, <2>4 DEF Custody!Expose
<1>6. CASE ~SaveSwap /\ ~\E t \in Txns : Undo(t)
  <2>1. y = x
    BY <1>6, <1>2, ExposedMoves
  <2>2. k = h
    BY <1>1, <1>6, HeldMoves
  <2>3. CASE MarkUndone
    <3>1. w \subseteq v /\ v \in SUBSET Originals
      BY <1>1, <2>3, VaultMoves
    <3>2. PICK S : S = v \ w
      OBVIOUS
    <3>3. S \in SUBSET v /\ w = v \ S /\ \A a \in S \ x : \E d \in Docs : a \in h[d]
      BY <1>3, <2>2, <2>1, <3>1, <3>2
    <3>4. Custody!Release
      BY <1>1, <1>2, <2>2, <2>1, <3>3 DEF Custody!Release
    <3> QED
      BY <3>4 DEF Custody!Next
  <2>4. CASE ~MarkUndone
    <3>1. v \subseteq w /\ w \in SUBSET Originals
      BY <1>1, <2>4, VaultMoves
    <3>2. w = v \cup w
      BY <3>1
    <3>3. Custody!Stash
      BY <1>1, <1>2, <2>2, <2>1, <3>1, <3>2 DEF Custody!Stash
    <3> QED
      BY <3>3 DEF Custody!Next
  <2> QED
    BY <2>3, <2>4
<1> QED
  BY <1>4, <1>5, <1>6 DEF Custody!Next

\* What the transfer engine, the recovery, the undo and other programs do to
\* documents and undo directories implements TaskCustody: documents are rewritten
\* without losing a task, the vault gives up only tasks that are in a document, and
\* a task is given up only when an undo begins out of order.
THEOREM TransfersKeepCustody == Spec => KeepsCustody
<1>1. Init => Custody!Init
  <2> SUFFICES ASSUME Init PROVE Custody!Init
    OBVIOUS
  <2>1. KeepInv /\ OriginalsSurvive
    BY KeepInit, SafeSurvives
  <2>2. Vault \cap Originals = {} /\ exposed \cap Originals = {} /\ exposed = {}
    BY TransferConstants DEF TransferConstants, Init, Vault
  <2>3. \A a \in Originals : \E d \in Docs : a \in Held(Text(d))
    BY <2>1, <2>2 DEF OriginalsSurvive, InADocument
  <2> QED
    BY <2>2, <2>3 DEF Custody!Init, Custody!NothingLost, Custody!Somewhere
<1> QED
  BY <1>1, KeepInit, KeepInductive, CustodyStep, PTL DEF Spec, KeepsCustody, Custody!Spec
=============================================================================
