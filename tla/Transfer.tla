------------------------------ MODULE Transfer ------------------------------
(***************************************************************************)
(* Copying and moving a task between documents: domain/transfer.rs,        *)
(* domain/transfer_journal.rs, commands/transfer.rs and the part of        *)
(* stores/transfer-store.ts that decides which command may be issued.      *)
(*                                                                         *)
(* The back-end runs one command at a time, so there is one thread of      *)
(* control (op, pc, txn, stage).  What it races with is the process being  *)
(* killed between any two file-system calls, calls that fail, and other    *)
(* programs that write the same documents.                                 *)
(*                                                                         *)
(* A task is a whole subtree: it is cloned, inserted and removed as one    *)
(* unit.  The fingerprint of a document is its content.                    *)
(***************************************************************************)
EXTENDS Naturals, DurableFile

CONSTANTS Docs,         \* documents of the workspace, each in its own directory
          Tasks,        \* task subtrees
          Attached,     \* the tasks that reference a managed attachment
          Deletable,    \* the tasks another program may delete
          InitDoc,      \* InitDoc[d]: content of d at first
          Nil,          \* "no task", "no plan", "no transaction"
          MaxId,        \* bound: task ids of a document
          MaxTxn,       \* bound: transfers of a behaviour
          MaxCrashes,   \* bound: crashes
          MaxFaults,    \* bound: failing file-system calls
          MaxEdits      \* bound: writes by other programs

Ids  == 1 .. MaxId
Txns == 1 .. MaxTxn

\* A document: the task behind every id, and NEXTUNIQUEID.
Content == [at : [Ids -> Tasks \cup {Nil}], next : 1 .. MaxId + 1]

Phases == {"Started", "AssetsStaged", "TargetCommitted",
           "SourceBackedUp", "SourceCommitted", "Completed"}

\* TransferJournalRecord, without the manifest: the phases recorded so far.
Record == [entries : SUBSET Phases]

\* The immutable manifest of a transaction; `task` and `copyAsset` stand for
\* the cloned subtree and its asset plan.
Manifest == [kind : {"Copy", "Move"}, src : Docs, tgt : Docs, task : Tasks,
             sid : Ids, tid : Ids, srcFp : Content, tgtFp : Content,
             copyAsset : BOOLEAN]

ASSUME TransferConstants ==
    /\ MaxId \in Nat \ {0}
    /\ MaxTxn \in Nat /\ MaxCrashes \in Nat /\ MaxFaults \in Nat /\ MaxEdits \in Nat
    /\ Nil \notin Tasks /\ Nil \notin Txns /\ Nil \notin Manifest
    /\ Gone \notin Content /\ Gone \notin Record /\ Gone \notin {"ready", "undone"}
    /\ Attached \subseteq Tasks /\ Deletable \subseteq Tasks
    /\ InitDoc \in [Docs -> Content]

VARIABLES
    docs,      \* docs[d]: the document file and its siblings
    journal,   \* journal[t]: the journal file of t and its siblings
    plan,      \* plan[t]: the manifest of t
    undo,      \* undo[t]: the directory transfer-undo/<t>
    assets,    \* <<d, a>>: the attachment of a is beside document d
    op, pc,    \* the running command and its next step
    txn,       \* the transaction it is about
    stage,     \* next file-system call of the write that pc names
    mem,       \* entries of the in-memory journal record
    todo,      \* journals the recovery scan has still to look at
    reported,  \* transactions shown to the user as "completed with duplicate"
    banner,    \* the transaction the result banner offers to undo
    asked,     \* the transaction whose undo the user asked for and is not begun yet
    exposed,   \* history: tasks whose move was followed by the undo of an older transaction
    crashes, faults, edits

fsVars     == <<docs, journal, undo, assets>>
threadVars == <<op, pc, txn, stage, mem, todo>>
uiVars     == <<reported, banner, asked>>
boundVars  == <<crashes, faults, edits>>
vars == <<fsVars, plan, threadVars, uiVars, exposed, boundVars>>

-----------------------------------------------------------------------------
(* Documents                                                               *)

TaskIds(c) == {i \in Ids : c.at[i] # Nil}
Held(c)    == {c.at[i] : i \in TaskIds(c)}
Originals  == (UNION {Held(InitDoc[d]) : d \in Docs}) \ Deletable

\* The allocator starts from max(declared NEXTUNIQUEID, largest id + 1), which
\* no task uses, and leaves NEXTUNIQUEID one above the id it returns.
Allocates(c, id) ==
    /\ c.next <= id
    /\ \A i \in TaskIds(c) : i < id
    /\ id = c.next \/ id - 1 \in TaskIds(c)

\* Mutant of Insert: NEXTUNIQUEID leaves a gap.
InsertWithGap(c, i, a) == [at |-> [c.at EXCEPT ![i] = a], next |-> i + 2]

Insert(c, i, a) == [at |-> [c.at EXCEPT ![i] = a], next |-> i + 1]
Remove(c, i)    == [c EXCEPT !.at[i] = Nil]

\* The document parses and contains the id.
Contains(d, i) == docs[d].main # Gone /\ i \in TaskIds(docs[d].main)

\* Mutant of RaiseNext: the backup is restored as it is.
KeepNext(c, floor) == c

\* bump_next_unique_id
RaiseNext(c, floor) == [c EXCEPT !.next = IF @ < floor THEN floor ELSE @]

-----------------------------------------------------------------------------
(* The steps of the three commands and the file each of them writes        *)

P == plan[txn]

LogSteps  == {"log_started", "log_staged", "log_target",
              "log_backup", "log_source", "log_completed"}
SaveSteps == {"save_target", "save_source", "restore_target", "restore_source"}
FileSteps == {"stage_assets", "backup_target", "backup_source", "write_record",
              "mark_undone"}
Steps     == LogSteps \cup SaveSteps \cup FileSteps
             \cup {"rest", "revalidate", "check_source", "clean", "cleanup"}

\* The phase that a log step records.
LoggedPhase ==
    CASE pc = "log_started"   -> "Started"
      [] pc = "log_staged"    -> "AssetsStaged"
      [] pc = "log_target"    -> "TargetCommitted"
      [] pc = "log_backup"    -> "SourceBackedUp"
      [] pc = "log_source"    -> "SourceCommitted"
      [] pc = "log_completed" -> "Completed"

\* Mutant of AfterRestore: an undo restores the target only.
AfterRestoreOfTarget == "mark_undone"

\* undo_transfer restores the source of a move, too, before the undo is done.
AfterRestore == IF P.kind = "Move" THEN "restore_source" ELSE "mark_undone"

\* The step after pc: execute_transfer_inner, commit_source_deletion,
\* complete_interrupted_move and undo_transfer read from top to bottom.
After ==
    CASE pc = "log_started"   -> "stage_assets"
      [] pc = "stage_assets"  -> "log_staged"
      [] pc = "log_staged"    -> "backup_target"
      [] pc = "backup_target" -> "save_target"
      [] pc = "save_target"   -> "log_target"
      [] pc = "log_target"    -> IF P.kind = "Move" THEN "backup_source" ELSE "write_record"
      [] pc = "backup_source" -> "log_backup"
      [] pc = "log_backup"    -> "check_source"
      [] pc = "save_source"   -> "log_source"
      [] pc = "log_source"    -> IF op = "complete" THEN "log_completed" ELSE "write_record"
      [] pc = "write_record"  -> "log_completed"
      [] pc = "log_completed" -> "clean"
      [] pc = "restore_target" -> AfterRestore
      [] pc = "restore_source" -> "mark_undone"
      [] OTHER                -> "rest"

SavedDoc == IF pc \in {"save_target", "restore_target"} THEN P.tgt ELSE P.src

SavedContent ==
    CASE pc = "save_target"    -> Insert(P.tgtFp, P.tid, P.task)
      [] pc = "save_source"    -> Remove(P.srcFp, P.sid)
      [] pc = "restore_target" -> RaiseNext(undo[txn].target, P.tid + 1)
      [] pc = "restore_source" -> undo[txn].source

-----------------------------------------------------------------------------
TypeOK ==
    /\ docs \in [Docs -> File(Content)]
    /\ journal \in [Txns -> File(Record)]
    /\ plan \in [Txns -> Manifest \cup {Nil}]
    /\ undo \in [Txns -> [target : Content \cup {Gone}, source : Content \cup {Gone},
                         record : {"ready", "undone", Gone}]]
    /\ assets \subseteq Docs \X Attached
    /\ op \in {"none", "transfer", "scan", "complete", "undo"}
    /\ pc \in Steps
    /\ txn \in Txns \cup {Nil}
    /\ stage \in {"write", "aside", "swap"}
    /\ mem \subseteq Phases
    /\ todo \subseteq Txns /\ reported \subseteq Txns /\ banner \in Txns \cup {Nil}
    /\ asked \in Txns \cup {Nil} /\ exposed \subseteq Tasks
    /\ crashes \in 0 .. MaxCrashes /\ faults \in 0 .. MaxFaults /\ edits \in 0 .. MaxEdits

Init ==
    /\ docs = [d \in Docs |-> Only(InitDoc[d])]
    /\ journal = [t \in Txns |-> NoFile]
    /\ plan = [t \in Txns |-> Nil]
    /\ undo = [t \in Txns |-> [target |-> Gone, source |-> Gone, record |-> Gone]]
    /\ assets = {p \in Docs \X Attached : p[2] \in Held(InitDoc[p[1]])}
    /\ op = "none" /\ pc = "rest" /\ txn = Nil /\ stage = "write"
    /\ mem = {} /\ todo = {}
    /\ reported = {} /\ banner = Nil /\ asked = Nil /\ exposed = {}
    /\ crashes = 0 /\ faults = 0 /\ edits = 0

\* Control moves to `next`, at the first call of its write.
Goto(next) == /\ pc' = next
              /\ stage' = "write"
              /\ UNCHANGED <<op, txn, todo>>

\* The running command returns.
Return == /\ op' = "none" /\ pc' = "rest" /\ txn' = Nil
          /\ stage' = "write" /\ mem' = {} /\ todo' = {}

\* The running command returns an error.  execute_transfer cleans up first, and
\* the result banner then shows a failure, which offers no undo.
Fail ==
    /\ IF op = "transfer"
       THEN Goto("cleanup") /\ banner' = Nil /\ UNCHANGED mem
       ELSE Return /\ UNCHANGED banner
    /\ UNCHANGED <<reported, asked>>

Fault == faults < MaxFaults /\ faults' = faults + 1 /\ UNCHANGED <<crashes, edits>>
NoFault == UNCHANGED boundVars

-----------------------------------------------------------------------------
(* Planning and the checks that touch no file                              *)

\* classify_asset, for a reference to a file beside the document: it is copied
\* when it exists and the target has none yet.
CopyRequired(s, d, a) == <<s, a>> \in assets /\ <<d, a>> \notin assets

\* plan_transfer, for task i of s, with the ids and fingerprints of the moment.
NewPlan(kind, s, d, i, id) ==
    LET moved == docs[s].main.at[i]
    IN [kind |-> kind, src |-> s, tgt |-> d, task |-> moved, sid |-> i, tid |-> id,
        srcFp |-> docs[s].main, tgtFp |-> docs[d].main,
        copyAsset |-> CopyRequired(s, d, moved)]

\* confirmTransfer: the user picks a task, a target document and copy or move.
Start(t) ==
    /\ op = "none"
    /\ plan[t] = Nil
    /\ \A u \in Txns : u < t => plan[u] # Nil
    /\ \E kind \in {"Copy", "Move"}, s, d \in Docs, i, id \in Ids :
        /\ s # d /\ docs[d].main # Gone
        /\ Contains(s, i)
        /\ Allocates(docs[d].main, id)
        /\ plan' = [plan EXCEPT ![t] = NewPlan(kind, s, d, i, id)]
    /\ op' = "transfer" /\ pc' = "revalidate" /\ txn' = t
    /\ UNCHANGED <<fsVars, stage, mem, todo, uiVars, exposed, boundVars>>

\* execute_transfer_inner re-reads both documents before its first side effect.
Revalidate ==
    /\ pc = "revalidate"
    /\ IF docs[P.src].main = P.srcFp /\ docs[P.tgt].main = P.tgtFp
       THEN Goto("log_started") /\ UNCHANGED <<mem, uiVars>>
       ELSE Fail
    /\ UNCHANGED <<fsVars, plan, exposed, boundVars>>

\* Mutants of MayCutSource: without the fingerprint, without the gate.
MayCutEditedSource(x, entries) ==
    "TargetCommitted" \in entries /\ docs[plan[x].src].main # Gone

MayCutUnprovedSource(x, entries) ==
    docs[plan[x].src].main = plan[x].srcFp

\* commit_source_deletion: durable proof of the target commit, and a source
\* that is still the document the plan was made from.
MayCutSource(x, entries) ==
    /\ "TargetCommitted" \in entries
    /\ docs[plan[x].src].main = plan[x].srcFp

CheckSource ==
    /\ pc = "check_source"
    /\ IF MayCutSource(txn, mem)
       THEN Goto("save_source") /\ UNCHANGED <<mem, uiVars>>
       ELSE Fail
    /\ UNCHANGED <<fsVars, plan, exposed, boundVars>>

-----------------------------------------------------------------------------
(* Journal appends: durable_write                                          *)

SetJournal(f) == journal' = [journal EXCEPT ![txn] = f]

LogWrite ==
    /\ pc \in LogSteps /\ stage = "write"
    /\ SetJournal(WriteTemp(journal[txn], [entries |-> mem \cup {LoggedPhase}]))
    /\ stage' = "aside"
    /\ UNCHANGED <<docs, undo, assets, plan, exposed, op, pc, txn, mem, todo, uiVars, boundVars>>

LogAside ==
    /\ pc \in LogSteps /\ stage = "aside"
    /\ SetJournal(SetAsideIfPresent(journal[txn]))
    /\ stage' = "swap"
    /\ UNCHANGED <<docs, undo, assets, plan, exposed, op, pc, txn, mem, todo, uiVars, boundVars>>

LogSwap ==
    /\ pc \in LogSteps /\ stage = "swap"
    /\ SetJournal(Swap(journal[txn]))
    /\ mem' = mem \cup {LoggedPhase}
    /\ Goto(After)
    /\ UNCHANGED <<docs, undo, assets, plan, exposed, uiVars, boundVars>>

LogFails ==
    /\ pc \in LogSteps /\ stage \in {"write", "swap"}
    /\ SetJournal(IF stage = "swap" THEN PutBack(journal[txn]) ELSE journal[txn])
    /\ Fault /\ Fail
    /\ UNCHANGED <<docs, undo, assets, plan, exposed>>

-----------------------------------------------------------------------------
(* Document saves: atomic_save.  The removal of the backup is part of the  *)
(* swap: nothing reads a backup while the document is there.               *)

SetDoc(f) == docs' = [docs EXCEPT ![SavedDoc] = f]

SaveWrite ==
    /\ pc \in SaveSteps /\ stage = "write"
    /\ SetDoc(WriteTemp(docs[SavedDoc], SavedContent))
    /\ stage' = "aside"
    /\ UNCHANGED <<journal, undo, assets, plan, exposed, op, pc, txn, mem, todo, uiVars, boundVars>>

SaveAside ==
    /\ pc \in SaveSteps /\ stage = "aside"
    /\ SetDoc(SetAside(docs[SavedDoc]))
    /\ stage' = "swap"
    /\ UNCHANGED <<journal, undo, assets, plan, exposed, op, pc, txn, mem, todo, uiVars, boundVars>>

SaveSwap ==
    /\ pc \in SaveSteps /\ stage = "swap"
    /\ SetDoc(DropBackup(Swap(docs[SavedDoc])))
    /\ Goto(After)
    /\ UNCHANGED <<journal, undo, assets, plan, exposed, mem, uiVars, boundVars>>

SaveFails ==
    /\ pc \in SaveSteps /\ stage \in {"write", "aside", "swap"}
    /\ SetDoc(CASE stage = "write" -> docs[SavedDoc]
                [] stage = "aside" -> DropBackup(docs[SavedDoc])
                [] stage = "swap"  -> PutBack(docs[SavedDoc]))
    /\ Fault /\ Fail
    /\ UNCHANGED <<journal, undo, assets, plan, exposed>>

-----------------------------------------------------------------------------
(* The other files of a transaction                                        *)

\* stage_asset, for an attachment that was there when the plan was made.
StageAssets ==
    /\ pc = "stage_assets"
    /\ assets' = IF P.copyAsset THEN assets \cup {<<P.tgt, P.task>>} ELSE assets
    /\ Goto(After)
    /\ UNCHANGED <<docs, journal, undo, plan, exposed, mem, uiVars, boundVars>>

\* write_durable of target.before.xml, source.before.xml and undo.json.
WriteUndoFile ==
    /\ pc \in {"backup_target", "backup_source", "write_record"}
    /\ undo' = [undo EXCEPT ![txn] =
          CASE pc = "backup_target" -> [@ EXCEPT !.target = P.tgtFp]
            [] pc = "backup_source" -> [@ EXCEPT !.source = P.srcFp]
            [] pc = "write_record"  -> [@ EXCEPT !.record = "ready"]]
    /\ Goto(After)
    /\ UNCHANGED <<docs, journal, assets, plan, exposed, mem, uiVars, boundVars>>

\* The record is marked undone, and the result banner goes away, whatever
\* transaction it is about by now.
MarkUndone ==
    /\ pc = "mark_undone"
    /\ undo' = [undo EXCEPT ![txn].record = "undone"]
    /\ banner' = Nil
    /\ Return
    /\ UNCHANGED <<docs, journal, assets, plan, exposed, reported, asked, boundVars>>

FileFails ==
    /\ pc \in FileSteps
    /\ Fault /\ Fail
    /\ UNCHANGED <<fsVars, plan, exposed>>

\* journal.remove, and the command succeeds: the banner offers to undo a
\* transfer; a completed interrupted move leaves the recovery panel.
Clean ==
    /\ pc = "clean"
    /\ SetJournal(NoFile)
    /\ banner' = IF op = "transfer" THEN txn ELSE banner
    /\ reported' = reported \ {txn}
    /\ Return
    /\ UNCHANGED <<docs, undo, assets, plan, exposed, asked, boundVars>>

\* The removal of staged assets by hash, and of the journal.
RollBack(x) ==
    /\ assets' = IF plan[x].copyAsset THEN assets \ {<<plan[x].tgt, plan[x].task>>} ELSE assets
    /\ journal' = [journal EXCEPT ![x] = NoFile]

\* Mutant of TargetHasIt: the journal alone is trusted.
TargetLogged(x, entries) == "TargetCommitted" \in entries

\* Is there proof, in the journal or in the target, of a target commit?
TargetHasIt(x, entries) ==
    \/ "TargetCommitted" \in entries
    \/ Contains(plan[x].tgt, plan[x].tid)

\* cleanup_failed_pre_commit
Cleanup ==
    /\ pc = "cleanup"
    /\ LET record == Recoverable(journal[txn])
       IN IF record = Gone \/ TargetHasIt(txn, record.entries)
          THEN UNCHANGED fsVars
          ELSE /\ RollBack(txn)
               /\ undo' = [undo EXCEPT ![txn] =
                             [target |-> Gone, source |-> Gone, record |-> Gone]]
               /\ UNCHANGED docs
    /\ Return
    /\ UNCHANGED <<plan, exposed, uiVars, boundVars>>

-----------------------------------------------------------------------------
(* Recovery, and the commands it leads to                                  *)

\* scan_journal_dir lists the primary journal files only.
Listed == {t \in Txns : journal[t].main # Gone}

\* The workspace is opened (again): the interface forgets its reports and
\* starts a recovery scan before the user can issue another command.
StartScan ==
    /\ op' = IF Listed = {} THEN "none" ELSE "scan"
    /\ todo' = Listed
    /\ pc' = "rest" /\ txn' = Nil /\ stage' = "write" /\ mem' = {}
    /\ reported' = {} /\ banner' = Nil
    /\ UNCHANGED <<fsVars, plan, exposed>>

Reopen == op = "none" /\ StartScan /\ UNCHANGED asked /\ NoFault

Crash ==
    /\ op # "none"
    /\ crashes < MaxCrashes
    /\ crashes' = crashes + 1
    /\ StartScan
    /\ asked' = Nil
    /\ UNCHANGED <<faults, edits>>

\* Nothing is left to do for t: a copy whose target is committed, or a move
\* whose source is, too.
Finished(t, entries) ==
    \/ "Completed" \in entries
    \/ /\ TargetHasIt(t, entries)
       /\ \/ plan[t].kind = "Copy"
          \/ ~Contains(plan[t].src, plan[t].sid) /\ "SourceCommitted" \in entries

\* Mutant of KeepDuplicate: the user is not told.
KeepDuplicateSilently(t) == UNCHANGED <<reported, journal, assets>>

\* The journal stays as evidence, and the user is told.
KeepDuplicate(t) ==
    /\ reported' = reported \cup {t}
    /\ UNCHANGED <<journal, assets>>

\* Mutant of TakeNext: a journal that is kept is scanned again.
TakeNextUnlessKept(t) ==
    /\ todo' = IF journal'[t] = NoFile THEN todo \ {t} ELSE todo
    /\ op' = IF todo' = {} THEN "none" ELSE "scan"

\* The loop of recover_interrupted_transfers.
TakeNext(t) ==
    /\ todo' = todo \ {t}
    /\ op' = IF todo = {t} THEN "none" ELSE "scan"

\* recover_one.  Its appends are followed by the removal of the journal.
RecoverOne(t) ==
    /\ op = "scan" /\ t \in todo
    /\ LET entries == journal[t].main.entries
       IN \/ /\ Finished(t, entries)
             /\ journal' = [journal EXCEPT ![t] = NoFile]
             /\ UNCHANGED <<assets, reported>>
          \/ /\ "Completed" \notin entries /\ ~TargetHasIt(t, entries)
             /\ RollBack(t)
             /\ UNCHANGED reported
          \/ /\ TargetHasIt(t, entries) /\ ~Finished(t, entries)
             /\ KeepDuplicate(t)
    /\ TakeNext(t)
    /\ UNCHANGED <<docs, undo, plan, exposed, pc, txn, stage, mem, banner, asked, boundVars>>

\* complete_interrupted_move, up to the atomic save of the source.
CompleteMove(t) ==
    /\ op = "none" /\ t \in reported
    /\ Recoverable(journal[t]) # Gone
    /\ plan[t].kind = "Move"
    /\ MayCutSource(t, Recoverable(journal[t]).entries)
    /\ op' = "complete" /\ pc' = "save_source" /\ txn' = t
    /\ mem' = Recoverable(journal[t]).entries
    /\ UNCHANGED <<fsVars, plan, exposed, stage, todo, uiVars, boundVars>>

\* The undo button of the result banner, which stays enabled while another
\* transfer runs: the transaction is read at the click.  undoBusy admits one
\* request at a time.
ClickUndo(t) ==
    /\ banner = t /\ asked = Nil /\ op # "undo"
    /\ asked' = t
    /\ UNCHANGED <<fsVars, plan, exposed, threadVars, reported, banner, boundVars>>

\* The tasks that transfers newer than t have moved, or tried to.
MovedAfter(t) == {plan[u].task : u \in {v \in Txns : /\ t < v /\ plan[v] # Nil
                                                   /\ plan[v].kind = "Move"}}

\* undo_transfer of the transaction that was clicked, up to the atomic save of the
\* target.  Newer transfers may have run since the click.
Undo(t) ==
    /\ op = "none" /\ asked = t
    /\ undo[t].record = "ready" /\ undo[t].target # Gone
    /\ op' = "undo" /\ pc' = "restore_target" /\ txn' = t
    /\ asked' = Nil
    /\ exposed' = exposed \cup MovedAfter(t)
    /\ UNCHANGED <<fsVars, plan, stage, mem, todo, reported, banner, boundVars>>

\* The user closes the result banner, or decides to keep a duplicate.
Dismiss ==
    /\ op = "none"
    /\ \/ banner' = Nil /\ UNCHANGED reported
       \/ \E t \in reported : reported' = reported \ {t} /\ UNCHANGED banner
    /\ UNCHANGED <<fsVars, plan, exposed, threadVars, asked, boundVars>>

-----------------------------------------------------------------------------
(* Another program writes a document, at any time.                         *)

Rewrite(d, c) ==
    /\ edits < MaxEdits
    /\ edits' = edits + 1
    /\ docs' = [docs EXCEPT ![d].main = c]
    /\ UNCHANGED <<journal, undo, assets, plan, exposed, threadVars, uiVars, crashes, faults>>

ExternalAdd(d) ==
    /\ docs[d].main # Gone
    /\ \E id \in Ids, a \in Tasks \ (Originals \cup Deletable) :
        /\ Allocates(docs[d].main, id)
        /\ Rewrite(d, Insert(docs[d].main, id, a))

ExternalDelete(d) ==
    /\ docs[d].main # Gone
    /\ \E i \in TaskIds(docs[d].main) :
        /\ docs[d].main.at[i] \in Deletable
        /\ Rewrite(d, Remove(docs[d].main, i))

-----------------------------------------------------------------------------
Engine ==
    \/ Revalidate \/ CheckSource
    \/ LogWrite \/ LogAside \/ LogSwap \/ LogFails
    \/ SaveWrite \/ SaveAside \/ SaveSwap \/ SaveFails
    \/ StageAssets \/ WriteUndoFile \/ MarkUndone \/ FileFails
    \/ Clean \/ Cleanup
    \/ \E t \in Txns : RecoverOne(t)

User == \/ Reopen \/ Dismiss
        \/ \E t \in Txns : Start(t) \/ CompleteMove(t) \/ ClickUndo(t) \/ Undo(t)

Environment == Crash \/ \E d \in Docs : ExternalAdd(d) \/ ExternalDelete(d)

Next == Engine \/ User \/ Environment

\* A command that runs goes on running; nobody has to issue one.
Spec == Init /\ [][Next]_vars /\ WF_vars(Engine)

-----------------------------------------------------------------------------
(* Properties                                                              *)

\* What a reader of document d finds, the backup included.
Text(d) == Recoverable(docs[d])

InADocument(a) == \E d \in Docs : a \in Held(Text(d))

\* The source backup of a move that is not (completely) undone.
Vault == UNION {Held(undo[t].source) : t \in {u \in Txns : /\ undo[u].record = "ready"
                                                         /\ undo[u].source # Gone}}

\* No crash, failed write, recovery, completion or undo makes a task vanish: it
\* is in some document, or in the source backup of a move whose undo is pending.
\* The exception: an undo that was clicked before newer transfers ran writes over
\* their documents what they held before it, and the tasks that those transfers
\* moved may be lost by then, or when such a move is completed after it.
OriginalsSurvive == \A a \in Originals \ exposed : InADocument(a) \/ a \in Vault

\* No transfer and no completion takes an original task out of a document, except
\* the moved task out of its source, and then TargetCommitted is on disk already:
\* neither a source that was edited meanwhile nor a skipped append costs a task.
SourceCutIsProved ==
    [][\A d \in Docs, i \in Ids :
        /\ op \in {"transfer", "complete"}
        /\ Text(d).at[i] \in Originals
        /\ Text(d)'.at[i] # Text(d).at[i]
        => /\ d = P.src /\ i = P.sid
           /\ "TargetCommitted" \in Recoverable(journal[txn]).entries]_vars

\* Source and target of t both hold a task under the ids of its plan.
Duplicate(t) == Contains(plan[t].src, plan[t].sid) /\ Contains(plan[t].tgt, plan[t].tid)

\* The journal of a move goes away only when the duplicate is resolved: no error
\* path and no recovery removes the only evidence of one.
JournalOutlivesDuplicate ==
    [][\A t \in Txns :
        /\ Recoverable(journal[t]) # Gone /\ Recoverable(journal'[t]) = Gone
        /\ plan[t].kind = "Move"
        => ~Duplicate(t)]_vars

\* When an undo is reported done, the moved task is back under its old id, the
\* id it had in the target is free, and the target will not give it out again.
UndoIsComplete ==
    [][\A t \in Txns :
        undo[t].record = "ready" /\ undo'[t].record = "undone"
        => LET m == plan[t] IN
           /\ m.kind = "Move" /\ m.task \in Originals => docs[m.src].main.at[m.sid] = m.task
           /\ docs[m.tgt].main.at[m.tid] = Nil
           /\ docs[m.tgt].main.next > m.tid]_vars

\* The tasks that nobody outside the program deletes are never lost, but for those
\* exposed by an undo out of order.
Custody == INSTANCE TaskCustody WITH
    held  <- [d \in Docs |-> Held(Text(d)) \cap Originals],
    vault <- Vault \cap Originals,
    exposed <- exposed \cap Originals
KeepsCustody == Custody!Spec

\* A command that was started ends, and a journal the recovery scan looks at is
\* removed or shown to the user, whatever fails or crashes on the way.
CommandsEnd == (op # "none") ~> (op = "none")

RecoverySettles ==
    \A t \in Txns : (t \in todo) ~> (journal[t] = NoFile \/ t \in reported)

-----------------------------------------------------------------------------
(* What documents and comments say of the program and its code does not do *)

\* TRANSFER_DESIGN.md: "A task must NEVER be lost. An interrupted transfer must
\* leave a DUPLICATE rather than a loss."  Undoing a move takes the task out of
\* the target first; a crash before the source is restored leaves it in no
\* document, and the banner that could resume the undo is gone.
NeverLost == op = "none" /\ banner = Nil => \A a \in Originals : InADocument(a)

\* transfer.rs, undo_transfer: "NEXTUNIQUEID never regresses (IDs are not
\* recycled)."  What an undo writes over a document has that document's
\* NEXTUNIQUEID or a larger one.
NextUniqueIdNeverRegresses ==
    [][op = "undo" /\ stage = "write" /\ stage' = "aside"
        => docs'[SavedDoc].tmp.next >= Text(SavedDoc).next]_vars

\* transfer.rs, recover_interrupted_transfers: "Only removes staged asset copies
\* when the target provably never committed".  A task that a document holds
\* keeps its attachment beside the document.
AttachmentInUseStays ==
    [][\A d \in Docs, a \in Attached :
        /\ docs[d].main # Gone /\ a \in Held(docs[d].main)
        /\ <<d, a>> \in assets
        => <<d, a>> \in assets']_vars

\* transfer_journal.rs, create: "the transaction is discoverable by recovery from
\* the very first moment".  Between the two renames of a later append only the
\* .bak file exists, which the scan does not list.
JournalIsDiscoverable ==
    op = "none" => \A t \in Txns : Recoverable(journal[t]) # Gone => t \in Listed
=============================================================================
