------------------------------ MODULE Editing -------------------------------
(***************************************************************************)
(* Editing one open document: commands/task_edit.rs, the commands of       *)
(* commands/relations.rs, undo and redo of commands/session.rs, the        *)
(* UndoRedoManager of domain/command.rs and the revisions of               *)
(* domain/session.rs.                                                      *)
(*                                                                         *)
(* Every command holds the lock on the sessions, so each is one step.      *)
(***************************************************************************)
EXTENDS EditCommands

CONSTANTS InitTree,    \* the documents that may be opened
          MaxId,       \* bound: task ids
          MaxHistory,  \* max_history, 100 in the code
          MaxEdits,    \* bound: commands other than undo, redo and save
          Names,       \* participants
          OtherDocs    \* documents an external dependency may name

Ids == 1 .. MaxId

VARIABLES
    tree,        \* the session's TaskTree
    source,      \* the document as it was parsed when it was opened
    undoStack,   \* UndoRedoManager
    redoStack,
    dirty,       \* DocumentSession: current_revision # saved_revision
    edits        \* counted against MaxEdits

stacks == <<undoStack, redoStack>>
vars == <<tree, source, stacks, dirty, edits>>

-----------------------------------------------------------------------------
(* Dependencies                                                            *)

\* The local edges of task i, dangling ones included (DependencyGraph::from_tree).
LocalTargets(t, i) ==
    IF i \in TaskIds(t) THEN {d.on : d \in {e \in ToSet(t.task[i].deps) : e.doc = Here}} ELSE {}

\* find_path: b is reached from a over at least one edge.
Reaches(t, a, b) ==
    \A S \in SUBSET Ids :
        /\ LocalTargets(t, a) \subseteq S
        /\ \A i \in S : LocalTargets(t, i) \subseteq S
        => b \in S

\* Mutant of EdgeAllowed: the path is sought in the wrong direction.
EdgeAllowedBackwards(t, source_, target) ==
    /\ source_ \in TaskIds(t) /\ target \in TaskIds(t)
    /\ source_ # target
    /\ ~Reaches(t, source_, target)

\* validate_edge.
EdgeAllowed(t, source_, target) ==
    /\ source_ \in TaskIds(t) /\ target \in TaskIds(t)
    /\ source_ # target
    /\ ~Reaches(t, target, source_)

Acyclic(t) == \A i \in TaskIds(t) : ~Reaches(t, i, i)

-----------------------------------------------------------------------------
(* The document file                                                       *)

\* write_task into the element that the task had when the document was opened:
\* what the application does not know stays on it, and the typed participants
\* are not written.
WrittenTask(k, i) ==
    [k EXCEPT !.people = {},
              !.extra = IF i \in TaskIds(source) THEN source.task[i].extra ELSE None]

\* Mutant of Written: the nested tasks are left out.
WrittenRoots(t) ==
    [roots |-> t.roots,
     task  |-> [i \in ToSet(t.roots) |-> WrittenTask(t.task[i], i)]]

\* serialize_task_tree walks the tree down from the roots.
Written(t) ==
    [roots |-> t.roots,
     task  |-> [i \in UNION {Below(t, r) : r \in ToSet(t.roots)} |-> WrittenTask(t.task[i], i)]]

\* read_task: the participants mirror ALLOCATEDTO.
ReadTask(k) == [k EXCEPT !.people = k.owners]

\* extract_tasks_for_session.
ReadBack(d) == [d EXCEPT !.task = [i \in TaskIds(d) |-> ReadTask(d.task[i])]]

-----------------------------------------------------------------------------
(* The undo manager and the session                                        *)

\* Mutant of Remember: the limit is checked before the command is pushed.
RememberOneMore(stack, c) ==
    Append(IF Len(stack) > MaxHistory THEN Tail(stack) ELSE stack, c)

\* UndoRedoManager::execute drops the oldest command above the limit.
Remember(stack, c) ==
    LET s == Append(stack, c) IN IF Len(s) > MaxHistory THEN Tail(s) ELSE s

\* record_mutation: the revision moves ahead of the saved one.
Mutated == dirty' = TRUE /\ UNCHANGED source

\* Runs a new command; refresh is what the caller does to the tree afterwards.
RunThen(c, refresh(_)) ==
    /\ edits < MaxEdits
    /\ tree' = refresh(Execute(c, tree))
    /\ undoStack' = Remember(undoStack, Executed(c, tree))
    /\ redoStack' = <<>>
    /\ Mutated
    /\ edits' = edits + 1

Run(c) == RunThen(c, LAMBDA t : t)

Command(kind, id, arg) == [kind |-> kind, task |-> id, arg |-> arg, was |-> None]

-----------------------------------------------------------------------------
(* The commands                                                            *)

Init ==
    /\ tree \in InitTree
    /\ source = tree
    /\ undoStack = <<>> /\ redoStack = <<>>
    /\ dirty = TRUE
    /\ edits = 0

\* add_task, quick_add_task: an id is given and free, or allocated; the new
\* task becomes the last child.
AddsTask(id, parent) ==
    /\ id \in Ids \ TaskIds(tree)
    /\ parent \in TaskIds(tree) \cup {NoTask}
    /\ Run(Command("add", id, [new |-> BlankTask, parent |-> parent,
                               pos |-> Len(Siblings(tree, parent))]))

CreateTask == \E p \in Ids \cup {NoTask} : AddsTask(FreshId(tree), p)

CreateTaskWithKey == \E i \in Ids, p \in Ids \cup {NoTask} : AddsTask(i, p)

DeleteTask == \E i \in TaskIds(tree) : Run(Command("delete", i, None))

\* update_task_field, set_task_tags.
UpdateField ==
    \E i \in TaskIds(tree),
       fv \in {<<"title", "new">>, <<"note", "empty">>, <<"note", "text">>, <<"due", None>>} :
        Run(Command("field", i, [field |-> fv[1], value |-> fv[2]]))

\* update_task_field of "completed_date".
CompleteTask == \E i \in TaskIds(tree) : Run(Command("complete", i, "monday"))

\* update_task_field of "allocated_to": the mirror is refreshed by the caller,
\* outside the command.
UpdateOwners ==
    \E i \in TaskIds(tree), n \in SUBSET Names :
        RunThen(Command("field", i, [field |-> "owners", value |-> n]),
                LAMBDA t : Edited(t, i, LAMBDA k : [k EXCEPT !.people = k.owners]))

\* add_participant; remove_participant does not ask whether there is one.
AddParticipant ==
    \E i \in TaskIds(tree), n \in Names, role \in {"to", "by"} :
        Run(Command("role", i, [role |-> role, name |-> n, add |-> TRUE]))

RemoveParticipant ==
    \E i \in TaskIds(tree), n \in Names, role \in {"to", "by"} :
        Run(Command("role", i, [role |-> role, name |-> n, add |-> FALSE]))

\* add_dependency within the document.
AddDependency ==
    \E i \in TaskIds(tree), j \in Ids :
        /\ EdgeAllowed(tree, i, j)
        /\ Run(Command("depend", i, Dep(Here, j)))

\* add_dependency on a task of another document, which nobody looks up.
AddExternalDependency ==
    \E i \in TaskIds(tree), j \in Ids, d \in OtherDocs :
        Run(Command("depend", i, Dep(d, j)))

\* remove_dependency: both tasks must be in this document, so a dangling edge
\* stays.
RemoveDependency ==
    \E i \in TaskIds(tree), j \in TaskIds(tree) :
        /\ \E e \in ToSet(tree.task[i].deps) : e.on = j
        /\ Run(Command("undepend", i, j))

\* add_progress_link; the id is a fresh uuid.
AddLink ==
    \E i \in TaskIds(tree) :
        Run(Command("link", i, [op |-> "add", link |-> [id |-> edits + 1, url |-> "site"]]))

\* update_progress_link keeps the id.
UpdateLink ==
    \E i \in TaskIds(tree) : \E l \in ToSet(tree.task[i].links) :
        Run(Command("link", i, [op |-> "update", id |-> l.id,
                                link |-> [id |-> l.id, url |-> "moved"]]))

RemoveLink ==
    \E i \in TaskIds(tree) : \E l \in ToSet(tree.task[i].links) :
        Run(Command("link", i, [op |-> "remove", id |-> l.id]))

\* add_managed_attachment, link_local_attachment, add_url_attachment.
AddAttachment ==
    \E i \in TaskIds(tree) :
        Run(Command("attachment", i,
            [op |-> "add", att |-> [id |-> edits + 1, path |-> "file", name |-> "file"]]))

\* update_attachment.
RenameAttachment ==
    \E i \in TaskIds(tree) : \E a \in ToSet(tree.task[i].atts) :
        Run(Command("attachment", i, [op |-> "rename", id |-> a.id, name |-> "renamed"]))

\* remove_attachment.
RemoveAttachment ==
    \E i \in TaskIds(tree) : \E a \in ToSet(tree.task[i].atts) :
        Run(Command("attachment", i, [op |-> "remove", id |-> a.id]))

\* undo and redo of the session; with nothing to undo nothing is recorded.
UndoCommand ==
    /\ undoStack # <<>>
    /\ LET c == Last(undoStack)
       IN  /\ tree' = Undo(c, tree)
           /\ redoStack' = Append(redoStack, c)
    /\ undoStack' = Front(undoStack)
    /\ Mutated
    /\ UNCHANGED edits

RedoCommand ==
    /\ redoStack # <<>>
    /\ LET c == Last(redoStack)
       IN  /\ tree' = Execute(c, tree)
           /\ undoStack' = Append(undoStack, Redone(c, tree))
    /\ redoStack' = Front(redoStack)
    /\ Mutated
    /\ UNCHANGED edits

\* save_document, when it succeeds: it writes Written(tree) and keeps both the
\* history and the document as it was parsed.  AtomicSave has the file-system
\* calls, Sessions what the file has to do with the tree.
Save ==
    /\ dirty' = FALSE
    /\ UNCHANGED <<tree, source, stacks, edits>>

Edit ==
    \/ CreateTask \/ CreateTaskWithKey \/ DeleteTask
    \/ UpdateField \/ CompleteTask \/ UpdateOwners \/ AddParticipant \/ RemoveParticipant
    \/ AddDependency \/ AddExternalDependency \/ RemoveDependency
    \/ AddLink \/ UpdateLink \/ RemoveLink
    \/ AddAttachment \/ RenameAttachment \/ RemoveAttachment

Next == Edit \/ UndoCommand \/ RedoCommand \/ Save

Spec == Init /\ [][Next]_vars

-----------------------------------------------------------------------------
(* Properties                                                              *)

Task ==
    [children : Seq(Ids), title : {"old", "new"}, note : {"absent", "empty", "text"},
     due : {None, "monday"}, dueText : {None, "monday", "monday at nine"},
     done : {None, "monday"}, owners : SUBSET Names, people : SUBSET Names,
     by : Names \cup {None}, deps : Seq([doc : OtherDocs \cup {Here}, on : Ids]),
     links : Seq([id : 1 .. MaxEdits, url : {"site", "moved"}]),
     atts : Seq([id : 1 .. MaxEdits, path : {"file"}, name : {"file", "renamed"}]),
     files : Seq({"file"}), extra : {None, "custom"}]

IsTree(t) == \E I \in SUBSET Ids : t \in [roots : Seq(Ids), task : [I -> Task]]

\* Documents are opened whose ids are unique, so that what the reader makes of
\* them is a forest; a dependency names another document by its own name.
ASSUME EditingConstants ==
    /\ MaxId \in Nat /\ MaxHistory \in Nat /\ MaxEdits \in Nat
    /\ Here \notin OtherDocs
    /\ \A t \in InitTree : IsTree(t) /\ IsForest(t)

\* Types; and undo and redo together never remember more than MaxHistory
\* commands, although redo pushes without looking at the limit.
TypeOK ==
    /\ IsTree(tree) /\ IsTree(source)
    /\ \A c \in ToSet(undoStack) \cup ToSet(redoStack) : c.task \in Ids
    /\ Len(undoStack) + Len(redoStack) <= MaxHistory
    /\ dirty \in BOOLEAN
    /\ edits \in 0 .. MaxEdits

\* After any sequence of edits, undos and redos every task hangs below exactly
\* one parent and below a root, and no list names a task that is gone: what
\* the save pipeline walks is the whole tree, once.
TreeIsForest == IsForest(tree)

\* A save writes the whole tree: what the reader makes of the file is the
\* tree again, nested tasks included, with the unknown data of every task that
\* is still the one that was opened.  (The typed participants are read back
\* from ALLOCATEDTO; what a task that took over a deleted id finds as unknown
\* data is not said here.)
SaveIsLossless ==
    LET back == ReadBack(Written(tree))
    IN  /\ back.roots = tree.roots
        /\ TaskIds(back) = TaskIds(tree)
        /\ \A i \in TaskIds(tree) :
              /\ back.task[i] = [tree.task[i] EXCEPT !.people = back.task[i].people,
                                                     !.extra = back.task[i].extra]
              /\ tree.task[i].extra \in {None, back.task[i].extra}

\* No edit the back-end accepts closes a cycle of dependencies, whatever
\* dangling edges deletions left behind and whichever id a new task gets.
EditsKeepDependenciesAcyclic ==
    [][Acyclic(tree) /\ redoStack' = <<>> /\ edits' # edits => Acyclic(tree')]_vars

\* What undo restores exactly: the tree without its dependencies, without
\* participants and without the display text of dates.
Kept(t) ==
    [roots |-> t.roots,
     task  |-> [i \in TaskIds(t) |->
        [t.task[i] EXCEPT !.deps = <<>>, !.owners = {}, !.people = {}, !.dueText = None]]]

\* The trees that the commands of a stack lead to from t, the last command
\* first, by undoing them or by running them.
Turn(undoing, c, t) == IF undoing THEN Undo(c, t) ELSE Execute(c, t)

Line(undoing, stack, t) ==
    LET n == Len(stack)
        at[i \in 1 .. n + 1] == IF i = n + 1 THEN t ELSE Turn(undoing, stack[i], at[i + 1])
    IN  at

\* The states behind and ahead of the present one.
Behind ==
    LET at == Line(TRUE, undoStack, tree) IN [i \in 1 .. Len(undoStack) |-> Kept(at[i])]

Ahead ==
    LET at == Line(FALSE, redoStack, tree) IN [i \in 1 .. Len(redoStack) |-> Kept(at[i])]

\* Undo and redo walk a line of states: what undo restores is what was there
\* before the command, what redo brings is what was undone, for commands of
\* every kind and in every mixture.
Timeline == INSTANCE UndoTimeline
    WITH Limit <- MaxHistory, past <- Behind, present <- Kept(tree), future <- Ahead

FollowsTimeline == Timeline!Spec
=============================================================================
