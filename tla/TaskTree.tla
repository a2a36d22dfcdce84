------------------------------ MODULE TaskTree ------------------------------
(***************************************************************************)
(* The tasks of one open document: domain/task.rs (TaskTree) and the       *)
(* helpers that domain/command.rs adds to it.                              *)
(*                                                                         *)
(* A tree is a record: task maps the id of every task to the task, and     *)
(* roots is the order of the top level.  A task names its children by id,  *)
(* so nothing but the code that edits the lists keeps them a forest.       *)
(***************************************************************************)
EXTENDS Naturals, FiniteSets, SequencesExt

\* Ids are numbers from 1; 0 stands for "no task": the parent of a root.
NoTask == 0

TaskIds(t) == DOMAIN t.task

\* Vec::retain: the members of list that are in S, in their order.  (A function,
\* where SelectSeq is a built-in operator no proof can look into.)
Retained(list, S) ==
    LET upTo[n \in 0 .. Len(list)] ==
            IF n = 0 THEN <<>>
            ELSE IF list[n] \in S THEN Append(upTo[n - 1], list[n])
            ELSE upTo[n - 1]
    IN  upTo[Len(list)]

\* list without id.
Others(list, id) == Retained(list, ToSet(list) \ {id})

\* The sibling list below parent p.
Siblings(t, p) == IF p = NoTask THEN t.roots ELSE t.task[p].children

\* id and its descendants, those of them that exist: the least set of tasks
\* with id that contains the children of its members.
Below(t, id) ==
    {i \in TaskIds(t) :
        \A S \in SUBSET TaskIds(t) :
            /\ {id} \cap TaskIds(t) \subseteq S
            /\ \A j \in S : ToSet(t.task[j].children) \cap TaskIds(t) \subseteq S
            => i \in S}

\* TaskTree::add_task: an id that is taken stays as it is.
AddTask(t, id, task) ==
    IF id \in TaskIds(t) THEN t
    ELSE [t EXCEPT !.task = [i \in TaskIds(t) \cup {id} |-> IF i = id THEN task ELSE t.task[i]]]

\* A position counted from 0, cut to the end of the list.
InsertChild(list, pos, id) ==
    InsertAt(list, (IF pos <= Len(list) THEN pos ELSE Len(list)) + 1, id)

\* Puts id into the list of parent p; a parent that is gone takes nothing.
Attach(t, p, pos, id) ==
    IF p = NoTask THEN [t EXCEPT !.roots = InsertChild(@, pos, id)]
    ELSE IF p \in TaskIds(t) THEN [t EXCEPT !.task[p].children = InsertChild(@, pos, id)]
    ELSE t

\* Mutant of RemoveTask: the children stay behind.
RemoveOnlyTask(t, id) ==
    [task  |-> [i \in TaskIds(t) \ {id} |->
                    [t.task[i] EXCEPT !.children = Others(@, id)]],
     roots |-> Others(t.roots, id)]

\* TaskTree::remove_task: the subtree goes, and id leaves every list.
RemoveTask(t, id) ==
    [task  |-> [i \in TaskIds(t) \ Below(t, id) |->
                    [t.task[i] EXCEPT !.children = Others(@, id)]],
     roots |-> Others(t.roots, id)]

\* find_parent.
ParentOf(t, id) ==
    IF \E p \in TaskIds(t) : id \in ToSet(t.task[p].children)
    THEN CHOOSE p \in TaskIds(t) : id \in ToSet(t.task[p].children)
    ELSE NoTask

\* Position of id in a list, counted from 0; 0 when it is not there.
PositionIn(list, id) ==
    IF id \in ToSet(list)
    THEN (CHOOSE n \in DOMAIN list : list[n] = id /\ \A m \in 1 .. n - 1 : list[m] # id) - 1
    ELSE 0

\* allocate_task_id: one above the largest id in the tree.
FreshId(t) == IF TaskIds(t) = {} THEN 1 ELSE 1 + Max(TaskIds(t))

\* Every task hangs below exactly one parent, once, and below a root.
IsForest(t) ==
    LET parents == TaskIds(t) \cup {NoTask}
    IN  /\ \A p \in parents : /\ IsInjective(Siblings(t, p))
                              /\ ToSet(Siblings(t, p)) \subseteq TaskIds(t)
        /\ \A p, q \in parents :
              p # q => ToSet(Siblings(t, p)) \cap ToSet(Siblings(t, q)) = {}
        /\ UNION {Below(t, r) : r \in ToSet(t.roots)} = TaskIds(t)
=============================================================================
