---------------------------- MODULE EditCommands ----------------------------
(***************************************************************************)
(* The undoable commands: domain/command.rs, the completion date of        *)
(* commands/task_edit.rs, the relation commands of commands/relations.rs   *)
(* and domain/dependency.rs.                                               *)
(*                                                                         *)
(* A command is a record.  task is what it edits, arg what it was given,   *)
(* and was what it captured the last time it ran; undoing replays was.     *)
(*                                                                         *)
(* A task keeps one field of every way the code stores fields: title for   *)
(* those written as they are, note (COMMENTS), due with its display text,  *)
(* done, who it is allocated to (owners and the typed mirror people, by    *)
(* whom: by), its dependencies, progress links and attachments with the    *)
(* FILEREFPATH mirror files.  extra is the data the application does not   *)
(* know and only carries along.                                            *)
(***************************************************************************)
EXTENDS TaskTree

None == "none"

Dep(doc, id) == [doc |-> doc, on |-> id]
Here == "here"

\* What AddTask stores: a task without relations.
BlankTask ==
    [children |-> <<>>, title |-> "new", note |-> "absent", due |-> None, dueText |-> None,
     done |-> None, owners |-> {}, people |-> {}, by |-> None,
     deps |-> <<>>, links |-> <<>>, atts |-> <<>>, files |-> <<>>, extra |-> None]

\* t with task id, if it is there, replaced by op of it.
Edited(t, id, op(_)) ==
    IF id \in TaskIds(t) THEN [t EXCEPT !.task[id] = op(@)] ELSE t

\* set_field: clearing a comment that never was leaves it absent, and a date
\* carries its display string.
SetField(k, f, v) ==
    CASE f = "note" /\ v = "empty" /\ k.note = "absent" -> k
      [] f = "due" -> [k EXCEPT !.due = v, !.dueText = v]
      [] OTHER -> [k EXCEPT ![f] = v]

\* participant::add_participant and remove_participant, and the other role.
SetRole(k, c) ==
    CASE c.arg.role = "by" /\ c.arg.add -> [k EXCEPT !.by = c.arg.name]
      [] c.arg.role = "by" /\ ~c.arg.add -> [k EXCEPT !.by = IF @ = c.arg.name THEN None ELSE @]
      [] c.arg.role = "to" /\ c.arg.add ->
            IF c.arg.name \in k.people THEN k
            ELSE [k EXCEPT !.people = @ \cup {c.arg.name}, !.owners = @ \cup {c.arg.name}]
      [] OTHER -> [k EXCEPT !.people = @ \ {c.arg.name}, !.owners = @ \ {c.arg.name}]

Without(list, id) == Retained(list, {x \in ToSet(list) : x.id # id})
WithNew(list, x)  == IF \E y \in ToSet(list) : y.id = x.id THEN list ELSE Append(list, x)

\* LinkOp: an update is a removal and an addition at the end.
SetLinks(k, c) ==
    CASE c.arg.op = "add" -> [k EXCEPT !.links = WithNew(@, c.arg.link)]
      [] c.arg.op = "remove" -> [k EXCEPT !.links = Without(@, c.arg.id)]
      [] OTHER -> [k EXCEPT !.links = WithNew(Without(@, c.arg.id), c.arg.link)]

\* add_attachment: a FILEREFPATH entry is kept once for every path.
PushAttachment(k, a) ==
    IF \E b \in ToSet(k.atts) : b.id = a.id THEN k
    ELSE [k EXCEPT !.atts = Append(@, a),
                   !.files = IF a.path \in ToSet(@) THEN @ ELSE Append(@, a.path)]

\* remove_attachment takes the path along, whoever else names it.
DropAttachment(k, id) ==
    LET gone == {a.path : a \in {b \in ToSet(k.atts) : b.id = id}}
    IN  [k EXCEPT !.atts = Without(@, id),
                  !.files = Retained(@, ToSet(@) \ gone)]

RenamedTo(k, id, name) ==
    [k EXCEPT !.atts = [n \in DOMAIN k.atts |->
        IF k.atts[n].id = id THEN [k.atts[n] EXCEPT !.name = name] ELSE k.atts[n]]]

\* AttOp.
SetAttachments(k, c) ==
    CASE c.arg.op = "add" -> PushAttachment(k, c.arg.att)
      [] c.arg.op = "remove" -> DropAttachment(k, c.arg.id)
      [] OTHER -> RenamedTo(k, c.arg.id, c.arg.name)

\* AddDependencyCommand::execute looks at the task id alone,
\* ExternalDependencyCommand::execute at the document as well.
PushDependency(k, d) ==
    LET known(e) == e.on = d.on /\ (d.doc = Here \/ e.doc = d.doc)
    IN  IF \E e \in ToSet(k.deps) : known(e) THEN k ELSE [k EXCEPT !.deps = Append(@, d)]

\* Their undo drops every dependency that looks like the one they added.
DropDependency(k, d) ==
    LET added(e) == e.on = d.on /\ (d.doc = Here \/ e.doc = d.doc)
    IN  [k EXCEPT !.deps = Retained(@, {e \in ToSet(@) : ~added(e)})]

TakeDependency(k, on) == [k EXCEPT !.deps = RemoveFirstMatch(@, LAMBDA e : e.on = on)]

DependencyAt(k, on) ==
    CHOOSE n \in DOMAIN k.deps : k.deps[n].on = on /\ \A m \in 1 .. n - 1 : k.deps[m].on # on

-----------------------------------------------------------------------------
(* Execute, undo and redo                                                  *)

\* The tree after running c.
Execute(c, t) ==
    CASE c.kind = "field" -> Edited(t, c.task, LAMBDA k : SetField(k, c.arg.field, c.arg.value))
      [] c.kind = "complete" -> Edited(t, c.task, LAMBDA k : [k EXCEPT !.done = c.arg])
      [] c.kind = "add" -> Attach(AddTask(t, c.task, c.arg.new), c.arg.parent, c.arg.pos, c.task)
      [] c.kind = "delete" -> RemoveTask(t, c.task)
      [] c.kind = "role" -> Edited(t, c.task, LAMBDA k : SetRole(k, c))
      [] c.kind = "link" -> Edited(t, c.task, LAMBDA k : SetLinks(k, c))
      [] c.kind = "attachment" -> Edited(t, c.task, LAMBDA k : SetAttachments(k, c))
      [] c.kind = "depend" -> Edited(t, c.task, LAMBDA k : PushDependency(k, c.arg))
      [] OTHER -> Edited(t, c.task, LAMBDA k : TakeDependency(k, c.arg))

\* What c captures from t when it runs.
Capture(c, t) ==
    LET k == t.task[c.task]
    IN  IF c.kind \in {"add", "depend"} \/ c.task \notin TaskIds(t) THEN c.was
        ELSE CASE c.kind = "field" -> k[c.arg.field]
               [] c.kind = "complete" -> k.done
               [] c.kind = "delete" ->
                     LET p == ParentOf(t, c.task)
                     IN  [tasks  |-> [i \in Below(t, c.task) |-> t.task[i]],
                          parent |-> p, pos |-> PositionIn(Siblings(t, p), c.task)]
               [] c.kind = "role" -> [owners |-> k.owners, people |-> k.people, by |-> k.by]
               [] c.kind = "link" -> k.links
               [] c.kind = "attachment" -> [atts |-> k.atts, files |-> k.files]
               [] OTHER ->
                     IF \E e \in ToSet(k.deps) : e.on = c.arg
                     THEN [pos |-> DependencyAt(k, c.arg), dep |-> k.deps[DependencyAt(k, c.arg)]]
                     ELSE c.was

Executed(c, t) == [c EXCEPT !.was = Capture(c, t)]

\* Mutant of Restore: the task comes back as the last of its siblings.
RestoreLast(c, t) ==
    LET back == [t EXCEPT !.task = [i \in TaskIds(t) \cup DOMAIN c.was.tasks |->
                                        IF i \in TaskIds(t) THEN t.task[i] ELSE c.was.tasks[i]]]
        p == c.was.parent
    IN  IF p \in TaskIds(back) \cup {NoTask} /\ c.task \in ToSet(Siblings(back, p)) THEN back
        ELSE Attach(back, p, Cardinality(TaskIds(back)), c.task)

\* DeleteTaskCommand::undo: what is missing of the subtree comes back, and the
\* task returns to its place unless it is listed there.
Restore(c, t) ==
    LET back == [t EXCEPT !.task = [i \in TaskIds(t) \cup DOMAIN c.was.tasks |->
                                        IF i \in TaskIds(t) THEN t.task[i] ELSE c.was.tasks[i]]]
        p == c.was.parent
    IN  IF p \in TaskIds(back) \cup {NoTask} /\ c.task \in ToSet(Siblings(back, p)) THEN back
        ELSE Attach(back, p, c.was.pos, c.task)

\* The tree after undoing c.
Undo(c, t) ==
    CASE c.kind = "field" -> Edited(t, c.task, LAMBDA k : SetField(k, c.arg.field, c.was))
      [] c.kind = "complete" -> Edited(t, c.task, LAMBDA k : [k EXCEPT !.done = c.was])
      [] c.kind = "add" -> RemoveTask(t, c.task)
      [] c.kind = "delete" -> Restore(c, t)
      [] c.kind = "role" -> Edited(t, c.task, LAMBDA k :
            [k EXCEPT !.owners = c.was.owners, !.people = c.was.people, !.by = c.was.by])
      [] c.kind = "link" -> Edited(t, c.task, LAMBDA k : [k EXCEPT !.links = c.was])
      [] c.kind = "attachment" -> Edited(t, c.task, LAMBDA k :
            [k EXCEPT !.atts = c.was.atts, !.files = c.was.files])
      [] c.kind = "depend" -> Edited(t, c.task, LAMBDA k : DropDependency(k, c.arg))
      [] OTHER -> Edited(t, c.task, LAMBDA k :
            [k EXCEPT !.deps = InsertChild(@, c.was.pos - 1, c.was.dep)])

\* redo of a field update and of a deletion capture nothing anew.
Redone(c, t) == IF c.kind \in {"field", "delete"} THEN c ELSE Executed(c, t)
=============================================================================
