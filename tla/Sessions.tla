------------------------------ MODULE Sessions ------------------------------
(* Document sessions between the interface and the backend.                 *)
(*                                                                          *)
(* The interface (src/src/stores) runs async functions, here Flows: each    *)
(* sends one command at a time and continues when its answer arrives.  The  *)
(* backend (src-tauri/src/commands) executes commands one after another,    *)
(* each to its end.  Whatever an async function read before an await may    *)
(* be stale after it.                                                       *)
(*                                                                          *)
(* The content of a document is the set of the changes in it: 0..MaxOld     *)
(* stand for what it held at the start, the others for what users did       *)
(* since.  Any change can be the subtree that a transfer takes along.       *)
EXTENDS Naturals, FiniteSets, Sequences

CONSTANTS Flows,        \* async functions that can be under way at once
          Workspaces,
          Paths,        \* document paths relative to their workspace
          Docs,         \* the documents: pairs of a workspace and a path
          FirstDoc,     \* the document that holds the changes of the start
          MaxOld,       \* the last of the changes of the start
          MaxEdits,     \* bound: changes
          MaxSessions,  \* bound: sessions opened
          MaxCalls,     \* bound: async functions started
          None

ASSUME SessionsAssumption ==
    /\ Docs \subseteq Workspaces \X Paths
    /\ FirstDoc \in Docs
    /\ None \notin Workspaces \cup Docs
    /\ {MaxOld, MaxEdits, MaxSessions, MaxCalls} \subseteq Nat
    /\ MaxOld <= MaxEdits

VARIABLES
    disk,       \* document -> the changes in its file
    sessions,   \* session id -> open session (AppState.sessions)
    opened,     \* session ids given out so far (next_session_id - 1)
    workspace,  \* the workspace open in the backend
    transfers,  \* the transfers that committed a target: their undo records
                \* and journals, by transaction
    shown,      \* the workspace whose documents the interface lists
    mapped,     \* path -> session id (sessionsByPath), 0 for none
    failed,     \* paths that could not be opened (failedPaths)
    banner,     \* the transaction the result banner offers to undo, 0 for none
    flow,       \* what each async function is waiting for
    edits, calls,      \* counters for the bounds
    acked,      \* changes the backend has acknowledged
    withdrawn,  \* changes undone, rolled back, or closed without a save
    overtaken,  \* changes whose transfer was followed by the undo of an older one
    contended,  \* documents that had two sessions, or one nobody knows
    mixed,      \* changes that were in a contended document
    torn,       \* sessions whose file a transfer command rewrote before it failed
    stranded,   \* paths whose session was dropped without a word
    astray,     \* changes that went to another document than their row's
    crossed     \* the workspace changed under sessions or flows

backend == <<disk, sessions, opened, workspace, transfers>>
interface == <<shown, mapped, failed, banner>>
bounds == <<edits, calls>>
ghosts == <<acked, withdrawn, overtaken, contended, torn, stranded, astray, crossed>>
vars == <<backend, interface, flow, bounds, ghosts, mixed>>

Path(d) == d[2]
DocsOf(w) == {d \in Docs : d[1] = w}
SessionIds == 1..MaxSessions
Changes == 0..MaxEdits
Idle == [kind |-> "idle", at |-> "idle", doc |-> None, to |-> None,
         item |-> 0, txn |-> 0, sid |-> 0, todo |-> {}]

\* What the function waits for next; with the session that was opened for it;
\* with the transfer it made; with one session less to close.
At(w, at) == [w EXCEPT !.at = at]
Opened(w, s) == [w EXCEPT !.at = "opened", !.sid = s]
Committed(w, t) == [w EXCEPT !.at = "done", !.txn = t]
Closing(w, s) == [w EXCEPT !.todo = @ \ {s}]

SessionsOn(docs) == {s \in DOMAIN sessions : sessions[s].doc \in docs}
Live(s) == s \in DOMAIN sessions

\* A workspace root read once and kept.
ResolveOnce(path) ==
    IF <<FirstDoc[1], path>> \in Docs THEN <<FirstDoc[1], path>> ELSE None

\* Where the backend finds the document of a row: paths are relative to
\* the workspace that is open when the command runs.
Resolve(path) ==
    IF <<workspace, path>> \in Docs THEN <<workspace, path>> ELSE None

\* forgetSessionForPath for the first of the documents only
ForgetOne(paths) ==
    [p \in Paths |-> IF paths # {} /\ p = (CHOOSE q \in paths : TRUE)
                     THEN 0 ELSE mapped[p]]

Forget(paths) == [p \in Paths |-> IF p \in paths THEN 0 ELSE mapped[p]]

Discard(sids) == [s \in DOMAIN sessions \ sids |-> sessions[s]]

\* The subtree x can go from src to dst.  A document that holds the same subtree
\* twice, and a subtree that is under way in an interrupted move, are Transfer's.
Takes(x, src, dst) ==
    /\ x \in disk[src] \ disk[dst]
    /\ \A t \in DOMAIN transfers :
          transfers[t].state = "pending" => transfers[t].item # x

-----------------------------------------------------------------------------
(* Starting an async function: what it reads before its first await.        *)

\* ensureSessionForDocument up to its await: reuse, give up, or open.
EnsureSession(f, kind, d, item) ==
    LET held == mapped[Path(d)]
    IN  /\ held # 0 \/ Path(d) \notin failed
        /\ flow' = [flow EXCEPT ![f] =
             [Idle EXCEPT !.kind = kind, !.doc = d, !.item = item, !.sid = held,
                          !.at = IF held # 0 THEN "call" ELSE "open"]]

Begin(f) ==
    /\ flow[f] = Idle
    /\ calls < MaxCalls
    /\ calls' = calls + 1

StartEdit(f, d) ==
    /\ Begin(f)
    /\ d \in DocsOf(shown)
    /\ edits < MaxEdits
    /\ edits' = edits + 1
    /\ EnsureSession(f, "edit", d, edits')
    /\ UNCHANGED <<backend, interface, ghosts>>

\* file.save opens a session when there is none, and then saves it.
StartSave(f, d) ==
    /\ Begin(f)
    /\ d \in DocsOf(shown)
    /\ EnsureSession(f, "save", d, 0)
    /\ UNCHANGED <<backend, interface, edits, ghosts>>

\* edit.undo and edit.redo use the session of the active document.
StartUndoRedo(f, d, kind) ==
    /\ Begin(f)
    /\ d \in DocsOf(shown)
    /\ mapped[Path(d)] # 0
    /\ EnsureSession(f, kind, d, 0)
    /\ UNCHANGED <<backend, interface, edits, ghosts>>

\* closeAllSessions forgets every session before it closes the first.
StartClose(f) ==
    /\ Begin(f)
    /\ shown # None
    /\ flow' = [flow EXCEPT ![f] =
         [Idle EXCEPT !.kind = "close", !.at = "call",
                      !.todo = {mapped[p] : p \in Paths} \ {0}]]
    /\ mapped' = Forget(Paths)
    /\ failed' = {}
    /\ stranded' = {}
    /\ UNCHANGED <<backend, shown, banner, edits, acked, withdrawn, overtaken,
                   contended, torn, astray, crossed>>

\* workspace.open works whether or not a workspace is open.
StartOpenWorkspace(f, w) ==
    /\ Begin(f)
    /\ flow' = [flow EXCEPT ![f] =
         [Idle EXCEPT !.kind = "workspace", !.at = "call", !.to = w]]
    /\ UNCHANGED <<backend, interface, edits, ghosts>>

\* executeTransfer refuses while another one runs (busy).
StartTransfer(f, src, dst, item, kind) ==
    /\ Begin(f)
    /\ {src, dst} \subseteq DocsOf(shown) /\ src # dst
    /\ Takes(item, src, dst)
    /\ \A g \in Flows : flow[g].kind \notin {"copy", "move"}
    /\ flow' = [flow EXCEPT ![f] =
         [Idle EXCEPT !.kind = kind, !.at = "call", !.doc = src, !.to = dst,
                      !.item = item]]
    /\ UNCHANGED <<backend, interface, edits, ghosts>>

\* The undo button takes the transaction at the click, whatever runs meanwhile;
\* undoBusy admits one undo at a time.
StartUndoTransfer(f) ==
    /\ Begin(f)
    /\ banner # 0
    /\ \A g \in Flows : flow[g].kind # "undoTransfer"
    /\ flow' = [flow EXCEPT ![f] =
         [Idle EXCEPT !.kind = "undoTransfer", !.at = "call", !.txn = banner]]
    /\ UNCHANGED <<backend, interface, edits, ghosts>>

StartCompleteMove(f, t) ==
    /\ Begin(f)
    /\ transfers[t].state = "pending"
    /\ flow' = [flow EXCEPT ![f] =
         [Idle EXCEPT !.kind = "complete", !.at = "call", !.txn = t]]
    /\ UNCHANGED <<backend, interface, edits, ghosts>>

-----------------------------------------------------------------------------
(* The commands of commands/session.rs.                                     *)

OpenDocumentSession(f) ==
    /\ flow[f].at = "open"
    /\ LET d == Resolve(Path(flow[f].doc))
           s == opened + 1
       IN  /\ d # None /\ s \in SessionIds
           /\ opened' = s
           /\ sessions' = [i \in DOMAIN sessions \cup {s} |->
                IF i \in DOMAIN sessions THEN sessions[i]
                ELSE [doc |-> d, tree |-> disk[d], base |-> disk[d],
                      done |-> <<>>, undone |-> <<>>, dirty |-> TRUE]]
           /\ flow' = [flow EXCEPT ![f] = Opened(@, s)]
           /\ contended' =
                IF SessionsOn({d}) # {} THEN contended \cup {d}
                ELSE contended
    /\ UNCHANGED <<disk, workspace, transfers, interface, bounds, acked,
                   withdrawn, overtaken, torn, stranded, astray, crossed>>

\* No workspace, no such file, or a file that cannot be read.
OpenFails(f) ==
    /\ flow[f].at = "open"
    /\ failed' = failed \cup {Path(flow[f].doc)}
    /\ flow' = [flow EXCEPT ![f] = Idle]
    /\ UNCHANGED <<backend, shown, mapped, banner, bounds, ghosts>>

\* The id the flow holds is of a session that is gone: an error.
SessionNotFound(f) ==
    /\ flow[f].kind \in {"edit", "save", "undo", "redo"}
    /\ flow[f].at = "call"
    /\ ~Live(flow[f].sid)
    /\ flow' = [flow EXCEPT ![f] = Idle]
    /\ UNCHANGED <<backend, interface, bounds, ghosts>>

\* An editing command: the mutation is recorded, the redo history dropped.
Edited(k, e) ==
    [k EXCEPT !.tree = @ \cup {e}, !.done = Append(@, e), !.undone = <<>>,
              !.dirty = TRUE]

EditDocument(f) ==
    /\ flow[f].kind = "edit" /\ flow[f].at = "call"
    /\ Live(flow[f].sid)
    /\ LET e == flow[f].item
           s == flow[f].sid
       IN  /\ sessions' = [sessions EXCEPT ![s] = Edited(@, e)]
           /\ acked' = acked \cup {e}
           /\ astray' = IF sessions[s].doc = flow[f].doc THEN astray
                        ELSE astray \cup {e}
    /\ flow' = [flow EXCEPT ![f] = Idle]
    /\ UNCHANGED <<disk, opened, workspace, transfers, interface, bounds,
                   withdrawn, overtaken, contended, torn, stranded, crossed>>

\* The saved revision, and the fingerprint of what was written.
Saved(k) == [k EXCEPT !.base = k.tree, !.dirty = FALSE]

\* A save writes whatever the tree holds, over whatever is there.
SaveDocumentAtomic(f) ==
    /\ flow[f].kind = "save" /\ flow[f].at = "call"
    /\ Live(flow[f].sid)
    /\ flow' = [flow EXCEPT ![f] = Idle]
    /\ \/ LET s == flow[f].sid
          IN  /\ disk' = [disk EXCEPT ![sessions[s].doc] = sessions[s].tree]
              /\ sessions' = [sessions EXCEPT ![s] = Saved(@)]
       \/ UNCHANGED <<disk, sessions>>
    /\ UNCHANGED <<opened, workspace, transfers, interface, bounds, ghosts>>

\* Undo that leaves its command on the stack.
PeekedAt(stack) == stack

Popped(stack) == SubSeq(stack, 1, Len(stack) - 1)

Newest(stack) == stack[Len(stack)]

Undone(k) ==
    [k EXCEPT !.tree = @ \ {Newest(k.done)}, !.done = Popped(@),
              !.undone = Append(@, Newest(k.done)), !.dirty = TRUE]

Redone(k) ==
    [k EXCEPT !.tree = @ \cup {Newest(k.undone)}, !.undone = Popped(@),
              !.done = Append(@, Newest(k.undone)), !.dirty = TRUE]

UndoLastCommand(f) ==
    /\ flow[f].kind = "undo" /\ flow[f].at = "call"
    /\ Live(flow[f].sid)
    /\ flow' = [flow EXCEPT ![f] = Idle]
    /\ LET s == flow[f].sid
       IN  IF sessions[s].done = <<>> THEN UNCHANGED <<sessions, withdrawn>>
           ELSE /\ sessions' = [sessions EXCEPT ![s] = Undone(@)]
                /\ withdrawn' = withdrawn \cup {Newest(sessions[s].done)}
    /\ UNCHANGED <<disk, opened, workspace, transfers, interface, bounds, acked,
                   overtaken, contended, torn, stranded, astray, crossed>>

RedoLastCommand(f) ==
    /\ flow[f].kind = "redo" /\ flow[f].at = "call"
    /\ Live(flow[f].sid)
    /\ flow' = [flow EXCEPT ![f] = Idle]
    /\ LET s == flow[f].sid
       IN  IF sessions[s].undone = <<>> THEN UNCHANGED <<sessions, withdrawn>>
           ELSE /\ sessions' = [sessions EXCEPT ![s] = Redone(@)]
                /\ withdrawn' = withdrawn \ {Newest(sessions[s].undone)}
    /\ UNCHANGED <<disk, opened, workspace, transfers, interface, bounds, acked,
                   overtaken, contended, torn, stranded, astray, crossed>>

\* Closing never saves.
CloseDocumentSession(f) ==
    /\ flow[f].kind = "close" /\ flow[f].at = "call"
    /\ \E s \in flow[f].todo :
         /\ flow' = [flow EXCEPT ![f] = Closing(@, s)]
         /\ sessions' = Discard({s})
         /\ withdrawn' =
              IF Live(s) THEN withdrawn \cup
                (sessions[s].tree \ disk[sessions[s].doc]) ELSE withdrawn
    /\ UNCHANGED <<disk, opened, workspace, transfers, interface, bounds, acked,
                   overtaken, contended, torn, stranded, astray, crossed>>

-----------------------------------------------------------------------------
(* The commands of commands/workspace.rs.                                   *)

Alone(f) == \A g \in Flows \ {f} : flow[g] = Idle

OpenWorkspace(f) ==
    /\ flow[f].kind = "workspace" /\ flow[f].at = "call"
    /\ workspace' = flow[f].to
    /\ flow' = [flow EXCEPT ![f] = At(@, "list")]
    /\ crossed' = (crossed \/ shown # None \/ ~Alone(f))
    /\ UNCHANGED <<disk, sessions, opened, transfers, interface, bounds, acked,
                   withdrawn, overtaken, contended, torn, stranded, astray>>

\* refreshDocuments asks for the documents of whatever is open by then.
ListDocuments(f) ==
    /\ flow[f].at = "list"
    /\ shown' = workspace
    /\ flow' = [flow EXCEPT ![f] = Idle]
    /\ UNCHANGED <<backend, mapped, failed, banner, bounds, ghosts>>

CloseWorkspace(f) ==
    /\ flow[f].kind = "close" /\ flow[f].at = "call"
    /\ flow[f].todo = {}
    /\ workspace' = None /\ shown' = None
    /\ flow' = [flow EXCEPT ![f] = Idle]
    /\ crossed' = (crossed \/ ~Alone(f))
    /\ UNCHANGED <<disk, sessions, opened, transfers, mapped, failed, banner,
                   bounds, acked, withdrawn, overtaken, contended, torn, stranded,
                   astray>>

-----------------------------------------------------------------------------
(* The commands of commands/transfer.rs.                                    *)

\* guard_sessions with the dirty check on one of the documents only
GuardedOne(docs) ==
    \E s \in SessionsOn({CHOOSE d \in docs : TRUE}) : sessions[s].dirty

\* guard_sessions
Guarded(docs) == \E s \in SessionsOn(docs) : sessions[s].dirty

\* drop_sessions_for, as it looks when it forgets one of the documents
DropOne(docs) == Discard(SessionsOn({CHOOSE d \in docs : TRUE}))

DropSessionsFor(docs) == Discard(SessionsOn(docs))

\* `told` when the interface learns of it from the answer.
Dropped(docs, told) ==
    /\ sessions' = DropSessionsFor(docs)
    /\ stranded' = IF told THEN stranded
                   ELSE stranded \cup {p \in Paths : mapped[p] \in SessionsOn(docs)}

\* The paths do not resolve, or a session has unsaved changes.
TransferRefused(f) ==
    /\ flow[f].kind \in {"copy", "move"} /\ flow[f].at = "call"
    /\ LET docs == {Resolve(Path(flow[f].doc)), Resolve(Path(flow[f].to))}
       IN  None \in docs \/ Guarded(docs)
    /\ flow' = [flow EXCEPT ![f] = Idle]
    /\ banner' = 0
    /\ UNCHANGED <<backend, shown, mapped, failed, bounds, ghosts>>

\* What undo.json or the journal tells of the transfer that f executes now.
Entry(f, src, dst, state) ==
    [kind |-> flow[f].kind, src |-> src, dst |-> dst, item |-> flow[f].item,
     was |-> [d \in {src, dst} |-> disk[d]], state |-> state]

\* execute_transfer_core: whatever the outcome, both sessions are dropped.
ExecuteTransfer(f) ==
    /\ flow[f].kind \in {"copy", "move"} /\ flow[f].at = "call"
    /\ LET src == Resolve(Path(flow[f].doc))
           dst == Resolve(Path(flow[f].to))
           x == flow[f].item
           inTarget == [disk EXCEPT ![dst] = @ \cup {x}]
           moved == [inTarget EXCEPT ![src] = @ \ {x}]
       IN  /\ None \notin {src, dst}
           /\ ~Guarded({src, dst})
           /\ \/ /\ Takes(x, src, dst)                \* done
                 /\ disk' = IF flow[f].kind = "move" THEN moved ELSE inTarget
                 /\ transfers' = Append(transfers, Entry(f, src, dst, "done"))
                 /\ flow' = [flow EXCEPT ![f] = Committed(@, Len(transfers'))]
                 /\ Dropped({src, dst}, TRUE)
                 /\ UNCHANGED banner
              \/ /\ Takes(x, src, dst)                \* recovery_required
                 /\ flow[f].kind = "move"
                 /\ disk' = inTarget
                 /\ transfers' = Append(transfers, Entry(f, src, dst, "pending"))
                 /\ flow' = [flow EXCEPT ![f] = Idle]
                 /\ Dropped({src, dst}, FALSE)
                 /\ banner' = 0
              \/ /\ UNCHANGED <<disk, transfers>>      \* failed
                 /\ flow' = [flow EXCEPT ![f] = Idle]
                 /\ Dropped({src, dst}, FALSE)
                 /\ banner' = 0
    /\ UNCHANGED <<opened, workspace, shown, mapped, failed, bounds, acked,
                   withdrawn, overtaken, contended, torn, astray, crossed>>

\* The subtrees of the transfers that are newer than t.
NewerItems(t) == {transfers[u].item : u \in {v \in DOMAIN transfers : t < v}}

\* The documents that an undo puts back: the source of a move, too.
Restored(t) == IF transfers[t].kind = "move"
               THEN {transfers[t].src, transfers[t].dst} ELSE {transfers[t].dst}

\* Whole documents are put back as they were before transfer t.  What came to
\* them since is rolled back with it; the subtrees that newer transfers brought
\* may have no other place.
PutBack(t, docs) ==
    /\ disk' = [d \in Docs |-> IF d \in docs THEN transfers[t].was[d] ELSE disk[d]]
    /\ withdrawn' = withdrawn \cup (UNION {disk[d] \ transfers[t].was[d] : d \in docs}
                                     \ ({transfers[t].item} \cup NewerItems(t)))
    /\ overtaken' = overtaken \cup NewerItems(t)

\* undo_transfer_core.  An error - no undo.json under this root, unsaved
\* changes, a document that cannot be restored, undo.json that cannot be
\* marked - returns before any session is dropped.
UndoTransfer(f) ==
    /\ flow[f].kind = "undoTransfer" /\ flow[f].at = "call"
    /\ flow' = [flow EXCEPT ![f] = Idle]
    /\ LET t == flow[f].txn
           src == transfers[t].src
           dst == transfers[t].dst
       IN  \/ UNCHANGED <<disk, sessions, transfers, banner, withdrawn, overtaken,
                          torn, stranded>>
          \/ /\ transfers[t].state \in {"done", "half"}
             /\ src[1] = workspace /\ ~Guarded({src, dst})
             /\ \/ /\ PutBack(t, Restored(t))
                   /\ transfers' = [transfers EXCEPT ![t].state = "undone"]
                   /\ banner' = 0
                   /\ Dropped({src, dst}, FALSE)
                   /\ UNCHANGED torn
                \/ \E docs \in {{dst}, Restored(t)} :
                      /\ PutBack(t, docs)
                      /\ transfers' = [transfers EXCEPT ![t].state = "half"]
                      /\ torn' = torn \cup SessionsOn(docs)
                      /\ UNCHANGED <<sessions, banner, stranded>>
    /\ UNCHANGED <<opened, workspace, shown, mapped, failed, bounds, acked,
                   contended, astray, crossed>>

\* The source is still the document that the move was planned from.
MayCut(t) ==
    /\ transfers[t].state = "pending"
    /\ disk[transfers[t].src] = transfers[t].was[transfers[t].src]

\* complete_interrupted_move_core cuts the source, wherever the subtree is
\* by now; an error after the cut returns before any session is dropped.
CompleteInterruptedMove(f) ==
    /\ flow[f].kind = "complete" /\ flow[f].at = "call"
    /\ flow' = [flow EXCEPT ![f] = Idle]
    /\ LET t == flow[f].txn
           src == transfers[t].src
           dst == transfers[t].dst
       IN  \/ UNCHANGED <<disk, sessions, transfers, torn, stranded>>
          \/ /\ MayCut(t)
             /\ src[1] = workspace /\ ~Guarded({src, dst})
             /\ disk' = [disk EXCEPT ![src] = @ \ {transfers[t].item}]
             /\ transfers' = [transfers EXCEPT ![t].state = "completed"]
             /\ \/ Dropped({src, dst}, FALSE) /\ UNCHANGED torn
                \/ /\ torn' = torn \cup SessionsOn({src})
                   /\ UNCHANGED <<sessions, stranded>>
    /\ UNCHANGED <<opened, workspace, interface, bounds, acked, withdrawn,
                   overtaken, contended, astray, crossed>>

-----------------------------------------------------------------------------
(* What an async function does with its answer.                             *)

\* The new session replaces whatever another function has mapped meanwhile.
SessionOpened(f) ==
    /\ flow[f].at = "opened"
    /\ LET p == Path(flow[f].doc)
       IN  /\ mapped' = [mapped EXCEPT ![p] = flow[f].sid]
           /\ stranded' = IF Live(flow[f].sid) THEN stranded \ {p}
                          ELSE stranded \cup {p}
           /\ contended' = IF Live(mapped[p])
                           THEN contended \cup {sessions[mapped[p]].doc}
                           ELSE contended
    /\ crossed' = (crossed \/ \E g \in Flows : flow[g].kind = "close")
    /\ flow' = [flow EXCEPT ![f] = At(@, "call")]
    /\ UNCHANGED <<backend, shown, failed, banner, bounds, acked, withdrawn,
                   overtaken, torn, astray>>

\* The result banner offers to undo the transfer, and afterTransferCommitted
\* forgets both sessions: by path, if the interface
\* still lists the documents, and whatever session is mapped by now.
TransferDone(f) ==
    /\ flow[f].at = "done"
    /\ LET docs == {flow[f].doc, flow[f].to}
           paths == {Path(d) : d \in docs \cap DocsOf(shown)}
           unknown == {s \in DOMAIN sessions :
                         \E p \in paths : mapped[p] = s}
       IN  /\ mapped' = Forget(paths)
           /\ contended' = contended \cup {sessions[s].doc : s \in unknown}
           /\ stranded' = (stranded \ paths)
                             \cup ({Path(d) : d \in docs} \ paths)
    /\ banner' = flow[f].txn
    /\ flow' = [flow EXCEPT ![f] = Idle]
    /\ UNCHANGED <<backend, shown, failed, bounds, acked, withdrawn, overtaken,
                   torn, astray, crossed>>

\* The user closes the result banner.
DismissTransferResult ==
    /\ banner # 0 /\ banner' = 0
    /\ UNCHANGED <<backend, shown, mapped, failed, flow, bounds, ghosts>>

-----------------------------------------------------------------------------
Init ==
    /\ disk = [d \in Docs |-> IF d = FirstDoc THEN 0..MaxOld ELSE {}]
    /\ sessions = [s \in {} |-> None]
    /\ opened = 0
    /\ workspace = FirstDoc[1] /\ shown = FirstDoc[1]
    /\ transfers = <<>> /\ banner = 0
    /\ mapped = [p \in Paths |-> 0]
    /\ failed = {}
    /\ flow = [f \in Flows |-> Idle]
    /\ edits = MaxOld /\ calls = 0
    /\ acked = 0..MaxOld
    /\ withdrawn = {} /\ overtaken = {} /\ contended = {} /\ mixed = {}
    /\ torn = {} /\ stranded = {} /\ astray = {}
    /\ crossed = FALSE

Start(f) ==
    \/ \E d \in Docs : StartEdit(f, d)
    \/ \E d \in Docs : StartSave(f, d)
    \/ \E d \in Docs, kind \in {"undo", "redo"} : StartUndoRedo(f, d, kind)
    \/ StartClose(f)
    \/ \E w \in Workspaces : StartOpenWorkspace(f, w)
    \/ \E src, dst \in Docs, x \in Changes, kind \in {"copy", "move"} :
         StartTransfer(f, src, dst, x, kind)
    \/ StartUndoTransfer(f)
    \/ \E t \in DOMAIN transfers : StartCompleteMove(f, t)

Command(f) ==
    \/ OpenDocumentSession(f) \/ OpenFails(f) \/ SessionNotFound(f)
    \/ EditDocument(f) \/ SaveDocumentAtomic(f)
    \/ UndoLastCommand(f) \/ RedoLastCommand(f)
    \/ CloseDocumentSession(f)
    \/ OpenWorkspace(f) \/ ListDocuments(f) \/ CloseWorkspace(f)
    \/ TransferRefused(f) \/ ExecuteTransfer(f)
    \/ UndoTransfer(f) \/ CompleteInterruptedMove(f)

Continue(f) ==
    \/ SessionOpened(f) \/ TransferDone(f)

\* What a document holds: its file and its sessions.
Holds(d) == disk[d] \cup UNION {sessions[s].tree : s \in SessionsOn({d})}

Mixes == mixed' = mixed \cup UNION {Holds(d)' : d \in contended'}

Next ==
    /\ \/ \E f \in Flows : Start(f) \/ Command(f) \/ Continue(f)
       \/ DismissTransferResult
    /\ Mixes

Spec == Init /\ [][Next]_vars

-----------------------------------------------------------------------------
(* Properties.                                                              *)

Flow == [kind : {"idle", "edit", "save", "undo", "redo", "close", "workspace",
                 "copy", "move", "undoTransfer", "complete"},
         at : {"idle", "open", "opened", "call", "list", "done"},
         doc : Docs \cup {None}, to : Docs \cup Workspaces \cup {None},
         item : Changes, txn : Nat, sid : SessionIds \cup {0},
         todo : SUBSET SessionIds]

Transfer == [kind : {"copy", "move"}, src : Docs, dst : Docs, item : Changes,
             was : UNION {[D -> SUBSET Changes] : D \in SUBSET Docs},
             state : {"done", "half", "undone", "pending", "completed"}]

\* The type invariant: a session always belongs to a file that exists, its
\* histories hold only changes that were made, and ids are never reused.
TypeOK ==
    /\ disk \in [Docs -> SUBSET Changes]
    /\ opened \in 0..MaxSessions
    /\ DOMAIN sessions \subseteq 1..opened
    /\ \A s \in DOMAIN sessions :
         /\ sessions[s].doc \in Docs
         /\ sessions[s].tree \subseteq 0..edits
         /\ sessions[s].base \subseteq 0..edits
         /\ {sessions[s].done[i] : i \in DOMAIN sessions[s].done}
              \subseteq sessions[s].tree
         /\ sessions[s].dirty \in BOOLEAN
    /\ workspace \in Workspaces \cup {None}
    /\ shown \in Workspaces \cup {None}
    /\ transfers \in Seq(Transfer)
    /\ mapped \in [Paths -> 0..opened]
    /\ failed \subseteq Paths /\ stranded \subseteq Paths
    /\ banner \in 0..Len(transfers)
    /\ flow \in [Flows -> Flow]
    /\ \A f \in Flows : flow[f].txn \in 0..Len(transfers)

\* The sessions the interface can still reach: mapped, or in the hands of an
\* async function.
Reachable(s) ==
    \/ \E p \in Paths : mapped[p] = s
    \/ \E f \in Flows : flow[f].sid = s \/ s \in flow[f].todo

Stored(e) ==
    \/ \E d \in Docs : e \in disk[d]
    \/ \E s \in DOMAIN sessions : Reachable(s) /\ e \in sessions[s].tree

\* The source backup of a move whose undo has begun and not succeeded.
InBackup(e) == \E t \in DOMAIN transfers :
    transfers[t].state = "half" /\ transfers[t].kind = "move" /\ transfers[t].item = e

\* What the backend acknowledged is on disk, in a session that can still be
\* saved, or in the backup of an undo that can be tried again, through saves,
\* transfers, their undo and completion, and changes of workspace.  It is given
\* up only where it was undone, rolled back by an undone transfer, or closed
\* without a save.  Two changes have no such promise: one that was in a
\* document with two sessions, and one that was transferred before the undo of
\* an older transfer.
AcknowledgedEditsSurvive ==
    \A e \in acked \ (withdrawn \cup overtaken \cup mixed) : Stored(e) \/ InBackup(e)

\* A session knows its file: what it believes to be on disk is on disk, so
\* that its next save replaces nothing it has not seen, and "not dirty" means
\* saved.  Transfers rewrite files beneath the sessions; this is what the
\* guard and the dropping of sessions are for.  It fails for the sessions that
\* were open when a transfer command rewrote the file and then failed.
SessionsKnowTheirFile ==
    \A s \in DOMAIN sessions \ torn :
        sessions[s].doc \notin contended =>
            /\ sessions[s].base = disk[sessions[s].doc]
            /\ ~sessions[s].dirty => sessions[s].tree = sessions[s].base

\* An edit of a row changes the document the row belongs to, although
\* sessions are looked up by a path that is relative to the workspace - as
\* long as a workspace is closed before the next one is opened, and nothing
\* else is under way meanwhile.
EditsReachTheirDocument == astray # {} => crossed

\* The interface never keeps the id of a session that the backend dropped,
\* except after a transfer that failed, an undo of one, or a completion:
\* none of these tells it.
DroppedSessionsAreForgotten ==
    \A p \in Paths :
        mapped[p] # 0 /\ ~Live(mapped[p]) =>
            \/ p \in stranded
            \/ \E f \in Flows : /\ flow[f].at = "done"
                              /\ p \in {Path(flow[f].doc), Path(flow[f].to)}
=============================================================================
