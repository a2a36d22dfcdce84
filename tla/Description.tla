------------------------------ MODULE Description ------------------------------
(***************************************************************************)
(* The editing of task descriptions (domain/rich_text.rs): RichTextSession  *)
(* debounces keystrokes into drafts and drafts into commits with their own  *)
(* undo and redo stacks, and counts the autosaves (it writes no file);      *)
(* ImageAssetStore keeps the images the descriptions mention, with an index *)
(* on disk, orphan marks and a garbage collector.  A description is the set *)
(* of images it mentions: its words are told apart by nothing below.        *)
(***************************************************************************)
EXTENDS Naturals, Sequences, FiniteSets, SequencesExt, Functions

CONSTANTS
    None,            \* no text, no draft: a model value
    Tasks,           \* tasks whose description is edited
    Opaque,          \* those among them whose COMMENTSTYPE is read-only
    Images,          \* image payloads, told apart by their hash
    Files,           \* names the store can give (a fresh UUID each)
    Debounce, AutosaveEvery, Grace,   \* periods, in ticks of the clock
    MaxUndo,         \* max_undo_depth
    MaxTime, MaxKeys, MaxGc           \* bounds of the model

\* What the constants are; assumed by the module that gives them values.
DescriptionAssumption ==
    Opaque \subseteq Tasks /\ Debounce \in Nat /\ AutosaveEvery \in Nat /\ Grace \in Nat
    /\ MaxUndo \in Nat /\ MaxTime \in Nat /\ MaxKeys \in Nat /\ MaxGc \in Nat

VARIABLES
    now,             \* the clock
    core,            \* the description of each task, None when it has none
    drafts,          \* the pending draft of each task, None when there is none
    undoLog, redoLog, \* stacks of commits, the top last
    dirty,           \* commits > last_serialized_commits
    lastSave,        \* last_autosave_ms
    files,           \* image files in the images directory
    index,           \* index.json: [file, image]
    marks,           \* orphans.manifest: [file, at]
    keys, sweeps,    \* keystrokes and collections so far
    typed,           \* history: the last text accepted from the user, None once revoked
    handed,          \* history: files whose reference the store has given out
    swept,           \* history: files collected unmentioned, not given out since
    leftover         \* history: files a cut collection left in the index

session == <<core, drafts, undoLog, redoLog, dirty, lastSave, typed>>
store == <<files, index, marks, handed, swept, leftover, sweeps>>
vars == <<now, session, store, keys>>

Texts == {{}} \cup {{f} : f \in Files}
Blank(value) == [t \in Tasks |-> value]

Mentioned(text) == IF text = None THEN {} ELSE text
Commit(t, previous, next) == [task |-> t, previous |-> previous, next |-> next]

Init ==
    /\ now = 0 /\ core = Blank(None) /\ drafts = Blank(None)
    /\ undoLog = <<>> /\ redoLog = <<>>
    /\ dirty = FALSE /\ lastSave = 0
    /\ files = {} /\ index = {} /\ marks = {}
    /\ keys = 0 /\ sweeps = 0
    /\ typed = Blank(None) /\ handed = {} /\ swept = {} /\ leftover = {}

---------------------------------------------------------------------------
(* The debounced session.                                                  *)

\* keystroke buffers, or replaces, the draft of the task.  A draft above the
\* size limit is refused and changes nothing.
Keystroke(t, text) ==
    /\ keys < MaxKeys
    /\ keys' = keys + 1
    /\ drafts' = [drafts EXCEPT ![t] = [text |-> text, at |-> now]]
    /\ typed' = [typed EXCEPT ![t] = text]
    /\ UNCHANGED <<now, core, undoLog, redoLog, dirty, lastSave, store>>

\* A faulty variant: the redo branch survives a new commit.
PushedOnly(s, commit) ==
    [s EXCEPT !.undoLog = LET log == Append(@, commit)
                          IN  IF Len(log) > MaxUndo THEN Tail(log) ELSE log]

\* The stacks after a new commit: the oldest goes at the cap, the redo branch
\* is dropped.
Pushed(s, commit) ==
    [s EXCEPT !.undoLog = LET log == Append(@, commit)
                          IN  IF Len(log) > MaxUndo THEN Tail(log) ELSE log,
              !.redoLog = <<>>]

\* A faulty variant: the draft is compared with the last commit, whose task it may
\* not be.
CommitIfNew(s, t) ==
    LET text == s.drafts[t].text
        taken == [s EXCEPT !.drafts[t] = None]
    IN  IF t \in Opaque \/ (s.undoLog # <<>> /\ Last(s.undoLog).next = text)
        THEN taken
        ELSE [Pushed(taken, Commit(t, s.core[t], text)) EXCEPT
                !.core[t] = text, !.dirty = TRUE]

\* commit_pending: the draft is gone whatever follows; a read-only type
\* refuses it and an unchanged text is no commit.
CommitPending(s, t) ==
    LET text == s.drafts[t].text
        taken == [s EXCEPT !.drafts[t] = None]
    IN  IF t \in Opaque \/ s.core[t] = text
        THEN taken
        ELSE [Pushed(taken, Commit(t, s.core[t], text)) EXCEPT
                !.core[t] = text, !.dirty = TRUE]

CommitAll(S) ==
    FoldSet(LAMBDA t, s : CommitPending(s, t),
            [core |-> core, drafts |-> drafts, undoLog |-> undoLog, redoLog |-> redoLog,
             dirty |-> dirty], S)

Pending == {t \in Tasks : drafts[t] # None}

\* The session's fields after commits, and the autosave gate: a serialization of
\* a dirty session is counted, and the session clean from then on, when the
\* interval has passed since the last one, or when save_now forces it.
Settle(s, forced) ==
    LET save == forced \/ (s.dirty /\ now - lastSave >= AutosaveEvery)
    IN  /\ core' = s.core /\ drafts' = s.drafts
        /\ undoLog' = s.undoLog /\ redoLog' = s.redoLog
        /\ dirty' = (s.dirty /\ ~save)
        /\ lastSave' = (IF save THEN now ELSE lastSave)

DueNow == {t \in Pending : now - drafts[t].at >= Debounce}

SessionTick ==
    /\ Settle(CommitAll(DueNow), FALSE)
    /\ UNCHANGED <<now, typed, keys, store>>

Flush ==
    /\ Settle(CommitAll(Pending), FALSE)
    /\ UNCHANGED <<now, typed, keys, store>>

SaveNow ==
    /\ Settle(CommitAll(Pending), TRUE)
    /\ UNCHANGED <<now, typed, keys, store>>

CancelPending ==
    /\ Pending # {}
    /\ drafts' = Blank(None)
    /\ typed' = [t \in Tasks |-> IF t \in Pending THEN None ELSE typed[t]]
    /\ UNCHANGED <<now, core, undoLog, redoLog, dirty, lastSave, keys, store>>

\* An undo takes back what the user typed, unless a draft is still pending.
Revoked(t) == [typed EXCEPT ![t] = IF drafts[t] = None THEN None ELSE @]

UndoDescription ==
    /\ undoLog # <<>>
    /\ LET commit == Last(undoLog)
       IN  /\ core' = [core EXCEPT ![commit.task] = commit.previous]
           /\ undoLog' = Front(undoLog)
           /\ redoLog' = Append(redoLog, commit)
           /\ typed' = Revoked(commit.task)
    /\ UNCHANGED <<now, drafts, dirty, lastSave, keys, store>>

RedoDescription ==
    /\ redoLog # <<>>
    /\ LET commit == Last(redoLog)
       IN  /\ core' = [core EXCEPT ![commit.task] = commit.next]
           /\ redoLog' = Front(redoLog)
           /\ undoLog' = Append(undoLog, commit)
           /\ typed' = Revoked(commit.task)
    /\ UNCHANGED <<now, drafts, dirty, lastSave, keys, store>>

Wait ==
    /\ now < MaxTime
    /\ now' = now + 1
    /\ UNCHANGED <<session, keys, store>>

---------------------------------------------------------------------------
(* The image store.                                                        *)

FreshFiles == Files \ (files \cup handed \cup swept)

\* ingest_bytes_at: an image the index knows is not written again, whether its
\* file is still there or marked or not.
Ingest(image) ==
    /\ LET known == {e \in index : e.image = image}
       IN  \/ /\ known # {}
              /\ LET e == CHOOSE e \in known : TRUE
                 IN  /\ handed' = handed \cup {e.file}
                     /\ swept' = swept \ {e.file}
              /\ UNCHANGED <<files, index>>
           \/ /\ known = {}
              /\ \E f \in FreshFiles :
                    /\ files' = files \cup {f}
                    /\ index' = index \cup {[file |-> f, image |-> image]}
                    /\ handed' = handed \cup {f}
              /\ UNCHANGED swept
    /\ UNCHANGED <<now, session, keys, marks, leftover, sweeps>>

\* What the caller gives the collector: the live descriptions and drafts, and
\* both stacks of the session's history.
History(log) == UNION {Mentioned(log[i].previous) \cup Mentioned(log[i].next) : i \in DOMAIN log}
Drafted == UNION {drafts[t].text : t \in Pending}
References == UNION {Mentioned(core[t]) : t \in Tasks} \cup Drafted
                 \cup History(undoLog) \cup History(redoLog)

\* keep_reason: mentioned anywhere, not marked, or marked too recently.
Kept(f) == f \in References \/ ~ \E m \in marks : m.file = f /\ now - m.at >= Grace

\* detect_orphans marks what nothing mentions and clears the mark of the rest.
DetectOrphans ==
    /\ marks' = {m \in marks : m.file \notin files \cap References}
                  \cup {[file |-> f, at |-> now] : f \in {g \in files \ References :
                                                            ~ \E m \in marks : m.file = g}}
    /\ marks' # marks
    /\ UNCHANGED <<now, session, keys, files, index, handed, swept, leftover, sweeps>>

\* A faulty variant: the collected images stay in the index.
RunGcFiles(failed, done) ==
    LET deleted == {f \in files : ~Kept(f)} \ failed
    IN  /\ sweeps < MaxGc /\ deleted # {}
        /\ sweeps' = sweeps + 1
        /\ files' = files \ deleted
        /\ swept' = swept \cup (deleted \ References)
        /\ marks' = IF done = "files" THEN marks ELSE {m \in marks : m.file \notin deleted}
        /\ leftover' = IF done = "all" THEN leftover ELSE leftover \cup deleted
        /\ UNCHANGED <<now, session, keys, index, handed>>

\* run_gc, confirmed by the user: each file (failed ones stay), then the marks,
\* then the index, as far as it gets before the process ends or a save fails.
RunGc(failed, done) ==
    LET deleted == {f \in files : ~Kept(f)} \ failed
    IN  /\ sweeps < MaxGc /\ deleted # {}
        /\ sweeps' = sweeps + 1
        /\ files' = files \ deleted
        /\ swept' = swept \cup (deleted \ References)
        /\ marks' = IF done = "files" THEN marks ELSE {m \in marks : m.file \notin deleted}
        /\ index' = IF done = "all" THEN {e \in index : e.file \notin deleted} ELSE index
        /\ leftover' = IF done = "all" THEN leftover ELSE leftover \cup deleted
        /\ UNCHANGED <<now, session, keys, handed>>

Next ==
    \/ \E t \in Tasks, text \in {{}} \cup {{f} : f \in handed} : Keystroke(t, text)
    \/ SessionTick \/ Flush \/ SaveNow \/ CancelPending
    \/ UndoDescription \/ RedoDescription \/ Wait
    \/ \E image \in Images : Ingest(image)
    \/ DetectOrphans
    \/ \E failed \in SUBSET files, done \in {"files", "marks", "all"} : RunGc(failed, done)

Spec == Init /\ [][Next]_vars

---------------------------------------------------------------------------
(* What the session and the store promise.                                 *)

\* Going down the undo stack, or up the redo stack, meets at every commit the
\* text that the commit replaced or produced: no undo writes back a text of
\* another branch of the history.
UndoReplays ==
    LET Chain(log, text, After(_), Before(_)) ==
            \A i \in DOMAIN log :
                LET later == {j \in DOMAIN log : j > i /\ log[j].task = log[i].task}
                IN  After(log[i]) = IF later = {} THEN text[log[i].task]
                                    ELSE Before(log[CHOOSE j \in later : \A k \in later : j <= k])
        Previous(c) == c.previous
        Following(c) == c.next
    IN  Chain(undoLog, core, Following, Previous) /\ Chain(redoLog, core, Previous, Following)

\* What the user typed last, and did not take back, is in the draft or in the
\* description, whatever was committed, undone or redone for other tasks.
TypingSurvives ==
    \A t \in Tasks \ Opaque :
        typed[t] # None => typed[t] = IF drafts[t] = None THEN core[t] ELSE drafts[t].text

\* An image that a description, a draft or the history mentions is on disk,
\* with two exceptions that the code leaves open: it was collected between the
\* paste that gave it out and the first text that mentions it, or a paste reused
\* what a collection cut before save_index had left in the index
\* (rich_text.rs:1185 does not look for the file).
ImagesSurvive == References \subseteq files \cup swept \cup leftover
================================================================================
