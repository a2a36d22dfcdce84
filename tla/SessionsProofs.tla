---------------------------- MODULE SessionsProofs ----------------------------
(***************************************************************************)
(* Proofs about Sessions, for any number of async functions, documents,    *)
(* workspaces, sessions and changes.                                       *)
(*                                                                         *)
(* The invariants build on each other: types and records (TypeInv), what a *)
(* session knows of its file (FileInv), whose sessions are in the rows     *)
(* (RowInv, SwitchInv), and what undo and redo hold (HistInv).             *)
(***************************************************************************)
EXTENDS Sessions, SequenceTheorems, TLAPS

\* The session ids given out so far.
Given == 1 .. opened

\* An open session; TypeOK says what its trees and histories hold besides.
Session ==
    [doc : Docs, tree : SUBSET Nat, base : SUBSET Nat,
     done : Seq(Nat), undone : Seq(Nat), dirty : BOOLEAN]

\* The kinds of function that use a session, and those that transfer a subtree.
WithSession == {"edit", "save", "undo", "redo"}
Transferring == {"copy", "move"}

\* What a flow of each kind carries.
Shape(w) ==
    /\ w \in Flow
    /\ w.kind = "idle" \/ w.at = "idle" => w = Idle
    /\ w.kind # "close" => w.todo = {}
    /\ w.kind \in WithSession \cup Transferring => w.doc \in Docs
    /\ w.kind \in Transferring =>
         /\ w.to \in Docs /\ w.at \in {"call", "done"}
         /\ Path(w.doc) # Path(w.to)
    /\ w.kind \in WithSession => w.at \in {"open", "opened", "call"}
    /\ w.kind = "close" => w.at = "call"
    /\ w.kind = "workspace" => w.to \in Workspaces /\ w.at \in {"call", "list"}
    /\ w.kind \in {"undoTransfer", "complete"} => w.at = "call" /\ w.txn # 0
    /\ w.at = "done" => w.txn # 0

\* The flows are well formed and hold no id that was not given out.
FlowInv ==
    /\ flow \in [Flows -> Flow]
    /\ \A f \in Flows :
         /\ Shape(flow[f])
         /\ flow[f].sid \in Given \cup {0} /\ flow[f].todo \subseteq Given

\* The types of everything but the flows and the records of transfers.
DataInv ==
    /\ edits \in 0 .. MaxEdits /\ opened \in 0 .. MaxSessions
    /\ disk \in [Docs -> SUBSET Nat]
    /\ DOMAIN sessions \subseteq Given
    /\ sessions \in [DOMAIN sessions -> Session]
    /\ workspace \in Workspaces \cup {None} /\ shown \in Workspaces \cup {None}
    /\ mapped \in [Paths -> Given \cup {0}]
    /\ failed \subseteq Paths /\ stranded \subseteq Paths

\* The record of a transfer; TypeOK says what the backups hold.
States == {"done", "half", "undone", "pending", "completed"}
Past == [kind : Transferring, src : Docs, dst : Docs, item : Changes,
         was : UNION {[D -> SUBSET Nat] : D \in SUBSET Docs}, state : States]

\* A record keeps both its documents as they were.
Kept(r) == r.was \in [{r.src, r.dst} -> SUBSET Nat]

\* The transactions that the banner and the flows know of have a record.
RecordInv ==
    /\ transfers \in Seq(Past)
    /\ \A t \in 1 .. Len(transfers) : Kept(transfers[t])
    /\ banner \in 0 .. Len(transfers)
    /\ \A f \in Flows : flow[f].txn \in 0 .. Len(transfers)

TypeInv == FlowInv /\ DataInv /\ RecordInv

\* The ids given out are ids; 0 is none of them (next_session_id starts at 1).
LEMMA GivenIds == DataInv => Given \subseteq SessionIds /\ SessionIds \subseteq Nat /\ 0 \notin Given
BY SessionsAssumption DEF DataInv, Given, SessionIds

\* Change 0, what a document held at the start, is a change.
LEMMA NoChange == 0 \in Changes
BY SessionsAssumption DEF Changes

\* An idle function is a well-formed flow that holds nothing.
LEMMA IdleIsFlow ==
    /\ Shape(Idle) /\ Idle.sid = 0 /\ Idle.todo = {} /\ Idle.txn = 0
    /\ Idle.kind = "idle" /\ Idle.at = "idle"
BY SessionsAssumption DEF Idle, Flow, Changes, SessionIds, Shape, WithSession, Transferring

\* A document is the pair of its workspace and its path.
LEMMA PathsOfDocs == \A d \in Docs : Path(d) \in Paths /\ d = <<d[1], Path(d)>> /\ d[1] \in Workspaces
BY SessionsAssumption DEF Path

\* What a path resolves to is a document with that path.
LEMMA ResolvedDocs == \A p \in Paths : Resolve(p) # None => Resolve(p) \in Docs /\ Path(Resolve(p)) = p
BY DEF Resolve, Path

\* A flow that waits for something else is otherwise unchanged.
LEMMA AtUpdates ==
    ASSUME NEW w \in Flow, NEW at \in {"list", "call"}
    PROVE  /\ At(w, at) \in Flow /\ At(w, at).at = at /\ At(w, at).txn = w.txn
           /\ At(w, at).kind = w.kind /\ At(w, at).doc = w.doc /\ At(w, at).to = w.to
           /\ At(w, at).item = w.item /\ At(w, at).sid = w.sid /\ At(w, at).todo = w.todo
BY DEF Flow, At

\* A flow whose session was opened carries its id.
LEMMA OpenedUpdates ==
    ASSUME NEW w \in Flow, NEW s \in SessionIds
    PROVE  /\ Opened(w, s) \in Flow /\ Opened(w, s).at = "opened" /\ Opened(w, s).sid = s
                /\ Opened(w, s).kind = w.kind /\ Opened(w, s).doc = w.doc
                /\ Opened(w, s).to = w.to
                /\ Opened(w, s).item = w.item /\ Opened(w, s).todo = w.todo
                /\ Opened(w, s).txn = w.txn
BY DEF Flow, Opened

\* A flow whose transfer was committed carries its transaction.
LEMMA CommittedUpdates ==
    ASSUME NEW w \in Flow, NEW t \in Nat
    PROVE  /\ Committed(w, t) \in Flow /\ Committed(w, t).at = "done"
           /\ Committed(w, t).txn = t
           /\ Committed(w, t).kind = w.kind /\ Committed(w, t).doc = w.doc
           /\ Committed(w, t).to = w.to /\ Committed(w, t).item = w.item
           /\ Committed(w, t).sid = w.sid /\ Committed(w, t).todo = w.todo
BY DEF Flow, Committed

\* A flow that has closed a session has one session less to close.
LEMMA ClosingUpdates ==
    ASSUME NEW w \in Flow, NEW s
    PROVE       /\ Closing(w, s) \in Flow /\ Closing(w, s).todo = w.todo \ {s}
                /\ Closing(w, s).kind = w.kind /\ Closing(w, s).doc = w.doc
                /\ Closing(w, s).to = w.to /\ Closing(w, s).at = w.at
                /\ Closing(w, s).item = w.item /\ Closing(w, s).sid = w.sid
                /\ Closing(w, s).txn = w.txn
BY DEF Flow, Closing

\* One flow changes and the others do not.
LEMMA FlowChange ==
    ASSUME flow \in [Flows -> Flow], NEW f \in Flows, NEW w \in Flow,
           flow' = [flow EXCEPT ![f] = w]
    PROVE  /\ flow' \in [Flows -> Flow] /\ flow'[f] = w
           /\ \A g \in Flows : g # f => flow'[g] = flow[g]
OBVIOUS

\* What a flow is when it has just begun.
LEMMA Ensured ==
    ASSUME DataInv, FlowInv, NEW f \in Flows, NEW kind \in WithSession, NEW d \in Docs, NEW e \in Changes,
           kind \in {"undo", "redo"} => mapped[Path(d)] # 0,
           EnsureSession(f, kind, d, e)
    PROVE  \E w \in Flow : 
              /\ flow' = [flow EXCEPT ![f] = w] /\ Shape(w)
              /\ w.kind = kind /\ w.doc = d /\ w.item = e /\ w.sid = mapped[Path(d)] /\ w.todo = {}
              /\ w.at = IF mapped[Path(d)] # 0 THEN "call" ELSE "open"
              /\ w.txn = 0
<1> DEFINE held == mapped[Path(d)]
           w ==  [Idle EXCEPT !.kind = kind, !.doc = d, !.item = e, !.sid = held,
                          !.at = IF held # 0 THEN "call" ELSE "open"]
<1>1. held \in SessionIds \cup {0}
  BY GivenIds, PathsOfDocs DEF DataInv
<1>2. /\ w.kind = kind /\ w.doc = d /\ w.item = e /\ w.sid = mapped[Path(d)] /\ w.todo = {}
      /\ w.at = IF mapped[Path(d)] # 0 THEN "call" ELSE "open"
      /\ w.to = None /\ w.txn = 0
  BY DEF Idle
<1>3. w \in Flow
  BY <1>1 DEF Idle, Flow, WithSession
<1>4. Shape(w)
  <2> HIDE DEF w
  <2> QED
    BY <1>2, <1>3 DEF Shape, WithSession, Transferring
<1> QED
  BY <1>2, <1>3, <1>4 DEF EnsureSession

\* What an editing command does to each field of a session.
LEMMA EditedFacts ==
    ASSUME NEW k \in Session, NEW e \in Nat
    PROVE  /\ Edited(k, e) \in Session /\ Edited(k, e).doc = k.doc
           /\ Edited(k, e).tree = k.tree \cup {e} /\ Edited(k, e).base = k.base
           /\ Edited(k, e).done = Append(k.done, e) /\ Edited(k, e).undone = <<>>
           /\ Edited(k, e).dirty
<1>1. Append(k.done, e) \in Seq(Nat) /\ <<>> \in Seq(Nat) /\ k.tree \cup {e} \in SUBSET Nat
  BY DEF Session
<1>2. /\ Edited(k, e).doc = k.doc
      /\ Edited(k, e).tree = k.tree \cup {e} /\ Edited(k, e).base = k.base
      /\ Edited(k, e).done = Append(k.done, e) /\ Edited(k, e).undone = <<>>
      /\ Edited(k, e).dirty
  BY DEF Session, Edited
<1> QED BY <1>1, <1>2 DEF Session, Edited

\* What a save does to each field of a session.
LEMMA SavedFacts ==
    ASSUME NEW k \in Session
    PROVE  /\ Saved(k) \in Session /\ Saved(k).doc = k.doc
           /\ Saved(k).tree = k.tree /\ Saved(k).base = k.tree /\ ~Saved(k).dirty
           /\ Saved(k).done = k.done /\ Saved(k).undone = k.undone
BY DEF Session, Saved

\* The rest and the newest of a stack of changes.
LEMMA PoppedType ==
    ASSUME NEW q \in Seq(Nat), q # <<>>
    PROVE  Popped(q) \in Seq(Nat) /\ Newest(q) \in Nat
BY DEF Popped, Newest

\* What undo does to each field of a session.
LEMMA UndoneFacts ==
    ASSUME NEW k \in Session, k.done # <<>>
    PROVE  /\ Undone(k) \in Session /\ Undone(k).doc = k.doc
           /\ Undone(k).tree = k.tree \ {Newest(k.done)} /\ Undone(k).base = k.base
           /\ Undone(k).done = Popped(k.done)
           /\ Undone(k).undone = Append(k.undone, Newest(k.done))
           /\ Undone(k).dirty
<1>1. Popped(k.done) \in Seq(Nat) /\ Newest(k.done) \in Nat
  BY PoppedType DEF Session
<1>2. Append(k.undone, Newest(k.done)) \in Seq(Nat) /\ k.tree \ {Newest(k.done)} \in SUBSET Nat
  BY <1>1 DEF Session
<1>3. /\ Undone(k).doc = k.doc
      /\ Undone(k).tree = k.tree \ {Newest(k.done)} /\ Undone(k).base = k.base
      /\ Undone(k).done = Popped(k.done)
      /\ Undone(k).undone = Append(k.undone, Newest(k.done))
      /\ Undone(k).dirty
  BY DEF Session, Undone
<1> QED
  BY <1>1, <1>2, <1>3 DEF Session, Undone

\* What redo does to each field of a session.
LEMMA RedoneFacts ==
    ASSUME NEW k \in Session, k.undone # <<>>
    PROVE  /\ Redone(k) \in Session /\ Redone(k).doc = k.doc
           /\ Redone(k).tree = k.tree \cup {Newest(k.undone)} /\ Redone(k).base = k.base
           /\ Redone(k).done = Append(k.done, Newest(k.undone))
           /\ Redone(k).undone = Popped(k.undone)
           /\ Redone(k).dirty
<1>1. Popped(k.undone) \in Seq(Nat) /\ Newest(k.undone) \in Nat
  BY PoppedType DEF Session
<1>2. Append(k.done, Newest(k.undone)) \in Seq(Nat) /\ k.tree \cup {Newest(k.undone)} \in SUBSET Nat
  BY <1>1 DEF Session
<1>3. /\ Redone(k).doc = k.doc
      /\ Redone(k).tree = k.tree \cup {Newest(k.undone)} /\ Redone(k).base = k.base
      /\ Redone(k).done = Append(k.done, Newest(k.undone))
      /\ Redone(k).undone = Popped(k.undone)
      /\ Redone(k).dirty
  BY DEF Session, Redone
<1> QED
  BY <1>1, <1>2, <1>3 DEF Session, Redone

\* Forgetting the sessions of some paths leaves those of the others.
LEMMA ForgetFacts ==
    ASSUME DataInv, NEW P \in SUBSET Paths
    PROVE  /\ Forget(P) \in [Paths -> Given \cup {0}]
           /\ \A p \in Paths : Forget(P)[p] = IF p \in P THEN 0 ELSE mapped[p]
BY DEF Forget, DataInv

\* Dropping sessions leaves the others as they were.
LEMMA DiscardFacts ==
    ASSUME DataInv, NEW S
    PROVE  /\ DOMAIN Discard(S) = DOMAIN sessions \ S
           /\ \A s \in DOMAIN sessions \ S : Discard(S)[s] = sessions[s]
           /\ Discard(S) \in [DOMAIN Discard(S) -> Session]
BY DEF Discard, DataInv

\* Closing one session leaves the others as they were.
LEMMA DiscardLeaves ==
    ASSUME DataInv, NEW s, sessions' = Discard({s})
    PROVE  /\ DOMAIN sessions' = DOMAIN sessions \ {s}
           /\ DOMAIN sessions' \subseteq DOMAIN sessions
           /\ \A t \in DOMAIN sessions' : sessions'[t] = sessions[t]
<1>1. PICK S : S = {s}
  OBVIOUS
<1>2. /\ DOMAIN Discard(S) = DOMAIN sessions \ S
      /\ \A t \in DOMAIN sessions \ S : Discard(S)[t] = sessions[t]
  BY DiscardFacts
<1> QED
  BY <1>1, <1>2

\* Writing one session leaves the others as they were.
LEMMA WriteSession ==
    ASSUME DataInv, NEW s \in DOMAIN sessions, NEW k \in Session, 
           sessions' = [sessions EXCEPT ![s] = k]
    PROVE  /\ DOMAIN sessions' = DOMAIN sessions
           /\ sessions' \in [DOMAIN sessions' -> Session]
           /\ sessions'[s] = k
           /\ \A t \in DOMAIN sessions : t # s => sessions'[t] = sessions[t]
BY DEF DataInv

\* A flow that changes to a well-formed one keeps all flows well formed.
LEMMA FlowStep ==
    ASSUME FlowInv, DataInv, NEW f \in Flows, NEW w, Shape(w), flow' = [flow EXCEPT ![f] = w],
           w.sid \in Given' \cup {0}, w.todo \subseteq Given',
           opened' \in Nat, opened <= opened'
    PROVE  FlowInv'
<1>1. w \in Flow
  BY DEF Shape
<1>2. /\ flow' \in [Flows -> Flow] /\ flow'[f] = w
      /\ \A g \in Flows : g # f => flow'[g] = flow[g]
  BY <1>1, FlowChange DEF FlowInv
<1>3. Given \subseteq Given'
  BY DEF Given, DataInv
<1> QED
  BY <1>2, <1>3 DEF FlowInv

\* A flow that is answered and done keeps all flows well formed.
LEMMA BackToIdle ==
    ASSUME FlowInv, DataInv, NEW f \in Flows, flow' = [flow EXCEPT ![f] = Idle], opened' = opened
    PROVE  FlowInv'
<1>1. opened' \in Nat /\ opened <= opened'
  BY SessionsAssumption DEF DataInv
<1> QED
  BY <1>1, FlowStep, IdleIsFlow

\* A flow that opens a workspace is well formed.
LEMMA StartedWorkspace ==
    ASSUME NEW w \in Workspaces
    PROVE  LET x == [Idle EXCEPT !.kind = "workspace", !.at = "call", !.to = w]
           IN  /\ Shape(x) /\ x.kind = "workspace" /\ x.at = "call"
               /\ x.sid = 0 /\ x.todo = {} /\ x.txn = 0
<1> DEFINE x == [Idle EXCEPT !.kind = "workspace", !.at = "call", !.to = w]
<1>1. /\ x.kind = "workspace" /\ x.at = "call" /\ x.sid = 0 /\ x.todo = {}
      /\ x.to = w /\ x.doc = None /\ x.txn = 0
  BY DEF Idle
<1>2. x \in Flow
  BY NoChange, SessionsAssumption DEF Idle, Flow
<1> HIDE DEF x
<1>3. Shape(x)
  BY <1>1, <1>2 DEF Shape, WithSession, Transferring
<1> QED
  BY <1>1, <1>3 DEF x

\* A flow that asks for the undo or the completion of transfer t.
Asking(kind, t) == [Idle EXCEPT !.kind = kind, !.at = "call", !.txn = t]

\* Such a flow is well formed.
LEMMA StartedOther ==
    ASSUME NEW kind \in {"undoTransfer", "complete"}, NEW t \in Nat \ {0}
    PROVE  /\ Shape(Asking(kind, t)) /\ Asking(kind, t).kind = kind /\ Asking(kind, t).at = "call"
           /\ Asking(kind, t).sid = 0 /\ Asking(kind, t).todo = {} /\ Asking(kind, t).txn = t
<1> DEFINE x == Asking(kind, t)
<1> USE DEF Asking
<1>1. x.kind = kind /\ x.at = "call" /\ x.sid = 0 /\ x.todo = {} /\ x.txn = t
  BY DEF Idle
<1>2. x \in Flow
  BY NoChange, SessionsAssumption DEF Idle, Flow
<1> HIDE DEF x
<1>3. Shape(x)
  BY <1>1, <1>2 DEF Shape, WithSession, Transferring
<1> QED
  BY <1>1, <1>3 DEF x

\* A flow that closes the sessions of a workspace is well formed.
LEMMA StartedClose ==
    ASSUME NEW todo \in SUBSET SessionIds
    PROVE  LET x == [Idle EXCEPT !.kind = "close", !.at = "call", !.todo = todo]
           IN  /\ Shape(x) /\ x.kind = "close" /\ x.at = "call"
               /\ x.sid = 0 /\ x.todo = todo /\ x.txn = 0
<1> DEFINE x == [Idle EXCEPT !.kind = "close", !.at = "call", !.todo = todo]
<1>1. x.kind = "close" /\ x.at = "call" /\ x.sid = 0 /\ x.todo = todo /\ x.txn = 0
  BY DEF Idle
<1>2. x \in Flow
  BY NoChange, SessionsAssumption DEF Idle, Flow
<1> HIDE DEF x
<1>3. Shape(x)
  BY <1>1, <1>2 DEF Shape, WithSession, Transferring
<1> QED
  BY <1>1, <1>3 DEF x

\* What starting a function changes: a fresh flow w, which either leaves the
\* interface alone or is about to close its sessions.
Began(f, w) ==
    /\ flow[f] = Idle /\ flow' = [flow EXCEPT ![f] = w]
    /\ Shape(w) /\ w.kind # "idle" /\ w.at \in {"open", "call"}
    /\ edits' = IF w.kind = "edit" THEN edits + 1 ELSE edits
    /\ edits' \in 0 .. MaxEdits
    /\ w.txn \in 0 .. Len(transfers)
    /\ UNCHANGED <<backend, shown, banner, contended, torn, astray, crossed>>
    /\ \/ /\ w.kind \in WithSession
          /\ w.doc[1] = shown /\ w.sid = mapped[Path(w.doc)] /\ w.todo = {}
          /\ w.kind = "edit" => w.item = edits + 1
          /\ UNCHANGED <<interface, stranded>>
       \/ /\ w.kind \notin WithSession \cup {"close"}
          /\ w.sid = 0 /\ w.todo = {}
          /\ UNCHANGED <<interface, stranded>>
       \/ /\ w.kind = "close" /\ shown # None
          /\ w.sid = 0 /\ w.todo = {mapped[p] : p \in Paths} \ {0}
          /\ mapped' = Forget(Paths) /\ failed' = {} /\ stranded' = {}

\* Starting any async function begins a well-formed flow.
LEMMA Beginning ==
    ASSUME TypeInv, NEW f \in Flows, Start(f)
    PROVE  \E w : Began(f, w)
<1> USE DEF backend, interface, ghosts, Begin
<1>0. FlowInv /\ DataInv /\ RecordInv
  BY DEF TypeInv
<1>t. /\ Len(transfers) \in Nat /\ 0 \in 0 .. Len(transfers)
      /\ DOMAIN transfers = 1 .. Len(transfers) /\ banner \in 0 .. Len(transfers)
  BY <1>0 DEF RecordInv
<1>a. /\ edits \in 0 .. MaxEdits /\ (edits < MaxEdits => edits + 1 \in 0 .. MaxEdits)
      /\ edits < MaxEdits => edits + 1 \in Changes
  BY <1>0, SessionsAssumption DEF DataInv, Changes
<1>1. ASSUME NEW d \in Docs, StartEdit(f, d) PROVE \E w : Began(f, w)
  <2>1. PICK w \in Flow :
              /\ flow' = [flow EXCEPT ![f] = w] /\ Shape(w)
              /\ w.kind = "edit" /\ w.doc = d /\ w.item = edits' /\ w.sid = mapped[Path(d)] /\ w.todo = {}
              /\ w.at = (IF mapped[Path(d)] # 0 THEN "call" ELSE "open") /\ w.txn = 0
    BY <1>0, <1>1, <1>a, Ensured DEF StartEdit, WithSession
  <2> QED
    BY <1>1, <2>1, <1>a, <1>t DEF Began, StartEdit, DocsOf, WithSession
<1>2. ASSUME NEW d \in Docs, StartSave(f, d) PROVE \E w : Began(f, w)
  <2>1. PICK w \in Flow :
              /\ flow' = [flow EXCEPT ![f] = w] /\ Shape(w)
              /\ w.kind = "save" /\ w.doc = d /\ w.sid = mapped[Path(d)] /\ w.todo = {}
              /\ w.at = (IF mapped[Path(d)] # 0 THEN "call" ELSE "open") /\ w.txn = 0
    BY <1>0, <1>2, NoChange, Ensured DEF StartSave, WithSession
  <2> QED
    BY <1>2, <2>1, <1>a, <1>t DEF Began, StartSave, DocsOf, WithSession
<1>3. ASSUME NEW d \in Docs, NEW k \in {"undo", "redo"}, StartUndoRedo(f, d, k) PROVE \E w : Began(f, w)
  <2>1. PICK w \in Flow :
              /\ flow' = [flow EXCEPT ![f] = w] /\ Shape(w)
              /\ w.kind = k /\ w.doc = d /\ w.sid = mapped[Path(d)] /\ w.todo = {}
              /\ w.at = (IF mapped[Path(d)] # 0 THEN "call" ELSE "open") /\ w.txn = 0
    BY <1>0, <1>3, NoChange, Ensured DEF StartUndoRedo, WithSession
  <2> QED
    BY <1>3, <2>1, <1>a, <1>t DEF Began, StartUndoRedo, DocsOf, WithSession
<1>4. CASE StartClose(f)
  <2> DEFINE todo == {mapped[p] : p \in Paths} \ {0}
             w == [Idle EXCEPT !.kind = "close", !.at = "call", !.todo = todo]
  <2>1. todo \in SUBSET SessionIds
    BY <1>0, GivenIds DEF DataInv
  <2>2. Shape(w) /\ w.kind = "close" /\ w.at = "call" /\ w.sid = 0 /\ w.todo = todo /\ w.txn = 0
    <3> HIDE DEF todo
    <3> QED
      BY <2>1, StartedClose
  <2>3. flow' = [flow EXCEPT ![f] = w]
    BY <1>4 DEF StartClose
  <2> HIDE DEF w
  <2> QED
    BY <1>4, <2>2, <2>3, <1>a, <1>t DEF Began, StartClose, WithSession
<1>5. ASSUME NEW to \in Workspaces, StartOpenWorkspace(f, to) PROVE \E w : Began(f, w)
  <2> DEFINE w == [Idle EXCEPT !.kind = "workspace", !.at = "call", !.to = to]
  <2>1. Shape(w) /\ w.kind = "workspace" /\ w.at = "call" /\ w.sid = 0 /\ w.todo = {} /\ w.txn = 0
    BY StartedWorkspace
  <2>2. flow' = [flow EXCEPT ![f] = w]
    BY <1>5 DEF StartOpenWorkspace
  <2> HIDE DEF w
  <2> QED
    BY <1>5, <2>1, <2>2, <1>a, <1>t DEF Began, StartOpenWorkspace, WithSession
<1>6. ASSUME NEW s \in Docs, NEW d \in Docs, NEW x \in Changes, NEW k \in Transferring,
             StartTransfer(f, s, d, x, k) PROVE \E w : Began(f, w)
  <2> DEFINE w == [Idle EXCEPT !.kind = k, !.at = "call", !.doc = s, !.to = d, !.item = x]
  <2>1. /\ w.kind = k /\ w.at = "call" /\ w.sid = 0 /\ w.todo = {}
        /\ w.doc = s /\ w.to = d /\ w.item = x /\ w.txn = 0
    BY DEF Idle
  <2>2. w \in Flow
    BY DEF Idle, Flow, Transferring
  <2>3. flow' = [flow EXCEPT ![f] = w]
    BY <1>6 DEF StartTransfer
  <2> HIDE DEF w
  <2>p. Path(s) # Path(d)
    BY <1>6, PathsOfDocs DEF StartTransfer, DocsOf
  <2>4. Shape(w)
    BY <2>1, <2>2, <2>p DEF Shape, WithSession, Transferring
  <2> QED
    BY <1>6, <2>1, <2>3, <2>4, <1>a, <1>t DEF Began, StartTransfer, WithSession, Transferring
<1>7. ASSUME NEW k \in {"undoTransfer", "complete"}, NEW t \in 1 .. Len(transfers),
             UNCHANGED <<backend, interface, edits, ghosts>>, flow[f] = Idle,
             flow' = [flow EXCEPT ![f] = Asking(k, t)]
      PROVE  \E w : Began(f, w)
  <2> DEFINE w == Asking(k, t)
  <2>0. t \in Nat \ {0} /\ t \in 0 .. Len(transfers)
    BY <1>t
  <2>1. Shape(w) /\ w.kind = k /\ w.at = "call" /\ w.sid = 0 /\ w.todo = {} /\ w.txn = t
    BY <2>0, StartedOther
  <2> HIDE DEF w
  <2>2. flow' = [flow EXCEPT ![f] = w]
    BY <1>7 DEF w
  <2>3. Began(f, w)
    BY <1>7, <2>0, <2>1, <2>2, <1>a DEF Began, WithSession
  <2> QED
    BY <2>3
<1>8. CASE StartUndoTransfer(f)
  <2>1. banner \in 1 .. Len(transfers)
    BY <1>8, <1>t DEF StartUndoTransfer
  <2> QED
    BY <1>7, <1>8, <2>1 DEF StartUndoTransfer, Asking
<1>9. ASSUME NEW t \in DOMAIN transfers, StartCompleteMove(f, t) PROVE \E w : Began(f, w)
  <2>1. t \in 1 .. Len(transfers)
    BY <1>9, <1>t
  <2> QED
    BY <1>7, <1>9, <2>1 DEF StartCompleteMove, Asking
<1> QED
  BY <1>1, <1>2, <1>3, <1>4, <1>5, <1>6, <1>8, <1>9 DEF Start, Transferring

\* A flow that goes on with a transaction that has a record leaves all with one.
LEMMA KnownRecords ==
    ASSUME FlowInv, RecordInv, NEW f \in Flows, NEW w \in Flow, flow' = [flow EXCEPT ![f] = w],
           UNCHANGED transfers, w.txn \in 0 .. Len(transfers), banner' \in 0 .. Len(transfers)
    PROVE  RecordInv'
<1>1. flow'[f] = w /\ \A g \in Flows : g # f => flow'[g] = flow[g]
  BY FlowChange DEF FlowInv
<1> QED
  BY <1>1 DEF RecordInv

\* A flow that is answered and done leaves every transaction with a record,
\* whatever the state of one of them becomes.
LEMMA MarkedRecord ==
    ASSUME FlowInv, RecordInv, NEW f \in Flows, flow' = [flow EXCEPT ![f] = Idle],
           NEW t \in 1 .. Len(transfers), NEW state \in States,
           transfers' = [transfers EXCEPT ![t].state = state],
           banner' \in {0, banner}
    PROVE  /\ RecordInv' /\ Len(transfers') = Len(transfers)
           /\ \A u \in 1 .. Len(transfers) :
                /\ transfers'[u].src = transfers[u].src /\ transfers'[u].dst = transfers[u].dst
                /\ transfers'[u].was = transfers[u].was
<1> DEFINE r == [transfers[t] EXCEPT !.state = state]
<1>1. transfers[t] \in Past /\ transfers \in Seq(Past)
  BY DEF RecordInv
<1>2. /\ r \in Past /\ r.src = transfers[t].src /\ r.dst = transfers[t].dst
      /\ r.was = transfers[t].was
  BY <1>1 DEF Past
<1> HIDE DEF r
<1>3. transfers' = [transfers EXCEPT ![t] = r]
  BY DEF r
<1>4. /\ transfers' \in Seq(Past) /\ Len(transfers') = Len(transfers)
      /\ transfers'[t] = r
      /\ \A u \in 1 .. Len(transfers) : u # t => transfers'[u] = transfers[u]
  <2>1. transfers \in [1 .. Len(transfers) -> Past] /\ Len(transfers) \in Nat
    BY <1>1
  <2>2. transfers' \in [1 .. Len(transfers) -> Past]
    BY <1>2, <1>3, <2>1
  <2>3. transfers' \in Seq(Past)
    BY <2>1, <2>2, SeqDef
  <2>4. Len(transfers') = Len(transfers)
    BY <2>1, <2>2, <2>3
  <2> QED
    BY <1>3, <2>1, <2>3, <2>4
<1>5. \A u \in 1 .. Len(transfers) :
         /\ transfers'[u].src = transfers[u].src /\ transfers'[u].dst = transfers[u].dst
         /\ transfers'[u].was = transfers[u].was
  BY <1>2, <1>4
<1>6. \A u \in 1 .. Len(transfers') : Kept(transfers'[u])
  BY <1>4, <1>5 DEF RecordInv, Kept
<1>7. \A g \in Flows : flow'[g].txn \in 0 .. Len(transfers')
  <2>1. flow'[f] = Idle /\ \A g \in Flows : g # f => flow'[g] = flow[g]
    BY IdleIsFlow, FlowChange DEF FlowInv, Shape
  <2> QED
    BY <2>1, <1>4, IdleIsFlow DEF RecordInv
<1>8. banner' \in 0 .. Len(transfers')
  BY <1>4 DEF RecordInv
<1> QED
  BY <1>4, <1>5, <1>6, <1>7, <1>8 DEF RecordInv

\* A transfer that commits its target adds a record, of which its flow knows.
LEMMA AddedRecord ==
    ASSUME FlowInv, RecordInv, NEW f \in Flows, NEW w \in Flow, flow' = [flow EXCEPT ![f] = w],
           NEW r \in Past, Kept(r), transfers' = Append(transfers, r),
           w.txn \in 0 .. Len(transfers'), banner' \in {0, banner}
    PROVE  RecordInv'
<1>1. flow'[f] = w /\ \A g \in Flows : g # f => flow'[g] = flow[g]
  BY FlowChange DEF FlowInv
<1>2. /\ transfers' \in Seq(Past) /\ Len(transfers') = Len(transfers) + 1
      /\ Len(transfers) \in Nat /\ transfers'[Len(transfers) + 1] = r
      /\ \A u \in 1 .. Len(transfers) : transfers'[u] = transfers[u]
  BY DEF RecordInv
<1>3. \A u \in 1 .. Len(transfers') : Kept(transfers'[u])
  <2>1. ASSUME NEW u \in 1 .. Len(transfers') PROVE Kept(transfers'[u])
    <3>1. CASE u = Len(transfers) + 1
      BY <1>2, <3>1
    <3>2. CASE u # Len(transfers) + 1
      <4>1. u \in 1 .. Len(transfers)
        BY <1>2, <3>2
      <4> QED
        BY <1>2, <4>1 DEF RecordInv
    <3> QED
      BY <3>1, <3>2
  <2> QED
    BY <2>1
<1>4. \A g \in Flows : flow'[g].txn \in 0 .. Len(transfers')
  BY <1>1, <1>2 DEF RecordInv
<1>5. banner' \in 0 .. Len(transfers')
  BY <1>2 DEF RecordInv
<1> QED
  BY <1>2, <1>3, <1>4, <1>5 DEF RecordInv

\* What is written of a transfer when it is executed.
LEMMA EntryFacts ==
    ASSUME DataInv, FlowInv, NEW f \in Flows, flow[f].kind \in Transferring,
           NEW src \in Docs, NEW dst \in Docs, NEW state \in States
    PROVE  LET r == Entry(f, src, dst, state)
           IN  /\ r \in Past /\ Kept(r) /\ r.src = src /\ r.dst = dst
               /\ \A d \in {src, dst} : r.was[d] = disk[d]
<1> DEFINE r == Entry(f, src, dst, state)
           was == [d \in {src, dst} |-> disk[d]]
<1>1. flow[f].item \in Changes
  BY DEF FlowInv, Flow
<1>2. was \in [{src, dst} -> SUBSET Nat] /\ \A d \in {src, dst} : was[d] = disk[d]
  BY DEF DataInv
<1>3. was \in UNION {[D -> SUBSET Nat] : D \in SUBSET Docs}
  <2>1. {src, dst} \in SUBSET Docs
    OBVIOUS
  <2> HIDE DEF was
  <2> QED
    BY <1>2, <2>1
<1>4. /\ r = [kind |-> flow[f].kind, src |-> src, dst |-> dst, item |-> flow[f].item,
              was |-> was, state |-> state]
  BY DEF Entry
<1> HIDE DEF was, r
<1>5. r \in Past /\ r.src = src /\ r.dst = dst /\ r.was = was
  BY <1>1, <1>3, <1>4 DEF Past
<1> QED
  BY <1>2, <1>5 DEF Kept, r

\* A backup is a content for each of the two documents of its transfer.
LEMMA BackupFacts ==
    ASSUME RecordInv, NEW t \in 1 .. Len(transfers)
    PROVE  /\ transfers[t].src \in Docs /\ transfers[t].dst \in Docs /\ transfers[t].item \in Changes
           /\ Restored(t) \subseteq {transfers[t].src, transfers[t].dst}
           /\ \A d \in {transfers[t].src, transfers[t].dst} : transfers[t].was[d] \in SUBSET Nat
<1>1. transfers[t] \in Past /\ Kept(transfers[t])
  BY DEF RecordInv
<1> QED
  BY <1>1 DEF Past, Kept, Restored

\* Putting documents back leaves the others as they were.
LEMMA PutBackFacts ==
    ASSUME DataInv, RecordInv, NEW t \in 1 .. Len(transfers), NEW docs \in {{transfers[t].dst}, Restored(t)},
           PutBack(t, docs)
    PROVE  /\ disk' \in [Docs -> SUBSET Nat] /\ docs \subseteq {transfers[t].src, transfers[t].dst}
           /\ docs \subseteq Docs
           /\ \A d \in Docs : disk'[d] = IF d \in docs THEN transfers[t].was[d] ELSE disk[d]
<1>1. docs \subseteq {transfers[t].src, transfers[t].dst}
  BY BackupFacts
<1>2. disk' = [d \in Docs |-> IF d \in docs THEN transfers[t].was[d] ELSE disk[d]]
  BY DEF PutBack
<1>3. \A d \in docs : transfers[t].was[d] \in SUBSET Nat
  BY <1>1, BackupFacts
<1>4. disk \in [Docs -> SUBSET Nat]
  BY DEF DataInv
<1> QED
  BY <1>1, <1>2, <1>3, <1>4, BackupFacts

\* Starting a function keeps the types.
LEMMA StartTypes ==
    ASSUME TypeInv, NEW f \in Flows, NEW w, Began(f, w)
    PROVE  TypeInv'
<1> USE DEF Began, backend, interface
<1>0. FlowInv /\ DataInv /\ RecordInv /\ opened \in Nat /\ opened' = opened
  BY SessionsAssumption DEF TypeInv, DataInv
<1>1. Given' = Given /\ w.sid \in Given \cup {0} /\ w.todo \subseteq Given
  BY <1>0, PathsOfDocs DEF Given, DataInv, Shape
<1>2. FlowInv'
  <2>1. flow' = [flow EXCEPT ![f] = w] /\ Shape(w)
    OBVIOUS
  <2>2. opened' \in Nat /\ opened <= opened'
    BY <1>0
  <2> QED
    BY <1>0, <1>1, <2>1, <2>2, FlowStep
<1>3. Forget(Paths) \in [Paths -> Given \cup {0}]
  BY <1>0, ForgetFacts
<1>4. DataInv'
  BY <1>0, <1>1, <1>3 DEF DataInv
<1>5. RecordInv'
  <2>1. w \in Flow
    BY DEF Shape
  <2>2. banner' \in 0 .. Len(transfers) /\ UNCHANGED transfers
    BY <1>0 DEF RecordInv
  <2> QED
    BY <1>0, <2>1, <2>2, KnownRecords
<1> QED
  BY <1>2, <1>4, <1>5 DEF TypeInv

\* The flow of a command that is answered, and the session it is about.
LEMMA Answered ==
    ASSUME FlowInv, DataInv, NEW f \in Flows
    PROVE  LET w == flow[f]
           IN  /\ Shape(w) /\ w \in Flow /\ w.sid \in Given \cup {0} /\ w.todo \subseteq Given
               /\ w.at = "open" =>
                    \A s \in SessionIds : Shape(Opened(w, s))
               /\ w.at = "opened" => Shape(At(w, "call"))
               /\ w.kind = "workspace" => Shape(At(w, "list"))
               /\ w.kind \in Transferring => \A t \in Nat \ {0} : Shape(Committed(w, t))
               /\ w.kind = "close" => \A s : Shape(Closing(w, s))
<1> DEFINE w == flow[f]
<1>1. /\ Shape(w) /\ w \in Flow /\ w.sid \in Given \cup {0} /\ w.todo \subseteq Given
  BY DEF FlowInv, Shape
<1> HIDE DEF w
<1>2. ASSUME w.at = "open", NEW s \in SessionIds
      PROVE  Shape(Opened(w, s))
  BY <1>1, <1>2, OpenedUpdates, IdleIsFlow DEF Shape, WithSession, Transferring
<1>3. w.at = "opened" => Shape(At(w, "call"))
  BY <1>1, AtUpdates, IdleIsFlow DEF Shape, WithSession, Transferring
<1>4. w.kind = "workspace" => Shape(At(w, "list"))
  BY <1>1, AtUpdates, IdleIsFlow DEF Shape, WithSession, Transferring
<1>5. ASSUME w.kind \in Transferring, NEW t \in Nat \ {0}
      PROVE  Shape(Committed(w, t))
  BY <1>1, <1>5, CommittedUpdates, IdleIsFlow DEF Shape, WithSession, Transferring
<1>6. ASSUME w.kind = "close", NEW s
      PROVE  Shape(Closing(w, s))
  BY <1>1, <1>6, ClosingUpdates, IdleIsFlow DEF Shape, WithSession, Transferring
<1> QED
  BY <1>1, <1>2, <1>3, <1>4, <1>5, <1>6 DEF w

\* drop_sessions_for removes sessions and changes none.
LEMMA DropTypes ==
    ASSUME DataInv, NEW docs, NEW told, Dropped(docs, told)
    PROVE  /\ DOMAIN sessions' = DOMAIN sessions \ SessionsOn(docs)
           /\ \A s \in DOMAIN sessions' : sessions'[s] = sessions[s]
           /\ sessions' \in [DOMAIN sessions' -> Session]
           /\ stranded' \subseteq Paths
BY DiscardFacts DEF Dropped, DropSessionsFor, DataInv

\* A transfer is done and tells its transaction, or it tells nothing.
LEMMA TransferAnswers ==
    ASSUME FlowInv, DataInv, RecordInv, NEW f \in Flows, ExecuteTransfer(f)
    PROVE  LET docs == {Resolve(Path(flow[f].doc)), Resolve(Path(flow[f].to))}
           IN  \/ flow' = [flow EXCEPT ![f] = Idle] /\ Dropped(docs, FALSE)
               \/ \E n \in Nat \ {0} :
                    /\ flow' = [flow EXCEPT ![f] = Committed(flow[f], n)]
                    /\ Dropped(docs, TRUE)
<1> DEFINE src == Resolve(Path(flow[f].doc))
           dst == Resolve(Path(flow[f].to))
<1>1. flow[f].kind \in Transferring /\ flow[f].doc \in Docs /\ flow[f].to \in Docs
  BY Answered DEF ExecuteTransfer, Transferring, Shape
<1>2. src \in Docs /\ dst \in Docs
  BY <1>1, PathsOfDocs, ResolvedDocs DEF ExecuteTransfer
<1>3. ASSUME transfers' = Append(transfers, Entry(f, src, dst, "done"))
      PROVE  Len(transfers') \in Nat \ {0}
  <2>1. PICK r : r = Entry(f, src, dst, "done")
    OBVIOUS
  <2>2. r \in Past
    BY <1>1, <1>2, <2>1, EntryFacts DEF States
  <2> QED
    BY <1>3, <2>1, <2>2 DEF RecordInv
<1> QED
  BY <1>3 DEF ExecuteTransfer

\* Every command of the backend keeps the types.
LEMMA CommandTypes ==
    ASSUME TypeInv, NEW f \in Flows, Command(f)
    PROVE  TypeInv'
<1> USE DEF backend, interface, ghosts, bounds
<1>0. FlowInv /\ DataInv /\ RecordInv /\ opened \in Nat /\ SessionIds \subseteq Nat
  BY SessionsAssumption, GivenIds DEF TypeInv, DataInv
<1>a. /\ flow[f].doc \in Docs => Path(flow[f].doc) \in Paths
      /\ flow[f].to \in Docs => Path(flow[f].to) \in Paths
  BY PathsOfDocs
<1>b. ASSUME NEW w, Shape(w), flow' = [flow EXCEPT ![f] = w], w.sid \in Given \cup {0},
             w.todo \subseteq Given, opened' = opened
      PROVE  FlowInv'
  <2>1. Given' = Given /\ opened' \in Nat /\ opened <= opened'
    BY <1>0, <1>b DEF Given
  <2> QED
    BY <1>0, <1>b, <2>1, FlowStep
<1>c. ASSUME flow' = [flow EXCEPT ![f] = Idle], opened' = opened
      PROVE  FlowInv'
  BY <1>0, <1>c, BackToIdle
<1>d. ASSUME UNCHANGED <<disk, sessions, opened, workspace, shown, mapped, edits>>,
             failed' \subseteq Paths, stranded' \subseteq Paths
      PROVE  DataInv'
  BY <1>0, <1>d DEF DataInv, Given
<1>t. flow[f].txn \in 0 .. Len(transfers) /\ banner \in 0 .. Len(transfers)
      /\ 0 \in 0 .. Len(transfers)
  BY <1>0 DEF RecordInv
<1>e. ASSUME NEW w, Shape(w), flow' = [flow EXCEPT ![f] = w], UNCHANGED transfers,
             w.txn \in {0, flow[f].txn}, banner' \in {0, banner}
      PROVE  RecordInv'
  <2>1. w \in Flow
    BY <1>e DEF Shape
  <2>2. w.txn \in 0 .. Len(transfers) /\ banner' \in 0 .. Len(transfers)
    BY <1>e, <1>t
  <2> QED
    BY <1>0, <1>e, <2>1, <2>2, KnownRecords
<1>i. ASSUME flow' = [flow EXCEPT ![f] = Idle], UNCHANGED transfers, banner' \in {0, banner}
      PROVE  RecordInv'
  BY <1>e, <1>i, IdleIsFlow
<1>s. stranded \subseteq Paths /\ failed \subseteq Paths
  BY <1>0 DEF DataInv
<1>1. CASE OpenDocumentSession(f)
  <2> DEFINE d == Resolve(Path(flow[f].doc))
             s == opened + 1
             k == [doc |-> d, tree |-> disk[d], base |-> disk[d],
                   done |-> <<>>, undone |-> <<>>, dirty |-> TRUE]
  <2>1. flow[f].doc \in Docs
    BY <1>1, <1>0, Answered, IdleIsFlow DEF OpenDocumentSession, Shape, Flow, WithSession, Transferring
  <2>2. d \in Docs /\ k \in Session
    BY <2>1, <1>1, <1>0, <1>a, ResolvedDocs DEF OpenDocumentSession, DataInv, Session
  <2>3. FlowInv'
    <3>1. Shape(Opened(flow[f], s)) /\ Opened(flow[f], s).sid = s /\ Opened(flow[f], s).todo \subseteq Given
      BY <1>0, <1>1, Answered, OpenedUpdates DEF OpenDocumentSession
    <3>2. s \in Given' /\ Given \subseteq Given' /\ opened' \in Nat /\ opened <= opened'
      BY <1>0, <1>1 DEF OpenDocumentSession, Given
    <3>3. flow' = [flow EXCEPT ![f] = Opened(flow[f], s)]
      BY <1>1 DEF OpenDocumentSession
    <3> QED
      BY <1>0, <3>1, <3>2, <3>3, FlowStep
  <2>4. /\ DOMAIN sessions' = DOMAIN sessions \cup {s}
        /\ sessions' \in [DOMAIN sessions' -> Session]
    <3> HIDE DEF k
    <3>1. sessions' = [i \in DOMAIN sessions \cup {s} |-> IF i \in DOMAIN sessions THEN sessions[i] ELSE k]
      BY <1>1 DEF OpenDocumentSession, k
    <3> QED
      BY <1>0, <2>2, <3>1 DEF DataInv
  <2>5. DataInv'
    <3>1. Given' = Given \cup {s} /\ opened' = s /\ s \in 0 .. MaxSessions
      BY <1>0, <1>1, SessionsAssumption DEF OpenDocumentSession, Given, SessionIds
    <3>2. mapped' \in [Paths -> Given' \cup {0}] /\ DOMAIN sessions' \subseteq Given'
      BY <1>0, <1>1, <2>4, <3>1 DEF OpenDocumentSession, DataInv
    <3> QED
      BY <1>0, <1>1, <2>4, <3>1, <3>2 DEF OpenDocumentSession, DataInv
  <2>6. RecordInv'
    <3>1. /\ flow' = [flow EXCEPT ![f] = Opened(flow[f], s)] /\ UNCHANGED <<transfers, banner>>
          /\ s \in SessionIds /\ flow[f].at = "open"
      BY <1>1 DEF OpenDocumentSession
    <3>2. Shape(Opened(flow[f], s)) /\ Opened(flow[f], s).txn = flow[f].txn
      BY <1>0, <3>1, Answered, OpenedUpdates
    <3> QED
      BY <3>1, <3>2, <1>e
  <2> QED
    BY <2>3, <2>5, <2>6 DEF TypeInv
<1>2. CASE OpenFails(f)
  <2>1. flow[f].doc \in Docs
    BY <1>2, <1>0, Answered, IdleIsFlow DEF OpenFails, Shape, Flow, WithSession, Transferring
  <2> QED
    BY <1>2, <2>1, <1>a, <1>c, <1>d, <1>i, <1>s DEF OpenFails, TypeInv
<1>3. CASE SessionNotFound(f)
  BY <1>3, <1>c, <1>d, <1>i, <1>s DEF SessionNotFound, TypeInv
<1>w. ASSUME NEW s \in DOMAIN sessions, NEW k \in Session, sessions' = [sessions EXCEPT ![s] = k],
             disk' \in [Docs -> SUBSET Nat],
             flow' = [flow EXCEPT ![f] = Idle],
             UNCHANGED <<opened, workspace, transfers, interface, edits, stranded>>
      PROVE  DataInv' /\ RecordInv'
  <2>1. DOMAIN sessions' = DOMAIN sessions /\ sessions' \in [DOMAIN sessions' -> Session]
    BY <1>0, <1>w, WriteSession
  <2> QED
    BY <1>0, <1>w, <2>1, <1>i DEF DataInv, Given
<1>k. disk \in [Docs -> SUBSET Nat] /\ \A s \in DOMAIN sessions : sessions[s] \in Session
  BY <1>0 DEF DataInv
<1>4. CASE EditDocument(f)
  <2>1. flow[f].item \in Nat
    BY <1>0, Answered, SessionsAssumption DEF Flow, Changes
  <2>2. Edited(sessions[flow[f].sid], flow[f].item) \in Session
    BY <1>4, <2>1, <1>k, EditedFacts DEF EditDocument, Live
  <2> QED
    BY <1>4, <2>2, <1>w, <1>c, <1>k DEF EditDocument, Live, TypeInv
<1>5. CASE SaveDocumentAtomic(f)
  <2> DEFINE s == flow[f].sid
  <2>1. CASE UNCHANGED <<disk, sessions>>
    BY <1>5, <2>1, <1>c, <1>d, <1>i, <1>s DEF SaveDocumentAtomic, TypeInv
  <2>2. CASE /\ disk' = [disk EXCEPT ![sessions[s].doc] = sessions[s].tree]
             /\ sessions' = [sessions EXCEPT ![s] = Saved(sessions[s])]
    <3>1. Saved(sessions[s]) \in Session /\ s \in DOMAIN sessions
      BY <1>5, <1>k, SavedFacts DEF SaveDocumentAtomic, Live
    <3>2. disk' \in [Docs -> SUBSET Nat]
      BY <2>2, <3>1, <1>k DEF Session
    <3> QED
      BY <1>5, <2>2, <3>1, <3>2, <1>w, <1>c DEF SaveDocumentAtomic, TypeInv
  <2> QED
    BY <1>5, <2>1, <2>2 DEF SaveDocumentAtomic
<1>6. CASE UndoLastCommand(f)
  <2> DEFINE s == flow[f].sid
  <2>1. CASE sessions[s].done = <<>>
    BY <1>6, <2>1, <1>c, <1>d, <1>i, <1>s DEF UndoLastCommand, TypeInv
  <2>2. CASE sessions[s].done # <<>>
    <3>1. Undone(sessions[s]) \in Session /\ s \in DOMAIN sessions
      BY <1>6, <2>2, <1>k, UndoneFacts DEF UndoLastCommand, Live
    <3> QED
      BY <1>6, <2>2, <3>1, <1>w, <1>c, <1>k DEF UndoLastCommand, TypeInv
  <2> QED
    BY <2>1, <2>2
<1>7. CASE RedoLastCommand(f)
  <2> DEFINE s == flow[f].sid
  <2>1. CASE sessions[s].undone = <<>>
    BY <1>7, <2>1, <1>c, <1>d, <1>i, <1>s DEF RedoLastCommand, TypeInv
  <2>2. CASE sessions[s].undone # <<>>
    <3>1. Redone(sessions[s]) \in Session /\ s \in DOMAIN sessions
      BY <1>7, <2>2, <1>k, RedoneFacts DEF RedoLastCommand, Live
    <3> QED
      BY <1>7, <2>2, <3>1, <1>w, <1>c, <1>k DEF RedoLastCommand, TypeInv
  <2> QED
    BY <2>1, <2>2
<1>8. CASE CloseDocumentSession(f)
  <2>1. PICK s \in flow[f].todo : /\ flow' = [flow EXCEPT ![f] = Closing(flow[f], s)]
                                  /\ sessions' = Discard({s})
    BY <1>8 DEF CloseDocumentSession
  <2>2. FlowInv'
    <3>1. flow[f] \in Flow /\ flow[f].kind = "close" /\ flow[f].todo \subseteq Given
             /\ flow[f].sid \in Given \cup {0}
      BY <1>0, <1>8, Answered DEF CloseDocumentSession
    <3>2. /\ Shape(Closing(flow[f], s)) /\ Closing(flow[f], s).sid \in Given \cup {0}
          /\ Closing(flow[f], s).todo \subseteq Given
      <4>1. Shape(Closing(flow[f], s))
        BY <1>0, <3>1, Answered
      <4> QED
        BY <3>1, <4>1, ClosingUpdates
    <3>3. opened' = opened
      BY <1>8 DEF CloseDocumentSession
    <3> QED
      BY <2>1, <3>2, <3>3, <1>b
  <2>3. DataInv'
    <3>1. DOMAIN sessions' \subseteq DOMAIN sessions /\ sessions' \in [DOMAIN sessions' -> Session]
      BY <1>0, <2>1, DiscardFacts
    <3> QED
      BY <1>0, <1>8, <3>1 DEF CloseDocumentSession, DataInv, Given
  <2>4. RecordInv'
    <3>1. Shape(Closing(flow[f], s)) /\ Closing(flow[f], s).txn = flow[f].txn
      BY <1>0, <1>8, Answered, ClosingUpdates DEF CloseDocumentSession
    <3>2. UNCHANGED <<transfers, banner>>
      BY <1>8 DEF CloseDocumentSession
    <3> QED
      BY <2>1, <3>1, <3>2, <1>e
  <2> QED
    BY <2>2, <2>3, <2>4 DEF TypeInv
<1>9. CASE OpenWorkspace(f)
  <2>1. flow[f].to \in Workspaces
    BY <1>0, <1>9, Answered DEF OpenWorkspace, Shape
  <2>2. FlowInv'
    BY <1>0, <1>9, <1>b, Answered, AtUpdates DEF OpenWorkspace
  <2>3. DataInv'
    BY <1>0, <1>9, <2>1 DEF OpenWorkspace, DataInv, Given
  <2>4. RecordInv'
    <3>1. Shape(At(flow[f], "list")) /\ At(flow[f], "list").txn = flow[f].txn
      BY <1>0, <1>9, Answered, AtUpdates DEF OpenWorkspace
    <3>2. UNCHANGED <<transfers, banner>> /\ flow' = [flow EXCEPT ![f] = At(flow[f], "list")]
      BY <1>9 DEF OpenWorkspace
    <3> QED
      BY <3>1, <3>2, <1>e
  <2> QED
    BY <2>2, <2>3, <2>4 DEF TypeInv
<1>10. CASE ListDocuments(f)
  <2>1. DataInv'
    BY <1>0, <1>10 DEF ListDocuments, DataInv, Given
  <2> QED
    BY <2>1, <1>10, <1>c, <1>i DEF ListDocuments, TypeInv
<1>11. CASE CloseWorkspace(f)
  <2>1. DataInv'
    BY <1>0, <1>11 DEF CloseWorkspace, DataInv, Given
  <2> QED
    BY <2>1, <1>11, <1>c, <1>i DEF CloseWorkspace, TypeInv
<1>12. CASE TransferRefused(f)
  BY <1>12, <1>c, <1>d, <1>i, <1>s DEF TransferRefused, TypeInv
<1>x. ASSUME NEW docs, NEW told, Dropped(docs, told), disk' \in [Docs -> SUBSET Nat],
             UNCHANGED <<opened, workspace, shown, mapped, failed, edits>>
      PROVE  DataInv'
  <2>1. /\ DOMAIN sessions' \subseteq DOMAIN sessions
        /\ sessions' \in [DOMAIN sessions' -> Session]
        /\ stranded' \subseteq Paths
    BY <1>0, <1>x, DropTypes
  <2> QED
    BY <1>0, <1>x, <2>1 DEF DataInv, Given
<1>13. CASE ExecuteTransfer(f)
  <2> DEFINE src == Resolve(Path(flow[f].doc))
             dst == Resolve(Path(flow[f].to))
             x == flow[f].item
             inTarget == [disk EXCEPT ![dst] = @ \cup {x}]
             moved == [inTarget EXCEPT ![src] = @ \ {x}]
  <2>1. flow[f].kind \in Transferring /\ flow[f].doc \in Docs /\ flow[f].to \in Docs /\ x \in Nat
    <3>1. flow[f].kind \in {"copy", "move"}
      BY <1>13 DEF ExecuteTransfer
    <3>2. Shape(flow[f]) /\ flow[f] \in Flow
      BY <1>0, Answered
    <3>3. flow[f].item \in Nat
      BY <3>2, SessionsAssumption DEF Flow, Changes
    <3> QED
      BY <3>1, <3>2, <3>3 DEF Shape, Transferring
  <2>2. src \in Docs /\ dst \in Docs
    BY <2>1, <1>13, <1>a, ResolvedDocs DEF ExecuteTransfer
  <2>3. inTarget \in [Docs -> SUBSET Nat] /\ moved \in [Docs -> SUBSET Nat]
    BY <2>1, <2>2, <1>k
  <2>4. PICK told : Dropped({src, dst}, told)
    BY <1>13 DEF ExecuteTransfer
  <2>5. disk' \in [Docs -> SUBSET Nat]
    BY <1>13, <2>3, <1>k DEF ExecuteTransfer
  <2>6. DataInv'
    BY <1>13, <2>4, <2>5, <1>x DEF ExecuteTransfer
  <2>7. Len(transfers) \in Nat /\ transfers \in Seq(Past)
    BY <1>0 DEF RecordInv
  <2>8. banner' \in {0, banner}
    BY <1>13 DEF ExecuteTransfer
  <2>9. CASE /\ transfers' = Append(transfers, Entry(f, src, dst, "done"))
             /\ flow' = [flow EXCEPT ![f] = Committed(flow[f], Len(transfers'))]
    <3>1. PICK r : r = Entry(f, src, dst, "done")
      OBVIOUS
    <3>2. r \in Past /\ Kept(r)
      BY <1>0, <2>1, <2>2, <3>1, EntryFacts DEF States
    <3>3. PICK n \in Nat \ {0} : n = Len(transfers') /\ n \in 0 .. Len(transfers')
      BY <2>7, <2>9, <3>1, <3>2
    <3>4. /\ Shape(Committed(flow[f], n)) /\ Committed(flow[f], n).txn = n
          /\ Committed(flow[f], n).sid = flow[f].sid /\ Committed(flow[f], n).todo = flow[f].todo
      BY <1>0, <2>1, Answered, CommittedUpdates
    <3>5. PICK w : w = Committed(flow[f], n)
      OBVIOUS
    <3>6. flow' = [flow EXCEPT ![f] = w] /\ w \in Flow /\ opened' = opened
      BY <1>13, <2>9, <3>3, <3>4, <3>5 DEF Shape, ExecuteTransfer
    <3>7. RecordInv'
      BY <1>0, <2>8, <2>9, <3>1, <3>2, <3>3, <3>4, <3>5, <3>6, AddedRecord
    <3>8. FlowInv'
      BY <1>0, <1>b, <3>4, <3>5, <3>6, Answered
    <3> QED
      BY <2>6, <3>7, <3>8 DEF TypeInv
  <2>10. CASE /\ transfers' = Append(transfers, Entry(f, src, dst, "pending"))
              /\ flow' = [flow EXCEPT ![f] = Idle]
    <3>1. PICK r : r = Entry(f, src, dst, "pending")
      OBVIOUS
    <3>2. r \in Past /\ Kept(r)
      BY <1>0, <2>1, <2>2, <3>1, EntryFacts DEF States
    <3>3. 0 \in 0 .. Len(transfers')
      BY <2>7, <2>10, <3>1, <3>2
    <3>4. Idle \in Flow /\ Idle.txn = 0
      BY IdleIsFlow DEF Shape
    <3>5. RecordInv'
      BY <1>0, <2>8, <2>10, <3>1, <3>2, <3>3, <3>4, AddedRecord
    <3> QED
      BY <2>6, <2>10, <3>5, <1>13, <1>c DEF ExecuteTransfer, TypeInv
  <2>11. CASE UNCHANGED transfers /\ flow' = [flow EXCEPT ![f] = Idle]
    BY <2>6, <2>8, <2>11, <1>13, <1>c, <1>i DEF ExecuteTransfer, TypeInv
  <2> QED
    BY <1>13, <2>9, <2>10, <2>11 DEF ExecuteTransfer
<1>14. CASE UndoTransfer(f)
  <2>0. /\ flow' = [flow EXCEPT ![f] = Idle] /\ flow[f].kind = "undoTransfer"
        /\ UNCHANGED <<opened, workspace, shown, mapped, failed, edits>>
    BY <1>14 DEF UndoTransfer
  <2>1. FlowInv'
    BY <1>14, <1>c DEF UndoTransfer
  <2>2. CASE UNCHANGED <<disk, sessions, transfers, banner, stranded>>
    BY <2>0, <2>1, <2>2, <1>14, <1>d, <1>i, <1>s DEF UndoTransfer, TypeInv
  <2> DEFINE t == flow[f].txn
             docs == {transfers[t].src, transfers[t].dst}
  <2>3. t \in 1 .. Len(transfers)
    BY <1>0, <2>0, <1>t, Answered DEF Shape
  <2>4. CASE /\ PutBack(t, Restored(t)) /\ transfers' = [transfers EXCEPT ![t].state = "undone"]
             /\ banner' = 0 /\ Dropped(docs, FALSE)
    <3>1. DataInv'
      BY <1>0, <2>0, <2>3, <2>4, <1>x, PutBackFacts
    <3>2. RecordInv'
      BY <1>0, <2>0, <2>3, <2>4, MarkedRecord DEF States
    <3> QED
      BY <2>1, <3>1, <3>2 DEF TypeInv
  <2>5. CASE /\ \E ds \in {{transfers[t].dst}, Restored(t)} : PutBack(t, ds)
             /\ transfers' = [transfers EXCEPT ![t].state = "half"]
             /\ UNCHANGED <<sessions, banner, stranded>>
    <3>1. disk' \in [Docs -> SUBSET Nat]
      BY <1>0, <2>3, <2>5, PutBackFacts
    <3>2. DataInv'
      BY <1>0, <2>0, <2>5, <3>1 DEF DataInv, Given
    <3>3. RecordInv'
      BY <1>0, <2>0, <2>3, <2>5, MarkedRecord DEF States
    <3> QED
      BY <2>1, <3>2, <3>3 DEF TypeInv
  <2> HIDE DEF t
  <2> QED
    BY <1>14, <2>2, <2>4, <2>5 DEF UndoTransfer, t
<1>15. CASE CompleteInterruptedMove(f)
  <2>0. /\ flow' = [flow EXCEPT ![f] = Idle] /\ flow[f].kind = "complete"
        /\ UNCHANGED <<opened, workspace, shown, mapped, failed, banner, edits>>
    BY <1>15 DEF CompleteInterruptedMove
  <2>1. FlowInv'
    BY <1>15, <1>c DEF CompleteInterruptedMove
  <2>2. CASE UNCHANGED <<disk, sessions, transfers, stranded>>
    BY <2>0, <2>1, <2>2, <1>15, <1>d, <1>i, <1>s DEF CompleteInterruptedMove, TypeInv
  <2> DEFINE t == flow[f].txn
             docs == {transfers[t].src, transfers[t].dst}
  <2>3. t \in 1 .. Len(transfers)
    BY <1>0, <2>0, <1>t, Answered DEF Shape
  <2>4. CASE /\ disk' = [disk EXCEPT ![transfers[t].src] = @ \ {transfers[t].item}]
             /\ transfers' = [transfers EXCEPT ![t].state = "completed"]
             /\ Dropped(docs, FALSE) \/ UNCHANGED <<sessions, stranded>>
    <3>1. disk' \in [Docs -> SUBSET Nat]
      BY <1>k, <2>4
    <3>2. ASSUME Dropped(docs, FALSE) PROVE DataInv'
      BY <2>0, <3>1, <3>2, <1>x
    <3>3. ASSUME UNCHANGED <<sessions, stranded>> PROVE DataInv'
      BY <1>0, <2>0, <3>1, <3>3 DEF DataInv, Given
    <3>4. RecordInv'
      BY <1>0, <2>0, <2>3, <2>4, MarkedRecord DEF States
    <3> QED
      BY <2>1, <2>4, <3>2, <3>3, <3>4 DEF TypeInv
  <2> HIDE DEF t
  <2> QED
    BY <1>15, <2>2, <2>4 DEF CompleteInterruptedMove, t
<1> QED
  BY <1>1, <1>2, <1>3, <1>4, <1>5, <1>6, <1>7, <1>8, <1>9, <1>10, <1>11, <1>12, <1>13, <1>14, <1>15
     DEF Command

\* What a function does with its answer keeps the types.
LEMMA ContinueTypes ==
    ASSUME TypeInv, NEW f \in Flows, Continue(f)
    PROVE  TypeInv'
<1> USE DEF backend, interface, ghosts, bounds
<1>0. FlowInv /\ DataInv /\ RecordInv /\ opened \in Nat
  BY SessionsAssumption DEF TypeInv, DataInv
<1>1. CASE SessionOpened(f)
  <2>1. Path(flow[f].doc) \in Paths
    BY <1>1, <1>0, Answered, PathsOfDocs, IdleIsFlow
       DEF SessionOpened, Shape, Flow, WithSession, Transferring
  <2>2. FlowInv'
    <3>1. /\ Shape(At(flow[f], "call")) /\ At(flow[f], "call").sid \in Given' \cup {0}
          /\ At(flow[f], "call").todo \subseteq Given'
      BY <1>0, <1>1, Answered, AtUpdates DEF SessionOpened, Given
    <3>2. opened' \in Nat /\ opened <= opened' /\ flow' = [flow EXCEPT ![f] = At(flow[f], "call")]
      BY <1>0, <1>1 DEF SessionOpened
    <3> QED
      BY <1>0, <3>1, <3>2, FlowStep
  <2>3. DataInv'
    <3>1. flow[f].sid \in Given \cup {0}
      BY <1>0, Answered
    <3> QED
      BY <1>0, <1>1, <2>1, <3>1 DEF SessionOpened, DataInv, Given
  <2>4. RecordInv'
    <3>1. /\ At(flow[f], "call") \in Flow /\ At(flow[f], "call").txn = flow[f].txn
          /\ flow[f].txn \in 0 .. Len(transfers)
      BY <1>0, Answered, AtUpdates DEF RecordInv
    <3>2. flow' = [flow EXCEPT ![f] = At(flow[f], "call")] /\ UNCHANGED <<transfers, banner>>
      BY <1>1 DEF SessionOpened
    <3>3. banner' \in 0 .. Len(transfers)
      BY <1>0, <3>2 DEF RecordInv
    <3> QED
      BY <1>0, <3>1, <3>2, <3>3, KnownRecords
  <2> QED
    BY <2>2, <2>3, <2>4 DEF TypeInv
<1>2. CASE TransferDone(f)
  <2> DEFINE docs == {flow[f].doc, flow[f].to}
             paths == {Path(d) : d \in docs \cap DocsOf(shown)}
  <2>1. docs \subseteq Docs
    BY <1>2, <1>0, Answered, IdleIsFlow DEF TransferDone, Shape, Flow, WithSession, Transferring
  <2>2. paths \in SUBSET Paths /\ {Path(d) : d \in docs} \subseteq Paths
    BY <2>1, PathsOfDocs
  <2>3. FlowInv'
    BY <1>0, <1>2, BackToIdle DEF TransferDone
  <2>4. Forget(paths) \in [Paths -> Given \cup {0}]
    BY <1>0, <2>2, ForgetFacts
  <2>5. DataInv'
    BY <1>0, <1>2, <2>2, <2>4 DEF TransferDone, DataInv, Given
  <2>6. RecordInv'
    <3>1. flow' = [flow EXCEPT ![f] = Idle] /\ UNCHANGED transfers /\ banner' = flow[f].txn
      BY <1>2 DEF TransferDone
    <3>2. Idle \in Flow /\ Idle.txn \in 0 .. Len(transfers) /\ banner' \in 0 .. Len(transfers)
      BY <1>0, <3>1, IdleIsFlow DEF RecordInv, Shape
    <3> QED
      BY <1>0, <3>1, <3>2, KnownRecords
  <2> QED
    BY <2>3, <2>5, <2>6 DEF TypeInv
<1> QED
  BY <1>1, <1>2 DEF Continue

\* TypeInv is an invariant.
LEMMA TypesHold == Spec => []TypeInv
<1>1. Init => TypeInv
  <2> SUFFICES ASSUME Init PROVE TypeInv
    OBVIOUS
  <2>1. FlowInv
    BY IdleIsFlow DEF Init, FlowInv, Shape
  <2>2. DataInv
    BY SessionsAssumption DEF Init, DataInv, Given
  <2>3. RecordInv
    BY IdleIsFlow DEF Init, RecordInv
  <2> QED
    BY <2>1, <2>2, <2>3 DEF TypeInv
<1>2. TypeInv /\ [Next]_vars => TypeInv'
  <2>1. ASSUME TypeInv, NEW f \in Flows, Start(f) \/ Command(f) \/ Continue(f)
        PROVE  TypeInv'
    BY <2>1, Beginning, StartTypes, CommandTypes, ContinueTypes
  <2>2. ASSUME TypeInv, UNCHANGED vars
        PROVE  TypeInv'
    BY <2>2 DEF vars, backend, interface, bounds, ghosts, TypeInv, FlowInv, DataInv, RecordInv, Given
  <2>3. ASSUME TypeInv, DismissTransferResult
        PROVE  TypeInv'
    BY <2>3 DEF DismissTransferResult, backend, bounds, ghosts, TypeInv, FlowInv, DataInv, RecordInv, Given
  <2> QED
    BY <2>1, <2>2, <2>3 DEF Next
<1> QED
  BY <1>1, <1>2, PTL DEF Spec

-----------------------------------------------------------------------------
(* A session knows its file.                                                *)

\* Two sessions of one document make it contended.
SessionsAreAlone ==
    \A s, t \in DOMAIN sessions :
        s # t /\ sessions[s].doc = sessions[t].doc => sessions[s].doc \in contended

\* What a session knows of its file, which needs it to be the only one on it.
FileInv == SessionsAreAlone /\ SessionsKnowTheirFile

\* Fewer sessions, on files that did not change or were given up.
LEMMA FewerSessions ==
    ASSUME DataInv, FileInv,
           DOMAIN sessions' \subseteq DOMAIN sessions,
           \A s \in DOMAIN sessions' : sessions'[s] = sessions[s],
           contended \subseteq contended', torn \subseteq torn',
           \A s \in DOMAIN sessions' :
              s \in torn' \/ disk'[sessions[s].doc] = disk[sessions[s].doc]
    PROVE  FileInv'
BY DEF FileInv, SessionsAreAlone, SessionsKnowTheirFile

\* A changed session is dirty; it keeps its document and its base.
LEMMA DirtySession ==
    ASSUME DataInv, FileInv, NEW s \in DOMAIN sessions, NEW k \in Session,
           sessions' = [sessions EXCEPT ![s] = k],
           k.doc = sessions[s].doc, k.base = sessions[s].base, k.dirty,
           UNCHANGED <<disk, contended, torn>>
    PROVE  FileInv'
<1>1. /\ DOMAIN sessions' = DOMAIN sessions /\ sessions'[s] = k
      /\ \A t \in DOMAIN sessions : t # s => sessions'[t] = sessions[t]
  BY WriteSession
<1> QED
  BY <1>1 DEF FileInv, SessionsAreAlone, SessionsKnowTheirFile

\* Every command keeps the sessions' knowledge of their files: a save writes
\* what it will believe, a transfer drops the sessions of what it rewrites.
LEMMA CommandKeepsFiles ==
    ASSUME TypeInv, FileInv, NEW f \in Flows, Command(f)
    PROVE  FileInv'
<1> USE DEF backend, interface, ghosts, bounds
<1>0. FlowInv /\ DataInv /\ RecordInv
  BY DEF TypeInv
<1>k. disk \in [Docs -> SUBSET Nat] /\ \A s \in DOMAIN sessions : sessions[s] \in Session
  BY <1>0 DEF DataInv
<1>a. ASSUME UNCHANGED <<disk, sessions, contended, torn>> PROVE FileInv'
  BY <1>a DEF FileInv, SessionsAreAlone, SessionsKnowTheirFile
<1>1. CASE OpenDocumentSession(f)
  <2> DEFINE d == Resolve(Path(flow[f].doc))
             s == opened + 1
             k == [doc |-> d, tree |-> disk[d], base |-> disk[d],
                   done |-> <<>>, undone |-> <<>>, dirty |-> TRUE]
  <2>1. /\ DOMAIN sessions' = DOMAIN sessions \cup {s} /\ s \notin DOMAIN sessions
        /\ sessions'[s].doc = d /\ sessions'[s].base = disk[d] /\ sessions'[s].dirty
        /\ \A t \in DOMAIN sessions : sessions'[t] = sessions[t]
    <3>1. s \notin DOMAIN sessions
      BY <1>0, SessionsAssumption DEF DataInv, Given
    <3> HIDE DEF s
    <3>2. k.doc = d /\ k.base = disk[d] /\ k.dirty
      OBVIOUS
    <3> HIDE DEF k
    <3>3. sessions' = [i \in DOMAIN sessions \cup {s} |-> IF i \in DOMAIN sessions THEN sessions[i] ELSE k]
      BY <1>1 DEF OpenDocumentSession, k, s
    <3> QED
      BY <3>1, <3>2, <3>3
  <2>2. contended' = IF SessionsOn({d}) # {} THEN contended \cup {d} ELSE contended
    BY <1>1 DEF OpenDocumentSession
  <2>3. UNCHANGED <<disk, torn>>
    BY <1>1 DEF OpenDocumentSession
  <2> HIDE DEF d, s
  <2>4. SessionsAreAlone'
    BY <2>1, <2>2 DEF FileInv, SessionsAreAlone, SessionsOn
  <2>5. SessionsKnowTheirFile'
    BY <2>1, <2>2, <2>3 DEF FileInv, SessionsKnowTheirFile
  <2> QED
    BY <2>4, <2>5 DEF FileInv
<1>2. CASE OpenFails(f)
  BY <1>2, <1>a DEF OpenFails
<1>3. CASE SessionNotFound(f)
  BY <1>3, <1>a DEF SessionNotFound
<1>4. CASE EditDocument(f)
  <2> DEFINE s == flow[f].sid
             k == Edited(sessions[s], flow[f].item)
  <2>1. s \in DOMAIN sessions /\ flow[f].item \in Nat
    BY <1>0, <1>4, Answered, SessionsAssumption DEF EditDocument, Live, Flow, Changes
  <2>2. k \in Session /\ k.doc = sessions[s].doc /\ k.base = sessions[s].base /\ k.dirty
    BY <2>1, <1>k, EditedFacts
  <2>3. sessions' = [sessions EXCEPT ![s] = k] /\ UNCHANGED <<disk, contended, torn>>
    BY <1>4 DEF EditDocument
  <2> QED
    BY <1>0, <2>1, <2>2, <2>3, DirtySession
<1>5. CASE SaveDocumentAtomic(f)
  <2> DEFINE s == flow[f].sid
             k == Saved(sessions[s])
  <2>1. CASE UNCHANGED <<disk, sessions>>
    BY <1>5, <2>1, <1>a DEF SaveDocumentAtomic
  <2>2. CASE /\ disk' = [disk EXCEPT ![sessions[s].doc] = sessions[s].tree]
             /\ sessions' = [sessions EXCEPT ![s] = k]
    <3>1. s \in DOMAIN sessions /\ UNCHANGED <<contended, torn>>
      BY <1>5 DEF SaveDocumentAtomic, Live
    <3>2. k \in Session /\ k.doc = sessions[s].doc /\ k.base = sessions[s].tree /\ k.tree = sessions[s].tree
      BY <3>1, <1>k, SavedFacts
    <3>3. sessions[s].doc \in Docs
      BY <3>1, <1>k DEF Session
    <3> HIDE DEF k
    <3>4. /\ DOMAIN sessions' = DOMAIN sessions /\ sessions'[s] = k
          /\ \A t \in DOMAIN sessions : t # s => sessions'[t] = sessions[t]
      BY <1>0, <2>2, <3>1, <3>2, WriteSession
    <3>5. /\ disk'[sessions[s].doc] = sessions[s].tree
          /\ \A d \in Docs : d # sessions[s].doc => disk'[d] = disk[d]
      BY <2>2, <3>3, <1>k
    <3>6. \A t \in DOMAIN sessions : sessions[t].doc \in Docs
      BY <1>k DEF Session
    <3>7. SessionsAreAlone'
      BY <3>1, <3>2, <3>4 DEF FileInv, SessionsAreAlone
    <3>8. SessionsKnowTheirFile'
      BY <3>1, <3>2, <3>4, <3>5, <3>6 DEF FileInv, SessionsKnowTheirFile, SessionsAreAlone
    <3> QED
      BY <3>7, <3>8 DEF FileInv
  <2> QED
    BY <1>5, <2>1, <2>2 DEF SaveDocumentAtomic
<1>6. CASE UndoLastCommand(f)
  <2> DEFINE s == flow[f].sid
             k == Undone(sessions[s])
  <2>1. CASE sessions[s].done = <<>>
    BY <1>6, <2>1, <1>a DEF UndoLastCommand
  <2>2. CASE sessions[s].done # <<>>
    <3>1. s \in DOMAIN sessions
      BY <1>6 DEF UndoLastCommand, Live
    <3>2. k \in Session /\ k.doc = sessions[s].doc /\ k.base = sessions[s].base /\ k.dirty
      BY <2>2, <3>1, <1>k, UndoneFacts
    <3>3. sessions' = [sessions EXCEPT ![s] = k] /\ UNCHANGED <<disk, contended, torn>>
      BY <1>6, <2>2 DEF UndoLastCommand
    <3> QED
      BY <1>0, <3>1, <3>2, <3>3, DirtySession
  <2> QED
    BY <2>1, <2>2
<1>7. CASE RedoLastCommand(f)
  <2> DEFINE s == flow[f].sid
             k == Redone(sessions[s])
  <2>1. CASE sessions[s].undone = <<>>
    BY <1>7, <2>1, <1>a DEF RedoLastCommand
  <2>2. CASE sessions[s].undone # <<>>
    <3>1. s \in DOMAIN sessions
      BY <1>7 DEF RedoLastCommand, Live
    <3>2. k \in Session /\ k.doc = sessions[s].doc /\ k.base = sessions[s].base /\ k.dirty
      BY <2>2, <3>1, <1>k, RedoneFacts
    <3>3. sessions' = [sessions EXCEPT ![s] = k] /\ UNCHANGED <<disk, contended, torn>>
      BY <1>7, <2>2 DEF RedoLastCommand
    <3> QED
      BY <1>0, <3>1, <3>2, <3>3, DirtySession
  <2> QED
    BY <2>1, <2>2
<1>8. CASE CloseDocumentSession(f)
  <2>1. PICK s \in flow[f].todo : sessions' = Discard({s})
    BY <1>8 DEF CloseDocumentSession
  <2>2. UNCHANGED <<disk, contended, torn>>
    BY <1>8 DEF CloseDocumentSession
  <2>3. /\ DOMAIN sessions' \subseteq DOMAIN sessions
        /\ \A t \in DOMAIN sessions' : sessions'[t] = sessions[t]
    BY <2>1, <1>0, DiscardLeaves
  <2> QED
    BY <1>0, <2>2, <2>3, FewerSessions
<1>9. CASE OpenWorkspace(f)
  BY <1>9, <1>a DEF OpenWorkspace
<1>10. CASE ListDocuments(f)
  BY <1>10, <1>a DEF ListDocuments
<1>11. CASE CloseWorkspace(f)
  BY <1>11, <1>a DEF CloseWorkspace
<1>12. CASE TransferRefused(f)
  BY <1>12, <1>a DEF TransferRefused
<1>x. ASSUME NEW docs, NEW told, Dropped(docs, told), UNCHANGED contended, torn \subseteq torn',
             \A d \in Docs \ docs : disk'[d] = disk[d]
      PROVE  FileInv'
  <2>1. /\ DOMAIN sessions' = DOMAIN sessions \ SessionsOn(docs)
        /\ \A s \in DOMAIN sessions' : sessions'[s] = sessions[s]
    BY <1>0, <1>x, DropTypes
  <2>2. \A s \in DOMAIN sessions' : sessions[s].doc \in Docs \ docs
    BY <2>1, <1>k DEF SessionsOn, Session
  <2> QED
    BY <1>0, <1>x, <2>1, <2>2, FewerSessions
<1>y. ASSUME UNCHANGED <<sessions, contended>>, NEW docs, torn' = torn \cup SessionsOn(docs),
             \A d \in Docs \ docs : disk'[d] = disk[d]
      PROVE  FileInv'
  <2>1. \A s \in DOMAIN sessions : s \in SessionsOn(docs) \/ sessions[s].doc \in Docs \ docs
    BY <1>k DEF Session, SessionsOn
  <2> QED
    BY <1>0, <1>y, <2>1, FewerSessions
<1>13. CASE ExecuteTransfer(f)
  <2> DEFINE src == Resolve(Path(flow[f].doc))
             dst == Resolve(Path(flow[f].to))
             x == flow[f].item
             inTarget == [disk EXCEPT ![dst] = @ \cup {x}]
             moved == [inTarget EXCEPT ![src] = @ \ {x}]
  <2>1. \A d \in Docs \ {src, dst} : inTarget[d] = disk[d] /\ moved[d] = disk[d]
    BY <1>k
  <2>2. \A d \in Docs \ {src, dst} : disk'[d] = disk[d]
    BY <1>13, <2>1 DEF ExecuteTransfer
  <2>3. (\E told : Dropped({src, dst}, told)) /\ UNCHANGED <<contended, torn>>
    BY <1>13 DEF ExecuteTransfer
  <2> HIDE DEF src, dst
  <2> QED
    BY <2>2, <2>3, <1>x
<1>14. CASE UndoTransfer(f)
  <2> DEFINE t == flow[f].txn
             docs == {transfers[t].src, transfers[t].dst}
  <2>0. UNCHANGED contended /\ flow[f].kind = "undoTransfer"
    BY <1>14 DEF UndoTransfer
  <2>1. CASE UNCHANGED <<disk, sessions, torn>>
    BY <1>a, <2>0, <2>1
  <2>2. t \in 1 .. Len(transfers)
    BY <1>0, <2>0, Answered DEF RecordInv, Shape
  <2>3. CASE PutBack(t, Restored(t)) /\ Dropped(docs, FALSE) /\ UNCHANGED torn
    <3>1. /\ Restored(t) \subseteq docs
          /\ \A d \in Docs : disk'[d] = IF d \in Restored(t) THEN transfers[t].was[d] ELSE disk[d]
      BY <1>0, <2>2, <2>3, PutBackFacts
    <3>2. \A d \in Docs \ docs : disk'[d] = disk[d]
      BY <3>1
    <3> QED
      BY <2>0, <2>3, <3>2, <1>x
  <2>4. ASSUME NEW ds \in {{transfers[t].dst}, Restored(t)}, PutBack(t, ds),
               torn' = torn \cup SessionsOn(ds), UNCHANGED sessions
        PROVE  FileInv'
    <3>1. \A d \in Docs : disk'[d] = IF d \in ds THEN transfers[t].was[d] ELSE disk[d]
      BY <1>0, <2>2, <2>4, PutBackFacts
    <3>2. \A d \in Docs \ ds : disk'[d] = disk[d]
      BY <3>1
    <3> QED
      BY <2>0, <2>4, <3>2, <1>y
  <2> HIDE DEF t
  <2> QED
    BY <1>14, <2>1, <2>3, <2>4 DEF UndoTransfer, t
<1>15. CASE CompleteInterruptedMove(f)
  <2> DEFINE t == flow[f].txn
             src == transfers[t].src
             docs == {src, transfers[t].dst}
             cut == [disk EXCEPT ![src] = @ \ {transfers[t].item}]
  <2>0. UNCHANGED contended
    BY <1>15 DEF CompleteInterruptedMove
  <2>1. CASE UNCHANGED <<disk, sessions, torn>>
    BY <1>a, <2>0, <2>1
  <2>2. \A d \in Docs \ {src} : cut[d] = disk[d]
    BY <1>k
  <2>3. CASE disk' = cut /\ Dropped(docs, FALSE) /\ UNCHANGED torn
    BY <2>0, <2>2, <2>3, <1>x
  <2>4. CASE disk' = cut /\ torn' = torn \cup SessionsOn({src}) /\ UNCHANGED sessions
    BY <2>0, <2>2, <2>4, <1>y
  <2> HIDE DEF t
  <2> QED
    BY <1>15, <2>1, <2>3, <2>4 DEF CompleteInterruptedMove, t
<1> QED
  BY <1>1, <1>2, <1>3, <1>4, <1>5, <1>6, <1>7, <1>8, <1>9, <1>10, <1>11, <1>12, <1>13, <1>14, <1>15
     DEF Command

\* FileInv is an invariant.
LEMMA FilesHold == Spec => []FileInv
<1>1. Init => FileInv
  BY DEF Init, FileInv, SessionsAreAlone, SessionsKnowTheirFile
<1>2. TypeInv /\ FileInv /\ [Next]_vars => FileInv'
  <2> SUFFICES ASSUME TypeInv, FileInv, [Next]_vars PROVE FileInv'
    OBVIOUS
  <2>0. DataInv
    BY DEF TypeInv
  <2>a. ASSUME UNCHANGED <<disk, sessions, torn>>, contended \subseteq contended' PROVE FileInv'
    BY <2>0, <2>a, FewerSessions
  <2>1. ASSUME NEW f \in Flows, Start(f) PROVE FileInv'
    BY <2>1, <2>a, Beginning DEF Began, backend
  <2>2. ASSUME NEW f \in Flows, Command(f) PROVE FileInv'
    BY <2>2, CommandKeepsFiles
  <2>3. ASSUME NEW f \in Flows, Continue(f) PROVE FileInv'
    BY <2>3, <2>a DEF Continue, SessionOpened, TransferDone, backend
  <2>4. CASE UNCHANGED vars
    BY <2>4, <2>a DEF vars, backend, ghosts
  <2>5. CASE DismissTransferResult
    BY <2>5, <2>a DEF DismissTransferResult, backend, ghosts
  <2> QED
    BY <2>1, <2>2, <2>3, <2>4, <2>5 DEF Next
<1> QED
  BY <1>1, <1>2, TypesHold, PTL DEF Spec

\* A session knows its file: what it takes to be on disk is on disk, and it is
\* clean only when it is saved, except where two sessions share a file or a
\* transfer command failed between its writes.  This is what guard_sessions and
\* drop_sessions_for are for.
THEOREM FilesAreKnown == Spec => []SessionsKnowTheirFile
<1>1. FileInv => SessionsKnowTheirFile
  BY DEF FileInv
<1> QED
  BY <1>1, FilesHold, PTL

-----------------------------------------------------------------------------
(* The interface forgets the sessions that were dropped.                    *)

\* A mapped session is of the document in whose row it is; a session that is
\* about to be mapped is fresh; one that is about to be closed is mapped no more.
MapInv ==
    /\ \A p \in Paths :
         mapped[p] \in DOMAIN sessions => Path(sessions[mapped[p]].doc) = p
    /\ \A f \in Flows, p \in Paths : mapped[p] \notin flow[f].todo
    /\ \A f \in Flows :
         flow[f].at = "opened" =>
            /\ flow[f].sid # 0
            /\ flow[f].sid \in DOMAIN sessions =>
                 Path(sessions[flow[f].sid].doc) = Path(flow[f].doc)
            /\ \A p \in Paths : mapped[p] # flow[f].sid
            /\ \A g \in Flows : flow[f].sid \notin flow[g].todo
            /\ \A g \in Flows : g # f /\ flow[g].at = "opened" => flow[g].sid # flow[f].sid

\* What keeps the rows of the interface right.
RowInv == MapInv /\ DroppedSessionsAreForgotten

\* A function goes on, perhaps dropping sessions that the interface knows of.
LEMMA RowStep ==
    ASSUME TypeInv, RowInv, NEW f \in Flows, NEW w, Shape(w), flow' = [flow EXCEPT ![f] = w],
           w.todo \subseteq flow[f].todo, w.at # "opened", flow[f].at # "done",
           UNCHANGED mapped, stranded \subseteq stranded',
           DOMAIN sessions' \subseteq DOMAIN sessions,
           \A s \in DOMAIN sessions' : sessions'[s].doc = sessions[s].doc,
           \A p \in Paths : mapped[p] \in DOMAIN sessions \ DOMAIN sessions' =>
              \/ p \in stranded'
              \/ w.at = "done" /\ p \in {Path(w.doc), Path(w.to)}
    PROVE  RowInv'
<1>1. /\ flow' \in [Flows -> Flow] /\ flow'[f] = w
      /\ \A g \in Flows : g # f => flow'[g] = flow[g]
  BY FlowChange DEF TypeInv, FlowInv, Shape
<1>2. MapInv'
  BY <1>1 DEF RowInv, MapInv
<1>3. DroppedSessionsAreForgotten'
  BY <1>1 DEF RowInv, DroppedSessionsAreForgotten, Live
<1> QED
  BY <1>2, <1>3 DEF RowInv

\* Starting a function maps nothing to a dropped session.
LEMMA StartKeepsRows ==
    ASSUME TypeInv, RowInv, NEW f \in Flows, NEW w, Began(f, w)
    PROVE  RowInv'
<1>1. /\ flow' \in [Flows -> Flow] /\ flow'[f] = w
      /\ \A g \in Flows : g # f => flow'[g] = flow[g]
  BY FlowChange DEF Began, TypeInv, FlowInv, Shape
<1>2. flow[f] = Idle /\ Shape(w) /\ flow' = [flow EXCEPT ![f] = w] /\ w.at \in {"open", "call"}
      /\ UNCHANGED sessions
  BY DEF Began, backend
<1>3. CASE UNCHANGED <<mapped, stranded>> /\ w.todo = {}
  BY <1>2, <1>3, IdleIsFlow, RowStep
<1>4. CASE mapped' = Forget(Paths) /\ w.todo = {mapped[p] : p \in Paths} \ {0}
  <2>1. \A p \in Paths : mapped'[p] = 0
    BY <1>4, ForgetFacts DEF TypeInv
  <2>2. \A g \in Flows : 0 \notin flow[g].todo
    BY DEF TypeInv, FlowInv, Given
  <2>3. 0 \notin DOMAIN sessions
    BY DEF TypeInv, DataInv, Given
  <2>4. MapInv'
    BY <1>1, <1>2, <1>4, <2>1, <2>2, <2>3 DEF RowInv, MapInv
  <2>5. DroppedSessionsAreForgotten'
    BY <2>1 DEF DroppedSessionsAreForgotten
  <2> QED
    BY <2>4, <2>5 DEF RowInv
<1> QED
  BY <1>3, <1>4 DEF Began, interface

\* A command that drops mapped sessions says so, or strands their paths.
LEMMA CommandKeepsRows ==
    ASSUME TypeInv, RowInv, NEW f \in Flows, Command(f)
    PROVE  RowInv'
<1> USE DEF backend, interface, ghosts, bounds
<1>0. FlowInv /\ DataInv /\ RecordInv
  BY DEF TypeInv
<1>k. \A s \in DOMAIN sessions : sessions[s] \in Session
  BY <1>0 DEF DataInv
<1>w. Shape(flow[f]) /\ flow[f] \in Flow
  BY <1>0, Answered
<1>a. ASSUME flow' = [flow EXCEPT ![f] = Idle], flow[f].at # "done", UNCHANGED <<sessions, mapped, stranded>>
      PROVE  RowInv'
  BY <1>a, IdleIsFlow, RowStep
<1>b. ASSUME flow' = [flow EXCEPT ![f] = Idle], flow[f].at # "done", UNCHANGED <<mapped, stranded>>,
             NEW s \in DOMAIN sessions, NEW k \in Session,
             k.doc = sessions[s].doc, sessions' = [sessions EXCEPT ![s] = k]
      PROVE  RowInv'
  <2>1. /\ DOMAIN sessions' = DOMAIN sessions
        /\ \A t \in DOMAIN sessions : sessions'[t].doc = sessions[t].doc
    BY <1>0, <1>b, WriteSession
  <2> QED
    BY <1>b, <2>1, IdleIsFlow, RowStep
<1>1. CASE OpenDocumentSession(f)
  <2> DEFINE d == Resolve(Path(flow[f].doc))
             s == opened + 1
             k == [doc |-> d, tree |-> disk[d], base |-> disk[d],
                   done |-> <<>>, undone |-> <<>>, dirty |-> TRUE]
             w == Opened(flow[f], s)
  <2>0. flow[f].at = "open" /\ flow[f].doc \in Docs
    BY <1>1, <1>w, IdleIsFlow DEF OpenDocumentSession, Shape, Flow, WithSession, Transferring
  <2>1. s \in SessionIds /\ s \notin Given /\ s # 0 /\ d # None
    BY <1>1, <1>0, SessionsAssumption DEF OpenDocumentSession, DataInv, Given
  <2>2. /\ flow' \in [Flows -> Flow] /\ flow'[f] = w
        /\ \A g \in Flows : g # f => flow'[g] = flow[g]
    <3>1. w \in Flow
      BY <1>w, <2>1, OpenedUpdates
    <3>2. flow' = [flow EXCEPT ![f] = w]
      BY <1>1 DEF OpenDocumentSession
    <3> QED
      BY <1>0, <3>1, <3>2, FlowChange DEF FlowInv
  <2>3. w.at = "opened" /\ w.sid = s /\ w.todo = flow[f].todo /\ w.doc = flow[f].doc
    BY <1>w, <2>1, OpenedUpdates
  <2>4. /\ DOMAIN sessions' = DOMAIN sessions \cup {s} /\ s \notin DOMAIN sessions
        /\ sessions'[s].doc = d
        /\ \A t \in DOMAIN sessions : sessions'[t] = sessions[t]
    <3>1. s \notin DOMAIN sessions
      BY <1>0, <2>1 DEF DataInv
    <3>2. k.doc = d
      OBVIOUS
    <3> HIDE DEF k, s
    <3>3. sessions' = [i \in DOMAIN sessions \cup {s} |-> IF i \in DOMAIN sessions THEN sessions[i] ELSE k]
      BY <1>1 DEF OpenDocumentSession, k, s
    <3> QED
      BY <3>1, <3>2, <3>3
  <2>5. Path(d) = Path(flow[f].doc)
    BY <2>0, <2>1, PathsOfDocs, ResolvedDocs
  <2>6. \A p \in Paths : mapped[p] # s
    BY <1>0, <2>1 DEF DataInv
  <2>7. \A g \in Flows : s \notin flow[g].todo /\ s # flow[g].sid
    BY <1>0, <2>1 DEF FlowInv
  <2>8. UNCHANGED <<mapped, stranded>>
    BY <1>1 DEF OpenDocumentSession
  <2> HIDE DEF d, s, k, w
  <2>9. MapInv'
    BY <2>1, <2>2, <2>3, <2>4, <2>5, <2>6, <2>7, <2>8 DEF RowInv, MapInv
  <2>10. DroppedSessionsAreForgotten'
    BY <2>0, <2>2, <2>4, <2>8 DEF RowInv, DroppedSessionsAreForgotten, Live
  <2> QED
    BY <2>9, <2>10 DEF RowInv
<1>2. CASE OpenFails(f)
  BY <1>2, <1>a DEF OpenFails
<1>3. CASE SessionNotFound(f)
  BY <1>3, <1>a DEF SessionNotFound
<1>4. CASE EditDocument(f)
  <2> DEFINE s == flow[f].sid
             k == Edited(sessions[s], flow[f].item)
  <2>1. s \in DOMAIN sessions /\ flow[f].item \in Nat
    BY <1>4, <1>w, SessionsAssumption DEF EditDocument, Live, Flow, Changes
  <2>2. k \in Session /\ k.doc = sessions[s].doc
    BY <2>1, <1>k, EditedFacts
  <2> QED
    BY <1>4, <2>1, <2>2, <1>b DEF EditDocument
<1>5. CASE SaveDocumentAtomic(f)
  <2> DEFINE s == flow[f].sid
             k == Saved(sessions[s])
  <2>1. s \in DOMAIN sessions
    BY <1>5 DEF SaveDocumentAtomic, Live
  <2>2. k \in Session /\ k.doc = sessions[s].doc
    BY <2>1, <1>k, SavedFacts
  <2> QED
    BY <1>5, <2>1, <2>2, <1>a, <1>b DEF SaveDocumentAtomic
<1>6. CASE UndoLastCommand(f)
  <2> DEFINE s == flow[f].sid
             k == Undone(sessions[s])
  <2>1. s \in DOMAIN sessions
    BY <1>6 DEF UndoLastCommand, Live
  <2>2. sessions[s].done # <<>> => k \in Session /\ k.doc = sessions[s].doc
    BY <2>1, <1>k, UndoneFacts
  <2> QED
    BY <1>6, <2>1, <2>2, <1>a, <1>b DEF UndoLastCommand
<1>7. CASE RedoLastCommand(f)
  <2> DEFINE s == flow[f].sid
             k == Redone(sessions[s])
  <2>1. s \in DOMAIN sessions
    BY <1>7 DEF RedoLastCommand, Live
  <2>2. sessions[s].undone # <<>> => k \in Session /\ k.doc = sessions[s].doc
    BY <2>1, <1>k, RedoneFacts
  <2> QED
    BY <1>7, <2>1, <2>2, <1>a, <1>b DEF RedoLastCommand
<1>8. CASE CloseDocumentSession(f)
  <2>0. flow[f].kind = "close" /\ flow[f].at = "call" /\ UNCHANGED <<mapped, stranded>>
    BY <1>8 DEF CloseDocumentSession
  <2>1. PICK s \in flow[f].todo : /\ flow' = [flow EXCEPT ![f] = Closing(flow[f], s)]
                                  /\ sessions' = Discard({s})
    BY <1>8 DEF CloseDocumentSession
  <2> DEFINE w == Closing(flow[f], s)
  <2>2. Shape(w) /\ w.todo \subseteq flow[f].todo /\ w.at = "call"
    BY <1>0, <1>w, <2>0, Answered, ClosingUpdates
  <2>3. /\ DOMAIN sessions' = DOMAIN sessions \ {s}
        /\ \A t \in DOMAIN sessions' : sessions'[t] = sessions[t]
    BY <2>1, <1>0, DiscardLeaves
  <2>4. \A p \in Paths : mapped[p] # s
    BY <2>1 DEF RowInv, MapInv
  <2> HIDE DEF w
  <2>5. flow' = [flow EXCEPT ![f] = w]
    BY <2>1 DEF w
  <2> QED
    BY <2>0, <2>2, <2>3, <2>4, <2>5, RowStep
<1>9. CASE OpenWorkspace(f)
  <2> DEFINE w == At(flow[f], "list")
  <2>1. Shape(w) /\ w.todo = flow[f].todo /\ w.at = "list" /\ flow[f].at = "call"
    BY <1>9, <1>0, <1>w, Answered, AtUpdates DEF OpenWorkspace
  <2>2. flow' = [flow EXCEPT ![f] = w] /\ UNCHANGED <<sessions, mapped, stranded>>
    BY <1>9 DEF OpenWorkspace
  <2> HIDE DEF w
  <2> QED
    BY <2>1, <2>2, RowStep
<1>10. CASE ListDocuments(f)
  BY <1>10, <1>a DEF ListDocuments
<1>11. CASE CloseWorkspace(f)
  BY <1>11, <1>a DEF CloseWorkspace
<1>12. CASE TransferRefused(f)
  BY <1>12, <1>a DEF TransferRefused
<1>x. ASSUME NEW docs, Dropped(docs, FALSE), UNCHANGED mapped, flow[f].at # "done",
             flow' = [flow EXCEPT ![f] = Idle]
      PROVE  RowInv'
  <2>1. /\ DOMAIN sessions' = DOMAIN sessions \ SessionsOn(docs)
        /\ \A s \in DOMAIN sessions' : sessions'[s] = sessions[s]
    BY <1>0, <1>x, DropTypes
  <2>2. stranded' = stranded \cup {p \in Paths : mapped[p] \in SessionsOn(docs)}
    BY <1>x DEF Dropped
  <2> QED
    BY <1>x, <2>1, <2>2, IdleIsFlow, RowStep
<1>13. CASE ExecuteTransfer(f)
  <2> DEFINE src == Resolve(Path(flow[f].doc))
             dst == Resolve(Path(flow[f].to))
  <2>1. flow[f].kind \in Transferring /\ flow[f].at = "call" /\ UNCHANGED mapped
    BY <1>13 DEF ExecuteTransfer, Transferring
  <2>2. CASE flow' = [flow EXCEPT ![f] = Idle] /\ Dropped({src, dst}, FALSE)
    BY <2>1, <2>2, <1>x
  <2>3. ASSUME NEW n \in Nat \ {0}, flow' = [flow EXCEPT ![f] = Committed(flow[f], n)],
               Dropped({src, dst}, TRUE)
        PROVE  RowInv'
    <3> DEFINE w == Committed(flow[f], n)
    <3>1. Shape(w) /\ w.at = "done" /\ w.todo = flow[f].todo /\ w.doc = flow[f].doc /\ w.to = flow[f].to
      BY <2>1, <1>0, <1>w, Answered, CommittedUpdates
    <3>2. /\ DOMAIN sessions' = DOMAIN sessions \ SessionsOn({src, dst})
          /\ \A s \in DOMAIN sessions' : sessions'[s] = sessions[s]
          /\ stranded' = stranded
      BY <1>0, <2>3, DropTypes DEF Dropped
    <3>3. flow[f].doc \in Docs /\ flow[f].to \in Docs
      BY <1>w, <2>1 DEF Shape
    <3>4. Path(src) = Path(flow[f].doc) /\ Path(dst) = Path(flow[f].to)
      BY <1>13, <3>3, PathsOfDocs, ResolvedDocs DEF ExecuteTransfer
    <3>5. \A p \in Paths : mapped[p] \in SessionsOn({src, dst}) => p \in {Path(w.doc), Path(w.to)}
      BY <3>1, <3>4 DEF RowInv, MapInv, SessionsOn
    <3> HIDE DEF w, src, dst
    <3>6. flow' = [flow EXCEPT ![f] = w]
      BY <2>3 DEF w
    <3> QED
      BY <2>1, <3>1, <3>2, <3>5, <3>6, RowStep
  <2> QED
    BY <1>0, <1>13, <2>2, <2>3, TransferAnswers
<1>14. CASE UndoTransfer(f)
  BY <1>14, <1>a, <1>x DEF UndoTransfer
<1>15. CASE CompleteInterruptedMove(f)
  BY <1>15, <1>a, <1>x DEF CompleteInterruptedMove
<1> QED
  BY <1>1, <1>2, <1>3, <1>4, <1>5, <1>6, <1>7, <1>8, <1>9, <1>10, <1>11, <1>12, <1>13, <1>14, <1>15
     DEF Command

\* A function that maps a session maps a live one or strands its path; a
\* transfer's answer makes the interface forget both.
LEMMA ContinueKeepsRows ==
    ASSUME TypeInv, RowInv, NEW f \in Flows, Continue(f)
    PROVE  RowInv'
<1> USE DEF backend, interface, ghosts, bounds
<1>0. FlowInv /\ DataInv /\ RecordInv
  BY DEF TypeInv
<1>w. Shape(flow[f]) /\ flow[f] \in Flow
  BY <1>0, Answered
<1>1. CASE SessionOpened(f)
  <2> DEFINE p == Path(flow[f].doc)
             w == At(flow[f], "call")
  <2>1. p \in Paths /\ flow[f].at = "opened"
    BY <1>1, <1>w, PathsOfDocs, IdleIsFlow DEF SessionOpened, Shape, Flow, WithSession, Transferring
  <2>2. /\ flow' \in [Flows -> Flow] /\ flow'[f] = w
        /\ \A g \in Flows : g # f => flow'[g] = flow[g]
    <3>1. w \in Flow /\ flow' = [flow EXCEPT ![f] = w]
      BY <1>1, <1>w, AtUpdates DEF SessionOpened
    <3> QED
      BY <1>0, <3>1, FlowChange DEF FlowInv
  <2>3. w.at = "call" /\ w.todo = flow[f].todo
    BY <1>w, AtUpdates
  <2>4. /\ mapped'[p] = flow[f].sid
        /\ \A q \in Paths : q # p => mapped'[q] = mapped[q]
    BY <1>0, <1>1, <2>1 DEF SessionOpened, DataInv
  <2>5. /\ UNCHANGED sessions
        /\ stranded' = IF Live(flow[f].sid) THEN stranded \ {p} ELSE stranded \cup {p}
    BY <1>1 DEF SessionOpened
  <2> HIDE DEF w
  <2>6. MapInv'
    BY <2>1, <2>2, <2>3, <2>4, <2>5 DEF RowInv, MapInv
  <2>7. DroppedSessionsAreForgotten'
    BY <2>1, <2>2, <2>3, <2>4, <2>5 DEF RowInv, DroppedSessionsAreForgotten, Live
  <2> QED
    BY <2>6, <2>7 DEF RowInv
<1>2. CASE TransferDone(f)
  <2> DEFINE docs == {flow[f].doc, flow[f].to}
             paths == {Path(d) : d \in docs \cap DocsOf(shown)}
  <2>1. docs \subseteq Docs /\ flow[f].at = "done"
    BY <1>2, <1>w, IdleIsFlow DEF TransferDone, Shape, Flow, WithSession, Transferring
  <2>2. paths \in SUBSET Paths /\ {Path(d) : d \in docs} = {Path(flow[f].doc), Path(flow[f].to)}
    BY <2>1, PathsOfDocs
  <2>3. \A p \in Paths : mapped'[p] = IF p \in paths THEN 0 ELSE mapped[p]
    BY <1>0, <1>2, <2>2, ForgetFacts DEF TransferDone
  <2>4. /\ UNCHANGED sessions
        /\ stranded' = (stranded \ paths) \cup ({Path(d) : d \in docs} \ paths)
    BY <1>2 DEF TransferDone
  <2>5. /\ flow' \in [Flows -> Flow] /\ flow'[f] = Idle
        /\ \A g \in Flows : g # f => flow'[g] = flow[g]
    BY <1>0, <1>2, IdleIsFlow, FlowChange DEF TransferDone, FlowInv, Shape
  <2>6. 0 \notin DOMAIN sessions /\ \A g \in Flows : 0 \notin flow[g].todo
    BY <1>0 DEF FlowInv, DataInv, Given
  <2> HIDE DEF paths
  <2>7. MapInv'
    BY <2>3, <2>4, <2>5, <2>6, IdleIsFlow DEF RowInv, MapInv
  <2>8. DroppedSessionsAreForgotten'
    BY <2>2, <2>3, <2>4, <2>5, IdleIsFlow DEF RowInv, DroppedSessionsAreForgotten, Live
  <2> QED
    BY <2>7, <2>8 DEF RowInv
<1> QED
  BY <1>1, <1>2 DEF Continue

\* The interface keeps the id of a dropped session only where no answer told it:
\* after a failed transfer, an undone one or a completed move (sessionsByPath).
THEOREM DroppedAreForgotten == Spec => []DroppedSessionsAreForgotten
<1>1. Init => RowInv
  BY IdleIsFlow DEF Init, RowInv, MapInv, DroppedSessionsAreForgotten
<1>2. TypeInv /\ RowInv /\ [Next]_vars => RowInv'
  <2> SUFFICES ASSUME TypeInv, RowInv, [Next]_vars PROVE RowInv'
    OBVIOUS
  <2>1. ASSUME NEW f \in Flows, Start(f) PROVE RowInv'
    BY <2>1, Beginning, StartKeepsRows
  <2>2. ASSUME NEW f \in Flows, Command(f) PROVE RowInv'
    BY <2>2, CommandKeepsRows
  <2>3. ASSUME NEW f \in Flows, Continue(f) PROVE RowInv'
    BY <2>3, ContinueKeepsRows
  <2>4. CASE UNCHANGED vars
    BY <2>4 DEF vars, backend, interface, ghosts, RowInv, MapInv, DroppedSessionsAreForgotten, Live
  <2>5. CASE DismissTransferResult
    BY <2>5 DEF DismissTransferResult, backend, ghosts, RowInv, MapInv, DroppedSessionsAreForgotten, Live
  <2> QED
    BY <2>1, <2>2, <2>3, <2>4, <2>5 DEF Next
<1>3. RowInv => DroppedSessionsAreForgotten
  BY DEF RowInv
<1> QED
  BY <1>1, <1>2, <1>3, TypesHold, PTL DEF Spec

-----------------------------------------------------------------------------
(* An edit reaches the document it was made in.                             *)

\* While workspaces are only changed when nothing else is under way, the rows,
\* the mapped sessions and the flows are all of the workspace that is open.
SwitchInv ==
    ~crossed =>
        /\ astray = {}
        /\ shown = None \/ shown = workspace
        /\ shown = None \/ (\E f \in Flows : flow[f].kind = "close") =>
             \A p \in Paths : mapped[p] = 0
        /\ \A p \in Paths :
             mapped[p] \in DOMAIN sessions => sessions[mapped[p]].doc = <<workspace, p>>
        /\ \A f \in Flows :
             flow[f].kind \in WithSession =>
                /\ flow[f].doc[1] = workspace /\ shown = workspace
                /\ flow[f].at # "open" /\ flow[f].sid \in DOMAIN sessions =>
                     sessions[flow[f].sid].doc = flow[f].doc

\* A function goes on without touching a row or a workspace.
LEMMA SwitchStep ==
    ASSUME TypeInv, SwitchInv, NEW f \in Flows, NEW w, Shape(w), flow' = [flow EXCEPT ![f] = w],
           w.kind \notin WithSession, w.kind = "close" => flow[f].kind = "close",
           UNCHANGED <<workspace, shown, mapped, astray, crossed>>,
           DOMAIN sessions' \subseteq DOMAIN sessions,
           \A s \in DOMAIN sessions' : sessions'[s].doc = sessions[s].doc
    PROVE  SwitchInv'
<1>1. /\ flow' \in [Flows -> Flow] /\ flow'[f] = w
      /\ \A g \in Flows : g # f => flow'[g] = flow[g]
  BY FlowChange DEF TypeInv, FlowInv, Shape
<1> QED
  BY <1>1 DEF SwitchInv

\* A function starts from a row of the open workspace.
LEMMA StartKeepsSwitch ==
    ASSUME TypeInv, SwitchInv, NEW f \in Flows, NEW w, Began(f, w)
    PROVE  SwitchInv'
<1> SUFFICES ASSUME ~crossed' PROVE SwitchInv'
  BY DEF SwitchInv
<1>1. /\ flow' \in [Flows -> Flow] /\ flow'[f] = w
      /\ \A g \in Flows : g # f => flow'[g] = flow[g]
  BY FlowChange DEF Began, TypeInv, FlowInv, Shape
<1>2. /\ ~crossed /\ UNCHANGED <<sessions, workspace, shown, astray, crossed>> /\ Shape(w)
      /\ flow[f] = Idle /\ flow' = [flow EXCEPT ![f] = w] /\ w.at \in {"open", "call"}
  BY DEF Began, backend
<1>3. 0 \notin DOMAIN sessions
  BY DEF TypeInv, DataInv, Given
<1>4. CASE w.kind \in WithSession
  <2>1. w.doc \in Docs /\ w.doc[1] = shown /\ w.sid = mapped[Path(w.doc)] /\ UNCHANGED mapped
    BY <1>2, <1>4 DEF Began, Shape, interface, WithSession
  <2>2. w.doc = <<w.doc[1], Path(w.doc)>> /\ Path(w.doc) \in Paths /\ w.doc[1] # None
    BY <2>1, PathsOfDocs, SessionsAssumption
  <2>3. shown = workspace
    BY <1>2, <2>1, <2>2 DEF SwitchInv
  <2>4. w.sid \in DOMAIN sessions => sessions[w.sid].doc = w.doc
    BY <1>2, <2>1, <2>2, <2>3 DEF SwitchInv
  <2>5. w.kind # "close"
    BY <1>4 DEF WithSession
  <2> QED
    BY <1>1, <1>2, <2>1, <2>3, <2>4, <2>5 DEF SwitchInv
<1>5. CASE w.kind = "close"
  <2>1. \A p \in Paths : mapped'[p] = 0
    BY <1>5, ForgetFacts DEF Began, TypeInv, WithSession
  <2> QED
    BY <1>1, <1>2, <1>3, <1>5, <2>1 DEF SwitchInv, WithSession
<1>6. CASE w.kind \notin WithSession \cup {"close"}
  BY <1>2, <1>6, SwitchStep DEF Began, interface
<1> QED
  BY <1>4, <1>5, <1>6

\* Only a change of workspace can move rows, sessions and flows apart.
LEMMA CommandKeepsSwitch ==
    ASSUME TypeInv, SwitchInv, NEW f \in Flows, Command(f)
    PROVE  SwitchInv'
<1> USE DEF backend, interface, ghosts, bounds
<1>0. FlowInv /\ DataInv /\ RecordInv
  BY DEF TypeInv
<1>k. \A s \in DOMAIN sessions : sessions[s] \in Session
  BY <1>0 DEF DataInv
<1>w. Shape(flow[f]) /\ flow[f] \in Flow
  BY <1>0, Answered
<1>i. Shape(Idle) /\ Idle.kind \notin WithSession \cup {"close"}
  BY IdleIsFlow DEF WithSession
<1>n. 0 \notin DOMAIN sessions
  BY <1>0 DEF DataInv, Given
<1>a. ASSUME flow' = [flow EXCEPT ![f] = Idle],
             UNCHANGED <<workspace, shown, mapped, astray, crossed>>,
             DOMAIN sessions' \subseteq DOMAIN sessions,
             \A s \in DOMAIN sessions' : sessions'[s].doc = sessions[s].doc
      PROVE  SwitchInv'
  BY <1>a, <1>i, SwitchStep
<1>b. ASSUME flow' = [flow EXCEPT ![f] = Idle],
             UNCHANGED <<workspace, shown, mapped, astray, crossed>>,
             NEW s \in DOMAIN sessions, NEW k \in Session,
             k.doc = sessions[s].doc, sessions' = [sessions EXCEPT ![s] = k]
      PROVE  SwitchInv'
  <2>1. /\ DOMAIN sessions' = DOMAIN sessions
        /\ \A t \in DOMAIN sessions : sessions'[t].doc = sessions[t].doc
    BY <1>0, <1>b, WriteSession
  <2> QED
    BY <1>a, <1>b, <2>1
<1>x. ASSUME NEW docs, NEW told, Dropped(docs, told), UNCHANGED <<workspace, shown, mapped, astray, crossed>>,
             NEW w, Shape(w), w.kind \notin WithSession \cup {"close"},
             flow' = [flow EXCEPT ![f] = w]
      PROVE  SwitchInv'
  <2>1. /\ DOMAIN sessions' \subseteq DOMAIN sessions
        /\ \A s \in DOMAIN sessions' : sessions'[s] = sessions[s]
    BY <1>0, <1>x, DropTypes
  <2> QED
    BY <1>x, <2>1, SwitchStep
<1>1. CASE OpenDocumentSession(f)
  <2> SUFFICES ASSUME ~crossed' PROVE SwitchInv'
    BY DEF SwitchInv
  <2> DEFINE d == Resolve(Path(flow[f].doc))
             s == opened + 1
             k == [doc |-> d, tree |-> disk[d], base |-> disk[d],
                   done |-> <<>>, undone |-> <<>>, dirty |-> TRUE]
             w == Opened(flow[f], s)
  <2>0. flow[f].at = "open" /\ flow[f].kind \in WithSession /\ flow[f].doc \in Docs
    BY <1>1, <1>w, IdleIsFlow DEF OpenDocumentSession, Shape, Flow, WithSession, Transferring
  <2>1. s \in SessionIds /\ s \notin Given /\ d # None
    BY <1>1, <1>0, SessionsAssumption DEF OpenDocumentSession, DataInv, Given
  <2>2. /\ flow' \in [Flows -> Flow] /\ flow'[f] = w
        /\ \A g \in Flows : g # f => flow'[g] = flow[g]
    <3>1. w \in Flow
      BY <1>w, <2>1, OpenedUpdates
    <3>2. flow' = [flow EXCEPT ![f] = w]
      BY <1>1 DEF OpenDocumentSession
    <3> QED
      BY <1>0, <3>1, <3>2, FlowChange DEF FlowInv
  <2>3. w.kind = flow[f].kind /\ w.sid = s /\ w.doc = flow[f].doc
    BY <1>w, <2>1, OpenedUpdates
  <2>4. /\ DOMAIN sessions' = DOMAIN sessions \cup {s} /\ s \notin DOMAIN sessions
        /\ sessions'[s].doc = d
        /\ \A t \in DOMAIN sessions : sessions'[t] = sessions[t]
    <3>1. s \notin DOMAIN sessions
      BY <1>0, <2>1 DEF DataInv
    <3>2. k.doc = d
      OBVIOUS
    <3> HIDE DEF k, s
    <3>3. sessions' = [i \in DOMAIN sessions \cup {s} |-> IF i \in DOMAIN sessions THEN sessions[i] ELSE k]
      BY <1>1 DEF OpenDocumentSession, k, s
    <3> QED
      BY <3>1, <3>2, <3>3
  <2>5. UNCHANGED <<workspace, shown, mapped, astray, crossed>>
    BY <1>1 DEF OpenDocumentSession
  <2>6. flow[f].doc[1] = workspace
    BY <2>0, <2>5 DEF SwitchInv
  <2>7. d = flow[f].doc
    BY <2>0, <2>1, <2>6, PathsOfDocs DEF Resolve
  <2>8. \A p \in Paths : mapped[p] # s
    BY <1>0, <2>1, SessionsAssumption DEF DataInv, Given
  <2>9. \A g \in Flows : s # flow[g].sid
    BY <1>0, <2>1, SessionsAssumption DEF FlowInv, DataInv, Given
  <2>10. flow[f].kind # "close"
    BY <2>0 DEF WithSession
  <2> HIDE DEF d, s, k, w
  <2> QED
    BY <2>0, <2>2, <2>3, <2>4, <2>5, <2>6, <2>7, <2>8, <2>9, <2>10 DEF SwitchInv
<1>2. CASE OpenFails(f)
  BY <1>2, <1>a DEF OpenFails
<1>3. CASE SessionNotFound(f)
  BY <1>3, <1>a DEF SessionNotFound
<1>4. CASE EditDocument(f)
  <2> SUFFICES ASSUME ~crossed' PROVE SwitchInv'
    BY DEF SwitchInv
  <2> DEFINE s == flow[f].sid
             k == Edited(sessions[s], flow[f].item)
  <2>1. s \in DOMAIN sessions /\ flow[f].item \in Nat
    BY <1>4, <1>w, SessionsAssumption DEF EditDocument, Live, Flow, Changes
  <2>2. k \in Session /\ k.doc = sessions[s].doc
    BY <2>1, <1>k, EditedFacts
  <2>3. sessions[s].doc = flow[f].doc
    BY <1>4, <2>1 DEF EditDocument, SwitchInv, WithSession
  <2> QED
    BY <1>4, <2>1, <2>2, <2>3, <1>b DEF EditDocument
<1>5. CASE SaveDocumentAtomic(f)
  <2> DEFINE s == flow[f].sid
             k == Saved(sessions[s])
  <2>1. s \in DOMAIN sessions
    BY <1>5 DEF SaveDocumentAtomic, Live
  <2>2. k \in Session /\ k.doc = sessions[s].doc
    BY <2>1, <1>k, SavedFacts
  <2> QED
    BY <1>5, <2>1, <2>2, <1>a, <1>b DEF SaveDocumentAtomic
<1>6. CASE UndoLastCommand(f)
  <2> DEFINE s == flow[f].sid
             k == Undone(sessions[s])
  <2>1. s \in DOMAIN sessions
    BY <1>6 DEF UndoLastCommand, Live
  <2>2. sessions[s].done # <<>> => k \in Session /\ k.doc = sessions[s].doc
    BY <2>1, <1>k, UndoneFacts
  <2> QED
    BY <1>6, <2>1, <2>2, <1>a, <1>b DEF UndoLastCommand
<1>7. CASE RedoLastCommand(f)
  <2> DEFINE s == flow[f].sid
             k == Redone(sessions[s])
  <2>1. s \in DOMAIN sessions
    BY <1>7 DEF RedoLastCommand, Live
  <2>2. sessions[s].undone # <<>> => k \in Session /\ k.doc = sessions[s].doc
    BY <2>1, <1>k, RedoneFacts
  <2> QED
    BY <1>7, <2>1, <2>2, <1>a, <1>b DEF RedoLastCommand
<1>8. CASE CloseDocumentSession(f)
  <2>0. /\ flow[f].kind = "close"
        /\ UNCHANGED <<workspace, shown, mapped, astray, crossed>>
    BY <1>8 DEF CloseDocumentSession
  <2>1. PICK s \in flow[f].todo : /\ flow' = [flow EXCEPT ![f] = Closing(flow[f], s)]
                                  /\ sessions' = Discard({s})
    BY <1>8 DEF CloseDocumentSession
  <2> DEFINE w == Closing(flow[f], s)
  <2>2. Shape(w) /\ w.kind = "close"
    BY <1>0, <1>w, <2>0, Answered, ClosingUpdates
  <2>3. /\ DOMAIN sessions' = DOMAIN sessions \ {s}
        /\ \A t \in DOMAIN sessions' : sessions'[t] = sessions[t]
    BY <2>1, <1>0, DiscardLeaves
  <2> HIDE DEF w
  <2>5. flow' = [flow EXCEPT ![f] = w]
    BY <2>1 DEF w
  <2> QED
    BY <2>0, <2>2, <2>3, <2>5, SwitchStep DEF WithSession
<1>9. CASE OpenWorkspace(f)
  <2> SUFFICES ASSUME ~crossed' PROVE SwitchInv'
    BY DEF SwitchInv
  <2>1. shown = None /\ Alone(f) /\ ~crossed /\ UNCHANGED <<sessions, mapped, shown, astray>>
    BY <1>9 DEF OpenWorkspace
  <2>2. \A p \in Paths : mapped[p] = 0
    BY <2>1 DEF SwitchInv
  <2> DEFINE w == At(flow[f], "list")
  <2>3. w.kind = "workspace" /\ w \in Flow
    BY <1>9, <1>w, AtUpdates DEF OpenWorkspace
  <2>4. flow' = [flow EXCEPT ![f] = w]
    BY <1>9 DEF OpenWorkspace
  <2> HIDE DEF w
  <2>5. flow'[f] = w /\ \A g \in Flows : g # f => flow'[g] = flow[g]
    BY <1>0, <2>3, <2>4, FlowChange DEF FlowInv
  <2>6. \A g \in Flows : flow'[g].kind \notin WithSession
    BY <2>1, <2>3, <2>5, <1>i DEF Alone, WithSession
  <2> QED
    BY <2>1, <2>2, <2>6, <1>n DEF SwitchInv
<1>10. CASE ListDocuments(f)
  <2> SUFFICES ASSUME ~crossed' PROVE SwitchInv'
    BY DEF SwitchInv
  <2>1. ~crossed /\ shown' = workspace /\ UNCHANGED <<sessions, workspace, mapped, astray>>
    BY <1>10 DEF ListDocuments
  <2>2. flow'[f] = Idle /\ \A g \in Flows : g # f => flow'[g] = flow[g]
    BY <1>0, <1>10, <1>i, FlowChange DEF ListDocuments, FlowInv, Shape
  <2>3. \A g \in Flows : flow'[g].kind \in WithSession \cup {"close"} => flow'[g] = flow[g]
    BY <2>2, <1>i
  <2>4. \A g \in Flows : flow'[g].kind \in WithSession => flow'[g] = flow[g]
    BY <2>3
  <2>5. shown' = None \/ (\E g \in Flows : flow'[g].kind = "close") => \A p \in Paths : mapped'[p] = 0
    BY <2>1, <2>3 DEF SwitchInv
  <2> QED
    BY <2>1, <2>4, <2>5 DEF SwitchInv
<1>11. CASE CloseWorkspace(f)
  <2> SUFFICES ASSUME ~crossed' PROVE SwitchInv'
    BY DEF SwitchInv
  <2>1. Alone(f) /\ ~crossed /\ UNCHANGED <<sessions, mapped, astray>> /\ shown' = None
    BY <1>11 DEF CloseWorkspace
  <2>2. \A p \in Paths : mapped[p] = 0
    BY <1>11, <2>1 DEF CloseWorkspace, SwitchInv
  <2>3. flow'[f] = Idle /\ \A g \in Flows : g # f => flow'[g] = flow[g]
    BY <1>0, <1>11, <1>i, FlowChange DEF CloseWorkspace, FlowInv, Shape
  <2>4. \A g \in Flows : flow'[g].kind \notin WithSession
    BY <2>1, <2>3, <1>i DEF Alone
  <2> QED
    BY <2>1, <2>2, <2>4, <1>n DEF SwitchInv
<1>12. CASE TransferRefused(f)
  BY <1>12, <1>a DEF TransferRefused
<1>13. CASE ExecuteTransfer(f)
  <2> DEFINE docs == {Resolve(Path(flow[f].doc)), Resolve(Path(flow[f].to))}
  <2>1. UNCHANGED <<workspace, shown, mapped, astray, crossed>> /\ \E told : Dropped(docs, told)
    BY <1>13 DEF ExecuteTransfer
  <2>2. CASE flow' = [flow EXCEPT ![f] = Idle]
    BY <2>1, <2>2, <1>i, <1>x
  <2>3. ASSUME NEW n \in Nat \ {0}, flow' = [flow EXCEPT ![f] = Committed(flow[f], n)]
        PROVE  SwitchInv'
    <3> DEFINE w == Committed(flow[f], n)
    <3>1. flow[f].kind \in Transferring
      BY <1>13 DEF ExecuteTransfer, Transferring
    <3>2. Shape(w) /\ w.kind \notin WithSession \cup {"close"}
      BY <3>1, <1>0, <1>w, Answered, CommittedUpdates DEF Transferring, WithSession
    <3> HIDE DEF w, docs
    <3>3. flow' = [flow EXCEPT ![f] = w]
      BY <2>3 DEF w
    <3> QED
      BY <2>1, <3>2, <3>3, <1>x
  <2> QED
    BY <1>0, <1>13, <2>2, <2>3, TransferAnswers
<1>14. CASE UndoTransfer(f)
  BY <1>14, <1>a, <1>x, <1>i DEF UndoTransfer
<1>15. CASE CompleteInterruptedMove(f)
  BY <1>15, <1>a, <1>x, <1>i DEF CompleteInterruptedMove
<1> QED
  BY <1>1, <1>2, <1>3, <1>4, <1>5, <1>6, <1>7, <1>8, <1>9, <1>10, <1>11, <1>12, <1>13, <1>14, <1>15
     DEF Command

\* A session is mapped in the row it was opened for.
LEMMA ContinueKeepsSwitch ==
    ASSUME TypeInv, SwitchInv, NEW f \in Flows, Continue(f)
    PROVE  SwitchInv'
<1> USE DEF backend, interface, ghosts, bounds
<1> SUFFICES ASSUME ~crossed' PROVE SwitchInv'
  BY DEF SwitchInv
<1>0. FlowInv /\ DataInv /\ RecordInv
  BY DEF TypeInv
<1>w. Shape(flow[f]) /\ flow[f] \in Flow
  BY <1>0, Answered
<1>n. 0 \notin DOMAIN sessions
  BY <1>0 DEF DataInv, Given
<1>1. CASE SessionOpened(f)
  <2> DEFINE p == Path(flow[f].doc)
             w == At(flow[f], "call")
  <2>1. /\ p \in Paths /\ flow[f].at = "opened" /\ flow[f].kind \in WithSession
        /\ flow[f].doc = <<flow[f].doc[1], p>> /\ flow[f].doc[1] # None
    BY <1>1, <1>w, PathsOfDocs, IdleIsFlow, SessionsAssumption
       DEF SessionOpened, Shape, Flow, WithSession, Transferring
  <2>2. /\ flow' \in [Flows -> Flow] /\ flow'[f] = w
        /\ \A g \in Flows : g # f => flow'[g] = flow[g]
    <3>1. w \in Flow /\ flow' = [flow EXCEPT ![f] = w]
      BY <1>1, <1>w, AtUpdates DEF SessionOpened
    <3> QED
      BY <1>0, <3>1, FlowChange DEF FlowInv
  <2>3. w.kind = flow[f].kind /\ w.sid = flow[f].sid /\ w.doc = flow[f].doc
    BY <1>w, AtUpdates
  <2>4. /\ mapped'[p] = flow[f].sid
        /\ \A q \in Paths : q # p => mapped'[q] = mapped[q]
    BY <1>0, <1>1, <2>1 DEF SessionOpened, DataInv
  <2>5. /\ UNCHANGED <<sessions, workspace, shown, astray>> /\ ~crossed
        /\ \A g \in Flows : flow[g].kind # "close"
    BY <1>1 DEF SessionOpened
  <2> HIDE DEF w, p
  <2>6. /\ flow[f].doc[1] = workspace /\ shown = workspace /\ shown # None
        /\ flow[f].sid \in DOMAIN sessions => sessions[flow[f].sid].doc = <<workspace, p>>
    BY <2>1, <2>5 DEF SwitchInv
  <2>7. \A g \in Flows : flow'[g].kind # "close"
    BY <2>2, <2>3, <2>5
  <2>8. \A q \in Paths : mapped'[q] \in DOMAIN sessions' => sessions'[mapped'[q]].doc = <<workspace', q>>
    BY <2>4, <2>5, <2>6 DEF SwitchInv
  <2>9. \A g \in Flows :
             flow'[g].kind \in WithSession =>
                /\ flow'[g].doc[1] = workspace' /\ shown' = workspace'
                /\ flow'[g].at # "open" /\ flow'[g].sid \in DOMAIN sessions' =>
                     sessions'[flow'[g].sid].doc = flow'[g].doc
    BY <2>1, <2>2, <2>3, <2>5, <2>6 DEF SwitchInv
  <2> QED
    BY <2>5, <2>6, <2>7, <2>8, <2>9 DEF SwitchInv
<1>2. CASE TransferDone(f)
  <2> DEFINE docs == {flow[f].doc, flow[f].to}
             paths == {Path(d) : d \in docs \cap DocsOf(shown)}
  <2>1. docs \subseteq Docs
    BY <1>2, <1>w, IdleIsFlow DEF TransferDone, Shape, Flow, WithSession, Transferring
  <2>2. paths \in SUBSET Paths
    BY <2>1, PathsOfDocs
  <2>3. \A p \in Paths : mapped'[p] = IF p \in paths THEN 0 ELSE mapped[p]
    BY <1>0, <1>2, <2>2, ForgetFacts DEF TransferDone
  <2>4. UNCHANGED <<sessions, workspace, shown, astray, crossed>>
    BY <1>2 DEF TransferDone
  <2>5. /\ flow'[f] = Idle
        /\ \A g \in Flows : g # f => flow'[g] = flow[g]
    BY <1>0, <1>2, IdleIsFlow, FlowChange DEF TransferDone, FlowInv, Shape
  <2>6. \A g \in Flows : flow'[g].kind \in WithSession \cup {"close"} => flow'[g] = flow[g]
    BY <2>5, IdleIsFlow DEF WithSession
  <2>7. \A g \in Flows : flow'[g].kind \in WithSession => flow'[g] = flow[g]
    BY <2>6
  <2> HIDE DEF paths
  <2>8. shown' = None \/ (\E g \in Flows : flow'[g].kind = "close") => \A p \in Paths : mapped'[p] = 0
    BY <2>3, <2>4, <2>6 DEF SwitchInv
  <2> QED
    BY <2>3, <2>4, <2>7, <2>8, <1>n DEF SwitchInv
<1> QED
  BY <1>1, <1>2 DEF Continue

\* An edit changes the document whose row it was made in, unless the workspace
\* was changed without being closed, or under functions still under way.
THEOREM EditsArrive == Spec => []EditsReachTheirDocument
<1>1. Init => SwitchInv
  BY IdleIsFlow DEF Init, SwitchInv, WithSession
<1>2. TypeInv /\ SwitchInv /\ [Next]_vars => SwitchInv'
  <2> SUFFICES ASSUME TypeInv, SwitchInv, [Next]_vars PROVE SwitchInv'
    OBVIOUS
  <2>1. ASSUME NEW f \in Flows, Start(f) PROVE SwitchInv'
    BY <2>1, Beginning, StartKeepsSwitch
  <2>2. ASSUME NEW f \in Flows, Command(f) PROVE SwitchInv'
    BY <2>2, CommandKeepsSwitch
  <2>3. ASSUME NEW f \in Flows, Continue(f) PROVE SwitchInv'
    BY <2>3, ContinueKeepsSwitch
  <2>4. CASE UNCHANGED vars
    BY <2>4 DEF vars, backend, interface, ghosts, SwitchInv
  <2>5. CASE DismissTransferResult
    BY <2>5 DEF DismissTransferResult, backend, ghosts, SwitchInv
  <2> QED
    BY <2>1, <2>2, <2>3, <2>4, <2>5 DEF Next
<1>3. SwitchInv => EditsReachTheirDocument
  BY DEF SwitchInv, EditsReachTheirDocument
<1> QED
  BY <1>1, <1>2, <1>3, TypesHold, PTL DEF Spec

-----------------------------------------------------------------------------
(* Histories hold only changes that were made, each of them once.           *)

\* The histories of a session, n changes having been made.
Stacked(k, n) ==
    /\ k.tree \subseteq 0 .. n /\ k.base \subseteq 0 .. n
    /\ \A i \in 1 .. Len(k.done) : k.done[i] \in k.tree
    /\ \A i \in 1 .. Len(k.undone) : k.undone[i] \in 0 .. n
    /\ \A i, j \in 1 .. Len(k.done) : i # j => k.done[i] # k.done[j]
    /\ \A i, j \in 1 .. Len(k.undone) : i # j => k.undone[i] # k.undone[j]
    /\ \A i \in 1 .. Len(k.done), j \in 1 .. Len(k.undone) : k.done[i] # k.undone[j]

\* The changes in the histories of a session.
Held(k) ==
    {k.done[i] : i \in 1 .. Len(k.done)} \cup {k.undone[i] : i \in 1 .. Len(k.undone)}

\* An edit adds its change to the undo history and to nothing else.
LEMMA EditedHistory ==
    ASSUME NEW n \in Nat, NEW k \in Session, NEW e \in 1 .. n, Stacked(k, n), e \notin Held(k)
    PROVE  /\ Stacked(Edited(k, e), n)
           /\ \A x : x \in Held(Edited(k, e)) => x = e \/ x \in Held(k)
<1> DEFINE m == Edited(k, e)
<1>0. e \in Nat
  OBVIOUS
<1>1. /\ m.tree = k.tree \cup {e} /\ m.base = k.base
      /\ m.done = Append(k.done, e) /\ m.undone = <<>> /\ k.done \in Seq(Nat)
  BY <1>0, EditedFacts DEF Session
<1> HIDE DEF m
<1>2. /\ Len(m.done) = Len(k.done) + 1 /\ Len(m.undone) = 0 /\ Len(k.done) \in Nat
      /\ m.done[Len(k.done) + 1] = e
      /\ \A i \in 1 .. Len(k.done) : m.done[i] = k.done[i]
  BY <1>1
<1>3. \A i \in 1 .. Len(m.done) : i = Len(k.done) + 1 \/ i \in 1 .. Len(k.done)
  BY <1>2
<1>a. \A i \in 1 .. Len(k.done) : k.done[i] # e
  BY DEF Held
<1>4. /\ \A i \in 1 .. Len(k.done) : k.done[i] # e /\ k.done[i] \in k.tree
      /\ \A i, j \in 1 .. Len(k.done) : i # j => k.done[i] # k.done[j]
      /\ m.tree \subseteq 0 .. n /\ m.base \subseteq 0 .. n
  BY <1>1, <1>a DEF Stacked
<1>5. \A i \in 1 .. Len(m.done) : m.done[i] \in m.tree
  BY <1>1, <1>2, <1>3, <1>4
<1>6. \A i, j \in 1 .. Len(m.done) : i # j => m.done[i] # m.done[j]
  BY <1>2, <1>3, <1>4
<1>7. Stacked(m, n)
  BY <1>2, <1>4, <1>5, <1>6 DEF Stacked
<1>8. ASSUME NEW x, x \in Held(m)
      PROVE  x = e \/ x \in Held(k)
  <2>1. CASE \E i \in 1 .. Len(m.done) : x = m.done[i]
    <3>1. PICK i \in 1 .. Len(m.done) : x = m.done[i]
      BY <2>1
    <3>2. CASE i = Len(k.done) + 1
      BY <1>2, <3>1, <3>2
    <3>3. CASE i \in 1 .. Len(k.done)
      BY <1>2, <3>1, <3>3 DEF Held
    <3> QED
      BY <1>3, <3>2, <3>3
  <2>2. CASE \E i \in 1 .. Len(m.undone) : x = m.undone[i]
    BY <1>2, <2>2 DEF Held
  <2> QED
    BY <1>8, <2>1, <2>2 DEF Held
<1> QED
  BY <1>7, <1>8 DEF m

\* Undo moves one change between the two histories.
LEMMA UndoneHistory ==
    ASSUME NEW n \in Nat, NEW k \in Session, k.done # <<>>, Stacked(k, n)
    PROVE  /\ Stacked(Undone(k), n)
           /\ \A x : x \in Held(Undone(k)) => x \in Held(k)
<1> DEFINE m == Undone(k)
           e == Newest(k.done)
           l == Len(k.done)
           u == Len(k.undone)
<1>1. /\ m.tree = k.tree \ {e} /\ m.base = k.base
      /\ m.done = Popped(k.done) /\ m.undone = Append(k.undone, e)
      /\ k.done \in Seq(Nat) /\ k.undone \in Seq(Nat) /\ e \in Nat
  BY UndoneFacts, PoppedType DEF Session
<1>2. l \in Nat /\ l >= 1 /\ u \in Nat /\ e = k.done[l]
  BY <1>1 DEF Newest
<1> HIDE DEF m, e
<1>3. Len(m.done) = l - 1 /\ \A i \in 1 .. (l - 1) : m.done[i] = k.done[i]
  <2>1. m.done = SubSeq(k.done, 1, l - 1) /\ l = Len(k.done)
    BY <1>1 DEF Popped, l
  <2> QED
    BY <1>1, <1>2, <2>1
<1>4. /\ Len(m.undone) = u + 1 /\ m.undone[u + 1] = e
      /\ \A i \in 1 .. u : m.undone[i] = k.undone[i]
  BY <1>1, <1>2
<1> HIDE DEF l, u
<1>5. /\ \A i \in 1 .. Len(m.done) : i \in 1 .. l /\ i # l /\ m.done[i] = k.done[i]
      /\ \A i \in 1 .. Len(m.undone) : i = u + 1 \/ i \in 1 .. u
      /\ l \in 1 .. l
  BY <1>2, <1>3, <1>4
<1>6. /\ \A i, j \in 1 .. l : i # j => k.done[i] # k.done[j]
      /\ \A i, j \in 1 .. u : i # j => k.undone[i] # k.undone[j]
      /\ \A i \in 1 .. l, j \in 1 .. u : k.done[i] # k.undone[j]
      /\ \A i \in 1 .. l : k.done[i] \in k.tree
      /\ \A i \in 1 .. u : k.undone[i] \in 0 .. n
      /\ k.tree \subseteq 0 .. n /\ k.base \subseteq 0 .. n
  BY DEF Stacked, l, u
<1>7. m.tree \subseteq 0 .. n /\ m.base \subseteq 0 .. n
  BY <1>1, <1>6
<1>8. \A i \in 1 .. Len(m.done) : m.done[i] \in m.tree
  BY <1>1, <1>2, <1>5, <1>6
<1>9. \A i \in 1 .. Len(m.undone) : m.undone[i] \in 0 .. n
  BY <1>2, <1>4, <1>5, <1>6
<1>10. \A i, j \in 1 .. Len(m.done) : i # j => m.done[i] # m.done[j]
  BY <1>5, <1>6
<1>11. \A i, j \in 1 .. Len(m.undone) : i # j => m.undone[i] # m.undone[j]
  BY <1>2, <1>4, <1>5, <1>6, SMTT(20)
<1>12. \A i \in 1 .. Len(m.done), j \in 1 .. Len(m.undone) : m.done[i] # m.undone[j]
  BY <1>2, <1>4, <1>5, <1>6
<1>13. Stacked(m, n)
  BY <1>7, <1>8, <1>9, <1>10, <1>11, <1>12 DEF Stacked
<1>14. ASSUME NEW x, x \in Held(m)
       PROVE  x \in Held(k)
  <2>1. \A i \in 1 .. l : k.done[i] \in Held(k)
    BY DEF Held, l
  <2>2. \A i \in 1 .. u : k.undone[i] \in Held(k)
    BY DEF Held, u
  <2>3. CASE \E i \in 1 .. Len(m.done) : x = m.done[i]
    BY <1>2, <1>4, <1>5, <2>1, <2>2, <2>3
  <2>4. CASE \E i \in 1 .. Len(m.undone) : x = m.undone[i]
    BY <1>2, <1>4, <1>5, <2>1, <2>2, <2>4
  <2> QED
    BY <1>14, <2>3, <2>4 DEF Held
<1> QED
  BY <1>13, <1>14 DEF m

\* Redo moves one change between the two histories.
LEMMA RedoneHistory ==
    ASSUME NEW n \in Nat, NEW k \in Session, k.undone # <<>>, Stacked(k, n)
    PROVE  /\ Stacked(Redone(k), n)
           /\ \A x : x \in Held(Redone(k)) => x \in Held(k)
<1> DEFINE m == Redone(k)
           e == Newest(k.undone)
           l == Len(k.done)
           u == Len(k.undone)
<1>1. /\ m.tree = k.tree \cup {e} /\ m.base = k.base
      /\ m.undone = Popped(k.undone) /\ m.done = Append(k.done, e)
      /\ k.done \in Seq(Nat) /\ k.undone \in Seq(Nat) /\ e \in Nat
  BY RedoneFacts, PoppedType DEF Session
<1>2. u \in Nat /\ u >= 1 /\ l \in Nat /\ e = k.undone[u]
  BY <1>1 DEF Newest
<1> HIDE DEF m, e
<1>3. Len(m.undone) = u - 1 /\ \A i \in 1 .. (u - 1) : m.undone[i] = k.undone[i]
  BY <1>1, <1>2 DEF Popped
<1>4. /\ Len(m.done) = l + 1 /\ m.done[l + 1] = e
      /\ \A i \in 1 .. l : m.done[i] = k.done[i]
  BY <1>1, <1>2
<1> HIDE DEF l, u
<1>5. /\ \A i \in 1 .. Len(m.undone) : i \in 1 .. u /\ i # u /\ m.undone[i] = k.undone[i]
      /\ \A i \in 1 .. Len(m.done) : i = l + 1 \/ i \in 1 .. l
      /\ u \in 1 .. u
  BY <1>2, <1>3, <1>4
<1>6. /\ \A i, j \in 1 .. l : i # j => k.done[i] # k.done[j]
      /\ \A i, j \in 1 .. u : i # j => k.undone[i] # k.undone[j]
      /\ \A i \in 1 .. l, j \in 1 .. u : k.done[i] # k.undone[j]
      /\ \A i \in 1 .. l : k.done[i] \in k.tree
      /\ \A i \in 1 .. u : k.undone[i] \in 0 .. n
      /\ k.tree \subseteq 0 .. n /\ k.base \subseteq 0 .. n
  BY DEF Stacked, l, u
<1>7. m.tree \subseteq 0 .. n /\ m.base \subseteq 0 .. n
  BY <1>1, <1>2, <1>5, <1>6
<1>8. \A i \in 1 .. Len(m.done) : m.done[i] \in m.tree
  BY <1>1, <1>2, <1>4, <1>5, <1>6
<1>9. \A i \in 1 .. Len(m.undone) : m.undone[i] \in 0 .. n
  BY <1>5, <1>6
<1>10. \A i, j \in 1 .. Len(m.done) : i # j => m.done[i] # m.done[j]
  BY <1>2, <1>4, <1>5, <1>6
<1>11. \A i, j \in 1 .. Len(m.undone) : i # j => m.undone[i] # m.undone[j]
  BY <1>5, <1>6
<1>12. \A i \in 1 .. Len(m.done), j \in 1 .. Len(m.undone) : m.done[i] # m.undone[j]
  BY <1>2, <1>4, <1>5, <1>6, SMTT(20)
<1>13. Stacked(m, n)
  BY <1>7, <1>8, <1>9, <1>10, <1>11, <1>12 DEF Stacked
<1>14. ASSUME NEW x, x \in Held(m)
       PROVE  x \in Held(k)
  <2>1. \A i \in 1 .. l : k.done[i] \in Held(k)
    BY DEF Held, l
  <2>2. \A i \in 1 .. u : k.undone[i] \in Held(k)
    BY DEF Held, u
  <2>3. CASE \E i \in 1 .. Len(m.done) : x = m.done[i]
    BY <1>2, <1>4, <1>5, <2>1, <2>2, <2>3
  <2>4. CASE \E i \in 1 .. Len(m.undone) : x = m.undone[i]
    BY <1>2, <1>4, <1>5, <2>1, <2>2, <2>4
  <2> QED
    BY <1>14, <2>3, <2>4 DEF Held
<1> QED
  BY <1>13, <1>14 DEF m

\* The backups of the transfers hold no change but the n that were made.
BackedUp(n) ==
    \A t \in 1 .. Len(transfers) :
        \A d \in {transfers[t].src, transfers[t].dst} : transfers[t].was[d] \subseteq 0 .. n

\* Every change that is about to be made has a number of its own.
HistInv ==
    /\ \A d \in Docs : disk[d] \subseteq 0 .. edits
    /\ BackedUp(edits)
    /\ \A s \in DOMAIN sessions : Stacked(sessions[s], edits)
    /\ \A f \in Flows :
         flow[f].kind = "edit" =>
            /\ flow[f].item \in 1 .. edits
            /\ \A g \in Flows \ {f} : flow[g].kind = "edit" => flow[g].item # flow[f].item
            /\ \A s \in DOMAIN sessions : flow[f].item \notin Held(sessions[s])

\* A step that invents no change keeps the histories.
LEMMA HistStep ==
    ASSUME TypeInv, HistInv, NEW f \in Flows, NEW w, Shape(w), flow' = [flow EXCEPT ![f] = w],
           w.kind = "edit" => flow[f].kind = "edit" /\ w.item = flow[f].item,
           edits' = edits,
           \A d \in Docs : disk'[d] \subseteq 0 .. edits,
           BackedUp(edits)',
           \A s \in DOMAIN sessions' :
              /\ Stacked(sessions'[s], edits)
              /\ \A x : x \in Held(sessions'[s]) =>
                    \/ s \in DOMAIN sessions /\ x \in Held(sessions[s])
                    \/ flow[f].kind = "edit" /\ x = flow[f].item /\ w.kind # "edit"
    PROVE  HistInv'
<1>1. /\ flow' \in [Flows -> Flow] /\ flow'[f] = w
      /\ \A g \in Flows : g # f => flow'[g] = flow[g]
  BY FlowChange DEF TypeInv, FlowInv, Shape
<1>2. ASSUME NEW g \in Flows, flow'[g].kind = "edit"
      PROVE  /\ flow[g].kind = "edit" /\ flow'[g].item = flow[g].item
             /\ g = f => w.kind = "edit"
  BY <1>1, <1>2
<1>3. ASSUME NEW g \in Flows, flow'[g].kind = "edit"
      PROVE  /\ flow'[g].item \in 1 .. edits'
             /\ \A h \in Flows \ {g} : flow'[h].kind = "edit" => flow'[h].item # flow'[g].item
             /\ \A s \in DOMAIN sessions' : flow'[g].item \notin Held(sessions'[s])
  <2>1. flow[g].kind = "edit" /\ flow'[g].item = flow[g].item /\ (g = f => w.kind = "edit")
    BY <1>2, <1>3
  <2>2. \A h \in Flows \ {g} : flow'[h].kind = "edit" => flow[h].kind = "edit" /\ flow'[h].item = flow[h].item
    BY <1>2
  <2>3. ASSUME NEW s \in DOMAIN sessions', flow[g].item \in Held(sessions'[s]) PROVE FALSE
    <3>1. CASE s \in DOMAIN sessions /\ flow[g].item \in Held(sessions[s])
      BY <2>1, <3>1 DEF HistInv
    <3>2. CASE flow[f].kind = "edit" /\ flow[g].item = flow[f].item /\ w.kind # "edit"
      BY <2>1, <3>2 DEF HistInv
    <3> QED
      BY <2>3, <3>1, <3>2
  <2>4. /\ flow[g].item \in 1 .. edits
        /\ \A h \in Flows \ {g} : flow[h].kind = "edit" => flow[h].item # flow[g].item
    BY <2>1 DEF HistInv
  <2> QED
    BY <2>1, <2>2, <2>3, <2>4
<1> QED
  BY <1>3 DEF HistInv

\* A change that is about to be made gets a number nobody has.
LEMMA StartKeepsHist ==
    ASSUME TypeInv, HistInv, NEW f \in Flows, NEW w, Began(f, w)
    PROVE  HistInv'
<1>0. edits \in Nat /\ edits' \in Nat /\ edits <= edits' /\ 0 .. edits \subseteq 0 .. edits'
  BY SessionsAssumption DEF Began, TypeInv, DataInv
<1>1. /\ flow' \in [Flows -> Flow] /\ flow'[f] = w /\ flow[f].kind # "edit"
      /\ \A g \in Flows : g # f => flow'[g] = flow[g]
  BY FlowChange, IdleIsFlow DEF Began, TypeInv, FlowInv, Shape
<1>2. UNCHANGED <<disk, sessions, transfers>>
  BY DEF Began, backend
<1>3. w.kind = "edit" => w.item = edits + 1 /\ edits' = edits + 1
  BY DEF Began, WithSession
<1>4. \A s \in DOMAIN sessions : Stacked(sessions[s], edits')
  BY <1>0 DEF HistInv, Stacked
<1>5. ASSUME NEW s \in DOMAIN sessions, w.kind = "edit" PROVE w.item \notin Held(sessions[s])
  BY <1>0, <1>3, <1>5 DEF HistInv, Stacked, Held
<1>6. \A g \in Flows : flow'[g].kind = "edit" /\ g # f => flow'[g].item \in 1 .. edits
  BY <1>1 DEF HistInv
<1>7. (\A d \in Docs : disk'[d] \subseteq 0 .. edits') /\ BackedUp(edits)'
  BY <1>0, <1>2 DEF HistInv, BackedUp
<1>8. ASSUME NEW g \in Flows, flow'[g].kind = "edit"
      PROVE  /\ flow'[g].item \in 1 .. edits'
             /\ \A h \in Flows \ {g} : flow'[h].kind = "edit" => flow'[h].item # flow'[g].item
             /\ \A s \in DOMAIN sessions' : flow'[g].item \notin Held(sessions'[s])
  <2>1. CASE g = f
    BY <1>0, <1>1, <1>2, <1>3, <1>5, <1>6, <1>8, <2>1
  <2>2. CASE g # f
    <3>1. flow'[g] = flow[g] /\ flow[g].kind = "edit"
      BY <1>1, <1>8, <2>2
    <3>2. flow'[g].item \in 1 .. edits'
      BY <1>0, <1>6, <1>8, <2>2
    <3>3. ASSUME NEW h \in Flows \ {g}, flow'[h].kind = "edit" PROVE flow'[h].item # flow'[g].item
      <4>1. CASE h = f
        BY <1>0, <1>1, <1>3, <1>6, <1>8, <2>2, <3>3, <4>1
      <4>2. CASE h # f
        BY <1>1, <3>1, <3>3, <4>2 DEF HistInv
      <4> QED
        BY <4>1, <4>2
    <3> QED
      BY <1>2, <3>1, <3>2, <3>3 DEF HistInv
  <2> QED
    BY <2>1, <2>2
<1> QED
  BY <1>2, <1>4, <1>7, <1>8 DEF HistInv

\* Every command keeps the histories.
LEMMA CommandKeepsHist ==
    ASSUME TypeInv, HistInv, NEW f \in Flows, Command(f)
    PROVE  HistInv'
<1> USE DEF backend, interface, ghosts, bounds
<1>0. FlowInv /\ DataInv /\ RecordInv /\ edits \in Nat
  BY SessionsAssumption DEF TypeInv, DataInv
<1>k. disk \in [Docs -> SUBSET Nat] /\ \A s \in DOMAIN sessions : sessions[s] \in Session
  BY <1>0 DEF DataInv
<1>w. Shape(flow[f]) /\ flow[f] \in Flow
  BY <1>0, Answered
<1>i. Shape(Idle) /\ Idle.kind # "edit"
  BY IdleIsFlow
<1>d. /\ \A d \in Docs : disk[d] \subseteq 0 .. edits
      /\ BackedUp(edits)
      /\ \A s \in DOMAIN sessions : Stacked(sessions[s], edits)
  BY DEF HistInv
<1>u. UNCHANGED <<transfers, edits>> => BackedUp(edits)'
  BY <1>d DEF BackedUp
<1>a. ASSUME NEW w, Shape(w), flow' = [flow EXCEPT ![f] = w],
             w.kind = "edit" => flow[f].kind = "edit" /\ w.item = flow[f].item,
             UNCHANGED <<edits, transfers>>,
             DOMAIN sessions' \subseteq DOMAIN sessions,
             \A s \in DOMAIN sessions' : sessions'[s] = sessions[s],
             \A d \in Docs : disk'[d] \subseteq 0 .. edits
      PROVE  HistInv'
  BY <1>a, <1>d, <1>u, HistStep
<1>b. ASSUME UNCHANGED <<disk, sessions, transfers, edits>>, flow' = [flow EXCEPT ![f] = Idle]
      PROVE  HistInv'
  BY <1>a, <1>b, <1>d, <1>i
<1>c. ASSUME NEW s \in DOMAIN sessions, NEW k \in Session, Stacked(k, edits),
             \A x : x \in Held(k) => x \in Held(sessions[s]) \/ (flow[f].kind = "edit" /\ x = flow[f].item),
             sessions' = [sessions EXCEPT ![s] = k], flow' = [flow EXCEPT ![f] = Idle],
             UNCHANGED <<edits, transfers>>,
             \A d \in Docs : disk'[d] \subseteq 0 .. edits
      PROVE  HistInv'
  <2>1. /\ DOMAIN sessions' = DOMAIN sessions /\ sessions'[s] = k
        /\ \A t \in DOMAIN sessions : t # s => sessions'[t] = sessions[t]
    BY <1>0, <1>c, WriteSession
  <2>2. \A t \in DOMAIN sessions' :
              /\ Stacked(sessions'[t], edits)
              /\ \A x : x \in Held(sessions'[t]) =>
                    \/ t \in DOMAIN sessions /\ x \in Held(sessions[t])
                    \/ flow[f].kind = "edit" /\ x = flow[f].item /\ Idle.kind # "edit"
    <3> SUFFICES ASSUME NEW t \in DOMAIN sessions'
                 PROVE /\ Stacked(sessions'[t], edits)
                       /\ \A x : x \in Held(sessions'[t]) =>
                            \/ t \in DOMAIN sessions /\ x \in Held(sessions[t])
                            \/ flow[f].kind = "edit" /\ x = flow[f].item /\ Idle.kind # "edit"
      OBVIOUS
    <3>1. CASE t = s
      BY <2>1, <3>1, <1>c, <1>i
    <3>2. CASE t # s
      BY <2>1, <3>2, <1>d
    <3> QED
      BY <3>1, <3>2
  <2> QED
    BY <1>c, <1>i, <1>u, <2>2, HistStep
<1>x. ASSUME NEW docs, NEW told, Dropped(docs, told)
      PROVE  /\ DOMAIN sessions' \subseteq DOMAIN sessions
             /\ \A s \in DOMAIN sessions' : sessions'[s] = sessions[s]
  BY <1>0, <1>x, DropTypes
<1>1. CASE OpenDocumentSession(f)
  <2> DEFINE d == Resolve(Path(flow[f].doc))
             s == opened + 1
             k == [doc |-> d, tree |-> disk[d], base |-> disk[d],
                   done |-> <<>>, undone |-> <<>>, dirty |-> TRUE]
             w == Opened(flow[f], s)
  <2>0. flow[f].at = "open" /\ flow[f].doc \in Docs
    BY <1>1, <1>w, IdleIsFlow DEF OpenDocumentSession, Shape, Flow, WithSession, Transferring
  <2>1. s \in SessionIds /\ d \in Docs
    BY <1>1, <2>0, PathsOfDocs, ResolvedDocs DEF OpenDocumentSession
  <2>2. /\ Shape(w) /\ flow' = [flow EXCEPT ![f] = w]
        /\ w.kind = flow[f].kind /\ w.item = flow[f].item
    BY <1>0, <1>1, <1>w, <2>0, <2>1, Answered, OpenedUpdates DEF OpenDocumentSession
  <2>3. UNCHANGED <<edits, disk, transfers>>
    BY <1>1 DEF OpenDocumentSession
  <2>4. /\ k.tree = disk[d] /\ k.base = disk[d] /\ k.done = <<>> /\ k.undone = <<>>
        /\ Len(<<>>) = 0
    OBVIOUS
  <2> HIDE DEF k, s, w
  <2>5. sessions' = [i \in DOMAIN sessions \cup {s} |-> IF i \in DOMAIN sessions THEN sessions[i] ELSE k]
    BY <1>1 DEF OpenDocumentSession, k, s
  <2>6. Stacked(k, edits) /\ \A x : x \notin Held(k)
    BY <1>d, <2>1, <2>4 DEF Stacked, Held
  <2>7. \A t \in DOMAIN sessions' :
              /\ Stacked(sessions'[t], edits)
              /\ \A x : x \in Held(sessions'[t]) => t \in DOMAIN sessions /\ x \in Held(sessions[t])
    BY <1>d, <2>5, <2>6
  <2> QED
    BY <1>d, <1>u, <2>2, <2>3, <2>7, HistStep
<1>2. CASE OpenFails(f)
  BY <1>2, <1>b DEF OpenFails
<1>3. CASE SessionNotFound(f)
  BY <1>3, <1>b DEF SessionNotFound
<1>4. CASE EditDocument(f)
  <2> DEFINE s == flow[f].sid
             k == Edited(sessions[s], flow[f].item)
  <2>1. s \in DOMAIN sessions /\ flow[f].item \in Nat /\ flow[f].item \in 1 .. edits
        /\ flow[f].item \notin Held(sessions[s])
    BY <1>4, <1>w, SessionsAssumption DEF EditDocument, Live, Flow, Changes, HistInv
  <2>2. k \in Session /\ Stacked(k, edits)
        /\ \A x : x \in Held(k) => x = flow[f].item \/ x \in Held(sessions[s])
    <3>1. sessions[s] \in Session /\ Stacked(sessions[s], edits)
      BY <2>1, <1>d, <1>k
    <3>2. k \in Session
      BY <2>1, <3>1, EditedFacts
    <3>3. Stacked(k, edits) /\ \A x : x \in Held(k) => x = flow[f].item \/ x \in Held(sessions[s])
      BY <2>1, <3>1, <1>0, EditedHistory
    <3> QED
      BY <3>2, <3>3
  <2> HIDE DEF k
  <2>3. sessions' = [sessions EXCEPT ![s] = k] /\ UNCHANGED <<disk, edits, transfers>>
        /\ flow' = [flow EXCEPT ![f] = Idle] /\ flow[f].kind = "edit"
    BY <1>4 DEF EditDocument, k
  <2> QED
    BY <1>d, <2>1, <2>2, <2>3, <1>c
<1>5. CASE SaveDocumentAtomic(f)
  <2> DEFINE s == flow[f].sid
             k == Saved(sessions[s])
  <2>1. CASE UNCHANGED <<disk, sessions>>
    BY <1>5, <1>b, <2>1 DEF SaveDocumentAtomic
  <2>2. CASE /\ disk' = [disk EXCEPT ![sessions[s].doc] = sessions[s].tree]
             /\ sessions' = [sessions EXCEPT ![s] = k]
    <3>1. s \in DOMAIN sessions
      BY <1>5 DEF SaveDocumentAtomic, Live
    <3>2. k \in Session /\ Stacked(k, edits) /\ \A x : x \in Held(k) => x \in Held(sessions[s])
      <4>1. k \in Session /\ k.tree = sessions[s].tree /\ k.base = sessions[s].tree
            /\ k.done = sessions[s].done /\ k.undone = sessions[s].undone
        BY <3>1, <1>k, SavedFacts
      <4> HIDE DEF k
      <4> QED
        <5>1. Stacked(sessions[s], edits)
          BY <3>1, <1>d
        <5>2. Stacked(k, edits)
          BY <4>1, <5>1 DEF Stacked
        <5>3. Held(k) = Held(sessions[s])
          BY <4>1 DEF Held
        <5> QED
          BY <4>1, <5>2, <5>3
    <3>3. \A d \in Docs : disk'[d] \subseteq 0 .. edits
      BY <1>d, <1>k, <2>2, <3>1 DEF Stacked
    <3>4. flow' = [flow EXCEPT ![f] = Idle] /\ UNCHANGED <<edits, transfers>>
      BY <1>5 DEF SaveDocumentAtomic
    <3> HIDE DEF k
    <3> QED
      BY <2>2, <3>1, <3>2, <3>3, <3>4, <1>c
  <2> QED
    BY <1>5, <2>1, <2>2 DEF SaveDocumentAtomic
<1>6. CASE UndoLastCommand(f)
  <2> DEFINE s == flow[f].sid
             k == Undone(sessions[s])
  <2>1. s \in DOMAIN sessions /\ UNCHANGED <<disk, edits, transfers>>
        /\ flow' = [flow EXCEPT ![f] = Idle]
    BY <1>6 DEF UndoLastCommand, Live
  <2>2. CASE sessions[s].done = <<>>
    BY <1>6, <2>1, <2>2, <1>b DEF UndoLastCommand
  <2>3. CASE sessions[s].done # <<>>
    <3>1. k \in Session /\ Stacked(k, edits) /\ \A x : x \in Held(k) => x \in Held(sessions[s])
      <4>1. sessions[s] \in Session /\ Stacked(sessions[s], edits)
        BY <2>1, <1>d, <1>k
      <4>2. k \in Session
        BY <2>3, <4>1, UndoneFacts
      <4>3. Stacked(k, edits) /\ \A x : x \in Held(k) => x \in Held(sessions[s])
        BY <2>3, <4>1, <1>0, UndoneHistory
      <4> QED
        BY <4>2, <4>3
    <3>2. sessions' = [sessions EXCEPT ![s] = k]
      BY <1>6, <2>3 DEF UndoLastCommand
    <3> HIDE DEF k
    <3> QED
      BY <2>1, <3>1, <3>2, <1>c, <1>d
  <2> QED
    BY <2>2, <2>3
<1>7. CASE RedoLastCommand(f)
  <2> DEFINE s == flow[f].sid
             k == Redone(sessions[s])
  <2>1. s \in DOMAIN sessions /\ UNCHANGED <<disk, edits, transfers>>
        /\ flow' = [flow EXCEPT ![f] = Idle]
    BY <1>7 DEF RedoLastCommand, Live
  <2>2. CASE sessions[s].undone = <<>>
    BY <1>7, <2>1, <2>2, <1>b DEF RedoLastCommand
  <2>3. CASE sessions[s].undone # <<>>
    <3>1. k \in Session /\ Stacked(k, edits) /\ \A x : x \in Held(k) => x \in Held(sessions[s])
      <4>1. sessions[s] \in Session /\ Stacked(sessions[s], edits)
        BY <2>1, <1>d, <1>k
      <4>2. k \in Session
        BY <2>3, <4>1, RedoneFacts
      <4>3. Stacked(k, edits) /\ \A x : x \in Held(k) => x \in Held(sessions[s])
        BY <2>3, <4>1, <1>0, RedoneHistory
      <4> QED
        BY <4>2, <4>3
    <3>2. sessions' = [sessions EXCEPT ![s] = k]
      BY <1>7, <2>3 DEF RedoLastCommand
    <3> HIDE DEF k
    <3> QED
      BY <2>1, <3>1, <3>2, <1>c, <1>d
  <2> QED
    BY <2>2, <2>3
<1>8. CASE CloseDocumentSession(f)
  <2>0. flow[f].kind = "close" /\ UNCHANGED <<edits, disk, transfers>>
    BY <1>8 DEF CloseDocumentSession
  <2>1. PICK s \in flow[f].todo : /\ flow' = [flow EXCEPT ![f] = Closing(flow[f], s)]
                                  /\ sessions' = Discard({s})
    BY <1>8 DEF CloseDocumentSession
  <2> DEFINE w == Closing(flow[f], s)
  <2>2. Shape(w) /\ w.kind = "close"
    BY <1>0, <1>w, <2>0, Answered, ClosingUpdates
  <2>3. /\ DOMAIN sessions' \subseteq DOMAIN sessions
        /\ \A t \in DOMAIN sessions' : sessions'[t] = sessions[t]
    BY <2>1, <1>0, DiscardLeaves
  <2> HIDE DEF w
  <2>5. flow' = [flow EXCEPT ![f] = w]
    BY <2>1 DEF w
  <2> QED
    BY <1>d, <2>0, <2>2, <2>3, <2>5, <1>a
<1>9. CASE OpenWorkspace(f)
  <2> DEFINE w == At(flow[f], "list")
  <2>1. Shape(w) /\ w.kind = "workspace"
    BY <1>0, <1>9, <1>w, Answered, AtUpdates DEF OpenWorkspace
  <2>2. flow' = [flow EXCEPT ![f] = w] /\ UNCHANGED <<edits, disk, transfers, sessions>>
    BY <1>9 DEF OpenWorkspace
  <2> HIDE DEF w
  <2> QED
    BY <1>d, <2>1, <2>2, <1>a
<1>10. CASE ListDocuments(f)
  BY <1>10, <1>b DEF ListDocuments
<1>11. CASE CloseWorkspace(f)
  BY <1>11, <1>b DEF CloseWorkspace
<1>12. CASE TransferRefused(f)
  BY <1>12, <1>b DEF TransferRefused
<1>13. CASE ExecuteTransfer(f)
  <2> DEFINE src == Resolve(Path(flow[f].doc))
             dst == Resolve(Path(flow[f].to))
             x == flow[f].item
             inTarget == [disk EXCEPT ![dst] = @ \cup {x}]
             moved == [inTarget EXCEPT ![src] = @ \ {x}]
  <2>1. flow[f].kind \in Transferring /\ flow[f].doc \in Docs /\ flow[f].to \in Docs
    BY <1>13, <1>w DEF ExecuteTransfer, Transferring, Shape
  <2>2. src \in Docs /\ dst \in Docs
    BY <2>1, <1>13, PathsOfDocs, ResolvedDocs DEF ExecuteTransfer
  <2>3. PICK told : Dropped({src, dst}, told)
    BY <1>13 DEF ExecuteTransfer
  <2>4. /\ DOMAIN sessions' \subseteq DOMAIN sessions
        /\ \A s \in DOMAIN sessions' : sessions'[s] = sessions[s]
    BY <2>3, <1>x
  <2>5. x \in disk[src] =>
          \A d \in Docs : inTarget[d] \subseteq 0 .. edits /\ moved[d] \subseteq 0 .. edits
    BY <1>d, <1>k, <2>2
  <2>6. \A d \in Docs : disk'[d] \subseteq 0 .. edits
    BY <1>13, <1>d, <2>5 DEF ExecuteTransfer, Takes
  <2>7. \A n \in Nat \ {0} :
             Shape(Committed(flow[f], n)) /\ Committed(flow[f], n).kind # "edit"
    BY <2>1, <1>0, <1>w, Answered, CommittedUpdates DEF Transferring
  <2>10. edits' = edits
    BY <1>13 DEF ExecuteTransfer
  <2>8. BackedUp(edits)'
    <3>1. CASE UNCHANGED transfers
      BY <3>1, <2>10, <1>u
    <3>2. ASSUME NEW state \in States, transfers' = Append(transfers, Entry(f, src, dst, state))
          PROVE  BackedUp(edits)'
      <4>1. PICK r : r = Entry(f, src, dst, state)
        OBVIOUS
      <4>2. /\ r \in Past /\ r.src = src /\ r.dst = dst
            /\ \A d \in {src, dst} : r.was[d] \subseteq 0 .. edits
        BY <1>0, <1>d, <2>1, <2>2, <4>1, EntryFacts
      <4>3. /\ Len(transfers') = Len(transfers) + 1 /\ Len(transfers) \in Nat
            /\ transfers'[Len(transfers) + 1] = r
            /\ \A u \in 1 .. Len(transfers) : transfers'[u] = transfers[u]
        BY <1>0, <3>2, <4>1, <4>2 DEF RecordInv
      <4>4. ASSUME NEW u \in 1 .. Len(transfers')
            PROVE  \A d \in {transfers'[u].src, transfers'[u].dst} : transfers'[u].was[d] \subseteq 0 .. edits
        <5>1. CASE u = Len(transfers) + 1
          BY <4>2, <4>3, <5>1
        <5>2. CASE u # Len(transfers) + 1
          <6>1. u \in 1 .. Len(transfers)
            BY <4>3, <5>2
          <6> QED
            BY <1>d, <4>3, <6>1 DEF BackedUp
        <5> QED
          BY <5>1, <5>2
      <4> QED
        BY <2>10, <4>4 DEF BackedUp
    <3> QED
      BY <1>13, <3>1, <3>2 DEF ExecuteTransfer, States
  <2>9. \A s \in DOMAIN sessions' :
          /\ Stacked(sessions'[s], edits)
          /\ \A y : y \in Held(sessions'[s]) => s \in DOMAIN sessions /\ y \in Held(sessions[s])
    BY <1>d, <2>4
  <2>11. CASE flow' = [flow EXCEPT ![f] = Idle]
    BY <2>6, <2>8, <2>9, <2>10, <2>11, <1>i, HistStep
  <2>12. ASSUME NEW n \in Nat \ {0}, flow' = [flow EXCEPT ![f] = Committed(flow[f], n)]
         PROVE  HistInv'
    <3>1. PICK w : w = Committed(flow[f], n)
      OBVIOUS
    <3>2. Shape(w) /\ w.kind # "edit" /\ flow' = [flow EXCEPT ![f] = w]
      BY <2>7, <2>12, <3>1
    <3> QED
      BY <2>6, <2>8, <2>9, <2>10, <3>2, HistStep
  <2> QED
    BY <1>0, <1>13, <2>11, <2>12, TransferAnswers
<1>m. ASSUME NEW t \in 1 .. Len(transfers), NEW state \in States, flow' = [flow EXCEPT ![f] = Idle],
             transfers' = [transfers EXCEPT ![t].state = state], banner' \in {0, banner}, edits' = edits,
             \A d \in Docs : disk'[d] \subseteq 0 .. edits,
             (\E docs : Dropped(docs, FALSE)) \/ UNCHANGED sessions
      PROVE  HistInv'
  <2>1. BackedUp(edits)'
    BY <1>0, <1>d, <1>m, MarkedRecord DEF BackedUp
  <2>2. /\ DOMAIN sessions' \subseteq DOMAIN sessions
        /\ \A s \in DOMAIN sessions' : sessions'[s] = sessions[s]
    BY <1>m, <1>x
  <2>3. \A s \in DOMAIN sessions' :
          /\ Stacked(sessions'[s], edits)
          /\ \A y : y \in Held(sessions'[s]) => s \in DOMAIN sessions /\ y \in Held(sessions[s])
    BY <1>d, <2>2
  <2> QED
    BY <1>m, <2>1, <2>3, <1>i, HistStep
<1>14. CASE UndoTransfer(f)
  <2> DEFINE t == flow[f].txn
             docs == {transfers[t].src, transfers[t].dst}
  <2>1. flow' = [flow EXCEPT ![f] = Idle] /\ edits' = edits /\ flow[f].kind = "undoTransfer"
    BY <1>14 DEF UndoTransfer
  <2>2. t \in 1 .. Len(transfers)
    BY <1>0, <2>1, Answered DEF RecordInv, Shape
  <2> HIDE DEF t
  <2>3. ASSUME NEW ds \in {{transfers[t].dst}, Restored(t)}, PutBack(t, ds)
        PROVE  \A d \in Docs : disk'[d] \subseteq 0 .. edits
    <3>1. /\ ds \subseteq {transfers[t].src, transfers[t].dst}
          /\ \A d \in Docs : disk'[d] = IF d \in ds THEN transfers[t].was[d] ELSE disk[d]
      <4>1. ds \subseteq {transfers[t].src, transfers[t].dst}
        BY <1>0, <2>2, <2>3, BackupFacts
      <4>2. \A d \in Docs : disk'[d] = IF d \in ds THEN transfers[t].was[d] ELSE disk[d]
        BY <2>3 DEF PutBack
      <4> QED
        BY <4>1, <4>2
    <3>2. \A d \in docs : transfers[t].was[d] \subseteq 0 .. edits
      BY <1>d, <2>2 DEF BackedUp
    <3> QED
      BY <1>d, <3>1, <3>2
  <2>4. CASE UNCHANGED <<disk, sessions, transfers>>
    BY <2>1, <2>4, <1>b
  <2>5. CASE /\ PutBack(t, Restored(t)) /\ transfers' = [transfers EXCEPT ![t].state = "undone"]
             /\ banner' = 0 /\ Dropped(docs, FALSE)
    BY <2>1, <2>2, <2>3, <2>5, <1>m DEF States
  <2>6. ASSUME NEW ds \in {{transfers[t].dst}, Restored(t)}, PutBack(t, ds),
               transfers' = [transfers EXCEPT ![t].state = "half"], UNCHANGED <<sessions, banner>>
        PROVE  HistInv'
    BY <2>1, <2>2, <2>3, <2>6, <1>m DEF States
  <2> HIDE DEF t
  <2> QED
    BY <1>14, <2>4, <2>5, <2>6 DEF UndoTransfer, t
<1>15. CASE CompleteInterruptedMove(f)
  <2> DEFINE t == flow[f].txn
             docs == {transfers[t].src, transfers[t].dst}
             cut == [disk EXCEPT ![transfers[t].src] = @ \ {transfers[t].item}]
  <2>1. /\ flow' = [flow EXCEPT ![f] = Idle] /\ UNCHANGED <<edits, banner>>
        /\ flow[f].kind = "complete"
    BY <1>15 DEF CompleteInterruptedMove
  <2>2. t \in 1 .. Len(transfers)
    BY <1>0, <2>1, Answered DEF RecordInv, Shape
  <2>3. CASE UNCHANGED <<disk, sessions, transfers>>
    BY <2>1, <2>3, <1>b
  <2>4. CASE /\ disk' = cut /\ transfers' = [transfers EXCEPT ![t].state = "completed"]
             /\ Dropped(docs, FALSE) \/ UNCHANGED sessions
    <3>1. \A d \in Docs : disk'[d] \subseteq 0 .. edits
      BY <1>d, <1>k, <2>4
    <3> QED
      BY <2>1, <2>2, <2>4, <3>1, <1>m DEF States
  <2> HIDE DEF t
  <2> QED
    BY <1>15, <2>3, <2>4 DEF CompleteInterruptedMove, t
<1> QED
  BY <1>1, <1>2, <1>3, <1>4, <1>5, <1>6, <1>7, <1>8, <1>9, <1>10, <1>11, <1>12, <1>13, <1>14, <1>15
     DEF Command

\* What a function does with its answer keeps the histories.
LEMMA ContinueKeepsHist ==
    ASSUME TypeInv, HistInv, NEW f \in Flows, Continue(f)
    PROVE  HistInv'
<1> USE DEF backend, interface, ghosts, bounds
<1>0. FlowInv /\ DataInv
  BY DEF TypeInv
<1>w. Shape(flow[f]) /\ flow[f] \in Flow
  BY <1>0, Answered
<1>1. UNCHANGED <<disk, sessions, transfers, edits>>
  BY DEF Continue, SessionOpened, TransferDone
<1>2. ASSUME NEW w, Shape(w), flow' = [flow EXCEPT ![f] = w],
             w.kind = "edit" => flow[f].kind = "edit" /\ w.item = flow[f].item
      PROVE  HistInv'
  <2>1. /\ \A d \in Docs : disk'[d] \subseteq 0 .. edits
        /\ BackedUp(edits)' /\ \A s \in DOMAIN sessions' : Stacked(sessions'[s], edits)
    BY <1>1 DEF HistInv, BackedUp
  <2> QED
    BY <1>1, <1>2, <2>1, HistStep
<1>3. CASE SessionOpened(f)
  <2> DEFINE w == At(flow[f], "call")
  <2>1. Shape(w) /\ w.kind = flow[f].kind /\ w.item = flow[f].item
    BY <1>0, <1>3, <1>w, Answered, AtUpdates DEF SessionOpened
  <2>2. flow' = [flow EXCEPT ![f] = w]
    BY <1>3 DEF SessionOpened
  <2> HIDE DEF w
  <2> QED
    BY <1>2, <2>1, <2>2
<1>4. CASE TransferDone(f)
  BY <1>2, <1>4, IdleIsFlow DEF TransferDone
<1> QED
  BY <1>3, <1>4 DEF Continue

\* HistInv is an invariant.
LEMMA HistoriesHold == Spec => []HistInv
<1>1. Init => HistInv
  BY IdleIsFlow DEF Init, HistInv, BackedUp
<1>2. TypeInv /\ HistInv /\ [Next]_vars => HistInv'
  <2> SUFFICES ASSUME TypeInv, HistInv, [Next]_vars PROVE HistInv'
    OBVIOUS
  <2>1. ASSUME NEW f \in Flows, Start(f) PROVE HistInv'
    BY <2>1, Beginning, StartKeepsHist
  <2>2. ASSUME NEW f \in Flows, Command(f) PROVE HistInv'
    BY <2>2, CommandKeepsHist
  <2>3. ASSUME NEW f \in Flows, Continue(f) PROVE HistInv'
    BY <2>3, ContinueKeepsHist
  <2>4. CASE UNCHANGED vars
    BY <2>4 DEF vars, backend, interface, ghosts, bounds, HistInv, BackedUp
  <2>5. CASE DismissTransferResult
    BY <2>5 DEF DismissTransferResult, backend, ghosts, bounds, HistInv, BackedUp
  <2> QED
    BY <2>1, <2>2, <2>3, <2>4, <2>5 DEF Next
<1> QED
  BY <1>1, <1>2, TypesHold, PTL DEF Spec

\* Every variable of the session layer keeps its type, and a session's undo
\* history holds only changes that are in its tree.
THEOREM TypesAreOK == Spec => []TypeOK
<1>1. TypeInv /\ HistInv => TypeOK
  <2> SUFFICES ASSUME TypeInv, HistInv PROVE TypeOK
    OBVIOUS
  <2>1. disk \in [Docs -> SUBSET Changes]
    BY SessionsAssumption DEF TypeInv, DataInv, HistInv, Changes
  <2>2. ASSUME NEW s \in DOMAIN sessions
        PROVE  /\ sessions[s].doc \in Docs
               /\ sessions[s].tree \subseteq 0 .. edits
               /\ sessions[s].base \subseteq 0 .. edits
               /\ {sessions[s].done[i] : i \in DOMAIN sessions[s].done} \subseteq sessions[s].tree
               /\ sessions[s].dirty \in BOOLEAN
    <3>1. sessions[s] \in Session /\ Stacked(sessions[s], edits)
      BY <2>2 DEF TypeInv, DataInv, HistInv
    <3>2. DOMAIN sessions[s].done = 1 .. Len(sessions[s].done)
      BY <3>1 DEF Session
    <3> QED
      BY <3>1, <3>2 DEF Session, Stacked
  <2>3. /\ opened \in 0 .. MaxSessions /\ DOMAIN sessions \subseteq 1 .. opened
        /\ workspace \in Workspaces \cup {None} /\ shown \in Workspaces \cup {None}
        /\ mapped \in [Paths -> 0 .. opened]
        /\ failed \subseteq Paths /\ stranded \subseteq Paths
    BY SessionsAssumption DEF TypeInv, DataInv, Given
  <2>4. /\ flow \in [Flows -> Flow] /\ banner \in 0 .. Len(transfers)
        /\ \A f \in Flows : flow[f].txn \in 0 .. Len(transfers)
    BY DEF TypeInv, FlowInv, RecordInv
  <2>5. ASSUME NEW t \in 1 .. Len(transfers) PROVE transfers[t] \in Transfer
    <3> DEFINE r == transfers[t]
    <3>1. r \in Past /\ Kept(r) /\ \A d \in {r.src, r.dst} : r.was[d] \subseteq 0 .. edits
      BY DEF TypeInv, RecordInv, HistInv, BackedUp
    <3>2. 0 .. edits \subseteq Changes
      BY SessionsAssumption DEF TypeInv, DataInv, Changes
    <3> HIDE DEF r
    <3>3. r.was \in [{r.src, r.dst} -> SUBSET Changes] /\ {r.src, r.dst} \in SUBSET Docs
      BY <3>1, <3>2 DEF Past, Kept
    <3>4. r.was \in UNION {[D -> SUBSET Changes] : D \in SUBSET Docs}
      BY <3>3
    <3>5. r \in Transfer
      BY <3>1, <3>4 DEF Past, Transfer, States, Transferring
    <3> QED
      BY <3>5 DEF r
  <2>6. transfers \in Seq(Transfer)
    <3>1. transfers \in [1 .. Len(transfers) -> Past] /\ Len(transfers) \in Nat
      BY DEF TypeInv, RecordInv
    <3>2. transfers \in [1 .. Len(transfers) -> Transfer]
      BY <2>5, <3>1
    <3> QED
      BY <3>1, <3>2, SeqDef
  <2> QED
    BY <2>1, <2>2, <2>3, <2>4, <2>6 DEF TypeOK
<1> QED
  BY <1>1, TypesHold, HistoriesHold, PTL

=============================================================================
