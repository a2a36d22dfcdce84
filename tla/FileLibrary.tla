---------------------------- MODULE FileLibrary ----------------------------
(* The documents of one workspace: the registry (workspace.json and its      *)
(* copy in memory), the operations of the file library with their receipts   *)
(* and undo, and the trash with its manifest.  An operation is the sequence  *)
(* of the changes it makes on disk, in the order of the code; a crash can    *)
(* come between any two of them, and the workspace is then opened again from *)
(* what is on disk.                                                          *)
EXTENDS Naturals, Sequences, FiniteSets, SequencesExt

CONSTANTS
    Names,       \* paths inside the workspace that operations are given
    Restored,    \* paths inside the workspace of the form "name (restored-1)"
    Outside,     \* paths outside the workspace
    MaxOps,      \* bound: operations of a behaviour
    MaxCrashes,  \* bound: crashes of a behaviour
    None         \* no file, no entry, no path, nothing expected

Inside == Names \cup Restored
Paths == Inside \cup Outside

(* Bytes have a number; what else a document says is whom it refers to, and  *)
(* whether the text of the reference, joined to the directory of the         *)
(* document, spells that path as the registry does (direct) or leads there   *)
(* through a parent directory.                                               *)
Contents == [what : Nat, ref : Paths \cup {None}, direct : BOOLEAN]

(* Entries of the registry, and of the manifest of the trash.                *)
Entry == [id : Nat, path : Paths, kind : {"managed", "linked"}]
Item == [id : Nat, path : Paths, entry : Entry \cup {None}]

(* Instead of a set of entries or items: there is none.                      *)
Missing == {None}

ASSUME LibraryConstants ==
    /\ IsFiniteSet(Names) /\ IsFiniteSet(Restored) /\ IsFiniteSet(Outside)
    /\ Outside # {}   \* the documents there from the start
    /\ None \notin Paths /\ None \notin Contents /\ None \notin Entry \cup Item

VARIABLES
    files,       \* what is at each path
    baks,        \* what is in the .bak file beside each path
    stored,      \* the files of the trash, by trash id
    manifest,    \* the manifest of the trash, or Missing
    registry,    \* workspace.json: a set of entries, Missing when cut short
    docs,        \* the entries in memory, Missing while no workspace is open
    receipts,    \* the receipts of document operations
    job,         \* the operation under way: its remaining steps
    aside,       \* its next write has made the old file the .bak already
    owner,       \* which document an id was given to, by id
    made, gone,  \* documents written so far; purged or overwritten ones
    astray,      \* ids whose file an interruption or a stale undo took away
    torn,        \* trash ids an interrupted operation was about
    hidden,      \* trash ids of a manifest a crash left as manifest.bak only
    latest,      \* the last receipt, while nothing happened after it
    expected,    \* what an undo of the latest operation has to give back
    ops, crashes

disk == <<files, baks, stored, manifest, registry, receipts>>
ghosts == <<owner, made, gone, astray, torn, hidden, latest, expected>>
vars == <<disk, docs, job, aside, ghosts, ops, crashes>>

Idle == [ids |-> {}, trash |-> {}, steps |-> <<>>]

(* What load_manifest returns: a missing manifest is an empty one, and its   *)
(* .bak is looked at only when the manifest exists and cannot be parsed.     *)
Listed == IF manifest = Missing THEN {} ELSE manifest

At(ds, p) == {e \in ds : e.path = p}
Registered(ds, id) == \E e \in ds : e.id = id
EntryOf(ds, id) == CHOOSE e \in ds : e.id = id
NextId == Len(owner) + 1

(***************************************************************************)
(* The steps of an operation on disk.                                      *)
(***************************************************************************)
SaveManifest(m) ==
    IF manifest = Missing THEN << <<"list", m>> >> ELSE << <<"unlist">>, <<"list", m>> >>

SaveRegistry(ds) == << <<"cut", ds>>, <<"keep", ds>> >>

MoveToTrash(p, entry) ==
    LET t == Len(stored) + 1
    IN  << <<"store", p>> >> \o
        SaveManifest(Listed \cup {[id |-> t, path |-> p, entry |-> entry]})

(* A repair that looks at the managed documents only.                        *)
ReferringManaged(fs, ds, id, old) ==
    {e.path : e \in {e \in ds : /\ e.id # id /\ e.kind = "managed"
                                /\ fs[e.path] # None
                                /\ fs[e.path].ref = old /\ fs[e.path].direct}}

(* The repair of references after a move: each other document whose text     *)
(* spells the old path is rewritten, and its bytes are kept for the undo.    *)
(* The joined text is not normalised: one through a parent directory is not  *)
(* found.                                                                    *)
Referring(fs, ds, id, old) ==
    {e.path : e \in {e \in ds : /\ e.id # id
                                /\ fs[e.path] # None
                                /\ fs[e.path].ref = old /\ fs[e.path].direct}}

Repaired(fs, ds, id, old) ==
    LET ps == SetToSeq(Referring(fs, ds, id, old))
    IN  [i \in DOMAIN ps |-> [path |-> ps[i], backup |-> fs[ps[i]]]]

Receipt(op, id, before, after, entry, repaired) ==
    [op |-> op, id |-> id, before |-> before, after |-> after, entry |-> entry,
     repaired |-> repaired, undone |-> FALSE,
     then |-> [files |-> files, docs |-> docs]]

Writes(reps, Content(_)) ==
    [i \in DOMAIN reps |-> <<"write", reps[i].path, Content(reps[i])>>]

(* commit_bytes is an atomic_save: the .bak of an earlier save is removed and *)
(* the file at the path becomes the .bak; as a step, the new bytes take its  *)
(* place and the .bak is removed.                                            *)
NextWrites == job.steps # <<>> /\ Head(job.steps)[1] = "write"

SetAside ==
    /\ NextWrites /\ ~aside
    /\ LET p == Head(job.steps)[2]
       IN  /\ files' = [files EXCEPT ![p] = None]
           /\ baks' = [baks EXCEPT ![p] = files[p]]
           /\ gone' = IF baks[p] = None THEN gone ELSE gone \cup {baks[p].what}
    /\ aside' = TRUE
    /\ UNCHANGED <<stored, manifest, registry, receipts, docs, job, owner, made, astray,
                   torn, hidden, latest, expected, ops, crashes>>

(* One step of the operation under way.                                      *)
Step ==
    /\ job.steps # <<>>
    /\ NextWrites => aside
    /\ aside' = FALSE
    /\ LET s == Head(job.steps) IN
       /\ job' = IF Len(job.steps) = 1 THEN Idle
                                       ELSE [job EXCEPT !.steps = Tail(@)]
       /\ files' = CASE s[1] = "move" -> [files EXCEPT ![s[3]] = files[s[2]],
                                                       ![s[2]] = None]
                     [] s[1] = "store" -> [files EXCEPT ![s[2]] = None]
                     [] s[1] = "fetch" -> [files EXCEPT ![s[3]] = stored[s[2]]]
                     [] s[1] = "write" -> [files EXCEPT ![s[2]] = s[3]]
                     [] OTHER -> files
       /\ baks' = IF s[1] = "write" THEN [baks EXCEPT ![s[2]] = None] ELSE baks
       /\ stored' = CASE s[1] = "store" -> Append(stored, files[s[2]])
                      [] s[1] = "drop" -> [stored EXCEPT ![s[2]] = None]
                      [] OTHER -> stored
       /\ manifest' = CASE s[1] = "unlist" -> Missing
                        [] s[1] = "list" -> s[2]
                        [] OTHER -> manifest
       /\ docs' = IF s[1] = "cut" THEN s[2] ELSE docs
       /\ registry' = CASE s[1] = "cut" -> Missing
                        [] s[1] = "keep" -> s[2]
                        [] OTHER -> registry
       /\ receipts' = CASE s[1] = "receipt" -> Append(receipts, s[2])
                        [] s[1] = "undone" -> [receipts EXCEPT ![s[2]].undone = TRUE]
                        [] OTHER -> receipts
       /\ made' = IF s[1] = "write" /\ s[3].what > made THEN s[3].what ELSE made
       /\ latest' = IF s[1] = "receipt" THEN Len(receipts) + 1 ELSE latest
    /\ UNCHANGED <<owner, gone, astray, torn, hidden, expected, ops, crashes>>

(* An operation begins: ids and trash are what a crash would leave in doubt. *)
Begin(ids, trash, steps) ==
    /\ docs # Missing /\ job = Idle /\ ops < MaxOps
    /\ ops' = ops + 1
    /\ job' = IF steps = <<>> THEN Idle
                              ELSE [ids |-> ids, trash |-> trash, steps |-> steps]
    /\ latest' = 0
    /\ UNCHANGED <<disk, docs, aside, made, hidden, crashes>>

Harmless == UNCHANGED <<gone, astray, torn>> /\ expected' = None

(* The file of an entry is taken away: any other entry that shares its path, *)
(* as an earlier interruption can leave one, goes astray.                    *)
TakesFile(e) ==
    /\ astray' = astray \cup {d.id : d \in At(docs, e.path) \ {e}}
    /\ UNCHANGED <<gone, torn>> /\ expected' = None

(***************************************************************************)
(* Create, import, duplicate, link and remove.                             *)
(***************************************************************************)
Adds(p, kind, content, op) ==
    LET entry == [id |-> NextId, path |-> p, kind |-> kind]
    IN  << <<"write", p, content>> >> \o
        IF At(docs, p) # {} THEN <<>>   \* already registered: the file stays
        ELSE SaveRegistry(docs \cup {entry}) \o
             << <<"receipt", Receipt(op, NextId, None, p, None, <<>>)>> >>

Copied(content) == [content EXCEPT !.what = made + 1]

CreateManagedDocument(p) ==
    /\ docs # Missing /\ files[p] = None
    /\ Begin({}, {}, Adds(p, "managed", [what |-> made + 1, ref |-> None, direct |-> TRUE],
                        "create"))
    /\ owner' = Append(owner, made + 1)
    /\ Harmless

ImportAsManaged(x, p) ==
    /\ docs # Missing /\ files[x] # None /\ files[p] = None
    /\ Begin({}, {}, Adds(p, "managed", Copied(files[x]), "import"))
    /\ owner' = Append(owner, made + 1)
    /\ Harmless

(* The entry is registered before the bytes are written.                     *)
DuplicateDocument(e, p) ==
    /\ files[e.path] # None /\ files[p] = None
    /\ e.kind = "managed" <=> p \in Inside
    /\ At(docs, p) = {}
    /\ Begin({}, {}, Adds(p, e.kind, Copied(files[e.path]), "duplicate"))
    /\ owner' = Append(owner, made + 1)
    /\ Harmless

LinkExternal(x) ==
    /\ docs # Missing /\ files[x] # None /\ At(docs, x) = {}
    /\ Begin({}, {}, SaveRegistry(docs \cup {[id |-> NextId, path |-> x, kind |-> "linked"]}))
    /\ owner' = Append(owner, files[x].what)
    /\ Harmless

RemoveReference(e) ==
    /\ Begin({}, {}, SaveRegistry(docs \ {e}) \o
             << <<"receipt", Receipt("remove", e.id, e.path, None, e, <<>>)>> >>)
    /\ UNCHANGED owner /\ Harmless

(* The scan registers every file of the workspace that no entry has.         *)
ScanAndIndex ==
    /\ docs # Missing
    /\ LET new == SetToSeq({p \in Inside : files[p] # None /\ At(docs, p) = {}})
       IN  /\ Begin({}, {}, SaveRegistry(docs \cup
                {[id |-> Len(owner) + i, path |-> new[i], kind |-> "managed"] :
                   i \in DOMAIN new}))
           /\ owner' = owner \o [i \in DOMAIN new |-> files[new[i]].what]
    /\ Harmless

(***************************************************************************)
(* Rename, with the repair of references.                                  *)
(***************************************************************************)
Moved(fs, from, to) == [fs EXCEPT ![to] = fs[from], ![from] = None]

(* What the rewritten document says: ".\" and the rest below its directory,  *)
(* or the absolute path.                                                     *)
Repointed(content, q) == [content EXCEPT !.ref = q, !.direct = TRUE]

(* References repaired without keeping the bytes they replace.               *)
RenameOnly(e, q) ==
    LET reps == Repaired(Moved(files, e.path, q), docs, e.id, e.path)
    IN  << <<"move", e.path, q>> >> \o
        Writes(reps, LAMBDA r : Repointed(r.backup, q)) \o
        SaveRegistry((docs \ {e}) \cup {[e EXCEPT !.path = q]}) \o
        << <<"receipt", Receipt("rename", e.id, e.path, q, e, <<>>)>> >>

RenameSteps(e, q) ==
    LET reps == Repaired(Moved(files, e.path, q), docs, e.id, e.path)
    IN  << <<"move", e.path, q>> >> \o
        Writes(reps, LAMBDA r : Repointed(r.backup, q)) \o
        SaveRegistry((docs \ {e}) \cup {[e EXCEPT !.path = q]}) \o
        << <<"receipt", Receipt("rename", e.id, e.path, q, e, reps)>> >>

RenameOrMoveDocument(e, q) ==
    /\ e.kind = "managed" /\ files[e.path] # None /\ files[q] = None
    /\ Begin({e.id}, {}, RenameSteps(e, q))
    /\ UNCHANGED owner /\ TakesFile(e)

(* Attaching one document to another, in a session (attachment.rs): the      *)
(* attached path becomes a FILEREFPATH of the document.                      *)
AddReference(p, q, direct) ==
    /\ docs # Missing /\ job = Idle /\ ops < MaxOps
    /\ files[p] # None /\ files[p].ref # q
    /\ At(docs, p) # {} /\ At(docs, q) # {}
    /\ files' = [files EXCEPT ![p].ref = q, ![p].direct = direct]
    /\ ops' = ops + 1 /\ latest' = 0 /\ expected' = None
    /\ UNCHANGED <<baks, stored, manifest, registry, receipts, docs, job, aside, owner,
                   made, gone, astray, torn, hidden, crashes>>

(***************************************************************************)
(* The trash.                                                              *)
(***************************************************************************)
DeleteDocumentToTrash(e) ==
    /\ files[e.path] # None
    /\ Begin({e.id}, {Len(stored) + 1},
             MoveToTrash(e.path, e) \o SaveRegistry(docs \ {e}))
    /\ UNCHANGED owner /\ TakesFile(e)

(* The file back where it was, with no look at what is there now.            *)
OwnPath(p) == {p}

(* The path a restored file gets: its own, or a free one beside it.          *)
RestorePaths(p) == IF files[p] = None THEN {p} ELSE {q \in Restored : files[q] = None}

(* The entry back as it was, at the path the file had.                       *)
RestoreAsItWas(t, dest) ==
    << <<"fetch", t.id, dest>>, <<"drop", t.id>> >> \o SaveManifest(Listed \ {t}) \o
    IF t.entry = None \/ Registered(docs, t.entry.id) THEN <<>>
    ELSE SaveRegistry(docs \cup {t.entry})

RestoreSteps(t, dest) ==
    << <<"fetch", t.id, dest>>, <<"drop", t.id>> >> \o SaveManifest(Listed \ {t}) \o
    IF t.entry = None \/ Registered(docs, t.entry.id) THEN <<>>
    ELSE SaveRegistry(docs \cup {[t.entry EXCEPT !.path = dest]})

Restore(t, dest) ==
    /\ stored[t.id] # None
    /\ dest \in RestorePaths(t.path)
    /\ Begin(IF t.entry = None THEN {} ELSE {t.entry.id}, {t.id}, RestoreSteps(t, dest))
    /\ UNCHANGED owner /\ Harmless

(* Only the first file is removed.                                           *)
DropFirst(ts) == LET s == SetToSeq({t.id : t \in {t \in ts : stored[t.id] # None}})
                 IN  [i \in DOMAIN s \cap {1} |-> <<"drop", s[i]>>]

(* The order of the manifest, which a set does not keep, does not matter.    *)
Drops(ts) == LET s == SetToSeq({t.id : t \in {t \in ts : stored[t.id] # None}})
             IN  [i \in DOMAIN s |-> <<"drop", s[i]>>]

Whats(ts) == {stored[t.id].what : t \in {t \in ts : stored[t.id] # None}}

Purge(ts) ==
    /\ Begin({}, {t.id : t \in ts}, Drops(ts) \o SaveManifest(Listed \ ts))
    /\ gone' = gone \cup Whats(ts)
    /\ UNCHANGED <<owner, astray, torn>> /\ expected' = None

PurgeOne(t) == Purge({t})
EmptyTrash == Listed # {} /\ Purge(Listed)

(***************************************************************************)
(* Undo of a document operation.                                           *)
(***************************************************************************)
AfterBackups(r) ==
    [p \in Paths |-> IF \E i \in DOMAIN r.repaired : r.repaired[i].path = p
                     THEN (CHOOSE b \in Range(r.repaired) : b.path = p).backup
                     ELSE files[p]]

UndoAdd(r) ==
    (IF files[r.after] = None THEN <<>> ELSE MoveToTrash(r.after, None)) \o
    SaveRegistry({e \in docs : e.id # r.id})

UndoRename(r) ==
    (IF AfterBackups(r)[r.after] = None THEN <<>>
     ELSE << <<"move", r.after, r.before>> >>) \o
    IF ~Registered(docs, r.id) THEN <<>>
    ELSE SaveRegistry({IF e.id = r.id THEN [e EXCEPT !.path = r.before] ELSE e :
                         e \in docs})

(* The entry added again, whether or not its id is in use.                   *)
UndoRemoveAgain(r) == SaveRegistry(docs \cup {r.entry})

UndoRemove(r) ==
    SaveRegistry(IF Registered(docs, r.id) THEN docs ELSE docs \cup {r.entry})

UndoSteps(i) ==
    LET r == receipts[i]
        gives == r.op # "rename" \/ Registered(docs, r.id)
    IN  Writes(r.repaired, LAMBDA b : b.backup) \o
        (CASE r.op \in {"create", "import", "duplicate"} -> UndoAdd(r)
           [] r.op = "rename" -> UndoRename(r)
           [] r.op = "remove" -> UndoRemove(r)) \o
        IF gives THEN << <<"undone", i>> >> ELSE <<>>

(* What an undo replaces without looking: documents at the path a rename     *)
(* comes back to, and at the paths of the backups.                           *)
Replaced(r) ==
    LET back == IF r.op = "rename" /\ AfterBackups(r)[r.after] # None
                THEN {r.before} ELSE {}
        over == {b.path : b \in {b \in Range(r.repaired) :
                                   files[b.path] # None
                                     /\ files[b.path].what # b.backup.what}}
    IN  {p \in back \cup over : files[p] # None}

(* An undo in order finds the document where the operation left it.          *)
InOrder(r) ==
    CASE r.op = "rename" ->
           /\ Registered(docs, r.id) /\ EntryOf(docs, r.id).path = r.after
           /\ files[r.after] # None /\ files[r.after].what = owner[r.id]
           /\ Cardinality(At(docs, r.after)) = 1
           /\ At(docs, r.before) = {}
      [] r.op = "remove" ->
           /\ At(docs, r.before) = {}
           /\ files[r.before] # None /\ files[r.before].what = owner[r.id]
      [] OTHER -> At(docs, r.after) \subseteq {[id |-> r.id, path |-> r.after, kind |-> k] :
                                                 k \in {"managed", "linked"}}

UndoDocumentOp(i) ==
    LET r == receipts[i]
        met == {r.id} \cup {e.id : e \in {e \in docs :
                  e.path \in Replaced(r) \cup {r.before, r.after}}}
    IN  /\ docs # Missing /\ ~r.undone
        /\ Begin(met, {Len(stored) + 1}, UndoSteps(i))
        /\ gone' = gone \cup {files[p].what : p \in Replaced(r)}
        /\ astray' = IF InOrder(r) /\ Replaced(r) = {} THEN astray ELSE astray \cup met
        /\ expected' = IF latest = i THEN r.then ELSE None
        /\ UNCHANGED <<owner, torn>>

(***************************************************************************)
(* Crash, and the next start.                                              *)
(***************************************************************************)
(* A crash between the two renames of a commit leaves nothing at the path:   *)
(* the ids registered there lead nowhere.                                    *)
Displaced ==
    LET p == Head(job.steps)[2]
    IN  IF aside /\ baks[p] # None THEN {e.id : e \in At(registry, p)} ELSE {}

(* A crash between the two renames of the manifest leaves what it listed in  *)
(* manifest.bak, where load_manifest does not look for it.                   *)
OnlyInBak ==
    LET s == Head(job.steps)
    IN  IF s[1] = "list" /\ manifest = Missing
        THEN {t.id : t \in s[2]} \ job.trash ELSE {}

Crash ==
    /\ docs # Missing /\ job # Idle /\ crashes < MaxCrashes
    /\ crashes' = crashes + 1
    /\ docs' = Missing /\ job' = Idle /\ aside' = FALSE
    /\ astray' = astray \cup job.ids \cup Displaced
    /\ torn' = torn \cup job.trash
    /\ hidden' = hidden \cup OnlyInBak
    /\ latest' = 0 /\ expected' = None
    /\ UNCHANGED <<disk, owner, made, gone, ops>>

OpenWorkspace ==
    /\ docs = Missing /\ registry # Missing
    /\ docs' = registry
    /\ UNCHANGED <<disk, job, aside, ghosts, ops, crashes>>

(* A workspace whose workspace.json cannot be read is created anew.          *)
CreateWorkspace ==
    /\ docs = Missing /\ registry = Missing
    /\ registry' = {} /\ docs' = {}
    /\ UNCHANGED <<files, baks, stored, manifest, receipts, job, aside, ghosts, ops, crashes>>

(***************************************************************************)
Init ==
    /\ files = [p \in Paths |-> IF p \in Outside
                               THEN [what |-> 1, ref |-> None, direct |-> TRUE]
                               ELSE None]
    /\ baks = [p \in Paths |-> None]
    /\ stored = <<>> /\ manifest = Missing
    /\ registry = {} /\ docs = {}
    /\ receipts = <<>> /\ job = Idle /\ aside = FALSE
    /\ owner = <<>> /\ made = 1
    /\ gone = {} /\ astray = {} /\ torn = {} /\ hidden = {}
    /\ latest = 0 /\ expected = None
    /\ ops = 0 /\ crashes = 0

Open == IF docs = Missing THEN {} ELSE docs

Next ==
    \/ SetAside
    \/ Step
    \/ \E p \in Names : CreateManagedDocument(p)
    \/ \E x \in Outside, p \in Names : ImportAsManaged(x, p)
    \/ \E e \in Open, p \in Names \cup Outside : DuplicateDocument(e, p)
    \/ \E x \in Outside : LinkExternal(x)
    \/ \E e \in Open : RemoveReference(e)
    \/ ScanAndIndex
    \/ \E e \in Open, q \in Inside : RenameOrMoveDocument(e, q)
    \/ \E p, q \in Paths, direct \in BOOLEAN : AddReference(p, q, direct)
    \/ \E e \in Open : DeleteDocumentToTrash(e)
    \/ \E t \in Listed : \E dest \in Paths : Restore(t, dest)
    \/ \E t \in Listed : PurgeOne(t)
    \/ EmptyTrash
    \/ \E i \in DOMAIN receipts : UndoDocumentOp(i)
    \/ Crash
    \/ OpenWorkspace
    \/ CreateWorkspace

Spec == Init /\ [][Next]_vars

(***************************************************************************)
(* Properties.                                                             *)
(***************************************************************************)
Entries == [id : DOMAIN owner, path : Paths, kind : {"managed", "linked"}]

(* The state has its type, every entry and every listed trash item is one    *)
(* the program made, and two entries never share an id.                      *)
TypeOK ==
    /\ files \in [Paths -> Contents \cup {None}]
    /\ baks \in [Paths -> Contents \cup {None}]
    /\ stored \in Seq(Contents \cup {None})
    /\ \A t \in Listed : /\ t.id \in DOMAIN stored /\ t.path \in Paths
                         /\ t.entry = None \/ t.entry \in Entries
    /\ docs # Missing => docs \subseteq Entries
    /\ registry # Missing => registry \subseteq Entries
    /\ \A d, e \in Open : d.id = e.id => d = e
    /\ job.trash \subseteq Nat /\ job.ids \subseteq Nat
    /\ aside => NextWrites
    /\ latest \in 0..Len(receipts)

Quiet == job = Idle /\ docs # Missing

(* The bytes of a document are always somewhere on disk, at a path, in a     *)
(* .bak beside one or in the trash, whatever operation was interrupted and   *)
(* wherever; the exceptions are an explicit purge, an undo that writes over  *)
(* a document it does not know, and the next save at a path where a crash    *)
(* between the renames of a commit left the .bak as the only copy            *)
(* (replace_file removes an old .bak first, persistence.rs:142).             *)
BytesSurvive ==
    \A w \in 1..made :
        \/ w \in gone
        \/ \E p \in Paths : files[p] # None /\ files[p].what = w
        \/ \E p \in Paths : baks[p] # None /\ baks[p].what = w
        \/ \E t \in DOMAIN stored : stored[t] # None /\ stored[t].what = w

(* The stable DocumentId: between operations an entry leads to the document  *)
(* it was registered for, through renames, deletion and restoring, and to no *)
(* other.  The exceptions, which the code does not repair: a crash within    *)
(* the entry's own rename, deletion or restoring, a crash between the two    *)
(* renames of a commit at its path, and an undo out of order.                *)
IdsAreStable ==
    Quiet => \A e \in docs :
        e.id \notin astray => /\ files[e.path] # None
                              /\ files[e.path].what = owner[e.id]

(* Every file in the trash is listed and every listed one is there.  A crash *)
(* takes the file of the operation it interrupts out of this, and, when it   *)
(* comes between the two renames of save_manifest, every other file: those   *)
(* are no longer listed, against the durable manifest of trash.rs:12-14, but *)
(* the files stay in the trash.                                              *)
TrashIsComplete ==
    Quiet => \A t \in DOMAIN stored \ torn :
        IF t \in hidden THEN stored[t] # None
        ELSE stored[t] # None <=> \E l \in Listed : l.id = t

(* Undoing the latest operation gives back the workspace it found: every     *)
(* file, every reference and every entry.                                    *)
UndoRestores ==
    Quiet /\ expected # None => /\ files = expected.files
                                /\ docs = expected.docs
                                /\ registry = expected.docs

(* After a rename, the direct reference of every other document leads to the *)
(* document it led to before; one through a parent directory is not repaired *)
(* (file_library.rs:591-600).  A document that an interruption took astray   *)
(* can share its path with another, and the reference follows that one.      *)
Referred(fs, ds, e) ==
    IF fs[e.path] = None \/ ~fs[e.path].direct THEN {}
    ELSE {d.id : d \in At(ds, fs[e.path].ref)}

ReferencesFollow ==
    Quiet /\ latest # 0 =>
        LET r == receipts[latest]
        IN  r.op = "rename" =>
            \A e \in r.then.docs :
                e.id # r.id /\ e.id \notin astray =>
                    Referred(r.then.files, r.then.docs, e) \ astray
                        \subseteq Referred(files, docs, e)
=============================================================================
