--------------------------------- MODULE Index ----------------------------------
(***************************************************************************)
(* The disposable SQLite index: the documents and tasks of a workspace      *)
(* (infrastructure/indexer.rs, commands/workspace.rs) and the two search     *)
(* stores (infrastructure/search_fts.rs, commands/search.rs).  A command     *)
(* holds the connection while its statements run one by one, each of them    *)
(* committed on its own; other programs, and saves, change the documents     *)
(* meanwhile, and the process may end between two statements.                *)
(***************************************************************************)
EXTENDS Naturals, Sequences, FiniteSets, SequencesExt, Functions

CONSTANTS
    Missing,         \* the content of a file that is gone or does not parse: a model value
    Managed,         \* documents below the workspace, stored with a relative path
    Linked,          \* documents elsewhere, stored with an absolute path
    Contents,        \* contents of documents: sequences of task ids, in file order
    MaxVersions, MaxCommands, MaxCrashes   \* bounds of the model

\* What the constants are; assumed by the module that gives them values.
IndexAssumption ==
    Managed \cap Linked = {} /\ {MaxVersions, MaxCommands, MaxCrashes} \subseteq Nat

VARIABLES
    documents,       \* files: [version, tasks], or Missing
    registered,      \* ids of the open workspace
    recorded,        \* ids in workspace.json
    known,           \* the workspaces table has the workspace
    rows,            \* the documents table
    taskIndex, tags, \* tasks of each document, and those whose tags are in: [task, version]
    plain, fts,      \* task_search_plain, task_search_fts: [task, version, tagged]
    rooted,          \* the process runs in the root of the workspace
    job,             \* statements left of the running command
    versions, commands, crashes,
    indexed,         \* history: what index_document last read and went through with
    searched,        \* history: the rows the last rebuild computed for the document
    rebuilt,         \* history: documents untouched since a rebuild_index that no crash cut
    torn             \* history: the last rebuild of the search was cut by a crash

workspace == <<registered, recorded>>
index == <<known, rows, taskIndex, tags>>
search == <<plain, fts>>
history == <<indexed, searched, rebuilt, torn>>
bounds == <<versions, commands, crashes>>
vars == <<documents, workspace, index, search, rooted, job, bounds, history>>

Docs == Managed \cup Linked
NoRows == [d \in Docs |-> {}]
Rows(content) == {[task |-> t, version |-> content.version] : t \in ToSet(content.tasks)}

Init ==
    /\ documents \in [Docs -> {Missing} \cup {[version |-> 0, tasks |-> c] : c \in Contents}]
    /\ registered \in {{}, Linked} /\ recorded = registered
    /\ known \in BOOLEAN /\ rooted \in BOOLEAN
    /\ rows = {} /\ taskIndex = NoRows /\ tags = NoRows /\ plain = NoRows /\ fts = NoRows
    /\ job = <<>> /\ versions = 0 /\ commands = 0 /\ crashes = 0
    /\ indexed = [d \in Docs |-> Missing] /\ searched = NoRows
    /\ rebuilt = {} /\ torn = FALSE

\* A statement: what it does, to which document, with which argument, and the
\* group of statements its failure skips.
Do(op, d, arg) == [op |-> op, doc |-> d, arg |-> arg, group |-> <<op, d>>]
In(group, statements) == [i \in DOMAIN statements |-> [statements[i] EXCEPT !.group = group]]

For(S, op) == LET ds == SetToSeq(S) IN [i \in DOMAIN ds |-> Do(op, ds[i], 0)]

\* sync_documents_to_db: a failed insert ends it.
SyncSteps(S) == In(<<"sync", "">>, <<Do("drop documents", "", 0)>> \o For(S, "insert document"))

Command(statements) ==
    /\ job = <<>> /\ commands < MaxCommands
    /\ commands' = commands + 1
    /\ job' = statements
    /\ rebuilt' = {}
    /\ UNCHANGED <<documents, recorded, index, search, rooted, versions, crashes,
                   indexed, searched, torn>>

\* scan_and_index registers the documents it finds, indexes all it knows, and
\* writes workspace.json at the end.
ScanAndIndex ==
    /\ registered' = registered \cup {d \in Managed : documents[d] # Missing}
    /\ Command(SyncSteps(registered') \o For(registered', "read")
                 \o <<Do("save workspace", "", 0)>>)

\* clear_workspace_index: the tables of one document after the other, then the
\* documents, each statement committed on its own.
ClearSteps(S) ==
    LET ds == SetToSeq(S)
    IN  FlattenSeq([i \in DOMAIN ds |-> <<Do("clear tags", ds[i], 0), Do("clear tasks", ds[i], 0)>>])
          \o <<Do("drop documents", "", 0)>>

\* rebuild_index clears, then makes sure of the workspace, then registers.
RebuildSteps ==
    ClearSteps(rows) \o <<Do("ensure workspace", "", 0)>> \o SyncSteps(registered)

RebuildIndex ==
    /\ job = <<>> /\ commands < MaxCommands
    /\ commands' = commands + 1
    /\ job' = RebuildSteps \o For(registered, "read")
    /\ rebuilt' = registered
    /\ UNCHANGED <<documents, registered, recorded, index, search, rooted, versions,
                   crashes, indexed, searched, torn>>

\* reindex_document, after a transfer.
ReindexDocument(d) ==
    /\ d \in registered
    /\ Command(<<Do("read", d, 0)>>)
    /\ UNCHANGED registered

\* rebuild_search_index_cmd takes the documents from the database, in the order
\* of their ids; the first that cannot be read ends it.
RebuildSearch ==
    /\ Command(In(<<"search", "">>, <<Do("clear plain", "", 0), Do("clear fts", "", 0)>>
                              \o For(rows, "read for search")))
    /\ UNCHANGED registered

---------------------------------------------------------------------------
(* One statement at a time.                                                *)

Next1 == Head(job)
Running(op) == job # <<>> /\ Next1.op = op
Skip == SelectSeq(Tail(job), LAMBDA s : s.group # Next1.group)

\* documents is referenced by task_index, and that by task_tags, ON DELETE
\* CASCADE.
DropDocuments ==
    /\ Running("drop documents")
    /\ rows' = {} /\ taskIndex' = NoRows /\ tags' = NoRows
    /\ indexed' = [d \in Docs |-> Missing]
    /\ job' = Tail(job)
    /\ UNCHANGED <<documents, workspace, known, search, rooted, bounds, searched, rebuilt, torn>>

\* task_dependencies and task_participants go like task_tags.
ClearTags ==
    /\ Running("clear tags")
    /\ tags' = [tags EXCEPT ![Next1.doc] = {}]
    /\ indexed' = [indexed EXCEPT ![Next1.doc] = Missing]
    /\ job' = Tail(job)
    /\ UNCHANGED <<documents, workspace, known, rows, taskIndex, search, rooted, bounds,
                   searched, rebuilt, torn>>

ClearTasks ==
    /\ Running("clear tasks")
    /\ taskIndex' = [taskIndex EXCEPT ![Next1.doc] = {}]
    /\ tags' = [tags EXCEPT ![Next1.doc] = {}]
    /\ job' = Tail(job)
    /\ UNCHANGED <<documents, workspace, known, rows, search, rooted, bounds, history>>

SaveWorkspace ==
    /\ Running("save workspace")
    /\ recorded' = registered
    /\ job' = Tail(job)
    /\ UNCHANGED <<documents, registered, index, search, rooted, bounds, history>>

\* INSERT OR REPLACE of the workspace; the documents are gone already.
EnsureWorkspace ==
    /\ Running("ensure workspace")
    /\ known' = TRUE /\ job' = Tail(job)
    /\ UNCHANGED <<documents, workspace, rows, taskIndex, tags, search, rooted, bounds, history>>

\* A document of a workspace that is not in the database is refused.
InsertDocument ==
    /\ Running("insert document")
    /\ IF known THEN rows' = rows \cup {Next1.doc} /\ job' = Tail(job)
                ELSE rows' = rows /\ job' = Skip
    /\ UNCHANGED <<documents, workspace, known, taskIndex, tags, search, rooted, bounds, history>>

\* index_document reads the whole file first; the tasks are inserted in order,
\* each before its tags, and the first failure leaves the rest out.
ReadDocument ==
    /\ Running("read")
    /\ LET d == Next1.doc
           content == documents[d]
           Insert(t) == LET row == [task |-> t, version |-> content.version]
                        IN  <<Do("insert task", d, row), Do("insert tags", d, row)>>
       IN  IF content = Missing
           THEN job' = Tail(job) /\ UNCHANGED indexed
           ELSE /\ job' = In(<<"index", d>>, <<Do("delete tasks", d, 0)>> \o
                             FlattenSeq([i \in DOMAIN content.tasks |-> Insert(content.tasks[i])]))
                          \o Tail(job)
                /\ indexed' = [indexed EXCEPT ![d] = content]
    /\ UNCHANGED <<documents, workspace, index, search, rooted, bounds, searched, rebuilt, torn>>

\* A faulty variant: rows are left to be replaced by the inserts.
LeftInPlace(d) == taskIndex[d]

\* The four deletions: task_index takes the other tables along.
Cleared(d) == {}

DeleteTasks ==
    /\ Running("delete tasks")
    /\ taskIndex' = [taskIndex EXCEPT ![Next1.doc] = Cleared(Next1.doc)]
    /\ tags' = [tags EXCEPT ![Next1.doc] = {}]
    /\ job' = Tail(job)
    /\ UNCHANGED <<documents, workspace, known, rows, search, rooted, bounds, history>>

\* Refused for a document that is not in the table, or an id that is there twice.
InsertTask ==
    /\ Running("insert task")
    /\ LET d == Next1.doc
           fits == d \in rows /\ \A r \in taskIndex[d] : r.task # Next1.arg.task
       IN  IF fits
           THEN /\ taskIndex' = [taskIndex EXCEPT ![d] = @ \cup {Next1.arg}]
                /\ job' = Tail(job) /\ UNCHANGED indexed
           ELSE /\ job' = Skip
                /\ indexed' = [indexed EXCEPT ![d] = Missing]
                /\ UNCHANGED taskIndex
    /\ UNCHANGED <<documents, workspace, known, rows, tags, search, rooted, bounds,
                   searched, rebuilt, torn>>

InsertTags ==
    /\ Running("insert tags")
    /\ tags' = [tags EXCEPT ![Next1.doc] = @ \cup {Next1.arg}]
    /\ job' = Tail(job)
    /\ UNCHANGED <<documents, workspace, known, rows, taskIndex, search, rooted, bounds, history>>

\* A faulty variant: the full-text store is left to the inserts.
EmptyPlain(op, stores) == IF op = "clear plain" THEN [stores EXCEPT !.plain = NoRows] ELSE stores

\* clear_search_index, a statement for each store.
Emptied(op, stores) ==
    IF op = "clear plain" THEN [stores EXCEPT !.plain = NoRows] ELSE [stores EXCEPT !.fts = NoRows]

ClearSearch ==
    \E op \in {"clear plain", "clear fts"} :
        /\ Running(op)
        /\ LET stores == Emptied(op, [plain |-> plain, fts |-> fts])
           IN  plain' = stores.plain /\ fts' = stores.fts
        /\ searched' = NoRows
        /\ torn' = FALSE
        /\ job' = Tail(job)
        /\ UNCHANGED <<documents, workspace, index, rooted, bounds, indexed, rebuilt>>

\* index_document_search: the path of a managed document is taken as it is
\* stored, relative to the directory of the process.  Tags come from the index.
ReadForSearch ==
    /\ Running("read for search")
    /\ LET d == Next1.doc
           content == documents[d]
           Row(t) == [task |-> t, version |-> content.version,
                      tagged |-> {r.version : r \in {g \in tags[d] : g.task = t}}]
           Update(t) == <<Do("upsert plain", d, Row(t)), Do("delete fts", d, Row(t)),
                          Do("insert fts", d, Row(t))>>
       IN  IF content = Missing \/ (d \in Managed /\ ~rooted)
           THEN job' = Skip /\ UNCHANGED searched
           ELSE /\ job' = In(<<"search", "">>, <<Do("remove plain", d, 0), Do("remove fts", d, 0)>> \o
                             FlattenSeq([i \in DOMAIN content.tasks |-> Update(content.tasks[i])]))
                          \o Tail(job)
                /\ searched' = [searched EXCEPT ![d] = {Row(t) : t \in ToSet(content.tasks)}]
    /\ UNCHANGED <<documents, workspace, index, search, rooted, bounds, indexed, rebuilt, torn>>

Others(store, d, t) == {r \in store[d] : r.task # t}

\* update_task_search and remove_document_search.  The full-text store has no
\* key: a row is replaced by deleting it first.
WriteSearch ==
    /\ \E op \in {"remove plain", "upsert plain", "remove fts", "delete fts", "insert fts"} : Running(op)
    /\ LET d == Next1.doc
       IN  /\ plain' = CASE Next1.op = "remove plain" -> [plain EXCEPT ![d] = {}]
                         [] Next1.op = "upsert plain" ->
                               [plain EXCEPT ![d] = Others(plain, d, Next1.arg.task) \cup {Next1.arg}]
                         [] OTHER -> plain
           /\ fts' = CASE Next1.op = "remove fts" -> [fts EXCEPT ![d] = {}]
                       [] Next1.op = "delete fts" -> [fts EXCEPT ![d] = Others(fts, d, Next1.arg.task)]
                       [] Next1.op = "insert fts" -> [fts EXCEPT ![d] = @ \cup {Next1.arg}]
                       [] OTHER -> fts
    /\ job' = Tail(job)
    /\ UNCHANGED <<documents, workspace, index, rooted, bounds, history>>

---------------------------------------------------------------------------
(* What happens around the commands.                                       *)

\* A save of the program or of another one, or a deletion.
ChangeDocument(d) ==
    /\ versions < MaxVersions
    /\ versions' = versions + 1
    /\ \E c \in {Missing} \cup {[version |-> versions', tasks |-> s] : s \in Contents} :
          documents' = [documents EXCEPT ![d] = c]
    /\ rebuilt' = rebuilt \ {d}
    /\ UNCHANGED <<workspace, index, search, rooted, job, commands, crashes, indexed, searched, torn>>

\* The process ends in the middle of a command, and the workspace is opened again.
Crash ==
    /\ job # <<>> /\ crashes < MaxCrashes
    /\ crashes' = crashes + 1
    /\ job' = <<>>
    /\ indexed' = [d \in Docs |-> IF \E i \in DOMAIN job : job[i].group = <<"index", d>>
                                  THEN Missing ELSE indexed[d]]
    /\ torn' = (torn \/ \E i \in DOMAIN job : job[i].group = <<"search", "">>)
    /\ registered' = recorded
    /\ rebuilt' = {}
    /\ UNCHANGED <<documents, recorded, index, search, rooted, versions, commands, searched>>

Next ==
    \/ ScanAndIndex \/ RebuildIndex \/ RebuildSearch
    \/ \E d \in Docs : ReindexDocument(d) \/ ChangeDocument(d)
    \/ ClearTags \/ ClearTasks \/ DropDocuments \/ SaveWorkspace \/ EnsureWorkspace \/ InsertDocument
    \/ ReadDocument \/ DeleteTasks \/ InsertTask \/ InsertTags
    \/ ClearSearch \/ ReadForSearch \/ WriteSearch
    \/ Crash

Spec == Init /\ [][Next]_vars

---------------------------------------------------------------------------
(* What the index is good for.                                             *)

Unique(content) == IsInjective(content.tasks)

\* The rows of a document are never of two versions of it, whatever was cut or
\* refused; what index_document went through with is there, tags included, until
\* the next command that clears it: one that is cut after clear_workspace_index's
\* first statements leaves tasks without their tags (indexer.rs:233-235).  After a
\* rebuild, in whatever state it found the database, every document that can be
\* read and numbers its tasks once is indexed as it is.
IndexMatchesFiles ==
    /\ \A d \in Docs :
          /\ \A r, s \in taskIndex[d] : r.version = s.version
          /\ tags[d] \subseteq taskIndex[d]
    /\ job = <<>> =>
          /\ \A d \in Docs : indexed[d] # Missing =>
                taskIndex[d] = Rows(indexed[d]) /\ tags[d] = Rows(indexed[d])
          /\ \A d \in rebuilt :
                documents[d] # Missing /\ Unique(documents[d]) => indexed[d] = documents[d]

\* After a rebuild of the search that no crash cut, failed or not, both stores
\* hold the same rows: those of the documents it reached, and nothing of the rest;
\* a later rebuild repairs what a crash left.
SearchStoresAgree ==
    job = <<>> /\ ~torn => plain = searched /\ fts = searched
================================================================================
