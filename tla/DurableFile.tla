---------------------------- MODULE DurableFile ----------------------------
(***************************************************************************)
(* The three directory entries behind every "safe" write of the program,   *)
(* and the file-system calls that move content between them.  The program  *)
(* replaces a file in the same way in three places:                        *)
(*   - domain/persistence.rs, atomic_save: documents (.name.tmp, name.bak);*)
(*   - domain/transfer_journal.rs, durable_write: transfer journals;       *)
(*   - domain/trash.rs, save_manifest: the trash manifest.                 *)
(* A file is a record [main, bak, tmp]; an entry that does not exist holds *)
(* Gone.  Each operator is one file-system call (one crash point) except   *)
(* where its comment says it joins two.                                    *)
(***************************************************************************)
CONSTANT Gone          \* "no such file"; no content equals it

File(Content) == [main : Content \cup {Gone},
                  bak  : Content \cup {Gone},
                  tmp  : Content \cup {Gone}]

\* A file that holds v and has no siblings.
Only(v) == [main |-> v, bak |-> Gone, tmp |-> Gone]

\* No entry at all.
NoFile == Only(Gone)

\* Mutant of WriteTemp: the file is written in place.
WriteInPlace(f, v) == [f EXCEPT !.main = v]

\* Create, write and sync the temporary sibling.
WriteTemp(f, v) == [f EXCEPT !.tmp = v]

\* Mutant of SetAside: the file is removed to make room.
RemoveOld(f) == [f EXCEPT !.bak = Gone, !.main = Gone]

\* Remove the old backup, then rename the file to it if the file exists.  The
\* two calls are one step: between them the file itself is untouched.
SetAside(f) == [main |-> Gone, bak |-> f.main, tmp |-> f.tmp]

\* The journal's and the manifest's variant: a missing file keeps its backup.
SetAsideIfPresent(f) == IF f.main = Gone THEN f ELSE SetAside(f)

\* Rename the temporary sibling over the path.
Swap(f) == [main |-> f.tmp, bak |-> f.bak, tmp |-> Gone]

\* Remove the backup after a successful replacement (documents only).
DropBackup(f) == [f EXCEPT !.bak = Gone]

\* Mutant of PutBack: the backup stays where it is.
LeaveAside(f) == f

\* The replacing rename failed: rename the backup, if any, to the path again.
PutBack(f) ==
    IF f.main = Gone /\ f.bak # Gone
    THEN [main |-> f.bak, bak |-> Gone, tmp |-> f.tmp]
    ELSE f

\* What a reader finds that falls back to the backup when the path is missing.
Recoverable(f) == IF f.main # Gone THEN f.main ELSE f.bak
=============================================================================
