----------------------------- MODULE AtomicSave -----------------------------
(***************************************************************************)
(* domain/persistence.rs: atomic_save and replace_file on one document,    *)
(* called again and again by one editing session, with the program killed  *)
(* between any two file-system calls and with calls that return an error.  *)
(*                                                                         *)
(* The content of a document is abstracted to the number of the save that  *)
(* produced it; 0 is what was on disk first.  Torn is the content of a     *)
(* file whose write was cut short.                                         *)
(***************************************************************************)
EXTENDS Naturals, DurableFile

CONSTANTS Torn,             \* content of an incompletely written file
          MaxVersion,       \* bound: number of saves of a behaviour
          PutBackMayFail    \* may the rename that undoes a failed one fail?

ASSUME SaveConstants == /\ MaxVersion \in Nat
                        /\ PutBackMayFail \in BOOLEAN
                        /\ Gone \notin Nat
                        /\ Torn \notin Nat
                        /\ Torn # Gone

VARIABLES f,        \* the document's three directory entries
          open,     \* is there a session on the document
          stage,    \* next file-system call of the running save
          version,  \* the newest version handed to atomic_save
          acked,    \* the newest version reported as Completed
          before    \* f.main when the running save began

vars == <<f, open, stage, version, acked, before>>

Version == 0 .. MaxVersion
Stages  == {"idle", "write", "check", "aside", "swap", "drop"}

TypeOK ==
    /\ f \in File(Version \cup {Torn})
    /\ open \in BOOLEAN
    /\ stage \in Stages
    /\ version \in Version
    /\ acked \in Version
    /\ before \in Version \cup {Torn, Gone}

Init ==
    /\ f = Only(0)
    /\ open = TRUE
    /\ stage = "idle"
    /\ version = 0
    /\ acked = 0
    /\ before = 0

-----------------------------------------------------------------------------
\* open_document_session reads the file: it needs one at the path.
Open ==
    /\ ~open
    /\ f.main # Gone
    /\ open' = TRUE
    /\ UNCHANGED <<f, stage, version, acked, before>>

\* save_document_atomic calls atomic_save with a new serialization.
Begin ==
    /\ open
    /\ stage = "idle"
    /\ version < MaxVersion
    /\ version' = version + 1
    /\ before' = f.main
    /\ stage' = "write"
    /\ UNCHANGED <<f, open, acked>>

\* Every error return of atomic_save.
Fail == /\ stage' = "idle"
        /\ UNCHANGED <<open, version, acked, before>>

Step(next) == /\ stage' = next
              /\ UNCHANGED <<open, version, acked, before>>

\* Step 1: the temporary file.  A failed write leaves it as it was or torn.
WriteTempOk ==
    /\ stage = "write"
    /\ f' = WriteTemp(f, version)
    /\ Step("check")

WriteTempFails ==
    /\ stage = "write"
    /\ \E left \in {f.tmp, Torn} : f' = WriteTemp(f, left)
    /\ Fail

\* Step 2: the temporary file is read back, compared and validated; it is
\* removed when that fails.
CheckOk == stage = "check" /\ f' = f /\ Step("aside")

CheckFails ==
    /\ stage = "check"
    /\ f' = WriteTemp(f, Gone)
    /\ Fail

\* Step 3, replace_file: the document is renamed to the backup name.  On an
\* error the old backup is gone already and the document is where it was.
AsideOk == stage = "aside" /\ f' = SetAside(f) /\ Step("swap")

AsideFails ==
    /\ stage = "aside"
    /\ f.main # Gone
    /\ f' = DropBackup(f)
    /\ Fail

\* Step 3, replace_file: the temporary file is renamed to the document.
SwapOk == stage = "swap" /\ f' = Swap(f) /\ Step("drop")

SwapFails ==
    /\ stage = "swap"
    /\ \/ f' = PutBack(f)
       \/ PutBackMayFail /\ f' = f
    /\ Fail

\* Mutant of Complete: the save acknowledges a version it has not written.
CompleteNextVersion ==
    /\ stage = "drop"
    /\ f' = DropBackup(f)
    /\ acked' = version + 1
    /\ stage' = "idle"
    /\ UNCHANGED <<open, version, before>>

\* The backup is removed (an error of that is ignored) and the save succeeds.
Complete ==
    /\ stage = "drop"
    /\ \/ f' = DropBackup(f)
       \/ f' = f
    /\ acked' = version
    /\ stage' = "idle"
    /\ UNCHANGED <<open, version, before>>

\* The process dies: only the directory entries remain.
Crash ==
    /\ open
    /\ open' = FALSE
    /\ stage' = "idle"
    /\ \/ f' = f
       \/ stage = "write" /\ f' = WriteTemp(f, Torn)
    /\ UNCHANGED <<version, acked, before>>

Next == \/ Open \/ Begin
        \/ WriteTempOk \/ WriteTempFails
        \/ CheckOk \/ CheckFails
        \/ AsideOk \/ AsideFails
        \/ SwapOk \/ SwapFails
        \/ Complete \/ Crash

Spec == Init /\ [][Next]_vars

-----------------------------------------------------------------------------
\* Whatever call fails and wherever the process dies, a reader that falls back
\* to the .bak sibling finds a complete version, never an older one than the
\* last save that was reported as completed.
SavedVersionSurvives ==
    /\ Recoverable(f) \in Nat
    /\ Recoverable(f) >= acked

\* A save that returns an error leaves the document at its path with the
\* content it had when the save began (persistence.rs, "On failure at any step,
\* the original file remains intact", for errors), unless the rename that puts
\* the backup back fails, too, which the code ignores (PutBackMayFail,
\* persistence.rs:163).
FailedSaveKeepsOriginal ==
    [][(stage # "idle" /\ stage' = "idle" /\ open' /\ acked' = acked)
         => f'.main = before]_vars

\* To a reader that falls back to the backup, saving is one atomic step.
Register == INSTANCE DurableRegister WITH val <- Recoverable(f), ack <- acked
SavesAtomically == Register!Spec

\* Said of the program by the header of persistence.rs: "On failure at any
\* step, the original file remains intact."  A crash between the two renames
\* of replace_file leaves no file at the document's path.
OriginalRemainsAtPath == stage = "idle" => f.main # Gone
=============================================================================
