-------------------------- MODULE DurableRegister --------------------------
(***************************************************************************)
(* What "atomic save" promises: a document is a register whose value only  *)
(* ever moves from one complete version to the next, and a version that    *)
(* was reported as saved is never taken back.                              *)
(***************************************************************************)
EXTENDS Naturals

VARIABLES val,   \* the version a reader of the disk gets
          ack    \* the newest version the caller was told is saved

Init == val = 0 /\ ack = 0

\* The disk switches to a newer version in one step.
Commit == /\ val' \in Nat
          /\ val' > val
          /\ UNCHANGED ack

\* The caller learns that the version on disk is saved.
Acknowledge == /\ ack # val
               /\ ack' = val
               /\ UNCHANGED val

Next == Commit \/ Acknowledge

Spec == Init /\ [][Next]_<<val, ack>>
=============================================================================
