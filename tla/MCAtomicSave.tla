--------------------------- MODULE MCAtomicSave ---------------------------
(* AtomicSave on a document that is saved a few times. *)
EXTENDS AtomicSave
=============================================================================
