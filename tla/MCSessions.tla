----------------------------- MODULE MCSessions -----------------------------
(* Two workspaces, each with a document at the same relative path, and a     *)
(* second document in the first one; two async functions at a time.          *)
EXTENDS Sessions, TLC

CONSTANTS f1, f2, home, work, inbox, plan

MCDocs == {<<home, inbox>>, <<home, plan>>, <<work, inbox>>}
MCFirstDoc == <<home, inbox>>
Symmetry == Permutations({f1, f2})
=============================================================================
