---------------------------- MODULE TaskCustody ----------------------------
(***************************************************************************)
(* What copying, moving, undoing and recovering promise about tasks,       *)
(* without files, journals or ids: every document holds a set of tasks,    *)
(* and a vault keeps what an undo may have to bring back.  A document may  *)
(* be rewritten at any time, but never so that a task vanishes.  The       *)
(* exception has a step of its own: to undo out of order exposes the tasks *)
(* that newer transfers moved.                                             *)
(*                                                                         *)
(* docs/multidoc/TRANSFER_DESIGN.md: "A task must NEVER be lost. An        *)
(* interrupted transfer must leave a DUPLICATE rather than a loss."        *)
(***************************************************************************)
CONSTANTS Docs, Originals

VARIABLES held,   \* held[d]: the tasks that document d holds
          vault,  \* the tasks kept for an undo
          exposed \* the tasks that an undo out of order has given up

vars == <<held, vault, exposed>>

Somewhere(a) == a \in vault \/ \E d \in Docs : a \in held[d]

\* Every task that is not exposed is in some document, or in the vault.
NothingLost == \A a \in Originals \ exposed : Somewhere(a)

Init ==
    /\ held \in [Docs -> SUBSET Originals]
    /\ vault = {} /\ exposed = {}
    /\ NothingLost

\* Document d gets new tasks and gives up tasks that are kept elsewhere.
Rewrite(d) ==
    /\ \E S \in SUBSET Originals :
        /\ \A a \in held[d] \ (S \cup exposed) :
              a \in vault \/ \E e \in Docs \ {d} : a \in held[e]
        /\ held' = [held EXCEPT ![d] = S]
    /\ UNCHANGED <<vault, exposed>>

\* An undo of tasks that documents hold becomes possible.
Stash ==
    /\ \E S \in SUBSET Originals : vault' = vault \cup S
    /\ UNCHANGED <<held, exposed>>

\* An undo is done; what the vault gives up is in a document again.
Release ==
    /\ \E S \in SUBSET vault :
        /\ \A a \in S \ exposed : \E d \in Docs : a \in held[d]
        /\ vault' = vault \ S
    /\ UNCHANGED <<held, exposed>>

\* An undo begins although newer transfers have moved tasks meanwhile.
Expose ==
    /\ \E S \in SUBSET Originals : exposed' = exposed \cup S
    /\ UNCHANGED <<held, vault>>

Next == Stash \/ Release \/ Expose \/ \E d \in Docs : Rewrite(d)

Spec == Init /\ [][Next]_vars
=============================================================================
