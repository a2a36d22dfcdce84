---------------------------- MODULE UndoTimeline ----------------------------
(***************************************************************************)
(* What undo and redo promise, without commands: there is a line of        *)
(* states, of which the last Limit are remembered.  An edit drops what lay *)
(* ahead, undo steps back to the state that was there before, redo forward *)
(* to the state that was undone.                                           *)
(***************************************************************************)
EXTENDS Naturals, Sequences

CONSTANT Limit  \* states remembered behind the present one

VARIABLES past, present, future

vars == <<past, present, future>>

\* The last Limit members of s.
Recent(s) == IF Len(s) > Limit THEN SubSeq(s, Len(s) - Limit + 1, Len(s)) ELSE s

TopOf(s)  == s[Len(s)]
BelowTop(s) == SubSeq(s, 1, Len(s) - 1)

Init == past = <<>> /\ future = <<>>

\* The present becomes anything.
Edit ==
    /\ past' = Recent(Append(past, present))
    /\ future' = <<>>

Undo ==
    /\ past # <<>>
    /\ present' = TopOf(past)
    /\ past' = BelowTop(past)
    /\ future' = Append(future, present)

Redo ==
    /\ future # <<>>
    /\ present' = TopOf(future)
    /\ future' = BelowTop(future)
    /\ past' = Append(past, present)

Next == Edit \/ Undo \/ Redo

Spec == Init /\ [][Next]_vars
=============================================================================
