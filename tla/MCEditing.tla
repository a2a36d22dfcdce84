----------------------------- MODULE MCEditing -----------------------------
(* Editing of small documents. *)
EXTENDS Editing

Plain == [BlankTask EXCEPT !.title = "old"]

\* Task 2 below task 1, which depends on it; 2 carries unknown data and a date
\* with its time.
Nested == [roots |-> <<1>>,
           task |-> [i \in 1 .. 2 |->
              IF i = 1 THEN [Plain EXCEPT !.children = <<2>>, !.deps = <<Dep(Here, 2)>>,
                                          !.note = "empty"]
              ELSE [Plain EXCEPT !.extra = "custom", !.due = "monday",
                                 !.dueText = "monday at nine", !.files = <<"file">>]]]

Documents == {Nested}
=============================================================================
