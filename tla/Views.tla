--------------------------------- MODULE Views ----------------------------------
(***************************************************************************)
(* Smart views (domain/smart_view.rs, commands/views.rs) and saved views     *)
(* (infrastructure/saved_views.rs) over one task of the index.  A saved view *)
(* is a tree of predicates with two evaluators: compiled to SQL over the     *)
(* index, and in memory.  Texts are sequences of characters, since LIKE is   *)
(* about characters; a date is a number of half days, or Null, so that a     *)
(* time of day can be told from midnight.                                    *)
(***************************************************************************)
EXTENDS Integers, Sequences, FiniteSets, SequencesExt

CONSTANTS Null,            \* no date: a model value
          RowsOfIndex,     \* what a row of the index may hold
          Trees,           \* predicates of saved views
          FirstDay, MaxDay \* the days of the calendar; day 0 is a Monday

\* What the constants are; assumed by the module that gives them values.
ViewsAssumption == FirstDay \in Nat /\ MaxDay \in Nat

VARIABLES row,             \* [title, tags, number, start, due, active] of the task
          view,            \* the predicates of the saved view
          today

vars == <<row, view, today>>

\* PredicateNode: a leaf is a predicate [field, op, value] on its own.
And(parts) == [node |-> "and", parts |-> parts]
Or(parts) == [node |-> "or", parts |-> parts]
Leaf(p) == [node |-> "leaf", parts |-> <<p>>]

\* to_lowercase folds every letter, LIKE the ASCII ones only: E' stands for an
\* accented capital, e' for its small letter.
LowerAscii(text) == [i \in DOMAIN text |-> IF text[i] = "A" THEN "a" ELSE text[i]]
Lower(text) == [i \in DOMAIN text |-> IF text[i] = "E'" THEN "e'" ELSE LowerAscii(text)[i]]

---------------------------------------------------------------------------
(* In memory: PredicateNode::matches.                                      *)

Starts(text, with) == Len(with) <= Len(text) /\ SubSeq(text, 1, Len(with)) = with
Holds(text, part) == \E i \in 1..Len(text) + 1 : Starts(SubSeq(text, i, Len(text)), part)

Compare(a, op, b) ==
    CASE op = "=" -> a = b [] op = "<>" -> a # b [] op = ">" -> a > b
      [] op = ">=" -> a >= b [] op = "<" -> a < b [] OTHER -> a <= b

\* compare_text, with the value of In and NotIn a set of texts.
MatchesText(text, op, value) ==
    CASE op = "=" -> text = value
      [] op = "<>" -> text # value
      [] op = "contains" -> Holds(Lower(text), Lower(value))
      [] op = "not contains" -> ~Holds(Lower(text), Lower(value))
      [] op = "starts" -> Starts(Lower(text), Lower(value))
      [] op = "in" -> text \in value
      [] op = "not in" -> text \notin value
      [] op = "null" -> text = <<>>
      [] op = "not null" -> text # <<>>

\* compare_num: a question about NULL carries no number and matches nothing.
MatchesNumber(number, op, value) == op \notin {"null", "not null"} /\ Compare(number, op, value)

\* compare_date: the time of day does not count, and NotEquals takes the tasks
\* without a date.
MatchesDate(date, op, value) ==
    CASE op = "null" -> date = Null
      [] op = "not null" -> date # Null
      [] date = Null /\ op \notin {"null", "not null"} -> op = "<>"
      [] OTHER -> Compare(date \div 2, op, value \div 2)

\* compare_multi, for tags and participants.
MatchesMany(texts, op, value) ==
    CASE op = "=" -> value \in texts
      [] op = "<>" -> value \notin texts
      [] op = "contains" -> \E t \in texts : Holds(Lower(t), Lower(value))
      [] op = "not contains" -> ~ \E t \in texts : Holds(Lower(t), Lower(value))

LeafMatches(p, r) ==
    CASE p.field = "title" -> MatchesText(r.title, p.op, p.value)
      [] p.field = "tag" -> MatchesMany(r.tags, p.op, p.value)
      [] p.field = "number" -> MatchesNumber(r.number, p.op, p.value)
      [] p.field = "due" -> MatchesDate(r.due, p.op, p.value)

RECURSIVE Matches(_, _)
Matches(tree, r) ==
    CASE tree.node = "leaf" -> LeafMatches(tree.parts[1], r)
      [] tree.node = "and" -> \A i \in DOMAIN tree.parts : Matches(tree.parts[i], r)
      [] tree.node = "or" -> \E i \in DOMAIN tree.parts : Matches(tree.parts[i], r)

---------------------------------------------------------------------------
(* In SQLite: compile_node, and what its clauses mean.                     *)

\* A faulty variant: the text is put into the pattern as it is.
AsTyped(text) == text

\* escape_like
EscapeLike(text) ==
    FlattenSeq([i \in DOMAIN text |->
                  IF text[i] \in {"%", "_", "\\"} THEN <<"\\", text[i]>> ELSE <<text[i]>>])

\* LIKE ... ESCAPE '\', which does not tell the case of ASCII letters.
RECURSIVE Like(_, _)
Like(text, pattern) ==
    CASE pattern = <<>> -> text = <<>>
      [] pattern # <<>> /\ Head(pattern) = "%" ->
            \E i \in 1..Len(text) + 1 : Like(SubSeq(text, i, Len(text)), Tail(pattern))
      [] pattern # <<>> /\ Head(pattern) = "_" ->
            text # <<>> /\ Like(Tail(text), Tail(pattern))
      [] OTHER ->
            LET literal == IF Head(pattern) = "\\" THEN Tail(pattern) ELSE pattern
            IN  /\ text # <<>> /\ LowerAscii(<<Head(text)>>) = LowerAscii(<<Head(literal)>>)
                /\ Like(Tail(text), Tail(literal))

Containing(value) == <<"%">> \o EscapeLike(value) \o <<"%">>
StartingWith(value) == EscapeLike(value) \o <<"%">>

SqlText(text, op, value) ==
    CASE op = "=" -> text = value
      [] op = "<>" -> text # value
      [] op = "contains" -> Like(text, Containing(value))
      [] op = "not contains" -> ~Like(text, Containing(value))
      [] op = "starts" -> Like(text, StartingWith(value))
      [] op = "in" -> IF value = {} THEN FALSE ELSE text \in value
      [] op = "not in" -> IF value = {} THEN TRUE ELSE text \notin value
      [] op = "null" -> FALSE
      [] op = "not null" -> TRUE

\* Neither a title nor a number of the index is ever NULL.
SqlNumber(number, op, value) ==
    CASE op = "null" -> FALSE [] op = "not null" -> TRUE [] OTHER -> Compare(number, op, value)

\* compile_leaf on dates; a comparison with NULL selects nothing.
SqlDate(date, op, value) ==
    CASE op = "null" -> date = Null
      [] op = "not null" -> date # Null
      [] OTHER -> date # Null /\ Compare(date, op, value)

\* compile_membership: the condition on one tag, under EXISTS or NOT EXISTS.
SqlMembership(texts, op, value) ==
    LET Cond(t) == CASE op = "=" -> t = value
                     [] op = "<>" -> t # value
                     [] OTHER -> Like(t, Containing(value))
        exists == \E t \in texts : Cond(t)
    IN  IF op \in {"<>", "not contains"} THEN ~exists ELSE exists

SqlLeaf(p, r) ==
    CASE p.field = "title" -> SqlText(r.title, p.op, p.value)
      [] p.field = "tag" -> SqlMembership(r.tags, p.op, p.value)
      [] p.field = "number" -> SqlNumber(r.number, p.op, p.value)
      [] p.field = "due" -> SqlDate(r.due, p.op, p.value)

\* An empty conjunction is 1=1, an empty disjunction 1=0.
RECURSIVE SqlMatches(_, _)
SqlMatches(tree, r) ==
    CASE tree.node = "leaf" -> SqlLeaf(tree.parts[1], r)
      [] tree.node = "and" -> \A i \in DOMAIN tree.parts : SqlMatches(tree.parts[i], r)
      [] tree.node = "or" -> \E i \in DOMAIN tree.parts : SqlMatches(tree.parts[i], r)

---------------------------------------------------------------------------
(* The smart views of the task.                                            *)

EndOfWeek(day) == day + (6 - (day % 7))

\* A faulty variant: what is due today counts as past.
BucketFromTomorrow(due, day) ==
    CASE due <= day -> "none"
      [] due = day + 1 -> "tomorrow"
      [] due > day + 1 /\ due <= EndOfWeek(day) -> "this week"
      [] OTHER -> "later"

\* upcoming_bucket
UpcomingBucket(due, day) ==
    CASE due < day -> "none"
      [] due = day -> "today"
      [] due = day + 1 -> "tomorrow"
      [] due > day + 1 /\ due <= EndOfWeek(day) -> "this week"
      [] OTHER -> "later"

DayOf(date) == date \div 2

Overdue(r, day) == r.active /\ r.due # Null /\ DayOf(r.due) < day
Unscheduled(r) == r.active /\ r.start = Null /\ r.due = Null
Today(r, day) ==
    r.active /\ ((r.due # Null /\ DayOf(r.due) = day) \/ (r.start # Null /\ DayOf(r.start) <= day))
Upcoming(r, day) == IF r.active /\ r.due # Null THEN UpcomingBucket(DayOf(r.due), day) ELSE "none"

---------------------------------------------------------------------------
\* The view as it was stored, and the task as it was indexed.
Init == row \in RowsOfIndex /\ view \in Trees /\ today = FirstDay

\* The task is finished or cancelled, and indexed again.
Finish ==
    /\ row.active
    /\ row' = [row EXCEPT !.active = FALSE]
    /\ UNCHANGED <<view, today>>

\* Midnight.
NextDay ==
    /\ today < MaxDay
    /\ today' = today + 1
    /\ UNCHANGED <<row, view>>

Next == Finish \/ NextDay

Spec == Init /\ [][Next]_vars

---------------------------------------------------------------------------
(* What the views promise.                                                 *)

\* An accented capital, which only one of the two evaluators folds.
Accented(text) == Lower(text) # LowerAscii(text)

\* Where the two evaluators part, all of them places where the code differs
\* from itself: NotEquals on tags (NOT EXISTS another tag, in SQL), a question
\* about NULL on an empty title or on a number, an accented capital in a pattern
\* or in the text it is looked for, NotEquals on a missing date, and a due date
\* with a time of day at the boundary of a comparison with that day.
Parted(p, r) ==
    \/ p.field = "tag" /\ p.op = "<>" /\ (p.value \in r.tags <=> r.tags \subseteq {p.value})
    \/ p.field = "title" /\ p.op \in {"null", "not null"} /\ r.title = <<>>
    \/ p.field = "number" /\ p.op = "not null"
    \/ p.op \in {"contains", "not contains", "starts"}
       /\ \E text \in {p.value} \cup (IF p.field = "tag" THEN r.tags ELSE {r.title}) : Accented(text)
    \/ /\ p.field = "due" /\ p.op \notin {"null", "not null"}
       /\ \/ r.due = Null /\ p.op = "<>"
          \/ r.due # Null /\ (r.due % 2) = 1 /\ p.op \in {"=", "<>", ">", "<="}

RECURSIVE Predicates(_)
Predicates(tree) ==
    IF tree.node = "leaf" THEN {tree.parts[1]}
    ELSE UNION {Predicates(tree.parts[i]) : i \in DOMAIN tree.parts}

\* The SQL a saved view compiles to selects exactly the tasks its predicates
\* match in memory, whatever wildcards the texts hold and however the predicates
\* are nested, unless one of them meets a task on which the code parts (Parted).
SavedViewsAgree ==
    (\A p \in Predicates(view) : ~Parted(p, row)) => (SqlMatches(view, row) <=> Matches(view, row))

Distance(bucket) ==
    CASE bucket = "none" -> 0 [] bucket = "today" -> 1 [] bucket = "tomorrow" -> 2
      [] bucket = "this week" -> 3 [] OTHER -> 4

\* An unfinished task is in exactly one of Overdue, the groups of Upcoming and
\* Unscheduled, or has only a start and is in Today once that has come; midnight
\* moves it to a nearer group only, and out of Today only to be overdue.
SmartViewsCoverTasks ==
    row.active =>
        /\ Cardinality({v \in {"overdue", "unscheduled", "upcoming"} :
                CASE v = "overdue" -> Overdue(row, today)
                  [] v = "unscheduled" -> Unscheduled(row)
                  [] v = "upcoming" -> Upcoming(row, today) # "none"})
             = IF row.due = Null /\ row.start # Null THEN 0 ELSE 1
        /\ Upcoming(row, today) = "today" => Today(row, today)
        /\ Distance(Upcoming(row, today + 1)) <= Distance(Upcoming(row, today))
        /\ Overdue(row, today) => Overdue(row, today + 1)
        /\ Today(row, today) => Today(row, today + 1) \/ Overdue(row, today + 1)
================================================================================
