--------------------------- MODULE MCComponents ---------------------------
(***************************************************************************)
(* The components that share no state in the code, one at a time: part says  *)
(* which of them runs, the others rest in their initial states.  The         *)
(* variables are the modules' own; three that two modules name alike have a  *)
(* name each here.                                                           *)
(***************************************************************************)
EXTENDS Integers, Sequences, FiniteSets

CONSTANTS Nothing, Parts

VARIABLES
    part,
    now, core, drafts, undoLog, redoLog, dirty, lastSave, files, index, marks,
    keys, sweeps, typed, handed, swept, leftover,                      \* Description
    phase, fragment, stack, out, captured, stored,                     \* Sanitizer
    type, lines, html, conversions, conversionSteps, written,          \* Comments
    documents, registered, recorded, known, rows, taskIndex, tags, plain, fts, rooted, job,
    versions, commands, crashes, indexed, searched, rebuilt, tornSearch, \* Index
    row, view, today,                                                  \* Views
    file, document, unsaved, comment, others, fileSteps                \* Xml

---------------------------------------------------------------------------
(* Rows and saved views.  Dates are half days: an odd one has a time.      *)

IndexRow(title, tagged, number, start, due, active) ==
    [title |-> title, tags |-> tagged, number |-> number, start |-> start, due |-> due,
     active |-> active]
Titles == {<<>>} \cup [1 .. 1 -> {"a", "A", "_", "e'", "E'"}] \cup [1 .. 2 -> {"A", "_", "E'"}]
Patterns == {<<"a">>, <<"_">>, <<"A", "_">>, <<"e'">>}
SampleRows ==
    {IndexRow(t, {}, 5, Nothing, Nothing, TRUE) : t \in Titles}
      \cup {IndexRow(<<"a">>, g, 7, Nothing, 9, TRUE) : g \in SUBSET Patterns}
      \cup {IndexRow(<<"_">>, {}, 3, s, d, a) :
                s \in {Nothing, 8, 12}, d \in {Nothing, 5, 8, 9, 13, 14, 17}, a \in BOOLEAN}

Predicate(field, op, value) == [field |-> field, op |-> op, value |-> value]
SamplePredicates ==
    {Predicate("title", o, v) : o \in {"=", "<>", "contains", "not contains", "starts"},
                                v \in Patterns}
      \cup {Predicate("title", o, v) : o \in {"in", "not in"}, v \in {{}, {<<"a">>, <<"_">>}}}
      \cup {Predicate(f, o, Nothing) : f \in {"title", "number"}, o \in {"null", "not null"}}
      \cup {Predicate("tag", o, v) : o \in {"=", "<>", "contains", "not contains"}, v \in Patterns}
      \cup {Predicate("number", o, 5) : o \in {"=", "<>", ">", ">=", "<", "<="}}
      \cup {Predicate("due", o, 8) : o \in {"=", "<>", ">", ">=", "<", "<=", "null", "not null"}}

SampleTree(node, parts) == [node |-> node, parts |-> parts]
OnItsOwn(p) == SampleTree("leaf", <<p>>)
SampleTrees ==
    LET leaves == {OnItsOwn(p) : p \in SamplePredicates}
        onePattern == {"title", "tag"} \X {"=", "<>", "contains", "not contains", "starts"}
        nested == {OnItsOwn(p) : p \in {p \in SamplePredicates :
                      <<p.field, p.op>> \in onePattern => p.value = <<"A", "_">>}}
        few == {OnItsOwn(Predicate("title", "contains", <<"_">>)),
                OnItsOwn(Predicate("due", "<", 8)),
                SampleTree("or", <<OnItsOwn(Predicate("tag", "=", <<"a">>)),
                                   OnItsOwn(Predicate("number", ">=", 5))>>)}
    IN  leaves \cup {SampleTree(node, <<>>) : node \in {"and", "or"}}
          \cup {SampleTree(node, <<p, q>>) : node \in {"and", "or"}, p \in nested, q \in few}

V == INSTANCE Views WITH
        Null <- Nothing, RowsOfIndex <- SampleRows, Trees <- SampleTrees,
        FirstDay <- 4, MaxDay <- 7

---------------------------------------------------------------------------
\* Two tasks; the image store has two names to give.
D == INSTANCE Description WITH
        None <- Nothing, Tasks <- {"t1", "t2"}, Opaque <- {}, Images <- {"i1"},
        Files <- {"f1", "f2"}, Debounce <- 1, AutosaveEvery <- 2, Grace <- 1,
        MaxUndo <- 2, MaxTime <- 2, MaxKeys <- 2, MaxGc <- 2

---------------------------------------------------------------------------
(* Fragments: trees of two levels below up to two roots.                   *)

SanitizerNode(tag, attrs, kids) == [tag |-> tag, attrs |-> attrs, kids |-> kids]
Childless(tag) == SanitizerNode(tag, {}, <<>>)
Attribute(name, value, id) == {[name |-> name, value |-> value, id |-> id]}
Img(attrs) == SanitizerNode("img", attrs, <<>>)

Leaves ==
    {Childless(tag) : tag \in {"one", "two", "#comment", "br"}}
      \cup {Img(a) : a \in {Attribute("src", "managed", 0), Attribute("src", "data", 1),
                            Attribute("src", "data", 2) \cup Attribute("onload", "good", 0),
                            Attribute("src", "external", 0), {}}}
Hosts == {<<"p", {}>>, <<"center", {}>>, <<"b", Attribute("style", "good", 0)>>,
          <<"div", Attribute("onclick", "good", 0)>>, <<"script", {}>>, <<"scr<script", {}>>,
          <<"a", Attribute("href", "good", 0)>>, <<"a", Attribute("href", "bad", 0)>>}

\* What an HTML parser can put into an element: no block into a paragraph, no
\* link into a link, text only into a script.
Fits(host, kid) ==
    /\ host = "p" => kid \notin {"p", "center", "div"}
    /\ host = "a" => kid # "a"
    /\ host = "script" => kid \in {"one", "two"}
Around(kids) ==
    {SanitizerNode(h[1], h[2], kids) :
        h \in {h \in Hosts : \A i \in DOMAIN kids : Fits(h[1], kids[i].tag)}}

PastedFragments ==
    {<<x, y>> : x \in Leaves, y \in UNION {Around(<<l>>) : l \in Leaves}}
      \cup {<<x>> : x \in UNION {Around(<<l, m>>) : l \in Leaves, m \in Leaves}}
      \cup {<<x>> : x \in UNION {Around(<<y, Childless("two")>>) :
                            y \in UNION {Around(<<l>>) : l \in Leaves}}}

S == INSTANCE Sanitizer WITH Fragments <- PastedFragments, GoodPayloads <- {1}

CommentTexts == UNION {[1 .. n -> {<<>>, <<"one">>, <<"two">>}] : n \in 0 .. 3}
CommentFragments ==
    {<<SanitizerNode(h, {}, <<Childless("one")>>), Childless(x), Childless("two")>> :
        h \in {"p", "div", "center", "script", "scr<script", "b"}, x \in {"br", "#comment", "img", "two"}}
      \cup {<<SanitizerNode("center", {}, <<SanitizerNode("p", {}, <<Childless("one")>>), Childless("two")>>)>>}

C == INSTANCE Comments WITH
        Texts <- CommentTexts, Fragments <- CommentFragments, MaxSteps <- 4,
        steps <- conversionSteps

\* One document below the workspace, one linked; a file may number a task twice.
I == INSTANCE Index WITH
        Missing <- Nothing, Managed <- {"m"}, Linked <- {"l"},
        Contents <- {<<"t2", "t1">>, <<"t1", "t1">>},
        MaxVersions <- 1, MaxCommands <- 3, MaxCrashes <- 1, torn <- tornSearch

---------------------------------------------------------------------------
(* Files of other programs: encodings and declarations, comments in every    *)
(* form, unknown content between them.                                       *)

XmlEvent(kind, tag) == [kind |-> kind, tag |-> tag, attrs |-> <<>>, raw |-> <<>>]
RawEvent(kind, raw) == [kind |-> kind, tag |-> "", attrs |-> <<>>, raw |-> raw]
Other(kind, raw) ==
    [kind |-> kind, tag |-> "OTHER", attrs |-> <<[name |-> "K", value |-> raw]>>, raw |-> <<>>]

RawTexts == {<<"x">>, <<"&", "lt", ";", "x">>, <<"&", "amp", ";", "lt", ";">>,
             <<"&", "foo", ";">>, <<"&", "lt", ";", "&", "foo", ";">>, <<"&", "#10", ";">>}
Bodies == {<<>>, <<RawEvent("cdata", <<"<", "x">>)>>,
           <<RawEvent("text", <<"x">>), RawEvent("cdata", <<"&", "lt", ";">>)>>}
            \cup {<<RawEvent("text", r)>> : r \in RawTexts}
CommentEvents ==
    {<<>>} \cup {<<XmlEvent("start", "COMMENTS")>> \o b \o <<XmlEvent("end", "COMMENTS")>> :
                    b \in Bodies}
Unknowns ==
    {<<>>, <<RawEvent("comment", <<"&", "x">>)>>,
     <<RawEvent("pi", <<"x">>), RawEvent("text", <<"\n">>)>>}
      \cup {<<Other("empty", r)>> : r \in RawTexts}
      \cup {<<Other("start", r), RawEvent("text", r), XmlEvent("end", "OTHER")>> : r \in RawTexts}
TaskStart(attrs) == [XmlEvent("start", "TASK") EXCEPT !.attrs = attrs]
XmlAttr(name, raw) == [name |-> name, value |-> raw]
TaskStarts ==
    {TaskStart(<<>>), TaskStart(<<XmlAttr("PRIORITY", <<"7">>)>>),
     TaskStart(<<XmlAttr("PRIORITY", <<"-2">>), XmlAttr("K", <<"&", "lt", ";">>)>>)}
Categories ==
    {<<>>, <<XmlEvent("start", "CATEGORY"), RawEvent("text", <<"&", "amp", ";">>),
             XmlEvent("end", "CATEGORY"), XmlEvent("empty", "CATEGORY")>>}
Encodings == {<<"utf8", FALSE>>, <<"utf8", TRUE>>, <<"utf16le", TRUE>>, <<"utf16be", TRUE>>}
Declarations ==
    {<<>>} \cup {<<XmlEvent("decl", l)>> : l \in {"utf-8", "utf-16", "utf-16be", "other"}}

InRoot(events) == <<XmlEvent("start", "TODOLIST")>> \o events \o <<XmlEvent("end", "TODOLIST")>>
XmlFile(e, events) == [bytes |-> e[1], bom |-> e[2], events |-> events]
SampleFiles ==
    {XmlFile(e, <<XmlEvent("decl", "utf-8")>>
                  \o InRoot(<<t>> \o c \o g \o u
                             \o <<XmlEvent("end", "TASK"), RawEvent("text", <<"\n">>)>>)) :
        e \in {<<"utf8", FALSE>>, <<"utf16le", TRUE>>}, t \in TaskStarts, c \in CommentEvents,
        g \in Categories, u \in Unknowns}
      \cup {XmlFile(e, d \o p \o InRoot(u \o <<XmlEvent("empty", "TASK")>>) \o p) :
              e \in Encodings, d \in Declarations, u \in {<<>>, <<RawEvent("pi", <<"x">>)>>},
              p \in {<<>>, <<RawEvent("comment", <<"x">>)>>}}

X == INSTANCE Xml WITH
        Closed <- Nothing, ForeignFiles <- SampleFiles,
        UserComments <- {<<>>, <<"x", "<">>, <<"&", "lt", ";">>}, Priorities <- {<<"5">>, <<"7">>},
        DefaultPriority <- <<"5">>, MaxSteps <- 3, steps <- fileSteps

ASSUME ComponentsAssumption ==
    /\ D!DescriptionAssumption /\ I!IndexAssumption
    /\ V!ViewsAssumption /\ X!XmlAssumption

---------------------------------------------------------------------------
descriptionVars ==
    <<now, core, drafts, undoLog, redoLog, dirty, lastSave, files, index, marks,
      keys, sweeps, typed, handed, swept, leftover>>
sanitizerVars == <<phase, fragment, stack, out, captured, stored>>
commentsVars == <<type, lines, html, conversions, conversionSteps, written>>
indexVars ==
    <<documents, registered, recorded, known, rows, taskIndex, tags, plain, fts, rooted, job,
      versions, commands, crashes, indexed, searched, rebuilt, tornSearch>>
viewsVars == <<row, view, today>>
xmlVars == <<file, document, unsaved, comment, others, fileSteps>>
vars == <<part, descriptionVars, sanitizerVars, commentsVars, indexVars,
          viewsVars, xmlVars>>

\* A component that does not run rests in one of its initial states.
Init ==
    /\ part \in Parts
    /\ D!Init /\ S!Init
    /\ C!Init /\ (part = "comments" \/ type = "none")
    /\ I!Init /\ (part = "index" \/ (registered = {} /\ known /\ rooted
                                      /\ \A d \in I!Docs : documents[d] = Nothing))
    /\ V!Init /\ (part = "views" \/ (row = IndexRow(<<>>, {}, 5, Nothing, Nothing, TRUE)
                                      /\ view = SampleTree("and", <<>>)))
    /\ X!Init /\ (part = "xml" \/ file = XmlFile(<<"utf8", FALSE>>,
                                             InRoot(<<XmlEvent("empty", "TASK")>>)))

\* Only the variables of the component that runs change.
Next ==
    \/ /\ part = "description" /\ D!Next
       /\ UNCHANGED <<part, sanitizerVars, commentsVars,
                    indexVars, viewsVars, xmlVars>>
    \/ /\ part = "sanitizer" /\ S!Next
       /\ UNCHANGED <<part, descriptionVars, commentsVars,
                    indexVars, viewsVars, xmlVars>>
    \/ /\ part = "comments" /\ C!Next
       /\ UNCHANGED <<part, descriptionVars, sanitizerVars,
                    indexVars, viewsVars, xmlVars>>
    \/ /\ part = "index" /\ I!Next
       /\ UNCHANGED <<part, descriptionVars, sanitizerVars, commentsVars,
                    viewsVars, xmlVars>>
    \/ /\ part = "views" /\ V!Next
       /\ UNCHANGED <<part, descriptionVars, sanitizerVars, commentsVars,
                    indexVars, xmlVars>>
    \/ /\ part = "xml" /\ X!Next
       /\ UNCHANGED <<part, descriptionVars, sanitizerVars, commentsVars,
                    indexVars, viewsVars>>

Spec == Init /\ [][Next]_vars

---------------------------------------------------------------------------
(* The properties of the modules, each in the runs of its component.       *)

\* No undo or redo of a description writes back a text of another branch.
UndoReplays == part = "description" => D!UndoReplays

\* What the user typed last is in the draft or the description.
TypingSurvives == part = "description" => D!TypingSurvives

\* The garbage collector takes no image that anything still mentions.
ImagesSurvive == part = "description" => D!ImagesSurvive

\* The sanitizer writes well-formed HTML and changes nothing the second time.
SanitizedIsStable == part = "sanitizer" => S!SanitizedIsStable

\* A paste keeps all text and every usable image outside the dropped elements.
PastedContentSurvives == part = "sanitizer" => S!PastedContentSurvives

\* Saves, conversions and their undos keep the text and lines of a comment.
CommentsKeepText == part = "comments" => C!CommentsKeepText

\* The index holds one version of each document, and the last one after a rebuild.
IndexMatchesFiles == part = "index" => I!IndexMatchesFiles

\* Both search stores hold what the last whole rebuild computed.
SearchStoresAgree == part = "index" => I!SearchStoresAgree

\* The SQL of a saved view selects what its predicates match in memory.
SavedViewsAgree == part = "views" => V!SavedViewsAgree

\* Every unfinished task is in exactly one smart view, today and tomorrow.
SmartViewsCoverTasks == part = "views" => V!SmartViewsCoverTasks

\* A document of another program keeps its content through edits and saves.
DocumentIsLossless == part = "xml" => X!DocumentIsLossless
=============================================================================
