---------------------------------- MODULE Xml -----------------------------------
(***************************************************************************)
(* The lossless XML core: a document read from a file of any encoding        *)
(* (domain/encoding.rs, domain/xml_parser.rs), its tree, the fields of a task *)
(* written back into it (domain/mappers.rs), and the file written again      *)
(* (domain/xml_serializer.rs).  A file is a sequence of the tokenizer's       *)
(* events; raw text is a sequence of characters and names, so that escaping   *)
(* and its inverse can be told from the identity.                            *)
(***************************************************************************)
EXTENDS Naturals, Sequences, FiniteSets, SequencesExt, Functions

CONSTANTS Closed,          \* no document, no text: a model value
          ForeignFiles,    \* files of other programs
          UserComments,    \* comments a user writes
          Priorities,      \* values of PRIORITY that are numbers from 0 to 10
          DefaultPriority, \* the priority of a task without one
          MaxSteps         \* bound on edits and saves

\* What the constants are; assumed by the module that gives them values.
XmlAssumption == MaxSteps \in Nat /\ DefaultPriority \in Priorities

VARIABLES file,            \* on disk: [bytes, bom, events]
          document,        \* in memory: [encoding, decl, root]
          unsaved,         \* edited since the last save
          comment,         \* history: the comment of the task, as the user last saw it
          others,          \* history: what else the root of the first file said
          steps

vars == <<file, document, unsaved, comment, others, steps>>

Event(kind, tag, attrs, raw) == [kind |-> kind, tag |-> tag, attrs |-> attrs, raw |-> raw]
Element(tag, attrs, kids) == [kind |-> "element", tag |-> tag, attrs |-> attrs, kids |-> kids, text |-> <<>>]
Data(kind, text) == [kind |-> kind, tag |-> "", attrs |-> <<>>, kids |-> <<>>, text |-> text]

---------------------------------------------------------------------------
(* Characters.                                                             *)

Entities == ("lt" :> "<") @@ ("gt" :> ">") @@ ("amp" :> "&") @@ ("quot" :> "\"") @@ ("#10" :> "\n")

\* escape_xml: a newline is written as it is.
Escape(text) ==
    FlattenSeq([i \in DOMAIN text |->
        LET names == {n \in DOMAIN Entities \ {"#10"} : Entities[n] = text[i]}
        IN  IF names = {} THEN <<text[i]>> ELSE <<"&", CHOOSE n \in names : TRUE, ";">>])

\* unescape_xml, for attributes: a reference it does not know, or without its
\* semicolon, stays as it is.
RECURSIVE Unescape(_)
Unescape(raw) ==
    CASE raw = <<>> -> <<>>
      [] raw # <<>> /\ Head(raw) # "&" -> <<Head(raw)>> \o Unescape(Tail(raw))
      [] OTHER ->
            LET ends == {k \in DOMAIN raw : raw[k] = ";"}
                end == CHOOSE k \in ends : \A j \in ends : k <= j
            IN  IF ends = {} THEN raw
                ELSE (IF end = 3 /\ raw[2] \in DOMAIN Entities
                      THEN <<Entities[raw[2]]>> ELSE SubSeq(raw, 1, end))
                     \o Unescape(SubSeq(raw, end + 1, Len(raw)))

\* xml_decode_text: one reference that the tokenizer does not know leaves the
\* whole text as it is.
Readable(raw) ==
    \A i \in DOMAIN raw : raw[i] = "&" =>
        i + 2 <= Len(raw) /\ raw[i + 1] \in DOMAIN Entities /\ raw[i + 2] = ";"
DecodeText(raw) == IF Readable(raw) THEN Unescape(raw) ELSE raw

---------------------------------------------------------------------------
(* Reading.                                                                *)

\* detect_bom; UTF-16 without a mark is not recognised.
BomEncoding(f) == CASE ~f.bom -> "utf8" [] f.bytes = "utf8" -> "utf8bom" [] OTHER -> f.bytes

\* resolve_encoding_from_attr
Declared(decl) ==
    CASE decl = "utf-8" -> "utf8" [] decl = "utf-16" -> "utf16le" [] decl = "utf-16be" -> "utf16be"
      [] OTHER -> "unknown"

DeclOf(f) == IF f.events[1].kind = "decl" THEN f.events[1].tag ELSE "none"

\* The declaration has the last word on how the document will be written.
EncodingOf(f) == IF Declared(DeclOf(f)) # "unknown" THEN Declared(DeclOf(f)) ELSE BomEncoding(f)

DecodeAttrs(attrs) == [i \in DOMAIN attrs |-> [attrs[i] EXCEPT !.value = Unescape(@)]]

\* parse_element_tree: what is outside the root has no parent and is dropped,
\* the declaration is kept by the encoding.
RootOf(events) ==
    LET Adopt(stack, node) ==
            IF stack = <<>> THEN stack
            ELSE Front(stack) \o <<[Last(stack) EXCEPT !.kids = Append(@, node)]>>
        Step(s, e) ==
            CASE e.kind = "start" ->
                    [s EXCEPT !.stack = Append(@, Element(e.tag, DecodeAttrs(e.attrs), <<>>))]
              [] e.kind = "empty" ->
                    LET node == Element(e.tag, DecodeAttrs(e.attrs), <<>>)
                    IN  IF s.stack = <<>> THEN [s EXCEPT !.root = node]
                        ELSE [s EXCEPT !.stack = Adopt(@, node)]
              [] e.kind = "end" ->
                    IF Len(s.stack) = 1 THEN [stack |-> <<>>, root |-> s.stack[1]]
                    ELSE [s EXCEPT !.stack = Adopt(Front(@), Last(@))]
              [] e.kind = "text" -> [s EXCEPT !.stack = Adopt(@, Data("text", DecodeText(e.raw)))]
              [] e.kind \in {"comment", "cdata", "pi"} ->
                    [s EXCEPT !.stack = Adopt(@, Data(e.kind, e.raw))]
              [] OTHER -> s
    IN  FoldLeft(Step, [stack |-> <<>>, root |-> Closed], events).root

ParseXml(f) == [encoding |-> EncodingOf(f), decl |-> DeclOf(f), root |-> RootOf(f.events)]

---------------------------------------------------------------------------
(* Writing.                                                                *)

EncodeAttrs(attrs) == [i \in DOMAIN attrs |-> [attrs[i] EXCEPT !.value = Escape(@)]]

\* write_element, write_node.  An empty text leaves no event.
RECURSIVE WriteNode(_)
WriteNode(n) ==
    CASE n.kind = "element" /\ n.kids = <<>> -> <<Event("empty", n.tag, EncodeAttrs(n.attrs), <<>>)>>
      [] n.kind = "element" /\ n.kids # <<>> ->
            <<Event("start", n.tag, EncodeAttrs(n.attrs), <<>>)>>
              \o FlattenSeq([i \in DOMAIN n.kids |-> WriteNode(n.kids[i])])
              \o <<Event("end", n.tag, <<>>, <<>>)>>
      [] n.kind = "text" ->
            IF n.text = <<>> THEN <<>> ELSE <<Event("text", "", <<>>, Escape(n.text))>>
      [] OTHER -> <<Event(n.kind, "", <<>>, n.text)>>

SerializeXml(d) ==
    [bytes |-> IF d.encoding = "utf8bom" THEN "utf8" ELSE d.encoding,
     bom |-> d.encoding # "utf8",
     events |-> (IF d.decl = "none" THEN <<>> ELSE <<Event("decl", d.decl, <<>>, <<>>)>>)
                   \o WriteNode(d.root)]

---------------------------------------------------------------------------
(* The task: the root's first element.                                     *)

TaskAt(root) == CHOOSE i \in DOMAIN root.kids : root.kids[i].kind = "element"
                    /\ \A j \in 1..i - 1 : root.kids[j].kind # "element"
Kids(n, tag) == SelectSeq(n.kids, LAMBDA k : k.kind = "element" /\ k.tag = tag)

\* A faulty variant: CDATA is not text.
TextWithoutCData(n) ==
    FlattenSeq([i \in DOMAIN n.kids |-> IF n.kids[i].kind = "text" THEN n.kids[i].text ELSE <<>>])

TextContent(n) ==
    FlattenSeq([i \in DOMAIN n.kids |-> IF n.kids[i].kind \in {"text", "cdata"} THEN n.kids[i].text ELSE <<>>])

ValueOf(n, name) ==
    LET at == {i \in DOMAIN n.attrs : n.attrs[i].name = name}
    IN  IF at = {} THEN Closed ELSE n.attrs[CHOOSE i \in at : TRUE].value

\* set_attr
SetAttr(attrs, name, value) ==
    IF \E i \in DOMAIN attrs : attrs[i].name = name
    THEN [i \in DOMAIN attrs |-> IF attrs[i].name = name THEN [attrs[i] EXCEPT !.value = value]
                                 ELSE attrs[i]]
    ELSE Append(attrs, [name |-> name, value |-> value])

\* read_task: a priority that is no number is the default one; the last COMMENTS
\* of the task counts.
ReadTask(root) ==
    LET elem == root.kids[TaskAt(root)]
        Texts(tag) == LET found == Kids(elem, tag) IN [i \in DOMAIN found |-> TextContent(found[i])]
    IN  [priority |-> IF ValueOf(elem, "PRIORITY") \in Priorities
                      THEN ValueOf(elem, "PRIORITY") ELSE DefaultPriority,
         categories |-> Texts("CATEGORY"),
         comment |-> IF Texts("COMMENTS") = <<>> THEN Closed ELSE Last(Texts("COMMENTS"))]

\* write_task: the attributes of the fields are set in their places, the children
\* with fields of their own are taken out and written after the rest, as plain text.
WriteTask(root, task) ==
    LET Rest(k) == ~(k.kind = "element" /\ k.tag \in {"CATEGORY", "COMMENTS"})
        Written(tag, text) == Element(tag, <<>>, <<Data("text", text)>>)
        categories == [i \in DOMAIN task.categories |-> Written("CATEGORY", task.categories[i])]
        remark == IF task.comment = Closed THEN <<>> ELSE <<Written("COMMENTS", task.comment)>>
    IN  [root EXCEPT !.kids[TaskAt(root)] =
            [@ EXCEPT !.attrs = SetAttr(@, "PRIORITY", task.priority),
                      !.kids = SelectSeq(@, Rest) \o categories \o remark]]

---------------------------------------------------------------------------
(* Reference: what XML says a file says, apart from the rules the program     *)
(* reads and writes it with.                                                *)

\* The value of character data.  `sure` is FALSE where the program does not read
\* what XML says: at a reference to an entity that XML does not predefine, and at
\* a newline an attribute holds as &#10;, which it writes as a newline.
RECURSIVE Decoded(_)
Decoded(raw) ==
    CASE raw = <<>> -> <<>>
      [] raw # <<>> /\ Head(raw) = "&" ->
            <<IF raw[2] \in DOMAIN Entities THEN Entities[raw[2]] ELSE raw[2]>>
              \o Decoded(SubSeq(raw, 4, Len(raw)))
      [] OTHER -> <<Head(raw)>> \o Decoded(Tail(raw))

Value(kind, raw) ==
    LET names == {raw[i + 1] : i \in {i \in DOMAIN raw : raw[i] = "&" /\ i < Len(raw)}}
        spaced == [i \in DOMAIN raw |-> IF raw[i] = "\n" THEN " " ELSE raw[i]]
    IN  CASE kind = "text" -> [sure |-> names \subseteq DOMAIN Entities, text |-> Decoded(raw)]
          [] kind = "attr" -> [sure |-> names \subseteq DOMAIN Entities \ {"#10"},
                               text |-> Decoded(spaced)]
          [] OTHER -> [sure |-> TRUE, text |-> raw]

\* The events of the root without those of the task's COMMENTS and CATEGORYs, and
\* with <a></a> and <a/> the same.
Own == {"COMMENTS", "CATEGORY"}
Edge(events, kinds, i) == events[i].kind \in kinds /\ events[i].tag \in Own
InField(events, i) ==
    \/ events[i].tag \in Own
    \/ Cardinality({j \in 1..i : Edge(events, {"start"}, j)})
         > Cardinality({j \in 1..i : Edge(events, {"end"}, j)})

Says(e) ==
    LET attrs == [i \in DOMAIN e.attrs |-> [name |-> e.attrs[i].name,
                                            value |-> Value("attr", e.attrs[i].value)]]
        Saying(kind) == [kind |-> kind, tag |-> e.tag, value |-> Value(e.kind, e.raw),
                         attrs |-> IF kind = "end" THEN <<>> ELSE attrs]
    IN  IF e.kind = "empty" THEN <<Saying("start"), Saying("end")>> ELSE <<Saying(e.kind)>>

\* The character data of each of the task's elements of one name.
DataOf(events, tag) ==
    LET starts == SelectSeq([i \in DOMAIN events |-> i],
                            LAMBDA i : events[i].kind \in {"start", "empty"} /\ events[i].tag = tag)
        Until(i) == IF events[i].kind = "empty" THEN i
                    ELSE CHOOSE j \in i..Len(events) :
                            /\ events[j].kind = "end" /\ events[j].tag = tag
                            /\ \A k \in i..j - 1 : events[k].kind # "end" \/ events[k].tag # tag
        Values(i) == [k \in 1..Until(i) - i |-> Value(events[i + k].kind, events[i + k].raw)]
    IN  [n \in DOMAIN starts |->
            LET values == Values(starts[n])
            IN  [sure |-> \A k \in DOMAIN values : values[k].sure,
                 text |-> FlattenSeq([k \in DOMAIN values |-> values[k].text])]]

Meaning(events) ==
    LET tags == {i \in DOMAIN events : events[i].kind \in {"start", "end", "empty"}}
        Inside(i) == /\ \E j \in tags : j <= i
                     /\ \E j \in tags : i <= j
                     /\ ~InField(events, i)
        inside == SelectSeq([i \in DOMAIN events |-> i], Inside)
    IN  [rest |-> FlattenSeq([n \in DOMAIN inside |-> Says(events[inside[n]])]),
         categories |-> DataOf(events, "CATEGORY")]

\* What the program was sure of is still said: in the same order, the attributes
\* of an element in any.  Of the task's attributes a priority that is no number
\* is replaced, and one that was missing is added.
SameValue(old, new) == old.sure => old.text = new.text
SameSaying(old, new) ==
    LET Fixed(a) == a.name = "PRIORITY" => a.value.text \in Priorities
        Names(attrs) == {attrs[i].name : i \in DOMAIN attrs}
    IN  /\ old.kind = new.kind /\ old.tag = new.tag
        /\ SameValue(old.value, new.value)
        /\ Names(new.attrs) \ Names(old.attrs)
             \subseteq (IF old.tag = "TASK" THEN {"PRIORITY"} ELSE {})
        /\ \A i \in DOMAIN old.attrs : Fixed(old.attrs[i]) =>
              \E j \in DOMAIN new.attrs : /\ new.attrs[j].name = old.attrs[i].name
                                          /\ SameValue(old.attrs[i].value, new.attrs[j].value)
Keeps(old, new) ==
    /\ Len(old.rest) = Len(new.rest) /\ Len(old.categories) = Len(new.categories)
    /\ \A i \in DOMAIN old.rest : SameSaying(old.rest[i], new.rest[i])
    /\ \A i \in DOMAIN old.categories : SameValue(old.categories[i], new.categories[i])

\* The comment a reader of XML sees; where XML and the program do not agree, the
\* one the program shows.
Remark(f) ==
    LET said == DataOf(f.events, "COMMENTS")
        shown == ReadTask(ParseXml(f).root).comment
    IN  IF said = <<>> THEN Closed ELSE IF Last(said).sure THEN Last(said).text ELSE shown

---------------------------------------------------------------------------
Step == steps < MaxSteps /\ steps' = steps + 1

Init ==
    /\ file \in ForeignFiles /\ document = Closed /\ unsaved = FALSE
    /\ comment = Closed /\ others = Closed /\ steps = 0

\* The file is opened, for the first time or after a save.
Open ==
    /\ document = Closed
    /\ file.bom \/ file.bytes = "utf8"
    /\ document' = ParseXml(file)
    /\ IF others = Closed
       THEN others' = Meaning(file.events) /\ comment' = Remark(file)
       ELSE UNCHANGED <<others, comment>>
    /\ UNCHANGED <<file, unsaved, steps>>

\* The comment of the task is edited.
EditComment(text) ==
    /\ Step
    /\ document # Closed
    /\ document' = [document EXCEPT !.root = WriteTask(@, [ReadTask(@) EXCEPT !.comment = text])]
    /\ comment' = text /\ unsaved' = TRUE
    /\ UNCHANGED <<file, others>>

\* Another field is edited: the ones modelled are written as they were read.
EditTask ==
    /\ Step
    /\ document # Closed
    /\ document' = [document EXCEPT !.root = WriteTask(@, ReadTask(@))]
    /\ unsaved' = TRUE
    /\ UNCHANGED <<file, comment, others>>

Save ==
    /\ Step
    /\ document # Closed
    /\ file' = SerializeXml(document) /\ unsaved' = FALSE
    /\ UNCHANGED <<document, comment, others>>

Close ==
    /\ document # Closed /\ ~unsaved
    /\ document' = Closed
    /\ UNCHANGED <<file, unsaved, comment, others, steps>>

Next ==
    \/ Open \/ EditTask \/ Save \/ Close
    \/ \E text \in UserComments : EditComment(text)

Spec == Init /\ [][Next]_vars

---------------------------------------------------------------------------
\* Whatever the file came as, and through any number of edits, saves and
\* reopenings: what its root holds says what XML said it says wherever the program
\* reads it so (Value, SameSaying name the exceptions), the fields the program
\* moves in their order and all else in its own; the comment is what the user last
\* saw; and what a save writes, in the encoding of the declaration, reads back as
\* the same document.
DocumentIsLossless ==
    document # Closed =>
        LET again == SerializeXml(document)
            read == ParseXml(again)
        IN  /\ Keeps(others, Meaning(again.events))
            /\ ReadTask(document.root).comment = comment
            /\ again.bom \/ again.bytes = "utf8"
            /\ read.encoding = document.encoding /\ read.decl = document.decl
            /\ Meaning(SerializeXml(read).events) = Meaning(again.events)
            /\ ReadTask(read.root) = ReadTask(document.root)
================================================================================
