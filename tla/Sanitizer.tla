------------------------------- MODULE Sanitizer -------------------------------
(***************************************************************************)
(* HTML on its way into a description (domain/sanitizer.rs, with            *)
(* externalize_pasted_html of rich_text.rs): a fragment is parsed by        *)
(* html5ever, walked with an explicit stack that writes only what is        *)
(* allowed, its data: images are stored one by one and put back in place of *)
(* their placeholders, and the result is sanitized again for the document.  *)
(* A fragment is a sequence of nodes [tag, attrs, kids]; pieces of text and *)
(* comments are nodes with the tags below.  Escaping followed by parsing    *)
(* gives back the same text, so neither appears.                            *)
(***************************************************************************)
EXTENDS Naturals, Sequences, FiniteSets, SequencesExt, Functions

CONSTANTS Fragments,       \* the fragments that arrive
          GoodPayloads     \* the data: images whose bytes decode and match their type

VARIABLES phase,           \* "idle", "paste", "store", "core", "done"
          fragment,        \* what arrived
          stack,           \* frames of the walk: [nodes, next, close]
          out,             \* the tokens written so far
          captured,        \* data: images taken out, in order
          stored           \* outcome of storing them, in order

vars == <<phase, fragment, stack, out, captured, stored>>

Node(tag, attrs, kids) == [tag |-> tag, attrs |-> attrs, kids |-> kids]
Attr(name, value, id) == [name |-> name, value |-> value, id |-> id]

\* One representative of each class of names the code tells apart.
Pieces == {"one", "two"}         \* of text
Allowed == {"p", "strong", "span", "a", "img", "br"}
Void == {"img", "br"}
Block == {"p"}
Canonical(tag) ==
    CASE tag = "b" -> "strong" [] tag = "font" -> "span" [] tag = "center" -> "p"
      [] OTHER -> tag
Dropped == {"script", "svg"}     \* DROPPED_SUBTREE_TAGS and foreign namespaces
Malformed == {"scr<script"}      \* refused by is_valid_tag_name

AllowedAttributes(tag) ==
    {"class", "style"} \cup (CASE tag = "a" -> {"href"}
                               [] tag = "img" -> {"src", "alt", "width", "height"}
                               [] OTHER -> {})

\* sanitize_url, sanitize_style, sanitize_class and sanitize_dimension accept or
\* refuse a value; sanitize_image_src accepts managed references only.
Acceptable(attr) ==
    IF attr.name = "src" THEN attr.value = "managed" ELSE attr.value = "good"

IsData(attr) == attr.name = "src" /\ attr.value = "data"

Token(n) == Attr("src", "token", n)

\* sanitize_attributes: a data: image is captured when pasted and leaves its
\* placeholder, and is dropped elsewhere.  n is the placeholder's number.
CleanAttributes(tag, attrs, n) ==
    LET known == {a \in attrs : a.name \in AllowedAttributes(tag)}
    IN  {a \in known : ~IsData(a) /\ Acceptable(a)}
          \cup (IF phase = "paste" /\ \E a \in known : IsData(a) THEN {Token(n)} ELSE {})

Open(tag, attrs) == [kind |-> "open", tag |-> tag, attrs |-> attrs]
Close(tag) == [kind |-> "close", tag |-> tag, attrs |-> {}]
Text(word) == [kind |-> "text", tag |-> word, attrs |-> {}]
Frame(nodes, close) == [nodes |-> nodes, next |-> 1, close |-> close]

Init ==
    /\ phase = "idle" /\ fragment = <<>> /\ stack = <<>> /\ out = <<>>
    /\ captured = <<>> /\ stored = <<>>

\* sanitize_paste_import begins.
Paste ==
    /\ phase = "idle"
    /\ \E f \in Fragments : fragment' = f /\ stack' = <<Frame(f, "")>>
    /\ phase' = "paste"
    /\ UNCHANGED <<out, captured, stored>>

---------------------------------------------------------------------------
(* The walk of sanitize_with: one step per turn of its loop.               *)

Walking == phase \in {"paste", "core"} /\ stack # <<>>
Top == Last(stack)
AtEnd == Top.next > Len(Top.nodes)
Child == Top.nodes[Top.next]
Tag == Canonical(Child.tag)

\* The next child is taken; a frame is pushed for those below it.
Past == Front(stack) \o <<[Top EXCEPT !.next = @ + 1]>>
Into(close) == Append(Past, Frame(Child.kids, close))

CloseFrame ==
    /\ Walking /\ AtEnd
    /\ stack' = Front(stack)
    /\ out' = out \o (IF Top.close = "" THEN <<>> ELSE <<Close(Top.close)>>)
    /\ UNCHANGED <<phase, fragment, captured, stored>>

WriteText ==
    /\ Walking /\ ~AtEnd /\ Child.tag \in Pieces
    /\ out' = Append(out, Text(Child.tag))
    /\ stack' = Past
    /\ UNCHANGED <<phase, fragment, captured, stored>>

DropSubtree ==
    /\ Walking /\ ~AtEnd /\ Child.tag \in Dropped \cup {"#comment"}
    /\ stack' = Past
    /\ UNCHANGED <<phase, fragment, out, captured, stored>>

\* A faulty variant: what a malformed tag swallowed goes with it.
Swallow == IF Child.tag \in Malformed THEN Past ELSE Into("")

\* An element that may not be written, or whose name is malformed, leaves its
\* children.
Unwrapped == Into("")

Unwrap ==
    /\ Walking /\ ~AtEnd
    /\ Child.tag \notin Pieces \cup Dropped \cup {"#comment"} /\ Tag \notin Allowed
    /\ stack' = Unwrapped
    /\ UNCHANGED <<phase, fragment, out, captured, stored>>

\* A faulty variant: an image is written whatever is left of it.
AlwaysKept(tag, attrs) == TRUE

\* An image without a usable source is not written.
KeptElement(tag, attrs) == tag = "img" => \E a \in attrs : a.name = "src"

WriteElement ==
    /\ Walking /\ ~AtEnd /\ Tag \in Allowed
    /\ LET attrs == CleanAttributes(Tag, Child.attrs, Len(captured))
           data == {a \in Child.attrs : IsData(a)}
       IN  /\ captured' = IF phase = "paste" /\ Tag = "img" /\ data # {}
                          THEN Append(captured, (CHOOSE a \in data : TRUE).id)
                          ELSE captured
           /\ IF KeptElement(Tag, attrs)
              THEN /\ out' = Append(out, Open(Tag, attrs))
                   /\ stack' = IF Tag \in Void THEN Past ELSE Into(Tag)
              ELSE out' = out /\ stack' = Past
    /\ UNCHANGED <<phase, fragment, stored>>

---------------------------------------------------------------------------
(* externalize_pasted_html                                                 *)

EndPaste ==
    /\ phase = "paste" /\ stack = <<>>
    /\ phase' = "store"
    /\ UNCHANGED <<fragment, stack, out, captured, stored>>

\* The placeholder of the image gives way to another source.
Spliced(tokens, n, attr) ==
    [i \in DOMAIN tokens |->
        IF Token(n) \in tokens[i].attrs
        THEN [tokens[i] EXCEPT !.attrs = (@ \ {Token(n)}) \cup {attr}]
        ELSE tokens[i]]

\* The next captured image is stored, or refused for its bytes or by the disk;
\* a failure leaves an empty source for the second pass to drop.
StoreImage(ok) ==
    /\ phase = "store" /\ Len(stored) < Len(captured)
    /\ LET n == Len(stored)
           id == captured[n + 1]
       IN  /\ ok => id \in GoodPayloads
           /\ out' = Spliced(out, n, IF ok THEN Attr("src", "managed", id) ELSE Attr("src", "", 0))
           /\ stored' = Append(stored, ok)
    /\ UNCHANGED <<phase, fragment, stack, captured>>

\* What html5ever builds from the tokens.  A <p> inside another closes it, as an
\* alias can write one, and the </p> that is left over makes an empty paragraph;
\* no other rule of the parser closes an element of these fragments early.
TreeOf(tokens) ==
    LET Grow(frames, node) ==
            Front(frames) \o <<[Last(frames) EXCEPT !.kids = Append(@, node)]>>
        \* the elements down to depth n are closed
        Closed(frames, n) ==
            FoldLeft(LAMBDA fs, i : Grow(Front(fs), Last(fs)), frames,
                     [i \in 1 .. Len(frames) - n |-> i])
        Opened(frames, tag) == {i \in DOMAIN frames : frames[i].tag = tag}
        \* the innermost open element of the tag, and all in it, are closed
        End(frames, tag) ==
            Closed(frames, (CHOOSE i \in Opened(frames, tag) :
                              \A j \in Opened(frames, tag) : j <= i) - 1)
        Start(frames, t) ==
            Append(IF t.tag = "p" /\ Opened(frames, "p") # {} THEN End(frames, "p") ELSE frames,
                   Node(t.tag, t.attrs, <<>>))
        Step(frames, t) ==
            CASE t.kind = "text" -> Grow(frames, Node(t.tag, {}, <<>>))
              [] t.kind = "open" /\ t.tag \in Void -> Grow(frames, Node(t.tag, t.attrs, <<>>))
              [] t.kind = "open" /\ t.tag \notin Void -> Start(frames, t)
              [] Opened(frames, t.tag) # {} -> End(frames, t.tag)
              [] t.tag = "p" -> Grow(frames, Node("p", {}, <<>>))
              [] OTHER -> frames
    IN  Closed(FoldLeft(Step, <<Node("", {}, <<>>)>>, tokens), 1)[1].kids

\* sanitize_for_core on the rewritten fragment.
SecondPass ==
    /\ phase = "store" /\ Len(stored) = Len(captured)
    /\ phase' = "core"
    /\ stack' = <<Frame(TreeOf(out), "")>>
    /\ out' = <<>>
    /\ UNCHANGED <<fragment, captured, stored>>

Finish ==
    /\ phase = "core" /\ stack = <<>>
    /\ phase' = "done"
    /\ UNCHANGED <<fragment, stack, out, captured, stored>>

Next ==
    \/ Paste \/ CloseFrame \/ WriteText \/ DropSubtree \/ Unwrap \/ WriteElement
    \/ EndPaste \/ (\E ok \in BOOLEAN : StoreImage(ok)) \/ SecondPass \/ Finish

Spec == Init /\ [][Next]_vars

---------------------------------------------------------------------------
(* Reference definitions.                                                  *)

\* html_to_plain_text: lines of text.  A block, or an element that is not
\* known, begins and ends a line; a malformed one is skipped here.
RECURSIVE PlainLines(_, _)
PlainLines(nodes, lines) ==
    LET Break(ls) == IF Last(ls) = <<>> THEN ls ELSE Append(ls, <<>>)
        Step(ls, n) ==
            LET tag == Canonical(n.tag)
            IN  CASE n.tag \in Pieces -> Front(ls) \o <<Append(Last(ls), n.tag)>>
                  [] n.tag \in Dropped \cup Malformed \cup {"#comment"} -> ls
                  [] tag = "br" -> Break(ls)
                  [] tag \in Allowed \ (Block \cup {"br"}) -> PlainLines(n.kids, ls)
                  [] OTHER -> Break(PlainLines(n.kids, Break(ls)))
    IN  FoldLeft(Step, lines, nodes)

PlainText(nodes) == PlainLines(nodes, << <<>> >>)
Filled(lines) == SelectSeq(lines, LAMBDA l : l # <<>>)

\* The fragment with its unwrapped elements gone and their children in place.
RECURSIVE Dissolved(_)
Dissolved(nodes) ==
    FlattenSeq([i \in DOMAIN nodes |->
        LET n == nodes[i]
        IN  IF n.tag \in Pieces \cup Dropped \cup {"#comment"} THEN <<n>>
            ELSE IF Canonical(n.tag) \in Allowed
            THEN <<[n EXCEPT !.kids = Dissolved(n.kids)]>>
            ELSE Dissolved(n.kids)])

\* The pieces of text and the image sources a reader of the fragment sees, in
\* order.
RECURSIVE SeenText(_)
SeenText(nodes) ==
    FlattenSeq([i \in DOMAIN nodes |->
        CASE nodes[i].tag \in Pieces -> <<nodes[i].tag>>
          [] nodes[i].tag \in Dropped \cup {"#comment"} -> <<>>
          [] OTHER -> SeenText(nodes[i].kids)])

RECURSIVE SeenSources(_)
SeenSources(nodes) ==
    FlattenSeq([i \in DOMAIN nodes |->
        CASE nodes[i].tag = "img" -> SetToSeq({a \in nodes[i].attrs : a.name = "src"})
          [] nodes[i].tag \in Dropped \cup Pieces \cup {"#comment"} -> <<>>
          [] OTHER -> SeenSources(nodes[i].kids)])

\* What the document's sanitizer writes for a fragment, by recursion on it.
RECURSIVE Clean(_)
Clean(nodes) ==
    LET CleanNode(n) ==
            LET tag == Canonical(n.tag)
                attrs == {a \in n.attrs : a.name \in AllowedAttributes(tag) /\ Acceptable(a)}
            IN  CASE n.tag \in Pieces -> <<Text(n.tag)>>
                  [] n.tag \in Dropped \cup {"#comment"} -> <<>>
                  [] tag = "img" /\ ~ \E a \in attrs : a.name = "src" -> <<>>
                  [] tag \in Void -> <<Open(tag, attrs)>>
                  [] tag \in Allowed \ Void ->
                        <<Open(tag, attrs)>> \o Clean(n.kids) \o <<Close(tag)>>
                  [] OTHER -> Clean(n.kids)
    IN  FlattenSeq([i \in DOMAIN nodes |-> CleanNode(nodes[i])])

---------------------------------------------------------------------------
(* What the sanitizer promises.                                            *)

\* Every element that is opened is closed, innermost first.
Balanced(tokens) ==
    LET Step(open, t) ==
            CASE t.kind = "open" /\ t.tag \notin Void -> Append(open, t.tag)
              [] t.kind = "close" -> IF open # <<>> /\ Last(open) = t.tag
                                     THEN Front(open) ELSE <<"unbalanced">>
              [] OTHER -> open
    IN  FoldLeft(Step, <<>>, tokens) = <<>>

\* What a paste brings into the document is well formed, and is a fixed point of
\* the sanitizer.  Its two passes are needed: one pass over <center><p> writes a
\* paragraph in a paragraph, which the next one takes apart, against
\* SANITIZER_POLICY.md:35 for what the editor saves in one pass.
SanitizedIsStable ==
    phase = "done" => Balanced(out) /\ Clean(TreeOf(out)) = out

\* A pasted fragment keeps every piece of text outside the dropped elements, in
\* order and in the lines the search index had for it, and every managed or
\* stored image at its place among the others.  An unwrapped element is no line
\* of its own any more: what only a <div> set apart runs together
\* (sanitizer.rs:533), so its lines are those of the dissolved fragment.
PastedContentSurvives ==
    phase = "done" =>
        LET sources == SeenSources(fragment)
            Number(i) == Cardinality({j \in 1..i : IsData(sources[j])})
            Arrives(i) == IF IsData(sources[i]) THEN stored[Number(i)] ELSE Acceptable(sources[i])
            Arrived == SelectSeq([i \in DOMAIN sources |-> [src |-> sources[i], at |-> i]],
                                 LAMBDA s : Arrives(s.at))
        IN  /\ SeenText(TreeOf(out)) = SeenText(fragment)
            /\ Filled(PlainText(TreeOf(out))) = Filled(PlainText(Dissolved(fragment)))
            /\ SeenSources(TreeOf(out)) =
                 [i \in DOMAIN Arrived |-> Attr("src", "managed", Arrived[i].src.id)]
================================================================================
