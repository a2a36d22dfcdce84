------------------------------- MODULE Comments --------------------------------
(***************************************************************************)
(* A task's COMMENTS field (CommentsField of domain/comments.rs): its type   *)
(* decides what may be written, a save never changes the type, and only a    *)
(* confirmed conversion turns plain text into HTML, until it is undone.      *)
(* Plain text is a sequence of lines, each a sequence of pieces of text;     *)
(* HTML is a fragment of the sanitizer.                                      *)
(***************************************************************************)
EXTENDS Naturals, Sequences, SequencesExt, Functions

CONSTANTS Texts,           \* plain texts a user types
          Fragments,       \* HTML an editor delivers
          MaxSteps         \* bound on the operations

VARIABLES type,            \* COMMENTSTYPE, "none" when there are no comments
          lines,           \* the content, when it is plain text
          html,            \* the content, when it is HTML
          conversions,     \* what was converted, for the undo: [lines, written]
          steps,
          written          \* history: the lines the user last wrote or restored

vars == <<type, lines, html, conversions, steps, written>>

\* The document's sanitizer, as a function of the fragment.
S == INSTANCE Sanitizer WITH GoodPayloads <- {}, phase <- "core", fragment <- <<>>,
        stack <- <<>>, out <- <<>>, captured <- <<>>, stored <- <<>>
ForCore(nodes) == S!TreeOf(S!Clean(nodes))

\* The file may hold any type; "RTF" stands for the unknown ones as well.
Init ==
    /\ type \in {"none", "PLAIN_TEXT", "HTML", "RTF"}
    /\ lines = <<>> /\ html = <<>> /\ conversions = <<>> /\ steps = 0 /\ written = <<>>

Step == steps < MaxSteps /\ steps' = steps + 1

\* plain_text_to_html: lines between blank ones are one paragraph, each of its
\* lines but the first after a <br>.
Paragraph(group) ==
    S!Node("p", {}, FlattenSeq([i \in DOMAIN group |->
        (IF i = 1 THEN <<>> ELSE <<S!Node("br", {}, <<>>)>>)
          \o [j \in DOMAIN group[i] |-> S!Node(group[i][j], {}, <<>>)]]))

\* A faulty variant: the lines of a paragraph follow each other.
OneLineParagraphs(groups) ==
    [i \in DOMAIN groups |->
        S!Node("p", {}, [j \in DOMAIN FlattenSeq(groups[i]) |->
                            S!Node(FlattenSeq(groups[i])[j], {}, <<>>)])]

Paragraphs(groups) == [i \in DOMAIN groups |-> Paragraph(groups[i])]

PlainToHtml(text) ==
    LET Add(groups, line) ==
            CASE line = <<>> -> Append(groups, <<>>)
              [] OTHER -> Front(groups) \o <<Append(Last(groups), line)>>
        groups == FoldLeft(Add, << <<>> >>, text)
    IN  ForCore(Paragraphs(SelectSeq(groups, LAMBDA g : g # <<>>)))

\* extract_plain_text: the lines of plain text are its own; HTML is sanitized
\* first; nothing is read out of the other types.
SearchText ==
    CASE type = "PLAIN_TEXT" -> lines
      [] type = "HTML" -> S!PlainText(ForCore(html))
      [] OTHER -> <<>>

\* save of plain text: verbatim; the first comment of a task is created with the
\* type the caller gives, and nothing is created from nothing.
SavePlain(text) ==
    /\ Step
    /\ type = "PLAIN_TEXT" \/ (type = "none" /\ text # <<>>)
    /\ type' = "PLAIN_TEXT" /\ lines' = text /\ written' = text
    /\ UNCHANGED <<html, conversions>>

SaveHtml(nodes) ==
    /\ Step
    /\ type = "HTML" \/ (type = "none" /\ nodes # <<>>)
    /\ type' = "HTML" /\ html' = ForCore(nodes)
    /\ written' = S!PlainText(S!Dissolved(nodes))
    /\ UNCHANGED <<lines, conversions>>

\* A read-only type refuses the save; so does a creation with another type.
SaveRefused ==
    /\ Step
    /\ type = "RTF"
    /\ UNCHANGED <<type, lines, html, conversions, written>>

\* The editor receives the sanitized content and saves it as it came.
SaveWhatIsShown ==
    /\ Step
    /\ type = "HTML"
    /\ html' = ForCore(ForCore(html))
    /\ UNCHANGED <<type, lines, conversions, written>>

\* convert_to_rich_text, confirmed; what it is refused for changes nothing.
Convert ==
    /\ Step
    /\ type = "PLAIN_TEXT"
    /\ type' = "HTML" /\ html' = PlainToHtml(lines)
    /\ conversions' = Append(conversions, [lines |-> lines, written |-> written])
    /\ UNCHANGED <<lines, written>>

\* undo_conversion puts the exact text and type back, whatever was saved since.
UndoConversion ==
    /\ Step
    /\ \E i \in DOMAIN conversions :
          /\ lines' = conversions[i].lines
          /\ written' = conversions[i].written
    /\ type' = "PLAIN_TEXT"
    /\ UNCHANGED <<html, conversions>>

Next ==
    \/ \E text \in Texts : SavePlain(text)
    \/ \E nodes \in Fragments : SaveHtml(nodes)
    \/ SaveRefused \/ SaveWhatIsShown \/ Convert \/ UndoConversion

Spec == Init /\ [][Next]_vars

---------------------------------------------------------------------------
\* The search finds what the user wrote, line by line and in order, through any
\* sequence of saves, conversions and their undos.  In HTML, lines are what
\* paragraphs and <br> make: what only an unwrapped element such as <div> set
\* apart is one line, and its text runs together.
CommentsKeepText ==
    type \in {"PLAIN_TEXT", "HTML"} => S!Filled(SearchText) = S!Filled(written)
================================================================================
