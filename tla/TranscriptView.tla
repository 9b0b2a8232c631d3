----------------------------- MODULE TranscriptView -----------------------------
(***************************************************************************)
(* A transcript view (TranscriptView of navigator.ts) over the incremental *)
(* reader of a session file (TranscriptTail of transcript.ts).             *)
(*                                                                         *)
(* A child appends lines to its session file while the view polls it once  *)
(* a second, and a poll may find half a line, or a line half of whose last *)
(* character is there.  A tool call and its result are one unit, folded as *)
(* the result arrives; thinking can be hidden.                             *)
(* The reader's focus is a position among the visible units, what is       *)
(* expanded is a set of unit positions, and both must keep naming the same *)
(* blocks while the file grows and the filter changes.                     *)
(*                                                                         *)
(* A line is one block.  Its text is its kind, a call's identity, how many *)
(* lines its body takes (BodyLines), and whether decoding it a part at a   *)
(* time put replacement characters into it (damaged).  A character of      *)
(* several bytes stands in a block's text, never in its kind or a call's   *)
(* identity, and a damaged line is still JSON.                             *)
(***************************************************************************)
EXTENDS Ordered

CONSTANTS
    Calls,        \* tool call identities
    MaxLines,     \* bound: lines of the session file
    Wide,         \* the lines, by number, with a character of several bytes
    Viewport,     \* viewportRows, the grant of the widget
    BodyLines     \* lines of a body

ASSUME BoundAssumption == MaxLines \in Nat /\ BodyLines \in Nat
ASSUME ViewportAssumption == Viewport \in Nat \ {0}

VARIABLES
    file,         \* the complete lines of the session file
    half,         \* its last line, half written, or NoLine
    cut,          \* the file ends inside a character of that line
    found,        \* the file was there when the view was built: it has a tail
    offset,       \* the complete lines the tail has read
    partial,      \* what it holds of the line after them: "none", "whole", or
                  \* "torn", decoded from bytes that ended inside a character
    blocks,       \* the blocks the view has
    damaged,      \* the ones whose text is damaged, by position
    split,        \* history: the lines a poll ended inside a character of
    expanded,     \* unit positions shown with their body
    showThinking, focused, follow,
    screen        \* what the last drawing showed of the focus, or NoLine

fileVars == <<file, half, cut>>
tailVars == <<found, offset, partial, blocks, damaged, split>>
readerVars == <<expanded, showThinking, focused, follow>>
readingVars == <<fileVars, tailVars, readerVars, screen>>

NoLine == [kind |-> "none", id |-> 0]
Lines == [kind : {"assistant", "thinking"}, id : {0}]
            \cup [kind : {"call", "result"}, id : Calls]

-----------------------------------------------------------------------------
(* buildUnits.  A unit is named by the position of its first block. *)
Kind(bs, k) == {i \in DOMAIN bs : bs[i].kind = k}
FirstResult(bs, id) ==
    {i \in Kind(bs, "result") :
        bs[i].id = id /\ \A h \in Kind(bs, "result") : bs[h].id = id => i <= h}
Folded(bs) == UNION {FirstResult(bs, bs[i].id) : i \in Kind(bs, "call")}
Units(bs) == Ascending(DOMAIN bs \ Folded(bs))

\* visible(): the positions in Units of what the filter lets through.
Visible(bs, thinking) ==
    LET us == Units(bs)
    IN  Ascending({i \in DOMAIN us : bs[us[i]].kind # "thinking" \/ thinking})

\* The position in the visible list that handleInput and render both read;
\* 0 when nothing is visible.
Clamped(vis) == IF focused > Len(vis) THEN Len(vis)
                ELSE IF focused = 0 /\ vis # <<>> THEN 1 ELSE focused

(* unitLines: a head, then the body or, collapsed, a line of preview. *)
Height(bs, i) ==
    LET b == bs[Units(bs)[i]]
    IN  CASE b.kind = "call" -> 1 + (IF i \in expanded /\ FirstResult(bs, b.id) # {}
                                     THEN BodyLines ELSE 0)
          [] b.kind = "assistant" -> 1 + BodyLines
          [] OTHER -> IF i \in expanded THEN 1 + BodyLines ELSE 2

\* The lines of the units above the v-th, and the line its head is on, below
\* the view's title line (line 0).
LinesAbove(bs, vis, v) ==
    {p \in (1 .. v - 1) \X (1 .. BodyLines + 2) : p[2] <= Height(bs, vis[p[1]])}
HeadLine(bs, vis, v) == 1 + Cardinality(LinesAbove(bs, vis, v))
Total(bs, vis) == IF vis = <<>> THEN 2 ELSE HeadLine(bs, vis, Len(vis) + 1)

Least(a, b) == IF a <= b THEN a ELSE b
Minus(a, b) == IF a >= b THEN a - b ELSE 0

AnchorUnit(bs, vis, f) == f             \* Faulty: counts units, not lines
Anchor(bs, vis, f) == IF vis = <<>> THEN 0 ELSE HeadLine(bs, vis, f)

\* topLine, for a viewport of two lines or more.
Top(bs, vis, f) ==
    LET maxTop == Minus(Total(bs, vis), Viewport)
    IN  IF follow THEN maxTop
        ELSE Least(Minus(Anchor(bs, vis, f), 2), maxTop)

-----------------------------------------------------------------------------
ViewInit ==
    /\ file = <<>> /\ half = NoLine /\ cut = FALSE /\ found \in BOOLEAN
    /\ offset = 0 /\ partial = "none" /\ blocks = <<>> /\ damaged = {} /\ split = {}
    /\ expanded = {} /\ showThinking = FALSE /\ focused = 1 /\ follow = TRUE
    /\ screen = NoLine

(* The child: a result follows its call.  What of a line is written ends
   between two characters, or inside one. *)
BeginLine(l) ==
    /\ half = NoLine /\ Len(file) < MaxLines
    /\ l.kind = "result" => \E i \in Kind(file, "call") : file[i].id = l.id
    /\ half' = l
    /\ UNCHANGED <<file, cut, tailVars, readerVars, screen>>

GrowLine ==
    /\ half # NoLine /\ Len(file) + 1 \in Wide
    /\ cut' = ~cut
    /\ UNCHANGED <<file, half, tailVars, readerVars, screen>>

CompleteLine ==
    /\ half # NoLine
    /\ file' = Append(file, half) /\ half' = NoLine /\ cut' = FALSE
    /\ UNCHANGED <<tailVars, readerVars, screen>>

(* TranscriptTail.poll: the complete lines of what was appended, behind the
   part of a line held back.  Without that part the rest of its line is not
   JSON and is skipped. *)
Parsed(held) == SubSeq(file, offset + (IF held = partial THEN 1 ELSE 2), Len(file))

DropsPartial == Parsed("none")     \* Faulty: the half line is forgotten
Fresh == Parsed(partial)

\* What a poll holds back.  buf.toString() decodes the bytes of each poll by
\* themselves: a character they end inside is damaged on both sides.
Held ==
    IF half = NoLine THEN "none"
    ELSE IF cut \/ (partial = "torn" /\ offset = Len(file)) THEN "torn" ELSE "whole"

\* The line completed behind a torn part is a damaged block.
Damages == IF partial = "torn" /\ offset < Len(file) THEN {Len(blocks) + 1} ELSE {}

WholeLinesOnly == half = NoLine /\ offset # Len(file)    \* Faulty
Grown == <<Len(file), Held>> # <<offset, partial>>

Poll ==
    /\ found /\ Grown
    /\ offset' = Len(file) /\ partial' = Held
    /\ blocks' = blocks \o Fresh /\ damaged' = damaged \cup Damages
    /\ split' = split \cup (IF cut THEN {Len(file) + 1} ELSE {})
    /\ UNCHANGED <<fileVars, found, readerVars, screen>>

(* render: clamps the focus and marks its unit's head.  A one-line viewport
   shows one head, the last while following. *)
DrawView ==
    LET vis == Visible(blocks, showThinking)
        f   == Clamped(vis)
    IN  /\ focused' = IF vis = <<>> THEN 1 ELSE f
        /\ screen' = [kind |-> "drawn",
                      unit |-> IF vis = <<>> THEN 0 ELSE vis[f],
                      inside |-> vis = <<>> \/ (IF Viewport = 1 THEN ~follow
                         ELSE HeadLine(blocks, vis, f) - Top(blocks, vis, f) \in 0 .. Viewport - 1),
                      following |-> follow]
        /\ screen' # screen
        /\ UNCHANGED <<fileVars, tailVars, expanded, showThinking, follow>>

-----------------------------------------------------------------------------
(* handleInput.  Every key requests a drawing. *)
Key == UNCHANGED <<fileVars, tailVars>> /\ screen' = NoLine

KeyGo(to) ==
    LET n == Len(Visible(blocks, showThinking))
    IN  /\ follow' = FALSE
        /\ focused' = IF n = 0 THEN focused
                      ELSE CASE to = "up"    -> IF focused > 1 THEN focused - 1 ELSE 1
                             [] to = "down"  -> Least(n, focused + 1)
                             [] to = "first" -> 1
                             [] to = "last"  -> n
        /\ Key /\ UNCHANGED <<expanded, showThinking>>

Toggled(s, i) == IF i \in s THEN s \ {i} ELSE s \cup {i}

ByPosition(vis) == focused             \* Faulty: the place on the screen
ToToggle(vis) == vis[focused]

KeyExpand ==
    LET vis == Visible(blocks, showThinking)
    IN  /\ focused \in DOMAIN vis
        /\ expanded' = Toggled(expanded, ToToggle(vis))
        /\ Key /\ UNCHANGED <<showThinking, focused, follow>>

KeyThinking ==
    /\ showThinking' = ~showThinking
    /\ Key /\ UNCHANGED <<expanded, focused, follow>>

KeyFollow ==
    /\ follow' = ~follow
    /\ Key /\ UNCHANGED <<expanded, showThinking, focused>>

ViewNext ==
    \/ \E l \in Lines : BeginLine(l)
    \/ GrowLine \/ CompleteLine
    \/ Poll \/ DrawView
    \/ \E to \in {"up", "down", "first", "last"} : KeyGo(to)
    \/ KeyExpand \/ KeyThinking \/ KeyFollow

ViewSpec == ViewInit /\ [][ViewNext]_readingVars

\* The view's 1 s interval.
ViewLiveSpec == ViewSpec /\ WF_readingVars(Poll)

-----------------------------------------------------------------------------
ViewTypeOK ==
    /\ file \in Seq(Lines) /\ half \in Lines \cup {NoLine} /\ partial \in {"none", "whole", "torn"}
    /\ offset \in 0 .. Len(file) /\ {cut, found, showThinking, follow} \subseteq BOOLEAN
    /\ damaged \subseteq DOMAIN blocks /\ split \subseteq Wide
    /\ expanded \subseteq DOMAIN blocks /\ focused \in 1 .. MaxLines + 1

(* The view has exactly the lines its tail has passed, each once and in
   order, wherever the polls fell into them; and the text of a line is the
   file's unless a poll ended inside one of its characters, which damages
   that line, whatever was polled afterwards, and no other. *)
BlocksAreTheFile ==
    ViewTypeOK /\ blocks = SubSeq(file, 1, offset) /\ damaged = split \cap (1 .. offset)

(* e expands or collapses the unit the reader saw marked, also when lines
   arrived since; a call stays expanded when its result is folded into it. *)
ToggleIsMarked ==
    [][expanded' # expanded /\ screen # NoLine /\ screen.unit # 0
         => expanded' = Toggled(expanded, screen.unit)]_readingVars

(* While the reader moves by hand the marked head is inside the window. *)
FocusOnScreen == screen # NoLine => screen.following \/ screen.inside

(* A view that found its file shows every line of it. *)
LinesShown == \A n \in 1 .. MaxLines : (found /\ Len(file) >= n) ~> (Len(blocks) >= n)
=============================================================================
