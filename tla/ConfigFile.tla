------------------------------- MODULE ConfigFile -------------------------------
(***************************************************************************)
(* .council.json as its readers and its writers see it: the loaders of     *)
(* seats.ts and gate.ts, which parse it, and council-config-writer.ts,     *)
(* which splices the text and leaves every other byte alone.               *)
(*                                                                         *)
(* A document is abstracted to what the two sides can disagree on.  An     *)
(* object keeps the members of a duplicated key in file order, as a reader *)
(* takes the last and a splice has to choose one.  A seat's value has a    *)
(* model, a ":level" suffix on it and its "thinking" members; the string   *)
(* shorthand is a value without such members.  The line of the theme       *)
(* section matters to the one insertion that is made at a line's start.    *)
(* Duplicated sections and duplicated models of one value are left out.    *)
(***************************************************************************)
EXTENDS Naturals, SequencesExt

CONSTANTS
    Texts,         \* what a string of a document may be
    Seats,         \* seat names
    Catalogue,     \* the models the registry offers
    Levels,        \* THINKING_LEVELS
    Themes,        \* valid contents of the theme section
    Frontmatter    \* per seat, [model, thinking]

GateModes == <<"off", "advisory", "active">>
NoLevel == ""
NoModel == ""
Broken == [broken |-> TRUE]

Absent == [state |-> "absent"]
Malformed == [state |-> "malformed"]
NoSection == [is |-> "absent", members |-> <<>>]
BadSection == [is |-> "bad", members |-> <<>>]
Object(ms) == [is |-> "object", members |-> ms]
Document(council, theme, line, gate) ==
    [state |-> "json", council |-> council, theme |-> theme,
     themeLine |-> line, gate |-> gate]

Value(m, suffix, ts) == [model |-> m, suffix |-> suffix, thinking |-> ts]
Readable(d) == d.state = "json"

\* A suffix hangs on a model.  A section that is no object has no members.
Values == {v \in [model : Texts, suffix : Texts, thinking : Seq(Texts)] :
               v.model = NoModel => v.suffix = NoLevel}
SectionsOf(S) == [is : {"object"}, members : Seq(S)] \cup {NoSection, BadSection}
Documents == [state : {"json"}, council : SectionsOf([seat : Texts, value : Values]),
              theme : Themes \cup {"off", "bad"}, themeLine : {"own", "brace"}, gate : SectionsOf(Texts)]

\* A thinking level is never empty, and neither is a model.
ASSUME NamesAssumption ==
    /\ Seats \subseteq Texts /\ ToSet(GateModes) \subseteq Texts
    /\ Catalogue \subseteq Texts \ {NoModel} /\ NoModel \in Texts
    /\ Levels \subseteq Texts \ {NoLevel} /\ NoLevel \in Texts

-----------------------------------------------------------------------------
(* Loaders.  JSON.parse: the last member of a key is its value. *)
Entries(d, s) == {i \in DOMAIN d.council.members : d.council.members[i].seat = s}
LastEntry(d, s) == CHOOSE i \in Entries(d, s) : \A h \in Entries(d, s) : h <= i
ValueOf(d, s) == d.council.members[LastEntry(d, s)].value

\* parseAgentOverride
ValidOverride(v) == v.thinking # <<>> => Last(v.thinking) \in Levels

\* loadCouncilConfig reads every seat's entry.
ConfigLoads(d) ==
    \/ d = Absent
    \/ /\ Readable(d) /\ d.council.is # "bad"
       /\ \A s \in Seats : Entries(d, s) # {} => ValidOverride(ValueOf(d, s))

\* applySeatOverride: thinking key, then suffix, then frontmatter.
Applied(s, v) ==
    IF ~ValidOverride(v) \/ (v.model # NoModel /\ v.suffix \notin Levels \cup {NoLevel})
    THEN Broken
    ELSE [model |-> IF v.model # NoModel THEN v.model ELSE Frontmatter[s].model,
          thinking |-> IF v.thinking # <<>> THEN Last(v.thinking)
                       ELSE IF v.suffix # NoLevel THEN v.suffix
                       ELSE Frontmatter[s].thinking]

OverrideOf(d, s) ==
    IF d = Absent \/ Entries(d, s) = {} THEN Frontmatter[s] ELSE Applied(s, ValueOf(d, s))

\* loadSeat
LoadSeat(d, s) == IF ConfigLoads(d) THEN OverrideOf(d, s) ELSE Broken

\* loadThemeConfig: a theme, "off" (absent or switched off) or "bad" (throws).
LoadTheme(d) ==
    IF d = Absent THEN "off" ELSE IF Readable(d) THEN d.theme ELSE "bad"

\* loadGateConfig, and resolveGateSection of the writer: "bad" throws.
LoadGate(d) ==
    IF d = Absent THEN "off"
    ELSE IF ~Readable(d) \/ d.gate.is = "bad" THEN "bad"
    ELSE IF d.gate.members = <<>> THEN "off"
    ELSE IF Last(d.gate.members) \in ToSet(GateModes) THEN Last(d.gate.members) ELSE "bad"

-----------------------------------------------------------------------------
(* writeSeatOverride.  A selection is [model, thinking], thinking NoLevel when
   it keeps what is there. *)
Spliceable(d) == d = Absent \/ (Readable(d) /\ d.council.is # "bad")

\* existingThinking: of the value the loader would read.
KeptThinking(v) ==
    IF v.thinking # <<>> /\ Last(v.thinking) \in Levels THEN Last(v.thinking)
    ELSE IF v.suffix \in Levels THEN v.suffix ELSE NoLevel

Emitted(m, level) == Value(m, NoLevel, IF level = NoLevel THEN <<>> ELSE <<level>>)

FirstEntry(d, s) ==                     \* Faulty: the first of the duplicates
    CHOOSE i \in Entries(d, s) : \A h \in Entries(d, s) : i <= h
SpliceTarget(d, s) == LastEntry(d, s)

SeatWritten(d, s, sel) ==
    LET entry == [seat |-> s, value |-> Emitted(sel.model, sel.thinking)]
    IN  IF d = Absent THEN Document(Object(<<entry>>), "off", "own", NoSection)
        ELSE IF d.council.is = "absent"
        THEN IF d.theme # "off" /\ d.themeLine = "brace"
             THEN Malformed             \* inserted before the root's brace
             ELSE [d EXCEPT !.council = Object(<<entry>>)]
        ELSE IF Entries(d, s) = {}
        THEN [d EXCEPT !.council.members = Append(@, entry)]
        ELSE LET level == IF sel.thinking # NoLevel THEN sel.thinking
                          ELSE KeptThinking(ValueOf(d, s))
             IN  [d EXCEPT !.council.members[SpliceTarget(d, s)].value = Emitted(sel.model, level)]

(* clearSeatOverride *)
ClearsSuffixOnly(v) == [v EXCEPT !.suffix = NoLevel]       \* Faulty
ThinkingCleared(v) ==
    [v EXCEPT !.suffix = IF @ \in Levels THEN NoLevel ELSE @,
              !.thinking = IF @ = <<>> THEN @ ELSE Tail(@)]

SeatCleared(d, s, what) ==
    IF d = Absent \/ d.council.is = "absent" \/ Entries(d, s) = {} THEN d
    ELSE IF what = "seat"
    THEN [d EXCEPT !.council.members = RemoveAt(@, LastEntry(d, s))]
    ELSE [d EXCEPT !.council.members[LastEntry(d, s)].value = ThinkingCleared(@)]

(* writeGateMode: the last mode, or a mode or a section of its own. *)
GateWritten(d, mode) ==
    IF LoadGate(d) = mode THEN d
    ELSE IF d = Absent THEN Document(NoSection, "off", "own", Object(<<mode>>))
    ELSE [d EXCEPT !.gate = Object(IF @.members = <<>> THEN <<mode>>
                                   ELSE Append(Front(@.members), mode))]

(* No key is there twice. *)
Unique(d) ==
    Readable(d) => \A s \in Seats :
        /\ Cardinality(Entries(d, s)) <= 1
        /\ Entries(d, s) # {} => Len(ValueOf(d, s).thinking) <= 1
=============================================================================
