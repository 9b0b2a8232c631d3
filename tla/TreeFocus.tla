------------------------------- MODULE TreeFocus -------------------------------
(***************************************************************************)
(* The inline job tree (navigator.ts, focus-nav.ts): the widget's snapshot *)
(* of the manifests, the rows it hands to the focus controller when it     *)
(* draws, the controller's surface and selection, and the transcript view  *)
(* of the selected job's attempt.                                          *)
(*                                                                         *)
(* Manifests change under the reader: jobs start, retry and settle at any  *)
(* time, the snapshot follows every 2 s, and the rows follow the snapshot  *)
(* at the next drawing.  Rows are sorted by state, so a job moves while it *)
(* is selected.  A view's content is the module TranscriptView, also what  *)
(* becomes of a view whose session file is not there yet.                  *)
(***************************************************************************)
EXTENDS Ordered, SequencesExt

CONSTANTS
    Jobs,          \* a set of numbers: ids are compared numerically
    MaxAttempts,   \* of each job
    TermRows       \* the terminal's height, captured when the widget is built

ASSUME JobsAssumption == IsFiniteSet(Jobs) /\ Jobs \subseteq Nat \ {0}
ASSUME AttemptsAssumption == MaxAttempts \in [Jobs -> Nat \ {0}]
ASSUME TermRowsAssumption == TermRows \in Nat

VARIABLES
    manifest,      \* on disk, per job: its state and attempt, or None
    rows,          \* the widget's snapshot of the manifests
    drawn,         \* the signature of the cached drawing, or None
    ctlRows,       \* the controller's row keys
    open,          \* the tree is open
    surface,       \* "editor", "tree" or "progress"
    selected,      \* the selected row key, or NoRow
    cursor,        \* attemptCursor: a session, or NoSession
    view           \* the session of viewFor, or NoSession

focusVars == <<open, surface, selected>>
drawVars  == <<rows, drawn, ctlRows>>
viewVars  == <<cursor, view>>
treeVars  == <<manifest, focusVars, drawVars, viewVars>>

None == [none |-> TRUE]
NoRow == 0
NoSession == <<0, 0>>
Order == [running |-> 0, retrying |-> 0, failed |-> 2, done |-> 3]

Init ==
    /\ manifest = [j \in Jobs |-> None]
    /\ rows = [j \in Jobs |-> None] /\ drawn = None /\ ctlRows = <<>>
    /\ open = FALSE /\ surface = "editor" /\ selected = NoRow
    /\ cursor = NoSession /\ view = NoSession

-----------------------------------------------------------------------------
(* The layout of the progress surface. *)
Larger(a, b)  == IF a >= b THEN a ELSE b
Smaller(a, b) == IF a <= b THEN a ELSE b

ProgressChrome == 5
DisplayFloor == 7

Layout(termRows, content) ==
    LET avail == Larger(1, termRows - ProgressChrome)
        tiny  == avail < 7
        sep   == IF tiny /\ avail < 3 THEN 0 ELSE 1
        floor == IF tiny THEN 1 ELSE 3
        tree  == Larger(floor, Smaller(11, Smaller(content, avail - sep - floor)))
    IN  [avail |-> avail, sep |-> sep, tree |-> tree,
         progress |-> Larger(floor, avail - sep - tree)]

-----------------------------------------------------------------------------
(* Attempts: the settled prefix of a manifest and its live session. *)
Browsable(m) == 1 .. m.attempt

ShownLast(m, job) == m.attempt          \* Faulty: forgets the cursor

\* resolveAttempt: the cursor's attempt if it is still there, else the last.
Shown(m, job) ==
    IF cursor[1] = job /\ cursor[2] \in Browsable(m)
    THEN cursor[2] ELSE m.attempt

Listed(rs) == {j \in Jobs : rs[j] # None}

Before(rs, i, j) ==
    LET a == Order[rs[i].state]  b == Order[rs[j].state]
    IN  a < b \/ (a = b /\ i < j)
Sorted(rs) == Ordered(Listed(rs), {p \in Listed(rs) \X Listed(rs) : Before(rs, p[1], p[2])})

-----------------------------------------------------------------------------
(* The hub writes manifests. *)
WriteManifest(j, m) ==
    /\ manifest' = [manifest EXCEPT ![j] = m]
    /\ UNCHANGED <<focusVars, drawVars, viewVars>>

JobStarts(j) ==
    /\ manifest[j] = None
    /\ WriteManifest(j, [state |-> "running", attempt |-> 1])

JobSettles(j, s) ==
    /\ manifest[j] # None /\ manifest[j].state \in {"running", "retrying"}
    /\ s = "retrying" =>
          manifest[j].state = "running" /\ manifest[j].attempt < MaxAttempts[j]
    /\ WriteManifest(j, [manifest[j] EXCEPT !.state = s])

JobRespawns(j) ==
    /\ manifest[j] # None /\ manifest[j].state = "retrying"
    /\ WriteManifest(j, [state |-> "running", attempt |-> manifest[j].attempt + 1])

-----------------------------------------------------------------------------
RefreshKeepsCache ==                    \* Faulty: the drawing stays cached
    /\ open
    /\ rows' = manifest
    /\ UNCHANGED <<manifest, focusVars, ctlRows, drawn, viewVars>>

(* CouncilTreeWidget.refresh: the 2 s tick, and the transcript's append. *)
Refresh ==
    /\ open
    /\ rows' = manifest /\ drawn' = None
    /\ UNCHANGED <<manifest, focusVars, ctlRows, viewVars>>

\* The signature of a drawing: what must change for the cache to be dropped.
Signature ==
    [surface |-> surface, selected |-> selected,
     shown |-> IF selected \in Listed(rows) THEN Shown(rows[selected], selected) ELSE 0]

(* ensureView: the view of the shown attempt is kept, or replaced by a new
   one.  (The one it replaces is not disposed of: its clock runs on.) *)
EnsureView ==
    /\ cursor' = <<selected, Shown(rows[selected], selected)>>
    /\ view' = cursor'

DrawsProgress == surface = "progress" /\ TermRows >= DisplayFloor

(* CouncilTreeWidget.render. *)
Render ==
    /\ open /\ drawn # Signature
    /\ ctlRows' = Sorted(rows)
    /\ drawn' = Signature
    /\ IF DrawsProgress /\ selected \in Listed(rows) THEN EnsureView
                                                     ELSE UNCHANGED viewVars
    /\ UNCHANGED <<manifest, focusVars, rows>>

-----------------------------------------------------------------------------
(* The controller.  A position is 0 when the selected key has no row. *)
Position(k) == IF \E i \in DOMAIN ctlRows : ctlRows[i] = k
               THEN CHOOSE i \in DOMAIN ctlRows : ctlRows[i] = k ELSE 0
AtTop == Position(selected) <= 1
AtBottom == Position(selected) >= Len(ctlRows)

Focus(f, k) == surface' = f /\ selected' = k
Exit == Focus("editor", NoRow)
Move(to) == Focus("tree", ctlRows[to])

KeyStep == UNCHANGED <<manifest, open, drawVars>>

\* enter: Down on the last logical line of the draft.
KeyDownFromEditor ==
    /\ surface = "editor" /\ open /\ ctlRows # <<>>
    /\ Focus("tree", IF Position(selected) # 0 THEN selected ELSE ctlRows[1])
    /\ KeyStep /\ UNCHANGED viewVars

KeyUp ==
    /\ surface = "tree"
    /\ IF AtTop THEN Exit ELSE Move(Position(selected) - 1)
    /\ KeyStep /\ UNCHANGED viewVars

KeyDown ==
    /\ surface = "tree"
    /\ IF AtBottom THEN Exit ELSE Move(Position(selected) + 1)
    /\ KeyStep /\ UNCHANGED viewVars

\* enterProgress, a no-op below the display floor.
KeyEnter ==
    /\ surface = "tree" /\ open /\ TermRows >= DisplayFloor
    /\ Focus("progress", selected)
    /\ KeyStep /\ UNCHANGED viewVars

KeyEscape ==
    /\ surface # "editor"
    /\ IF surface = "progress" THEN Focus("tree", selected) ELSE Exit
    /\ KeyStep /\ UNCHANGED viewVars

\* [ and ]: cycleAttempt, once a view has installed its host.
KeyBracket(dir) ==
    /\ surface = "progress" /\ view # NoSession
    /\ selected \in Listed(rows) /\ rows[selected].attempt > 1
    /\ Layout(TermRows, Cardinality(Listed(rows))).progress > 1
    /\ Shown(rows[selected], selected) + dir \in Browsable(rows[selected])
    /\ cursor' = <<selected, Shown(rows[selected], selected) + dir>>
    /\ drawn' = None
    /\ UNCHANGED <<manifest, focusVars, rows, ctlRows, view>>

-----------------------------------------------------------------------------
(* The widget's part of the toggle: a fresh widget, or its dispose. *)
OpenWidget ==
    /\ ~open /\ open' = TRUE
    /\ rows' = manifest /\ drawn' = None
    /\ UNCHANGED <<manifest, surface, selected, ctlRows, viewVars>>

CloseWidget ==
    /\ open /\ open' = FALSE
    /\ Exit
    /\ drawn' = None /\ view' = NoSession /\ cursor' = NoSession
    /\ UNCHANGED <<manifest, rows, ctlRows>>
=============================================================================
