------------------------------- MODULE Navigator -------------------------------
(***************************************************************************)
(* The job tree, the editor slot and the retry surface together: which     *)
(* editor is live decides who gets a key, opening and closing the tree     *)
(* changes both the slot and the focus, and the retry of the session's     *)
(* turn puts its editor over, under or in place of the tree's at any time. *)
(***************************************************************************)
EXTENDS TreeFocus, EditorSlot

VARIABLES retrySurface      \* the RetryController's surface

vars == <<treeVars, slotVars, retrySurface>>

NavInit == Init /\ SlotInit /\ retrySurface = "idle"

TreeLive  == "tree" \in Range(live)
RetryLive == "retry" \in Range(live)
RetryFirst == live # <<>> /\ live[1] = "retry"

JobChanges(j) ==
    /\ JobStarts(j) \/ JobRespawns(j) \/ \E s \in DOMAIN Order \ {"running"} : JobSettles(j, s)
    /\ UNCHANGED <<slotVars, retrySurface>>

Draw == Render /\ UNCHANGED <<slotVars, retrySurface>>
Tick == Refresh /\ UNCHANGED <<slotVars, retrySurface>>

-----------------------------------------------------------------------------
(* toggleWidget: the command and the shortcut, which no editor can take. *)
Toggle ==
    /\ IF open THEN CloseWidget /\ RestoreTree ELSE OpenWidget /\ InstallTree
    /\ UNCHANGED retrySurface

(* The settled handler of the turn retry: a backoff or exhaustion installs
   the editor and then shows its surface; any other outcome restores. *)
RetryShows(s) ==
    /\ InstallRetry
    /\ retrySurface' = IF endless' THEN retrySurface ELSE s
    /\ UNCHANGED treeVars

RetryEnds ==
    /\ RestoreRetry
    /\ retrySurface' = "idle"
    /\ UNCHANGED treeVars

RetryFires ==
    /\ retrySurface = "backoff" /\ retrySurface' = "idle"
    /\ UNCHANGED <<treeVars, slotVars>>

-----------------------------------------------------------------------------
(* Keys.  The outermost editor sees a key first and forwards what it does
   not take.  RetryEditor.handleInput takes Escape in a backoff, and Enter on
   an empty draft; CustomTreeEditor takes its keys while it has the focus. *)
RetryTakesEscape == RetryLive /\ retrySurface = "backoff"
RetryTakesEnter(empty) == RetryLive /\ retrySurface # "idle" /\ empty

ToRetry(next) == retrySurface' = next /\ UNCHANGED <<treeVars, slotVars>>

TreeHasFocus == TreeLive /\ surface # "editor"

Escape ==
    IF RetryTakesEscape /\ (RetryFirst \/ ~TreeHasFocus) THEN ToRetry("exhausted")
    ELSE TreeLive /\ KeyEscape /\ UNCHANGED <<slotVars, retrySurface>>

\* A typed Enter in a backoff ends the surface and is forwarded.
Enter(empty) ==
    IF RetryTakesEnter(empty) /\ (RetryFirst \/ ~TreeHasFocus)
    THEN retrySurface = "exhausted" /\ ToRetry("idle")
    ELSE LET typedWins == /\ RetryLive /\ retrySurface = "backoff" /\ ~empty
                          /\ RetryFirst \/ ~TreeHasFocus
             after == IF typedWins THEN "idle" ELSE retrySurface
         IN  /\ typedWins \/ TreeHasFocus
             /\ retrySurface' = after
             /\ UNCHANGED slotVars
             /\ IF TreeLive /\ surface = "tree" /\ TermRows >= DisplayFloor
                THEN KeyEnter ELSE UNCHANGED treeVars

TreeKey ==
    /\ TreeLive
    /\ KeyDownFromEditor \/ KeyUp \/ KeyDown \/ \E d \in {-1, 1} : KeyBracket(d)
    /\ UNCHANGED <<slotVars, retrySurface>>

\* An editor that was never built ended its handler with an error; what the
\* session does with the host's slot after that is not modelled.
Next ==
    /\ ~endless
    /\ \/ \E j \in Jobs : JobChanges(j)
       \/ Draw \/ Tick \/ Toggle
       \/ \E s \in {"backoff", "exhausted"} : RetryShows(s)
       \/ RetryEnds \/ RetryFires
       \/ Escape \/ (\E e \in BOOLEAN : Enter(e)) \/ TreeKey

Spec == NavInit /\ [][Next]_vars

\* The 2 s interval of the widget and the drawing it requests.
LiveSpec == Spec /\ WF_vars(~endless /\ Tick) /\ WF_vars(~endless /\ Draw)

-----------------------------------------------------------------------------
(* The types. *)
TypeOK ==
    /\ manifest \in [Jobs -> {None} \cup [state : DOMAIN Order, attempt : Nat]]
    /\ rows \in [Jobs -> {None} \cup [state : DOMAIN Order, attempt : Nat]]
    /\ ctlRows \in Seq(Jobs) /\ open \in BOOLEAN
    /\ surface \in {"editor", "tree", "progress"}
    /\ selected \in Jobs \cup {NoRow}
    /\ retrySurface \in {"idle", "backoff", "exhausted"}
    /\ SlotTypeOK

(* The tree's editor is in the chain exactly while the tree is open, however
   the retry's editor comes and goes: an open tree can be entered, a closed
   one takes no key. *)
TreeEditorLive == TypeOK /\ (~endless => (open <=> TreeLive))

(* Drawing never moves the reader: once an attempt of the selected job is
   shown, only [ and ] show another, also when a retry adds one. *)
ReadingKept ==
    [][(cursor[1] = selected /\ selected # NoRow /\ drawn' # drawn /\ drawn' # None)
          => cursor' = cursor]_vars

(* Every job of the run is offered to the keys of an open tree. *)
RowsCatchUp ==
    \A j \in Jobs : (open /\ manifest[j] # None)
                       ~> (j \in Range(ctlRows) \/ ~open \/ endless)

(* While a backoff or exhaustion is shown its editor is live: Escape, Enter
   and the countdown's line are there. *)
RetryEditorLive == retrySurface # "idle" => RetryLive
=============================================================================
