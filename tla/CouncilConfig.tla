----------------------------- MODULE CouncilConfig -----------------------------
(***************************************************************************)
(* Who reads and writes .council.json in a session: the model picker and   *)
(* the headless form of its command, the gate command, the clearing of an  *)
(* override, the user's editor, and the watcher that repaints the theme.   *)
(*                                                                         *)
(* The picker shows a catalogue read when it was opened; the write goes to *)
(* the file as it is when the choice is confirmed.  A write of ours is a   *)
(* rename, an editor's a rename or a change in place.  The watcher's       *)
(* handle is closed and opened again 10 ms after a rename, and what the    *)
(* closed one had not delivered is lost; the reload comes 250 ms after the *)
(* last event delivered, so every re-arming due precedes it.               *)
(***************************************************************************)
EXTENDS ConfigFile, ModelPicker

CONSTANTS
    Docs,          \* what a user saves, and what a session starts with
    Typed,         \* the selections given to the headless form
    MaxSaves,      \* bound: saves of a user
    MaxWrites      \* bound: writes of ours

\* The picker's lists are built of the catalogue the writer checks against.
ASSUME RowsAssumption ==
    /\ SeatRows \in Seq(Seats)
    /\ Groups \in Seq(Seq([model : Catalogue, level : Levels \cup {NoLevel}]))
    /\ Name \in [Catalogue -> Seq(Texts)] /\ Letters \subseteq Texts
ASSUME DocsAssumption == Docs \subseteq Documents

VARIABLES
    config,
    saves, writes, \* bounded counters
    armed,         \* the watcher of this session
    events,        \* of its handle, not yet delivered
    rearms,        \* re-armings due
    debounce,      \* the reload timer is set
    activations,   \* themes of the activateTheme calls that await, in order
    shown          \* the theme of the terminal, or "none"

watchVars == <<armed, events, rearms, debounce, activations, shown>>
configVars == <<config, saves, writes>>
sessionVars == <<pickerVars, configVars, watchVars>>

Activation(d) == IF LoadTheme(d) \in Themes THEN <<LoadTheme(d)>> ELSE <<>>

\* session_start: the theme is activated, and watched if there is one.
ConfigInit ==
    /\ PickerInit
    /\ config \in Docs /\ saves = 0 /\ writes = 0
    /\ armed = (LoadTheme(config) \in Themes)
    /\ events = {} /\ rearms = 0 /\ debounce = FALSE
    /\ activations = Activation(config)
    /\ shown = "none"

-----------------------------------------------------------------------------
(* The file is replaced or changed; the handle sees it. *)
Lands(d, how) ==
    /\ config' = d
    /\ events' = IF armed THEN events \cup {how} ELSE events
    /\ UNCHANGED <<armed, rearms, debounce, activations, shown>>

UserSaves ==
    /\ saves < MaxSaves /\ saves' = saves + 1
    /\ \E d \in Docs \cup {Absent, Malformed}, how \in {"rename", "change"} : Lands(d, how)
    /\ UNCHANGED <<pickerVars, writes>>

\* writeAtomic
Writes(d) ==
    /\ writes < MaxWrites /\ writes' = writes + 1
    /\ Lands(d, "rename") /\ UNCHANGED saves

\* writeSeatOverride: refused, or landed.
Accepts(sel) == sel.model \in Catalogue /\ sel.thinking \in Levels \cup {NoLevel}
WriteSeat(s, sel) ==
    /\ Accepts(sel) /\ Spliceable(config)
    /\ Writes(SeatWritten(config, s, sel))

(* The command starts only while every seat loads, in both forms. *)
CommandStarts == \A s \in Seats : LoadSeat(config, s) # Broken

OpenPicker == CommandStarts /\ Open /\ UNCHANGED <<configVars, watchVars>>

Confirm ==
    /\ opened /\ level = 3
    /\ Close
    /\ WriteSeat(Selection.seat, Selection)

\* A choice that cannot be written closes the modal with an error.
ConfirmRefused ==
    /\ opened /\ level = 3 /\ ~(Accepts(Selection) /\ Spliceable(config))
    /\ Close /\ UNCHANGED <<configVars, watchVars>>

Headless(s, sel) ==
    /\ ~opened /\ CommandStarts
    /\ WriteSeat(s, sel) /\ UNCHANGED pickerVars

Clear(s, what) ==
    /\ Spliceable(config) /\ SeatCleared(config, s, what) # config
    /\ Writes(SeatCleared(config, s, what)) /\ UNCHANGED pickerVars

GateCommand(mode) ==
    /\ ~opened /\ LoadGate(config) # "bad" /\ LoadGate(config) # mode
    /\ Writes(GateWritten(config, mode)) /\ UNCHANGED pickerVars

-----------------------------------------------------------------------------
(* The watcher, where settings.json lets a council theme through. *)
Watching == UNCHANGED <<pickerVars, configVars, armed>>

Deliver(how) ==
    /\ armed /\ how \in events
    /\ events' = events \ {how}
    /\ debounce' = TRUE
    /\ rearms' = IF how = "rename" THEN rearms + 1 ELSE rearms
    /\ Watching /\ UNCHANGED <<activations, shown>>

Rearm ==
    /\ armed /\ rearms > 0
    /\ rearms' = rearms - 1 /\ events' = {}
    /\ Watching /\ UNCHANGED <<debounce, activations, shown>>

AtOnce == TRUE                          \* Faulty: no debounce
AfterRearms == rearms = 0

\* A section that is gone or broken keeps what is shown, and the watcher.
Reload ==
    /\ armed /\ debounce /\ AfterRearms
    /\ debounce' = FALSE
    /\ activations' = activations \o Activation(config)
    /\ Watching /\ UNCHANGED <<events, rearms, shown>>

\* An activation ends: they await the same module, so in order.
Activated ==
    /\ activations # <<>>
    /\ activations' = Tail(activations)
    /\ shown' = Head(activations)
    /\ Watching /\ UNCHANGED <<events, rearms, debounce>>

\* session_shutdown closes the watcher; an activation may still end.
Shutdown ==
    /\ armed /\ armed' = FALSE
    /\ events' = {} /\ rearms' = 0 /\ debounce' = FALSE
    /\ UNCHANGED <<pickerVars, configVars, activations, shown>>

ConfigNext ==
    \/ UserSaves
    \/ OpenPicker \/ Confirm \/ ConfirmRefused
    \/ (PickerKey /\ UNCHANGED <<configVars, watchVars>>)
    \/ \E s \in Seats, c \in Typed : Headless(s, c)
    \/ \E s \in Seats, what \in {"thinking", "seat"} : Clear(s, what)
    \/ \E mode \in ToSet(GateModes) : GateCommand(mode)
    \/ \E how \in {"rename", "change"} : Deliver(how)
    \/ Rearm \/ Reload \/ Activated \/ Shutdown

ConfigSpec == ConfigInit /\ [][ConfigNext]_sessionVars

\* The file system's events, the timers and the promises of the watcher.
ConfigLiveSpec ==
    /\ ConfigSpec
    /\ \A how \in {"rename", "change"} : WF_sessionVars(Deliver(how))
    /\ WF_sessionVars(Rearm) /\ WF_sessionVars(Reload) /\ WF_sessionVars(Activated)

-----------------------------------------------------------------------------
OthersUntouched(s) ==
    /\ \A t \in Seats \ {s} : OverrideOf(config', t) = OverrideOf(config, t)
    /\ config # Absent => LoadTheme(config') = LoadTheme(config) /\ LoadGate(config') = LoadGate(config)

\* What a seat is to run with once sel is written over the present file.
Intended(s, sel) ==
    [model |-> sel.model,
     thinking |-> IF sel.thinking # NoLevel THEN sel.thinking
                  ELSE IF config = Absent \/ Entries(config, s) = {} THEN Frontmatter[s].thinking
                  ELSE IF OverrideOf(config, s) # Broken THEN OverrideOf(config, s).thinking
                  ELSE Applied(s, Emitted(sel.model, KeptThinking(ValueOf(config, s)))).thinking]

WrittenAs(s, sel) == OverrideOf(config', s) = Intended(s, sel) /\ OthersUntouched(s)

\* The one insertion made at a line's start: see the README.
AtLineStart(d) ==
    Readable(d) /\ d.council.is = "absent" /\ d.theme # "off" /\ d.themeLine = "brace"

(* What the confirm level shows is a row of the provider that the search lets
   through, and one the writer refuses only on account of the file, however
   the rows grew and shrank under the cursor. *)
PickIsOffered ==
    level = 3 =>
        /\ \E i \in DOMAIN Groups[providerIndex] : picked = Groups[providerIndex][i]
        /\ Matches(picked, query) /\ Accepts(Selection)

(* A seat written is resolved to what was chosen, with the thinking it had
   when none was chosen, whatever the user saved while the picker was open;
   every other seat, the theme and the gate are read as before, also in a
   file with duplicated keys. *)
SeatWriteIsExact ==
    [][writes' # writes /\ ~AtLineStart(config) =>
         /\ Confirm => WrittenAs(Selection.seat, Selection)
         /\ \A s \in Seats, c \in Typed : Headless(s, c) => WrittenAs(s, c)]_sessionVars

(* What is cleared is resolved by the next carrier no more, a gate mode set is
   the one the gate reads next, and neither touches anything else. *)
ClearAndGateAreExact ==
    [][writes' # writes =>
       /\ \A s \in Seats : Unique(config) =>
            /\ Clear(s, "seat") => OverrideOf(config', s) = Frontmatter[s] /\ OthersUntouched(s)
            /\ Clear(s, "thinking") =>
                 /\ OthersUntouched(s)
                 /\ OverrideOf(config', s) # Broken =>
                      OverrideOf(config', s).thinking = Frontmatter[s].thinking
       /\ \A mode \in ToSet(GateModes) : GateCommand(mode) =>
            /\ LoadGate(config') = mode /\ LoadTheme(config') = LoadTheme(config)
            /\ \A s \in Seats : OverrideOf(config', s) = OverrideOf(config, s)]_sessionVars

(* Once the file is left alone the terminal shows its theme: no save of a
   burst is missed, and no older activation ends last. *)
ThemeSettles ==
    <>[](armed /\ LoadTheme(config) \in Themes => shown = LoadTheme(config))
=============================================================================
