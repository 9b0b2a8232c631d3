------------------------------- MODULE Refresh -------------------------------
(***************************************************************************)
(* The packaged files in a consumer's repository: council-init copies them *)
(* (scaffold.ts), council-update refreshes them with the user's consent    *)
(* and a session start reports the ones that fell behind                   *)
(* (council-update.ts, index.ts).                                          *)
(*                                                                         *)
(* A file's content is what its digest tells apart: a version the package  *)
(* shipped, or an edit of the consumer.  The writes are synchronous and    *)
(* nothing of the process runs between them, but the process may die       *)
(* between any two: an action that writes ends as the code does or as one  *)
(* of the crashes leaves it.  The consumer edits at any other time, also   *)
(* while the command waits for an answer.                                  *)
(***************************************************************************)
EXTENDS Integers

CONSTANTS
    Tooling,      \* TOOLING_FILES: what a refresh may write
    Data,         \* DATA_FILES: reported, never written
    Versions,     \* contents the package ships
    Packages,     \* the packages there are: each file's content, or None
    Edits,        \* contents a consumer writes
    None,         \* no file; no entry in the record
    MaxChanges,   \* bound: changes by the consumer
    MaxUpgrades,  \* bound: packages installed over another
    MaxFaults     \* bound: crashes and failed writes of the drift state

Files == Tooling \cup Data
Contents == Versions \cup Edits

ASSUME FilesAssumption == Tooling \cap Data = {}
ASSUME PackagesAssumption ==
    Packages \subseteq {p \in [Files -> Versions \cup {None}] : \A f \in Tooling : p[f] # None}
ASSUME ContentsAssumption == Versions \cap Edits = {} /\ None \notin Contents

VARIABLES
    shipped,   \* the installed package
    repo,      \* the repository: see Repo
    command,   \* a council-update --apply in progress, or Idle
    noted,     \* tooling-drift.state.json: the drift last notified, {} for no file
    told,      \* history: the drift the user was last told of, since there was none
    unsaved,   \* history: the last write or removal of that file failed
    changes, upgrades, crashes, failures

vars == <<shipped, repo, command, noted, told, unsaved, changes, upgrades, crashes, failures>>

\* The files, the provenance record, the backups; and, as history, the files
\* whose content the tool wrote last.
Repo == [disk : [Files -> Contents \cup {None}], record : [Files -> Contents \cup {None}],
         backups : SUBSET (Files \X Contents), ours : SUBSET Files]

\* The diverged files still to ask about, the one asked about now, the
\* accepted ones.
Idle == [on |-> FALSE, ask |-> {}, asking |-> {}, accepts |-> {}]

Init ==
    /\ shipped \in Packages
    /\ repo \in [disk : [Files -> Edits \cup {None}], record : {[f \in Files |-> None]},
                 backups : {{}}, ours : {{}}]
    /\ command = Idle /\ noted = {} /\ told = {} /\ unsaved = FALSE
    /\ changes = 0 /\ upgrades = 0 /\ crashes = 0 /\ failures = 0

Shipped == {f \in Files : shipped[f] # None}

-----------------------------------------------------------------------------
(* planRows. *)

\* Faulty: whatever has an entry in the record is pristine.
RecordedIsPristine(r, f) == r.record[f] # None

Pristine(r, f) == r.record[f] # None /\ r.disk[f] = r.record[f]

State(r, f) ==
    IF f \notin Shipped THEN "local-only"
    ELSE IF r.disk[f] = None THEN "removed"
    ELSE IF r.disk[f] = shipped[f] THEN "unchanged"
    ELSE IF Pristine(r, f) THEN "behind" ELSE "diverged"

Diverged(r) == {f \in Tooling : State(r, f) = "diverged"}

ToWrite(r, accepts) ==
    {f \in Tooling : State(r, f) = "behind" \/ (State(r, f) = "diverged" /\ f \in accepts)}

-----------------------------------------------------------------------------
(* The writes, and what a crash leaves of them. *)

Put(r, S) ==
    [r EXCEPT !.disk = [f \in Files |-> IF f \in S THEN shipped[f] ELSE r.disk[f]],
              !.ours = @ \cup S]

Record(r, S) == [r EXCEPT !.record = [f \in Files |-> IF f \in S THEN shipped[f] ELSE r.record[f]]]

\* The record is written in place: torn, it reads as empty.
Torn(r) == [r EXCEPT !.record = [f \in Files |-> None]]

Backup(r, S) == [r EXCEPT !.backups = @ \cup {<<f, r.disk[f]>> : f \in S}]

\* scaffoldInto: every file that is not there, then the record, once.
Missing(r) == {f \in Shipped : r.disk[f] = None}

Scaffold(r, S) == IF S = {} THEN r ELSE Record(Put(r, S), S)

ScaffoldCrashes(r, S) == {Put(r, C) : C \in SUBSET S} \cup {Torn(Put(r, C)) : C \in {S} \ {{}}}

\* creationPass leaves the files the record knows, deleted ones, alone.
\* Faulty: it does not.
MissingAll(r) == Missing(r)

ToCreate(r) == {f \in Missing(r) : r.record[f] = None}

\* applyRefresh, per file: backup, write, record.
\* Faulty: the record is left as it was.
WriteUnrecorded(r, S) == Put(Backup(r, S), S)

Write(r, S) == Record(Put(Backup(r, S), S), S)

WriteCrashes(r, S) ==
    UNION {{Write(r, C)} \cup UNION {LET done == Write(r, C)
                                     IN  {Backup(done, {f}), Put(Backup(done, {f}), {f}),
                                          Torn(Put(Backup(done, {f}), {f}))} : f \in S \ C}
           : C \in SUBSET S}

Created(r) == Scaffold(r, ToCreate(r))

Applied(r, accepts) == Write(Created(r), ToWrite(Created(r), accepts))

ApplyCrashes(r, accepts) ==
    ScaffoldCrashes(r, ToCreate(r)) \cup WriteCrashes(Created(r), ToWrite(Created(r), accepts))

-----------------------------------------------------------------------------
Ends(whole, broken) ==
    \/ repo' = whole /\ UNCHANGED crashes
    \/ crashes + failures < MaxFaults /\ crashes' = crashes + 1 /\ repo' \in broken

CouncilInit ==
    /\ command = Idle
    /\ Ends(Scaffold(repo, Missing(repo)), ScaffoldCrashes(repo, Missing(repo)))
    /\ UNCHANGED <<shipped, command, noted, told, unsaved, changes, upgrades, failures>>

\* council-update --apply [--accept f].. : in a terminal, every diverged file
\* of the plan that was not named is asked about.
StartUpdate(accepts, ui) ==
    /\ command = Idle
    /\ command' = [Idle EXCEPT !.on = TRUE, !.accepts = accepts,
                               !.ask = IF ui THEN Diverged(repo) \ accepts ELSE {}]
    /\ UNCHANGED <<shipped, repo, noted, told, unsaved, changes, upgrades, crashes, failures>>

\* confirmFileAccept shows the difference and waits.
Ask(f) ==
    /\ command.asking = {} /\ f \in command.ask
    /\ command' = [command EXCEPT !.ask = @ \ {f}, !.asking = {f}]
    /\ UNCHANGED <<shipped, repo, noted, told, unsaved, changes, upgrades, crashes, failures>>

Answer(accepted) ==
    /\ command.asking # {}
    /\ command' = [command EXCEPT !.asking = {}, !.accepts = @ \cup accepted]
    /\ UNCHANGED <<shipped, repo, noted, told, unsaved, changes, upgrades, crashes, failures>>

\* applyRefresh plans again, over what is there now.
Apply ==
    /\ command.on /\ command.ask = {} /\ command.asking = {}
    /\ Ends(Applied(repo, command.accepts), ApplyCrashes(repo, command.accepts))
    /\ command' = Idle
    /\ UNCHANGED <<shipped, noted, told, unsaved, changes, upgrades, failures>>

Consumer(f, c) ==
    /\ changes < MaxChanges /\ changes' = changes + 1
    /\ c # repo.disk[f]
    /\ repo' = [repo EXCEPT !.disk[f] = c, !.ours = @ \ {f}]
    /\ UNCHANGED <<shipped, command, noted, told, unsaved, upgrades, crashes, failures>>

\* A new package: other contents, data files added or dropped.  The engine
\* reads the files of the package when it plans, asks and writes.
Upgrade(package) ==
    /\ upgrades < MaxUpgrades /\ upgrades' = upgrades + 1
    /\ shipped' = package
    /\ UNCHANGED <<repo, command, noted, told, unsaved, changes, crashes, failures>>

-----------------------------------------------------------------------------
(* checkToolingDrift. *)

Drift == {<<f, repo.disk[f]>> : f \in {t \in Tooling : repo.disk[t] \notin {None, shipped[t]}}}

\* Faulty: a drift that is gone leaves the file behind.
NotedOnlyNew == IF Drift = {} THEN noted ELSE Drift

Noted == Drift

\* A drift already notified touches nothing.  Else the file is written, or
\* removed when nothing drifted, by best effort: a removal that fails leaves
\* what it says, a write that fails that or nothing.
SessionStart ==
    /\ IF Drift = noted /\ Drift # {} THEN UNCHANGED <<noted, told, unsaved, failures>>
       ELSE /\ told' = Drift
            /\ \/ noted' = Noted /\ unsaved' = FALSE /\ UNCHANGED failures
               \/ /\ crashes + failures < MaxFaults /\ failures' = failures + 1
                  /\ noted' \in ({noted} \cup (IF Drift = {} THEN {} ELSE {{}})) \ {Noted}
                  /\ unsaved' = TRUE
    /\ command' = Idle
    /\ UNCHANGED <<shipped, repo, changes, upgrades, crashes>>

Next ==
    \/ CouncilInit
    \/ \E accepts \in SUBSET Tooling, ui \in BOOLEAN : StartUpdate(accepts, ui)
    \/ \E f \in Tooling : Ask(f)
    \/ \E accepted \in {{}, command.asking} : Answer(accepted)
    \/ Apply
    \/ \E f \in Files, c \in Contents \cup {None} : Consumer(f, c)
    \/ \E p \in Packages : Upgrade(p)
    \/ SessionStart

Spec == Init /\ [][Next]_vars

-----------------------------------------------------------------------------
\* What is on disk changes only by the consumer's hand, or is replaced with
\* a copy of it kept; an edit of the consumer only in a tooling file accepted
\* by name in this command.  Neither a new package, nor a crash, nor an edit
\* made while the command waits makes an exception (applyRefresh).
EditsSurvive ==
    [][changes' = changes => \A f \in Files :
        repo.disk[f] \notin {None, repo'.disk[f]} =>
            /\ f \in Tooling /\ <<f, repo.disk[f]>> \in repo'.backups
            /\ repo.disk[f] \in Edits => f \in command.accepts]_vars

\* A file the tool wrote and nobody touched since is never taken for an
\* edited one, however often the package moved on, unless a crash came
\* between a write and its record.
UntouchedIsUpdatable ==
    crashes = 0 => \A f \in repo.ours : State(repo, f) # "diverged"

\* A file the record knows and the consumer deleted is not brought back by
\* an update (creationPass); council-init does bring it back.
DeletedStaysDeleted ==
    [][command.on => \A f \in Files :
        repo.record[f] # None /\ repo.disk[f] = None /\ repo'.disk[f] # None => changes' # changes]_vars

\* A session that starts over drifted tooling has told the user of exactly
\* this drift, now or at an earlier start since which it never was gone
\* (checkToolingDrift); unless the file could not be written or removed when
\* the drift last changed.
DriftIsTold == [][SessionStart /\ ~unsaved => told' = Drift]_vars
=============================================================================
