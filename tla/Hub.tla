--------------------------------- MODULE Hub ---------------------------------
(***************************************************************************)
(* The job table of extensions/hub.ts with the retry supervisors of        *)
(* extensions/job-retry.ts: seats run as detached child processes, the hub *)
(* watches them, settles them when they end and, when the last provider    *)
(* error is worth another attempt, spawns the next attempt of the same job *)
(* after a backoff.                                                        *)
(*                                                                         *)
(* JavaScript handlers run to completion, so one action is one handler:    *)
(* a tool call, a stdout chunk, an 'error' or 'close' event, a monitor     *)
(* tick over one job, a backoff timer, the shutdown.  The order in which   *)
(* the handlers run is free.                                               *)
(***************************************************************************)
EXTENDS Integers, Sequences

CONSTANTS
    Jobs,         \* the ids allocateId() hands out
    Supervised,   \* the jobs dispatched with a retry supervisor
    MaxAttempts   \* policy.maxAttempts

ASSUME JobsAssumption == Supervised \subseteq Jobs
ASSUME AttemptsAssumption == MaxAttempts \in Nat /\ MaxAttempts >= 1

VARIABLES
    state,        \* job.state; "absent" before spawnJob
    exitCode,     \* job.exitCode: "null", "zero" or "nonzero"
    attempt,      \* job.attempt (undefined is 1)
    session,      \* the attempt whose session id job.sessionId is
    attempts,     \* job.attempts: the settled attempts with their sessions
    pid,          \* job.pid, named by the attempt whose process it is
    stopReason,   \* job.stopReason
    errorMessage, \* job.errorMessage, as far as the classifier looks at it
    quiet,        \* no activity for more than job.stallMs
    timer,        \* the supervisor's backoff timer is armed
    disposed,     \* the supervisor's disposed flag
    promptGone,   \* the once-guarded cleanup removed the prompt directory
    proc,         \* the operating system process of each attempt
    manifest,     \* <run dir>/<job id>.json
    pidFile,      \* .pi/council/.pids.json
    down          \* shutdown() ran, which also stopped the monitor

jobVars  == <<state, exitCode, attempt, session, attempts, pid>>
msgVars  == <<stopReason, errorMessage, quiet>>
supVars  == <<timer, disposed, promptGone>>
fileVars == <<manifest, pidFile>>
vars     == <<jobVars, msgVars, supVars, proc, fileVars, down>>

-----------------------------------------------------------------------------
Attempts      == 1 .. MaxAttempts
JobStates     == {"running", "done", "failed", "cancelled", "stalled",
                  "timeout", "retrying"}
SettledStates == {"done", "failed", "cancelled", "stalled", "timeout"}
ExitCodes     == {"null", "zero", "nonzero"}
StopReasons   == {"none", "stop", "error", "aborted"}
ErrorMessages == {"none", "retryable", "fatal"}
Outcomes      == {"zero", "nonzero", "signal"}

(* A process of the operating system: not started; a spawn that failed and *)
(* still owes the hub its 'error' event, then only its 'close' event; a    *)
(* live child; a live child that was sent a signal; gone.                  *)
ProcStates    == {"none", "unspawned", "errored", "live", "signalled", "gone"}
Alive         == {"live", "signalled"}
NoPid         == 0

\* What a manifest tells a reader of the run directory about a job.
Manifests == [state : JobStates, exitCode : ExitCodes, pid : Attempts \cup {NoPid},
              session : Attempts, attempt : Attempts,
              attempts : Seq([attempt : Attempts, session : Attempts])]
NoManifest == [state |-> "absent"]

\* writeJobManifest: `attempts` is written only from the second attempt on.
ManifestOf(j) ==
    [state |-> state[j], exitCode |-> exitCode[j], pid |-> pid[j],
     session |-> session[j], attempt |-> attempt[j],
     attempts |-> IF attempt[j] > 1 THEN attempts[j] ELSE <<>>]

\* Faulty: the pids of ended jobs stay in the list.
ListedForever == {<<j, pid[j]>> : j \in {k \in Jobs : pid[k] # NoPid}}

\* writePids: the pids of the jobs without an exit code.
Listed == {<<j, pid[j]>> : j \in {k \in Jobs : /\ state[k] # "absent"
                                               /\ exitCode[k] = "null"
                                               /\ pid[k] # NoPid}}

\* Faulty: the manifest is written before the job is changed.
WriteManifestFirst(j) == manifest' = [manifest EXCEPT ![j] = ManifestOf(j)]

WriteManifest(j) == manifest' = [manifest EXCEPT ![j] = ManifestOf(j)']
WritePids        == pidFile' = Listed'

(* attemptEntries and browsableAttempts of runs.ts: the attempts of a      *)
(* manifest, with the current session added while it has not settled.      *)
AttemptEntries(m) ==
    IF m.attempt > 1 THEN m.attempts
    ELSE <<[attempt |-> m.attempt, session |-> m.session]>>

\* Faulty: the attempt that is running is not offered.
SettledAttempts(m) == AttemptEntries(m)

BrowsableAttempts(m) ==
    LET entries == AttemptEntries(m)
    IN  IF \E i \in DOMAIN entries : entries[i].session = m.session THEN entries
        ELSE Append(entries, [attempt |-> m.attempt, session |-> m.session])

(* The wait tool's notion of a settled job, without the informational      *)
(* timeout: the attempt has ended and no other one is going to start.      *)
Settled(j) == state[j] # "absent" /\ exitCode[j] # "null"

-----------------------------------------------------------------------------
Init ==
    /\ state = [j \in Jobs |-> "absent"]
    /\ exitCode = [j \in Jobs |-> "null"]
    /\ attempt = [j \in Jobs |-> 1]
    /\ session = [j \in Jobs |-> 1]
    /\ attempts = [j \in Jobs |-> <<>>]
    /\ pid = [j \in Jobs |-> NoPid]
    /\ stopReason = [j \in Jobs |-> "none"]
    /\ errorMessage = [j \in Jobs |-> "none"]
    /\ quiet = [j \in Jobs |-> FALSE]
    /\ timer = [j \in Jobs |-> FALSE]
    /\ disposed = [j \in Jobs |-> FALSE]
    /\ promptGone = [j \in Jobs |-> FALSE]
    /\ proc = [j \in Jobs |-> [a \in Attempts |-> "none"]]
    /\ manifest = [j \in Jobs |-> NoManifest]
    /\ pidFile = {}
    /\ down = FALSE

\* Faulty: job.pid is not taken from the new process.
SpawnWithoutPid(j, a) ==
    /\ proc' = [proc EXCEPT ![j][a] = "live"]
    /\ UNCHANGED pid

(* spawn(): a process with a pid, or a failed spawn without one whose      *)
(* 'error' event comes later.                                              *)
SpawnProcess(j, a) ==
    \/ /\ proc' = [proc EXCEPT ![j][a] = "live"]
       /\ pid' = [pid EXCEPT ![j] = a]
    \/ /\ proc' = [proc EXCEPT ![j][a] = "unspawned"]
       /\ pid' = [pid EXCEPT ![j] = NoPid]

(* council_dispatch: the tool asks for the hub of the session; after a     *)
(* shutdown that is another hub.                                           *)
SpawnJob(j) ==
    /\ ~down
    /\ state[j] = "absent"
    /\ state' = [state EXCEPT ![j] = "running"]
    /\ attempts' = [attempts EXCEPT ![j] = <<[attempt |-> 1, session |-> 1]>>]
    /\ SpawnProcess(j, 1)
    /\ UNCHANGED <<exitCode, attempt, session, msgVars, supVars, down>>
    /\ WriteManifest(j)
    /\ WritePids

\* Hub.respawn: same job id, the ordinal the supervisor already advanced.
Respawn(j) ==
    /\ state' = [state EXCEPT ![j] = "running"]
    /\ exitCode' = [exitCode EXCEPT ![j] = "null"]
    /\ session' = [session EXCEPT ![j] = attempt[j]]
    /\ stopReason' = [stopReason EXCEPT ![j] = "none"]
    /\ errorMessage' = [errorMessage EXCEPT ![j] = "none"]
    /\ quiet' = [quiet EXCEPT ![j] = FALSE]
    /\ SpawnProcess(j, attempt[j])
    /\ UNCHANGED <<attempt, attempts>>
    /\ WriteManifest(j)
    /\ WritePids

(* The supervisor's timer callback re-checks the job it wakes up for.      *)
Fire(j) ==
    /\ timer[j]
    /\ timer' = [timer EXCEPT ![j] = FALSE]
    /\ IF ~disposed[j] /\ state[j] = "retrying"
       THEN Respawn(j)
       ELSE UNCHANGED <<jobVars, msgVars, proc, fileVars>>
    /\ UNCHANGED <<disposed, promptGone, down>>

(* stdout or stderr data.  A closed assistant message replaces the stop    *)
(* reason and the error message only when it carries one ("none" stands    *)
(* for a chunk that carries neither).                                      *)
Output(j, a, reason, message) ==
    /\ proc[j][a] \in Alive
    /\ quiet' = [quiet EXCEPT ![j] = FALSE]
    /\ stopReason' = IF reason = "none" THEN stopReason
                                        ELSE [stopReason EXCEPT ![j] = reason]
    /\ errorMessage' = IF message = "none" THEN errorMessage
                                           ELSE [errorMessage EXCEPT ![j] = message]
    /\ UNCHANGED <<jobVars, supVars, proc, fileVars, down>>

\* The stall window elapses without a byte from the child.
GoQuiet(j) ==
    /\ state[j] \in {"running", "timeout"}
    /\ ~quiet[j]
    /\ quiet' = [quiet EXCEPT ![j] = TRUE]
    /\ UNCHANGED <<jobVars, stopReason, errorMessage, supVars, proc, fileVars, down>>

-----------------------------------------------------------------------------
(* classifyRetry: the state never overrides a retryable provider error.     *)
(* "stop" stands for "length" too, "aborted" for the other stop reasons.   *)
ClassifyRetry(s, reason, message) ==
    IF s \notin SettledStates THEN "undefined"
    ELSE IF reason = "error" /\ message = "retryable" THEN "retry"
    ELSE IF reason = "stop" \/ s # "done" THEN "terminal"
    ELSE "undefined"

\* The condition under which onSettle arms another attempt.
WantsRetry(j, s) ==
    /\ j \in Supervised
    /\ ~disposed[j]
    /\ ClassifyRetry(s, stopReason[j], errorMessage[j]) = "retry"
    /\ attempt[j] < MaxAttempts

\* Faulty: every settle appends, also the second one of a failed spawn.
RecordAgain(j) == attempts' = [attempts EXCEPT ![j] =
    Append(@, [attempt |-> attempt[j], session |-> session[j]])]

\* settle() first records the completed attempt, once per ordinal.
RecordAttempt(j) ==
    attempts' = [attempts EXCEPT ![j] =
        IF \E i \in DOMAIN @ : @[i].attempt = attempt[j] THEN @
        ELSE Append(@, [attempt |-> attempt[j], session |-> session[j]])]

\* onSettle returned true: settledness is retracted, the cleanup withheld.
Backoff(j) ==
    /\ state' = [state EXCEPT ![j] = "retrying"]
    /\ exitCode' = [exitCode EXCEPT ![j] = "null"]
    /\ attempt' = [attempt EXCEPT ![j] = @ + 1]
    /\ pid' = [pid EXCEPT ![j] = NoPid]
    /\ timer' = [timer EXCEPT ![j] = TRUE]
    /\ UNCHANGED <<disposed, promptGone>>

FinalSettle(j, s, code) ==
    /\ state' = [state EXCEPT ![j] = s]
    /\ exitCode' = [exitCode EXCEPT ![j] = code]
    /\ promptGone' = [promptGone EXCEPT ![j] = TRUE]
    /\ UNCHANGED <<attempt, pid, timer, disposed>>

Settle(j, s, code) ==
    /\ RecordAttempt(j)
    /\ \/ WantsRetry(j, s) /\ Backoff(j)
       \/ ~WantsRetry(j, s) /\ FinalSettle(j, s, code)
    /\ UNCHANGED <<session, msgVars, down>>
    /\ WriteManifest(j)
    /\ WritePids

(* The child's 'close' event.  A child that died of a signal reports no    *)
(* code, which the hub stores as 0 although the state becomes "failed".    *)
CloseState(s, outcome) ==
    IF s \notin {"running", "timeout"} THEN s
    ELSE IF outcome = "zero" THEN "done" ELSE "failed"

Close(j, a, outcome) ==
    /\ proc[j][a] \in Alive
    /\ proc' = [proc EXCEPT ![j][a] = "gone"]
    /\ Settle(j, CloseState(state[j], outcome),
              IF outcome = "nonzero" THEN "nonzero" ELSE "zero")

\* A failed spawn: the 'error' event, and then a 'close' event of its own.
SpawnError(j, a) ==
    /\ proc[j][a] = "unspawned"
    /\ proc' = [proc EXCEPT ![j][a] = "errored"]
    /\ Settle(j, IF state[j] = "running" THEN "failed" ELSE state[j], "nonzero")

SpawnErrorClose(j, a) ==
    /\ proc[j][a] = "errored"
    /\ proc' = [proc EXCEPT ![j][a] = "gone"]
    /\ Settle(j, CloseState(state[j], "nonzero"), "nonzero")

-----------------------------------------------------------------------------
\* Faulty: the state changes and no signal is sent.
KillNobody(j) == proc' = proc

(* SIGTERM to the process group of job.pid; the SIGKILL that follows five  *)
(* seconds later makes the exit certain.                                   *)
KillJob(j) ==
    proc' = [proc EXCEPT ![j] = [a \in Attempts |->
                IF a = pid[j] /\ @[a] = "live" THEN "signalled" ELSE @[a]]]

\* The monitor's tick, on a running job that has been silent too long ...
TickStall(j) ==
    /\ ~down
    /\ state[j] = "running"
    /\ quiet[j]
    /\ state' = [state EXCEPT ![j] = "stalled"]
    /\ KillJob(j)
    /\ UNCHANGED <<exitCode, attempt, session, attempts, pid, msgVars, supVars,
                   pidFile, down>>
    /\ WriteManifest(j)

\* ... and on one that talks but has used up its time: a mark, not a kill.
TickTimeout(j) ==
    /\ ~down
    /\ state[j] = "running"
    /\ ~quiet[j]
    /\ state' = [state EXCEPT ![j] = "timeout"]
    /\ UNCHANGED <<exitCode, attempt, session, attempts, pid, msgVars, supVars,
                   proc, pidFile, down>>
    /\ WriteManifest(j)

\* Faulty: the timer is cleared and the cleanup forgotten.
DisposeTimerOnly(S) ==
    /\ disposed' = [j \in Jobs |-> disposed[j] \/ j \in S]
    /\ timer' = [j \in Jobs |-> timer[j] /\ j \notin S]
    /\ UNCHANGED promptGone

(* dispose(): idempotent; the cleanup runs, the timer is cleared.          *)
Dispose(S) ==
    /\ disposed' = [j \in Jobs |-> disposed[j] \/ j \in S]
    /\ timer' = [j \in Jobs |-> timer[j] /\ j \notin S]
    /\ promptGone' = [j \in Jobs |-> promptGone[j] \/ j \in S]

\* council_cancel of a job between two attempts settles it on the spot.
CancelBackoff(j) ==
    /\ ~down
    /\ state[j] = "retrying"
    /\ Dispose({j})
    /\ state' = [state EXCEPT ![j] = "cancelled"]
    /\ exitCode' = [exitCode EXCEPT ![j] = "zero"]
    /\ UNCHANGED <<attempt, session, attempts, pid, msgVars, proc, down>>
    /\ WriteManifest(j)
    /\ WritePids

\* council_cancel of a job whose process has not ended.
CancelRunning(j) ==
    /\ ~down
    /\ state[j] \notin {"absent", "retrying"}
    /\ exitCode[j] = "null"
    /\ state' = [state EXCEPT ![j] = "cancelled"]
    /\ KillJob(j)
    /\ UNCHANGED <<exitCode, attempt, session, attempts, pid, msgVars, supVars,
                   pidFile, down>>
    /\ WriteManifest(j)

(* Hub.shutdown: the jobs in backoff lose their supervisor, the jobs with  *)
(* a process are killed.  No manifest is written, and the supervisors of   *)
(* the killed jobs are not disposed.                                       *)
Shutdown ==
    /\ ~down
    /\ down' = TRUE
    /\ Dispose({j \in Supervised : state[j] = "retrying"})
    /\ LET killed == {j \in Jobs : /\ state[j] # "absent"
                                   /\ exitCode[j] = "null"
                                   /\ pid[j] # NoPid}
       IN /\ state' = [j \in Jobs |-> IF j \in killed THEN "cancelled" ELSE state[j]]
          /\ proc' = [j \in Jobs |-> [a \in Attempts |->
                        IF j \in killed /\ a = pid[j] /\ proc[j][a] = "live"
                        THEN "signalled" ELSE proc[j][a]]]
    /\ UNCHANGED <<exitCode, attempt, session, attempts, pid, msgVars, manifest>>
    /\ WritePids

-----------------------------------------------------------------------------
Tick(j)   == TickStall(j) \/ TickTimeout(j)
Cancel(j) == CancelBackoff(j) \/ CancelRunning(j)

ProcessEvent(j) ==
    \E a \in Attempts :
        \/ \E r \in StopReasons, m \in ErrorMessages : Output(j, a, r, m)
        \/ \E outcome \in Outcomes : Close(j, a, outcome)
        \/ SpawnError(j, a)
        \/ SpawnErrorClose(j, a)

(* The 'error' event of a failed spawn is queued with process.nextTick:    *)
(* no timer and no tool call reaches the job before it.                    *)
ErrorPending(j) == \E a \in Attempts : proc[j][a] = "unspawned"

Next ==
    \/ \E j \in Jobs :
        \/ SpawnJob(j)
        \/ Fire(j)
        \/ ProcessEvent(j)
        \/ ~ErrorPending(j) /\ (GoQuiet(j) \/ Tick(j) \/ Cancel(j))
    \/ (\A j \in Jobs : ~ErrorPending(j)) /\ Shutdown

Spec == Init /\ [][Next]_vars

-----------------------------------------------------------------------------
TypeOK ==
    /\ state \in [Jobs -> JobStates \cup {"absent"}]
    /\ exitCode \in [Jobs -> ExitCodes]
    /\ attempt \in [Jobs -> Attempts]
    /\ session \in [Jobs -> Attempts]
    /\ attempts \in [Jobs -> Seq([attempt : Attempts, session : Attempts])]
    /\ pid \in [Jobs -> Attempts \cup {NoPid}]
    /\ stopReason \in [Jobs -> StopReasons]
    /\ errorMessage \in [Jobs -> ErrorMessages]
    /\ quiet \in [Jobs -> BOOLEAN]
    /\ timer \in [Jobs -> BOOLEAN]
    /\ disposed \in [Jobs -> BOOLEAN]
    /\ promptGone \in [Jobs -> BOOLEAN]
    /\ proc \in [Jobs -> [Attempts -> ProcStates]]
    /\ manifest \in [Jobs -> Manifests \cup {NoManifest}]
    /\ pidFile \subseteq Jobs \X Attempts
    /\ down \in BOOLEAN

(* The four phases of a job, and what everything the hub, the supervisor   *)
(* and the operating system keep about it looks like in each of them.      *)
Idle(j) ==
    /\ state[j] = "absent" /\ exitCode[j] = "null" /\ stopReason[j] = "none"
    /\ attempt[j] = 1 /\ session[j] = 1 /\ pid[j] = NoPid
    /\ ~timer[j] /\ ~disposed[j] /\ ~promptGone[j]
    /\ proc[j][1] = "none"

\* An attempt is running, or its spawn failed and the hub does not know yet.
Running(j) ==
    /\ state[j] \in {"running", "timeout", "stalled", "cancelled"}
    /\ exitCode[j] = "null"
    /\ session[j] = attempt[j]
    /\ ~timer[j] /\ ~disposed[j] /\ ~promptGone[j]
    /\ \/ proc[j][attempt[j]] \in Alive /\ pid[j] = attempt[j]
       \/ /\ proc[j][attempt[j]] = "unspawned" /\ pid[j] = NoPid
          /\ state[j] = "running" /\ stopReason[j] = "none"

\* The next attempt is armed, unless a shutdown disposed the supervisor.
Waiting(j) ==
    /\ state[j] = "retrying"
    /\ exitCode[j] = "null"
    /\ session[j] = attempt[j] - 1
    /\ pid[j] = NoPid
    /\ j \in Supervised
    /\ timer[j] = ~disposed[j] /\ promptGone[j] = disposed[j]
    /\ proc[j][attempt[j]] = "none"

\* A failed spawn may still owe its 'close' event, which cannot revive the job.
Ended(j) ==
    /\ state[j] \in {"done", "failed", "stalled", "cancelled"}
    /\ exitCode[j] # "null"
    /\ ~timer[j] /\ promptGone[j]
    /\ \/ proc[j][attempt[j]] \in {"none", "gone"}
       \/ /\ proc[j][attempt[j]] = "errored"
          /\ state[j] = "failed" /\ stopReason[j] = "none"

JobPhase(j) ==
    /\ Idle(j) \/ Running(j) \/ Waiting(j) \/ Ended(j)
    /\ \A a \in Attempts : a # attempt[j] =>
            proc[j][a] = IF a < attempt[j] THEN "gone" ELSE "none"

(* A job is always in one of these phases, whatever the order of its       *)
(* events, and no attempt but the current one has a process.               *)
JobPhases == \A j \in Jobs : JobPhase(j)

(* A job never has two live children, and the one it has is the process    *)
(* job.pid names, of a job that counts as unsettled: no kill goes to a     *)
(* stale pid, no job is reported ended while its child still runs.         *)
OneChild == \A j \in Jobs, a \in Attempts :
    proc[j][a] \in Alive =>
        /\ a = pid[j]
        /\ exitCode[j] = "null"
        /\ state[j] \notin {"absent", "retrying"}

(* The pid file lists the children that are alive, all of them and nothing *)
(* else, at every moment, also after a shutdown: a host that crashes       *)
(* leaves no child the next session's sweep would miss.                    *)
SweepList == pidFile = {p \in Jobs \X Attempts : proc[p[1]][p[2]] \in Alive}

(* The processes, the job table and the pid file agree on who is alive.     *)
ChildrenAreKnown == OneChild /\ SweepList

(* The prompt directory is there while a child may read it or another      *)
(* attempt is armed, and it is not leaked by a job that has settled, on    *)
(* whichever of the paths (close, spawn error, cancelled backoff,          *)
(* exhausted budget).                                                      *)
PromptLifetime == \A j \in Jobs :
    /\ Settled(j) => promptGone[j]
    /\ promptGone[j] => ~timer[j] /\ \A a \in Attempts : proc[j][a] \notin Alive

(* Until the shutdown the run directory tells every reader (navigator,     *)
(* job tree, usage gate) what the hub has in memory: no handler leaves a   *)
(* state, exit code, pid, session or attempt unwritten.                    *)
ManifestAgrees == \A j \in Jobs :
    ~down /\ state[j] # "absent" => manifest[j] = ManifestOf(j)

(* The navigator's list of attempts of a dispatch, computed from the       *)
(* manifest, is in order and complete: attempt i is at place i with its    *)
(* own session, and every attempt that was started is in it, during the    *)
(* backoff and after a cancelled one as well.                              *)
Provenance == \A j \in Jobs : manifest[j] # NoManifest =>
    LET browsable == BrowsableAttempts(manifest[j])
    IN  /\ \A i \in DOMAIN browsable : browsable[i] = [attempt |-> i, session |-> i]
        /\ DOMAIN browsable = {a \in Attempts : proc[j][a] # "none"}

(* A settled job stays as it is: no late event of a child, no timer and no *)
(* second 'close' changes its state, its attempts or starts a process.     *)
SettledForever == [][\A j \in Jobs : Settled(j) =>
    /\ Settled(j)'
    /\ state'[j] = state[j]
    /\ attempt'[j] = attempt[j]
    /\ attempts'[j] = attempts[j]
    /\ \A a \in Attempts : proc'[j][a] \notin Alive]_vars

-----------------------------------------------------------------------------
(* What the abstract dispatch knows of a job; one in backoff whose         *)
(* supervisor a shutdown disposed has ended, though its state is still     *)
(* "retrying".                                                             *)
DispatchPhase(j) ==
    IF state[j] = "absent" THEN "idle"
    ELSE IF state[j] = "retrying" THEN IF disposed[j] THEN "ended" ELSE "waiting"
    ELSE IF exitCode[j] = "null" THEN "live" ELSE "ended"

AttemptsMade(j) == IF state[j] = "absent" THEN 0 ELSE session[j]

PromptThere(j) == state[j] # "absent" /\ ~promptGone[j]

Lifecycle == INSTANCE Dispatch WITH
    phase  <- [j \in Jobs |-> DispatchPhase(j)],
    made   <- [j \in Jobs |-> AttemptsMade(j)],
    prompt <- [j \in Jobs |-> PromptThere(j)]

\* The hub implements the abstract dispatch.
ImplementsDispatch == Lifecycle!Spec

-----------------------------------------------------------------------------
(* Fairness: an armed timer fires, the monitor keeps ticking, the events   *)
(* of a failed spawn arrive, and a child that was signalled dies (SIGKILL  *)
(* follows SIGTERM).  Nothing is assumed of a child left alone.            *)
SignalLands(j) == \E a \in Attempts :
    proc[j][a] = "signalled" /\ \E outcome \in Outcomes : Close(j, a, outcome)

SpawnFailureSeen(j) == \E a \in Attempts : SpawnError(j, a) \/ SpawnErrorClose(j, a)

Fairness == \A j \in Jobs :
    /\ WF_vars(Fire(j))
    /\ WF_vars(TickStall(j))
    /\ WF_vars(SpawnFailureSeen(j))
    /\ WF_vars(SignalLands(j))

LiveSpec == Spec /\ Fairness

(* A stalled or cancelled job and a job in backoff do not stay so: the     *)
(* kill lands and the job settles, or the next attempt is running.         *)
NoLimbo == \A j \in Jobs :
    state[j] \in {"stalled", "cancelled", "retrying"} ~>
        \/ Settled(j)
        \/ state[j] \in {"running", "timeout"}
        \/ state[j] = "retrying" /\ disposed[j]

(* A running job whose child falls silent for good does not run forever.   *)
SilentJobEnds == \A j \in Jobs :
    state[j] = "running" /\ quiet[j] ~>
        ~quiet[j] \/ Settled(j) \/ state[j] = "retrying" \/ down

-----------------------------------------------------------------------------
(* What comments and documents of the repository say and the code does not *)
(* do; each is the subject of a run that ends in a counterexample.         *)

(* hub.ts, at 'close': "stalled/cancelled were set before the kill landed; *)
(* don't overwrite them".                                                  *)
CancelIsFinal == [][\A j \in Jobs :
    state[j] = "cancelled" /\ ~down => state'[j] = "cancelled"]_vars

(* runs.ts: manifest.attempts is "ordered and unique across attempts 1..N  *)
(* at every settled write".                                                *)
SettledAttemptsComplete == \A j \in Jobs :
    manifest[j] # NoManifest /\ manifest[j].exitCode # "null" /\ manifest[j].attempt > 1
        => DOMAIN manifest[j].attempts = 1 .. manifest[j].attempt
=============================================================================
