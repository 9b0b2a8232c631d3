------------------------------ MODULE HubProofs ------------------------------
(***************************************************************************)
(* Proofs about Hub for every set of jobs and every retry budget.          *)
(***************************************************************************)
EXTENDS Hub, TLAPS

\* Everything the hub keeps about job k, except its files, stays the same.
Same(k) ==
    /\ state'[k] = state[k] /\ exitCode'[k] = exitCode[k]
    /\ attempt'[k] = attempt[k] /\ session'[k] = session[k]
    /\ pid'[k] = pid[k] /\ stopReason'[k] = stopReason[k]
    /\ timer'[k] = timer[k] /\ disposed'[k] = disposed[k]
    /\ promptGone'[k] = promptGone[k] /\ proc'[k] = proc[k]

LEMMA AttemptsFacts ==
    /\ 1 \in Attempts
    /\ \A a \in Attempts : a \in Nat /\ a # NoPid
BY AttemptsAssumption DEF Attempts, NoPid

\* A handler of one job leaves the phase of every other job alone.
LEMMA Frame ==
    ASSUME NEW k \in Jobs, JobPhase(k), Same(k)
    PROVE  JobPhase(k)'
BY DEF JobPhase, Same, Idle, Running, Waiting, Ended

LEMMA InitInv == Init => TypeOK /\ JobPhases
<1> SUFFICES ASSUME Init PROVE TypeOK /\ JobPhases
  OBVIOUS
<1>1. TypeOK
  <2>1. attempts \in [Jobs -> Seq([attempt : Attempts, session : Attempts])]
    <3> <<>> \in Seq([attempt : Attempts, session : Attempts])
      OBVIOUS
    <3> QED BY DEF Init
  <2>2. timer \in [Jobs -> BOOLEAN] /\ disposed \in [Jobs -> BOOLEAN]
        /\ promptGone \in [Jobs -> BOOLEAN] /\ quiet \in [Jobs -> BOOLEAN]
    BY DEF Init
  <2>3. proc \in [Jobs -> [Attempts -> ProcStates]]
    BY DEF Init, ProcStates
  <2>4. pidFile \subseteq Jobs \X Attempts /\ down \in BOOLEAN
    BY DEF Init
  <2>5. manifest \in [Jobs -> Manifests \cup {NoManifest}]
    BY DEF Init
  <2> QED BY <2>1, <2>2, <2>3, <2>4, <2>5, AttemptsFacts
        DEF Init, TypeOK, ExitCodes, StopReasons, ErrorMessages
<1>2. ASSUME NEW j \in Jobs PROVE JobPhase(j)
  BY AttemptsFacts DEF Init, JobPhase, Idle, Attempts
<1> QED BY <1>1, <1>2 DEF JobPhases

LEMMA SpawnJobPhases ==
    ASSUME TypeOK, JobPhases, NEW j \in Jobs, SpawnJob(j)
    PROVE  JobPhases'
<1> SUFFICES ASSUME NEW k \in Jobs PROVE JobPhase(k)'
  BY DEF JobPhases
<1> JobPhase(k) /\ JobPhase(j)
  BY DEF JobPhases
<1>1. CASE k # j
  BY <1>1, Frame DEF SpawnJob, SpawnProcess, Same, TypeOK, msgVars, supVars
<1>2. CASE k = j
  <2>1. Idle(j)
    BY DEF SpawnJob, JobPhase, Running, Waiting, Ended
  <2> QED BY <1>2, <2>1, AttemptsFacts
        DEF SpawnJob, SpawnProcess, JobPhase, Idle, Running, TypeOK, msgVars, supVars, Alive
<1> QED BY <1>1, <1>2

LEMMA FirePhases ==
    ASSUME TypeOK, JobPhases, NEW j \in Jobs, Fire(j)
    PROVE  JobPhases'
<1> SUFFICES ASSUME NEW k \in Jobs PROVE JobPhase(k)'
  BY DEF JobPhases
<1> JobPhase(k) /\ JobPhase(j)
  BY DEF JobPhases
<1>1. Waiting(j) /\ ~disposed[j]
  BY DEF Fire, JobPhase, Idle, Running, Waiting, Ended
<1>2. Respawn(j)
  BY <1>1 DEF Fire, Waiting
<1>3. CASE k # j
  BY <1>2, <1>3, Frame DEF Fire, Respawn, SpawnProcess, Same, TypeOK
<1>4. CASE k = j
  <2>1. attempt[j] \in Attempts /\ attempt'[j] = attempt[j]
    BY <1>2 DEF Respawn, TypeOK
  <2>2. Running(j)'
    BY <1>1, <1>2, <2>1, AttemptsFacts
      DEF Fire, Respawn, SpawnProcess, Running, Waiting, TypeOK, Alive
  <2>3. ASSUME NEW a \in Attempts, a # attempt[j] PROVE proc'[j][a] = proc[j][a]
    BY <1>2, <2>3 DEF Respawn, SpawnProcess, TypeOK
  <2> QED BY <1>4, <2>1, <2>2, <2>3 DEF JobPhase
<1> QED BY <1>3, <1>4

LEMMA OutputPhases ==
    ASSUME TypeOK, JobPhases, NEW j \in Jobs, NEW a \in Attempts,
           NEW r \in StopReasons, NEW m \in ErrorMessages, Output(j, a, r, m)
    PROVE  JobPhases'
<1> SUFFICES ASSUME NEW k \in Jobs PROVE JobPhase(k)'
  BY DEF JobPhases
<1> JobPhase(k) /\ JobPhase(j)
  BY DEF JobPhases
<1>1. CASE k # j
  BY <1>1, Frame DEF Output, Same, TypeOK, jobVars, supVars
<1>2. CASE k = j
  <2>1. Running(j) /\ a = attempt[j]
    BY AttemptsFacts DEF Output, JobPhase, Idle, Running, Waiting, Ended, Alive, TypeOK
  <2> QED BY <1>2, <2>1 DEF Output, JobPhase, Running, Alive, jobVars, supVars
<1> QED BY <1>1, <1>2

LEMMA GoQuietPhases ==
    ASSUME TypeOK, JobPhases, NEW j \in Jobs, GoQuiet(j)
    PROVE  JobPhases'
<1> SUFFICES ASSUME NEW k \in Jobs PROVE JobPhase(k)'
  BY DEF JobPhases
<1> JobPhase(k) /\ Same(k)
  BY DEF JobPhases, GoQuiet, Same, jobVars, supVars
<1> QED BY Frame

(* Whatever ends an attempt, settle() leaves the job waiting for the next  *)
(* attempt or ended.                                                       *)
LEMMA SettlePhase ==
    ASSUME TypeOK, NEW j \in Jobs, JobPhase(j),
           NEW s \in {"done", "failed", "stalled", "cancelled"},
           NEW code \in {"zero", "nonzero"},
           NEW p \in {"gone", "errored"},
           Running(j) \/ (Ended(j) /\ stopReason[j] = "none"),
           p = "errored" => s = "failed" /\ stopReason[j] = "none",
           proc' = [proc EXCEPT ![j][attempt[j]] = p],
           Settle(j, s, code)
    PROVE  JobPhase(j)'
<1> USE AttemptsFacts
<1>1. attempt[j] \in Attempts /\ session[j] \in Attempts /\ stopReason'[j] = stopReason[j]
  BY DEF TypeOK, Settle, msgVars
<1>2. proc'[j][attempt[j]] = p
      /\ \A a \in Attempts : a # attempt[j] => proc'[j][a] = proc[j][a]
  BY <1>1 DEF TypeOK
<1>3. CASE WantsRetry(j, s) /\ Backoff(j)
  <2>1. Running(j) /\ p = "gone"
    BY <1>3 DEF WantsRetry, ClassifyRetry
  <2>2. attempt'[j] = attempt[j] + 1 /\ attempt'[j] \in Attempts
    BY <1>1, <1>3, AttemptsAssumption DEF WantsRetry, Backoff, TypeOK, Attempts
  <2>3. proc'[j][attempt'[j]] = "none"
    BY <1>1, <1>2, <2>2 DEF JobPhase
  <2>4. Waiting(j)'
    <3>1. state'[j] = "retrying" /\ exitCode'[j] = "null" /\ pid'[j] = NoPid
          /\ j \in Supervised
      BY <1>3 DEF WantsRetry, Backoff, TypeOK
    <3>2. session'[j] = attempt'[j] - 1
      BY <1>1, <2>1, <2>2 DEF Settle, Running
    <3>3. timer'[j] = TRUE /\ disposed'[j] = FALSE /\ promptGone'[j] = FALSE
      BY <1>3, <2>1 DEF Backoff, Running, TypeOK
    <3> QED BY <2>3, <3>1, <3>2, <3>3 DEF Waiting
  <2>5. ASSUME NEW a \in Attempts, a # attempt'[j]
        PROVE  proc'[j][a] = IF a < attempt'[j] THEN "gone" ELSE "none"
    <3>1. CASE a = attempt[j]
      BY <1>1, <1>2, <2>1, <2>2, <3>1
    <3>2. CASE a # attempt[j]
      <4>1. proc'[j][a] = IF a < attempt[j] THEN "gone" ELSE "none"
        BY <1>2, <3>2 DEF JobPhase
      <4>2. a < attempt[j] <=> a < attempt'[j]
        BY <1>1, <2>2, <2>5, <3>2 DEF Attempts
      <4> QED BY <4>1, <4>2
    <3> QED BY <3>1, <3>2
  <2> QED BY <2>4, <2>5 DEF JobPhase
<1>4. CASE ~WantsRetry(j, s) /\ FinalSettle(j, s, code)
  <2>1. attempt'[j] = attempt[j] /\ state'[j] = s /\ exitCode'[j] = code
        /\ promptGone'[j] /\ timer'[j] = timer[j]
    BY <1>4 DEF FinalSettle, TypeOK
  <2>2. Ended(j)'
    BY <1>1, <1>2, <2>1 DEF Running, Ended
  <2> QED BY <1>1, <1>2, <2>1, <2>2 DEF JobPhase
<1> QED BY <1>3, <1>4 DEF Settle

\* settle() of one job is no business of the others.
LEMMA SettleFrame ==
    ASSUME TypeOK, NEW j \in Jobs, NEW k \in Jobs, k # j, JobPhase(k),
           NEW s, NEW code, NEW a, NEW p,
           proc' = [proc EXCEPT ![j][a] = p], Settle(j, s, code)
    PROVE  JobPhase(k)'
<1> Same(k)
  BY DEF Same, Settle, Backoff, FinalSettle, TypeOK, msgVars
<1> QED BY Frame

LEMMA CloseStateFacts ==
    ASSUME NEW j \in Jobs, NEW outcome \in Outcomes, Running(j)
    PROVE  CloseState(state[j], outcome) \in {"done", "failed", "stalled", "cancelled"}
BY DEF CloseState, Running

LEMMA ClosePhases ==
    ASSUME TypeOK, JobPhases, NEW j \in Jobs, NEW a \in Attempts,
           NEW outcome \in Outcomes, Close(j, a, outcome)
    PROVE  JobPhases'
<1> SUFFICES ASSUME NEW k \in Jobs PROVE JobPhase(k)'
  BY DEF JobPhases
<1> JobPhase(k) /\ JobPhase(j)
  BY DEF JobPhases
<1>1. Running(j) /\ a = attempt[j]
  BY AttemptsFacts DEF Close, JobPhase, Idle, Running, Waiting, Ended, Alive, TypeOK
<1>2. PICK s \in {"done", "failed", "stalled", "cancelled"} :
        s = CloseState(state[j], outcome)
  BY <1>1, CloseStateFacts
<1>3. PICK code \in {"zero", "nonzero"} :
        code = IF outcome = "nonzero" THEN "nonzero" ELSE "zero"
  OBVIOUS
<1>4. Settle(j, s, code) /\ proc' = [proc EXCEPT ![j][a] = "gone"]
  BY <1>2, <1>3 DEF Close
<1>5. CASE k = j
  <2>1. proc' = [proc EXCEPT ![j][attempt[j]] = "gone"]
    BY <1>1, <1>4
  <2> QED BY <1>1, <1>4, <1>5, <2>1, SettlePhase
<1>6. CASE k # j
  BY <1>4, <1>6, SettleFrame
<1> QED BY <1>5, <1>6

LEMMA SpawnErrorPhases ==
    ASSUME TypeOK, JobPhases, NEW j \in Jobs, NEW a \in Attempts, SpawnError(j, a)
    PROVE  JobPhases'
<1> SUFFICES ASSUME NEW k \in Jobs PROVE JobPhase(k)'
  BY DEF JobPhases
<1> JobPhase(k) /\ JobPhase(j)
  BY DEF JobPhases
<1>1. Running(j) /\ a = attempt[j] /\ state[j] = "running" /\ stopReason[j] = "none"
  BY AttemptsFacts DEF SpawnError, JobPhase, Idle, Running, Waiting, Ended, Alive, TypeOK
<1>2. Settle(j, "failed", "nonzero") /\ proc' = [proc EXCEPT ![j][a] = "errored"]
  BY <1>1 DEF SpawnError
<1>3. CASE k = j
  BY <1>1, <1>2, <1>3, SettlePhase
<1>4. CASE k # j
  BY <1>2, <1>4, SettleFrame
<1> QED BY <1>3, <1>4

LEMMA SpawnErrorClosePhases ==
    ASSUME TypeOK, JobPhases, NEW j \in Jobs, NEW a \in Attempts, SpawnErrorClose(j, a)
    PROVE  JobPhases'
<1> SUFFICES ASSUME NEW k \in Jobs PROVE JobPhase(k)'
  BY DEF JobPhases
<1> JobPhase(k) /\ JobPhase(j)
  BY DEF JobPhases
<1>1. Ended(j) /\ a = attempt[j] /\ state[j] = "failed" /\ stopReason[j] = "none"
  BY AttemptsFacts DEF SpawnErrorClose, JobPhase, Idle, Running, Waiting, Ended, Alive, TypeOK
<1>2. Settle(j, "failed", "nonzero") /\ proc' = [proc EXCEPT ![j][a] = "gone"]
  BY <1>1 DEF SpawnErrorClose, CloseState
<1>3. CASE k = j
  BY <1>1, <1>2, <1>3, SettlePhase
<1>4. CASE k # j
  BY <1>2, <1>4, SettleFrame
<1> QED BY <1>3, <1>4

\* A signal changes nothing but a live child into a signalled one.
LEMMA KillFacts ==
    ASSUME TypeOK, NEW j \in Jobs, KillJob(j)
    PROVE  /\ \A k \in Jobs : k # j => proc'[k] = proc[k]
           /\ \A a \in Attempts :
                \/ proc'[j][a] = proc[j][a]
                \/ proc[j][a] = "live" /\ proc'[j][a] = "signalled"
BY DEF KillJob, TypeOK

LEMMA TickStallPhases ==
    ASSUME TypeOK, JobPhases, NEW j \in Jobs, TickStall(j), ~ErrorPending(j)
    PROVE  JobPhases'
<1> SUFFICES ASSUME NEW k \in Jobs PROVE JobPhase(k)'
  BY DEF JobPhases
<1> JobPhase(k) /\ JobPhase(j)
  BY DEF JobPhases
<1>1. KillJob(j)
  BY DEF TickStall
<1>2. CASE k # j
  BY <1>1, <1>2, Frame, KillFacts DEF TickStall, Same, TypeOK, msgVars, supVars
<1>3. CASE k = j
  <2>1. Running(j) /\ attempt[j] \in Attempts /\ proc[j][attempt[j]] \in Alive
    BY DEF TickStall, JobPhase, Idle, Running, Waiting, Ended, ErrorPending, TypeOK
  <2>2. proc'[j][attempt[j]] \in Alive
    BY <1>1, <2>1, KillFacts DEF Alive
  <2>3. Running(j)'
    BY <2>1, <2>2 DEF TickStall, Running, Alive, TypeOK, msgVars, supVars
  <2>4. \A a \in Attempts : a # attempt[j] => proc'[j][a] = proc[j][a]
    BY <1>1, KillFacts DEF JobPhase
  <2> QED BY <1>3, <2>3, <2>4 DEF TickStall, JobPhase
<1> QED BY <1>2, <1>3

LEMMA TickTimeoutPhases ==
    ASSUME TypeOK, JobPhases, NEW j \in Jobs, TickTimeout(j), ~ErrorPending(j)
    PROVE  JobPhases'
<1> SUFFICES ASSUME NEW k \in Jobs PROVE JobPhase(k)'
  BY DEF JobPhases
<1> JobPhase(k) /\ JobPhase(j)
  BY DEF JobPhases
<1>1. CASE k # j
  BY <1>1, Frame DEF TickTimeout, Same, TypeOK, msgVars, supVars
<1>2. CASE k = j
  <2>1. Running(j) /\ attempt[j] \in Attempts /\ proc[j][attempt[j]] \in Alive
    BY DEF TickTimeout, JobPhase, Idle, Running, Waiting, Ended, ErrorPending, TypeOK
  <2> QED BY <1>2, <2>1 DEF TickTimeout, JobPhase, Running, Alive, TypeOK, msgVars, supVars
<1> QED BY <1>1, <1>2

LEMMA CancelRunningPhases ==
    ASSUME TypeOK, JobPhases, NEW j \in Jobs, CancelRunning(j), ~ErrorPending(j)
    PROVE  JobPhases'
<1> SUFFICES ASSUME NEW k \in Jobs PROVE JobPhase(k)'
  BY DEF JobPhases
<1> JobPhase(k) /\ JobPhase(j)
  BY DEF JobPhases
<1>1. KillJob(j)
  BY DEF CancelRunning
<1>2. CASE k # j
  BY <1>1, <1>2, Frame, KillFacts DEF CancelRunning, Same, TypeOK, msgVars, supVars
<1>3. CASE k = j
  <2>1. Running(j) /\ attempt[j] \in Attempts /\ proc[j][attempt[j]] \in Alive
    BY DEF CancelRunning, JobPhase, Idle, Running, Waiting, Ended, ErrorPending, TypeOK
  <2>2. proc'[j][attempt[j]] \in Alive
    BY <1>1, <2>1, KillFacts DEF Alive
  <2>3. Running(j)'
    BY <2>1, <2>2 DEF CancelRunning, Running, Alive, TypeOK, msgVars, supVars
  <2>4. \A a \in Attempts : a # attempt[j] => proc'[j][a] = proc[j][a]
    BY <1>1, KillFacts DEF JobPhase
  <2> QED BY <1>3, <2>3, <2>4 DEF CancelRunning, JobPhase
<1> QED BY <1>2, <1>3

LEMMA CancelBackoffPhases ==
    ASSUME TypeOK, JobPhases, NEW j \in Jobs, CancelBackoff(j)
    PROVE  JobPhases'
<1> SUFFICES ASSUME NEW k \in Jobs PROVE JobPhase(k)'
  BY DEF JobPhases
<1> JobPhase(k) /\ JobPhase(j)
  BY DEF JobPhases
<1>1. CASE k # j
  <2>1. disposed'[k] = disposed[k] /\ timer'[k] = timer[k] /\ promptGone'[k] = promptGone[k]
    BY <1>1 DEF CancelBackoff, Dispose, TypeOK
  <2> QED BY <1>1, <2>1, Frame DEF CancelBackoff, Same, TypeOK, msgVars
<1>2. CASE k = j
  <2>1. Waiting(j)
    BY DEF CancelBackoff, JobPhase, Idle, Running, Ended
  <2>2. ~timer'[j] /\ promptGone'[j]
    BY DEF CancelBackoff, Dispose
  <2>3. Ended(j)'
    BY <2>1, <2>2 DEF CancelBackoff, Waiting, Ended, TypeOK
  <2> QED BY <1>2, <2>3 DEF CancelBackoff, JobPhase
<1> QED BY <1>1, <1>2

LEMMA ShutdownPhases ==
    ASSUME TypeOK, JobPhases, Shutdown, \A j \in Jobs : ~ErrorPending(j)
    PROVE  JobPhases'
<1> SUFFICES ASSUME NEW k \in Jobs PROVE JobPhase(k)'
  BY DEF JobPhases
<1> JobPhase(k) /\ ~ErrorPending(k) /\ attempt[k] \in Attempts
  BY DEF JobPhases, TypeOK
<1>1. exitCode'[k] = exitCode[k] /\ attempt'[k] = attempt[k] /\ session'[k] = session[k]
      /\ pid'[k] = pid[k] /\ stopReason'[k] = stopReason[k]
  BY DEF Shutdown, msgVars
<1>2. \A a \in Attempts :
        proc'[k][a] = IF /\ state[k] # "absent" /\ exitCode[k] = "null" /\ pid[k] # NoPid
                         /\ a = pid[k] /\ proc[k][a] = "live"
                      THEN "signalled" ELSE proc[k][a]
  BY DEF Shutdown
<1>3. state'[k] = IF state[k] # "absent" /\ exitCode[k] = "null" /\ pid[k] # NoPid
                  THEN "cancelled" ELSE state[k]
  BY DEF Shutdown
<1>4. disposed'[k] = (disposed[k] \/ (k \in Supervised /\ state[k] = "retrying"))
      /\ timer'[k] = (timer[k] /\ ~(k \in Supervised /\ state[k] = "retrying"))
      /\ promptGone'[k] = (promptGone[k] \/ (k \in Supervised /\ state[k] = "retrying"))
  BY DEF Shutdown, Dispose
<1>5. \A a \in Attempts : a # attempt[k] => proc'[k][a] = proc[k][a]
  BY <1>2 DEF JobPhase
<1>6. CASE Idle(k)
  BY <1>1, <1>2, <1>3, <1>4, <1>5, <1>6, AttemptsFacts DEF Idle, JobPhase
<1>7. CASE Running(k)
  <2>1. proc[k][attempt[k]] \in Alive /\ pid[k] = attempt[k]
    BY <1>7 DEF Running, ErrorPending
  <2>2. proc'[k][attempt[k]] \in Alive
    BY <1>2, <2>1 DEF Alive
  <2>3. Running(k)'
    BY <1>1, <1>3, <1>4, <1>7, <2>1, <2>2, AttemptsFacts DEF Running, Alive
  <2> QED BY <1>1, <1>5, <2>3 DEF JobPhase
<1>8. CASE Waiting(k)
  <2>1. disposed'[k] = TRUE /\ timer'[k] = FALSE /\ promptGone'[k] = TRUE
    BY <1>4, <1>8 DEF Waiting
  <2>2. proc'[k][attempt[k]] = "none" /\ state'[k] = "retrying"
    BY <1>2, <1>3, <1>8 DEF Waiting
  <2> QED BY <1>1, <1>5, <1>8, <2>1, <2>2 DEF Waiting, JobPhase
<1>9. CASE Ended(k)
  <2>1. timer'[k] = FALSE /\ promptGone'[k] = TRUE
    BY <1>4, <1>9 DEF Ended, TypeOK
  <2>2. proc'[k][attempt[k]] = proc[k][attempt[k]] /\ state'[k] = state[k]
    BY <1>2, <1>3, <1>9 DEF Ended
  <2> QED BY <1>1, <1>5, <1>9, <2>1, <2>2 DEF Ended, JobPhase
<1> QED BY <1>6, <1>7, <1>8, <1>9 DEF JobPhase

-----------------------------------------------------------------------------
\* The part of the types that no file depends on.
TableTypes ==
    /\ state \in [Jobs -> JobStates \cup {"absent"}]
    /\ exitCode \in [Jobs -> ExitCodes]
    /\ attempt \in [Jobs -> Attempts]
    /\ session \in [Jobs -> Attempts]
    /\ attempts \in [Jobs -> Seq([attempt : Attempts, session : Attempts])]
    /\ pid \in [Jobs -> Attempts \cup {NoPid}]

LEMMA WriteManifestType ==
    ASSUME manifest \in [Jobs -> Manifests \cup {NoManifest}], NEW j \in Jobs,
           TableTypes', state'[j] # "absent", WriteManifest(j)
    PROVE  manifest' \in [Jobs -> Manifests \cup {NoManifest}]
<1>1. ManifestOf(j)' \in Manifests
  <2>1. <<>> \in Seq([attempt : Attempts, session : Attempts])
    OBVIOUS
  <2>2. (IF attempt'[j] > 1 THEN attempts'[j] ELSE <<>>)
            \in Seq([attempt : Attempts, session : Attempts])
    BY <2>1 DEF TableTypes
  <2>3. state'[j] \in JobStates
    BY DEF TableTypes
  <2> QED BY <2>2, <2>3 DEF TableTypes, ManifestOf, Manifests
<1> QED BY <1>1 DEF WriteManifest

LEMMA WritePidsType ==
    ASSUME TableTypes', WritePids
    PROVE  pidFile' \subseteq Jobs \X Attempts
BY DEF TableTypes, WritePids, Listed

LEMMA RecordAttemptType ==
    ASSUME TypeOK, NEW j \in Jobs, RecordAttempt(j)
    PROVE  attempts' \in [Jobs -> Seq([attempt : Attempts, session : Attempts])]
<1>1. [attempt |-> attempt[j], session |-> session[j]] \in [attempt : Attempts, session : Attempts]
  BY DEF TypeOK
<1>2. attempts[j] \in Seq([attempt : Attempts, session : Attempts])
  BY DEF TypeOK
<1>3. Append(attempts[j], [attempt |-> attempt[j], session |-> session[j]])
        \in Seq([attempt : Attempts, session : Attempts])
  BY <1>1, <1>2
<1> QED BY <1>2, <1>3 DEF RecordAttempt, TypeOK

LEMMA SpawnProcessType ==
    ASSUME TypeOK, NEW j \in Jobs, NEW a \in Attempts, SpawnProcess(j, a)
    PROVE  /\ proc' \in [Jobs -> [Attempts -> ProcStates]]
           /\ pid' \in [Jobs -> Attempts \cup {NoPid}]
<1>1. PICK p \in ProcStates, n \in Attempts \cup {NoPid} :
        proc' = [proc EXCEPT ![j][a] = p] /\ pid' = [pid EXCEPT ![j] = n]
  BY DEF SpawnProcess, ProcStates
<1>2. proc' \in [Jobs -> [Attempts -> ProcStates]]
  BY <1>1 DEF TypeOK
<1>3. pid' \in [Jobs -> Attempts \cup {NoPid}]
  BY <1>1 DEF TypeOK
<1> QED BY <1>2, <1>3

LEMMA SpawnJobType ==
    ASSUME TypeOK, NEW j \in Jobs, SpawnJob(j)
    PROVE  TypeOK'
<1>1. attempts' \in [Jobs -> Seq([attempt : Attempts, session : Attempts])]
  <2>1. <<[attempt |-> 1, session |-> 1]>> \in Seq([attempt : Attempts, session : Attempts])
    BY AttemptsFacts
  <2> QED BY <2>1 DEF SpawnJob, TypeOK
<1>2. state' \in [Jobs -> JobStates \cup {"absent"}] /\ state'[j] = "running"
  BY DEF SpawnJob, TypeOK, JobStates
<1>3. proc' \in [Jobs -> [Attempts -> ProcStates]]
      /\ pid' \in [Jobs -> Attempts \cup {NoPid}]
  BY AttemptsFacts, SpawnProcessType DEF SpawnJob
<1>4. TableTypes'
  BY <1>1, <1>2, <1>3 DEF SpawnJob, TypeOK, TableTypes
<1>5. manifest' \in [Jobs -> Manifests \cup {NoManifest}] /\ pidFile' \subseteq Jobs \X Attempts
  BY <1>2, <1>4, WriteManifestType, WritePidsType DEF SpawnJob, TypeOK
<1> QED BY <1>3, <1>4, <1>5 DEF SpawnJob, TypeOK, TableTypes, msgVars, supVars

LEMMA FireType ==
    ASSUME TypeOK, NEW j \in Jobs, Fire(j)
    PROVE  TypeOK'
<1>1. timer' \in [Jobs -> BOOLEAN]
  BY DEF Fire, TypeOK
<1>2. CASE Respawn(j)
  <2>1. state' \in [Jobs -> JobStates \cup {"absent"}] /\ state'[j] = "running"
        /\ exitCode' \in [Jobs -> ExitCodes]
    BY <1>2 DEF Respawn, TypeOK, JobStates, ExitCodes
  <2>2. proc' \in [Jobs -> [Attempts -> ProcStates]]
        /\ pid' \in [Jobs -> Attempts \cup {NoPid}]
        /\ session' \in [Jobs -> Attempts]
    <3>1. PICK n \in Attempts : n = attempt[j]
      BY DEF TypeOK
    <3>2. SpawnProcess(j, n) /\ session' = [session EXCEPT ![j] = n]
      BY <1>2, <3>1 DEF Respawn
    <3> QED BY <3>2, SpawnProcessType DEF TypeOK
  <2>3. TableTypes'
    BY <1>2, <2>1, <2>2 DEF Respawn, TypeOK, TableTypes
  <2>4. manifest' \in [Jobs -> Manifests \cup {NoManifest}] /\ pidFile' \subseteq Jobs \X Attempts
    BY <1>2, <2>1, <2>3, WriteManifestType, WritePidsType DEF Respawn, TypeOK
  <2>5. stopReason' \in [Jobs -> StopReasons] /\ errorMessage' \in [Jobs -> ErrorMessages]
        /\ quiet' \in [Jobs -> BOOLEAN]
    BY <1>2 DEF Respawn, TypeOK, StopReasons, ErrorMessages
  <2> QED BY <1>1, <2>2, <2>3, <2>4, <2>5 DEF Fire, TypeOK, TableTypes
<1>3. CASE UNCHANGED <<jobVars, msgVars, proc, fileVars>>
  BY <1>1, <1>3 DEF Fire, TypeOK, jobVars, msgVars, fileVars
<1> QED BY <1>2, <1>3 DEF Fire

LEMMA OutputType ==
    ASSUME TypeOK, NEW j \in Jobs, NEW a \in Attempts,
           NEW r \in StopReasons, NEW m \in ErrorMessages, Output(j, a, r, m)
    PROVE  TypeOK'
<1>1. quiet' \in [Jobs -> BOOLEAN] /\ stopReason' \in [Jobs -> StopReasons]
      /\ errorMessage' \in [Jobs -> ErrorMessages]
  BY DEF Output, TypeOK
<1> QED BY <1>1 DEF Output, TypeOK, jobVars, supVars, fileVars

LEMMA GoQuietType ==
    ASSUME TypeOK, NEW j \in Jobs, GoQuiet(j)
    PROVE  TypeOK'
<1>1. quiet' \in [Jobs -> BOOLEAN]
  BY DEF GoQuiet, TypeOK
<1> QED BY <1>1 DEF GoQuiet, TypeOK, jobVars, supVars, fileVars

LEMMA SettleType ==
    ASSUME TypeOK, NEW j \in Jobs,
           NEW s \in JobStates, NEW code \in ExitCodes,
           proc' \in [Jobs -> [Attempts -> ProcStates]], Settle(j, s, code)
    PROVE  TypeOK'
<1>1. attempts' \in [Jobs -> Seq([attempt : Attempts, session : Attempts])]
  BY RecordAttemptType DEF Settle
<1>2. /\ state' \in [Jobs -> JobStates \cup {"absent"}] /\ state'[j] # "absent"
      /\ exitCode' \in [Jobs -> ExitCodes]
      /\ pid' \in [Jobs -> Attempts \cup {NoPid}]
      /\ timer' \in [Jobs -> BOOLEAN] /\ disposed' \in [Jobs -> BOOLEAN]
      /\ promptGone' \in [Jobs -> BOOLEAN]
  BY DEF Settle, Backoff, FinalSettle, TypeOK, JobStates, ExitCodes
<1>3. attempt' \in [Jobs -> Attempts]
  <2>1. CASE WantsRetry(j, s) /\ Backoff(j)
    <3>1. attempt[j] + 1 \in Attempts
      BY <2>1, AttemptsAssumption DEF WantsRetry, TypeOK, Attempts
    <3> QED BY <2>1, <3>1 DEF Backoff, TypeOK
  <2>2. CASE FinalSettle(j, s, code)
    BY <2>2 DEF FinalSettle, TypeOK
  <2> QED BY <2>1, <2>2 DEF Settle
<1>4. TableTypes'
  BY <1>1, <1>2, <1>3 DEF Settle, TypeOK, TableTypes
<1>5. manifest' \in [Jobs -> Manifests \cup {NoManifest}] /\ pidFile' \subseteq Jobs \X Attempts
  BY <1>2, <1>4, WriteManifestType, WritePidsType DEF Settle, TypeOK
<1> QED BY <1>2, <1>4, <1>5 DEF Settle, TypeOK, TableTypes, msgVars

LEMMA ProcessEndType ==
    ASSUME TypeOK, JobPhases, NEW j \in Jobs, NEW a \in Attempts,
           \/ \E outcome \in Outcomes : Close(j, a, outcome)
           \/ SpawnError(j, a)
           \/ SpawnErrorClose(j, a)
    PROVE  TypeOK'
<1>1. state[j] \in JobStates
  <2>1. proc[j][a] \notin {"none", "gone"}
    BY DEF Close, SpawnError, SpawnErrorClose, Alive
  <2>2. ASSUME Idle(j) PROVE FALSE
    BY <2>1, <2>2 DEF JobPhases, JobPhase, Idle
  <2> QED BY <2>2 DEF JobPhases, JobPhase, Running, Waiting, Ended, JobStates
<1>2. CASE \E outcome \in Outcomes : Close(j, a, outcome)
  <2>1. PICK outcome \in Outcomes : Close(j, a, outcome)
    BY <1>2
  <2>2. PICK s \in JobStates : s = CloseState(state[j], outcome)
    BY <1>1 DEF CloseState, JobStates
  <2>3. PICK code \in ExitCodes : code = IF outcome = "nonzero" THEN "nonzero" ELSE "zero"
    BY DEF ExitCodes
  <2>4. Settle(j, s, code) /\ proc' \in [Jobs -> [Attempts -> ProcStates]]
    BY <2>1, <2>2, <2>3 DEF Close, TypeOK, ProcStates
  <2> QED BY <2>4, SettleType
<1>3. CASE SpawnError(j, a)
  <2>1. PICK s \in JobStates : s = IF state[j] = "running" THEN "failed" ELSE state[j]
    BY <1>1 DEF JobStates
  <2>2. Settle(j, s, "nonzero") /\ proc' \in [Jobs -> [Attempts -> ProcStates]]
    BY <1>3, <2>1 DEF SpawnError, TypeOK, ProcStates
  <2> QED BY <2>2, SettleType DEF ExitCodes
<1>4. CASE SpawnErrorClose(j, a)
  <2>1. PICK s \in JobStates : s = CloseState(state[j], "nonzero")
    BY <1>1 DEF CloseState, JobStates
  <2>2. Settle(j, s, "nonzero") /\ proc' \in [Jobs -> [Attempts -> ProcStates]]
    BY <1>4, <2>1 DEF SpawnErrorClose, TypeOK, ProcStates
  <2> QED BY <2>2, SettleType DEF ExitCodes
<1> QED BY <1>2, <1>3, <1>4

LEMMA KillType ==
    ASSUME TypeOK, NEW j \in Jobs, KillJob(j)
    PROVE  proc' \in [Jobs -> [Attempts -> ProcStates]]
BY DEF KillJob, TypeOK, ProcStates

LEMMA MonitorAndCancelType ==
    ASSUME TypeOK, NEW j \in Jobs, Tick(j) \/ CancelRunning(j)
    PROVE  TypeOK'
<1>1. proc' \in [Jobs -> [Attempts -> ProcStates]]
  BY KillType DEF Tick, TickStall, TickTimeout, CancelRunning, TypeOK
<1>2. state' \in [Jobs -> JobStates \cup {"absent"}] /\ state'[j] # "absent"
  BY DEF Tick, TickStall, TickTimeout, CancelRunning, TypeOK, JobStates
<1>3. TableTypes'
  BY <1>2 DEF Tick, TickStall, TickTimeout, CancelRunning, TypeOK, TableTypes
<1>4. manifest' \in [Jobs -> Manifests \cup {NoManifest}]
  BY <1>2, <1>3, WriteManifestType DEF Tick, TickStall, TickTimeout, CancelRunning, TypeOK
<1> QED BY <1>1, <1>3, <1>4
      DEF Tick, TickStall, TickTimeout, CancelRunning, TypeOK, TableTypes, msgVars, supVars

LEMMA DisposeType ==
    ASSUME TypeOK, NEW S \in SUBSET Jobs, Dispose(S)
    PROVE  /\ disposed' \in [Jobs -> BOOLEAN]
           /\ timer' \in [Jobs -> BOOLEAN]
           /\ promptGone' \in [Jobs -> BOOLEAN]
BY DEF Dispose, TypeOK

LEMMA CancelBackoffType ==
    ASSUME TypeOK, NEW j \in Jobs, CancelBackoff(j)
    PROVE  TypeOK'
<1>1. /\ disposed' \in [Jobs -> BOOLEAN] /\ timer' \in [Jobs -> BOOLEAN]
      /\ promptGone' \in [Jobs -> BOOLEAN]
  BY DisposeType DEF CancelBackoff
<1>2. /\ state' \in [Jobs -> JobStates \cup {"absent"}] /\ state'[j] # "absent"
      /\ exitCode' \in [Jobs -> ExitCodes]
  BY DEF CancelBackoff, TypeOK, JobStates, ExitCodes
<1>3. TableTypes'
  BY <1>2 DEF CancelBackoff, TypeOK, TableTypes
<1>4. manifest' \in [Jobs -> Manifests \cup {NoManifest}] /\ pidFile' \subseteq Jobs \X Attempts
  BY <1>2, <1>3, WriteManifestType, WritePidsType DEF CancelBackoff, TypeOK
<1> QED BY <1>1, <1>3, <1>4 DEF CancelBackoff, TypeOK, TableTypes, msgVars

LEMMA ShutdownType ==
    ASSUME TypeOK, Shutdown
    PROVE  TypeOK'
<1>1. /\ disposed' \in [Jobs -> BOOLEAN] /\ timer' \in [Jobs -> BOOLEAN]
      /\ promptGone' \in [Jobs -> BOOLEAN]
  <2>1. {j \in Supervised : state[j] = "retrying"} \in SUBSET Jobs
    BY JobsAssumption
  <2> QED BY <2>1, DisposeType DEF Shutdown
<1>2. /\ state' \in [Jobs -> JobStates \cup {"absent"}]
      /\ proc' \in [Jobs -> [Attempts -> ProcStates]]
  BY DEF Shutdown, TypeOK, JobStates, ProcStates
<1>3. TableTypes'
  BY <1>2 DEF Shutdown, TypeOK, TableTypes
<1>4. pidFile' \subseteq Jobs \X Attempts
  BY <1>3, WritePidsType DEF Shutdown
<1> QED BY <1>1, <1>2, <1>3, <1>4 DEF Shutdown, TypeOK, TableTypes, msgVars

-----------------------------------------------------------------------------
LEMMA StutterInv ==
    ASSUME TypeOK, JobPhases, UNCHANGED vars
    PROVE  TypeOK' /\ JobPhases'
<1>1. TypeOK'
  BY DEF TypeOK, vars, jobVars, msgVars, supVars, fileVars
<1>2. ASSUME NEW k \in Jobs PROVE JobPhase(k)'
  BY Frame DEF JobPhases, Same, vars, jobVars, msgVars, supVars
<1> QED BY <1>1, <1>2 DEF JobPhases

LEMMA NextInv ==
    ASSUME TypeOK, JobPhases, [Next]_vars
    PROVE  TypeOK' /\ JobPhases'
<1>1. CASE UNCHANGED vars
  BY <1>1, StutterInv
<1>2. ASSUME NEW j \in Jobs, SpawnJob(j) PROVE TypeOK' /\ JobPhases'
  BY <1>2, SpawnJobType, SpawnJobPhases
<1>3. ASSUME NEW j \in Jobs, Fire(j) PROVE TypeOK' /\ JobPhases'
  BY <1>3, FireType, FirePhases
<1>4. ASSUME NEW j \in Jobs, ProcessEvent(j) PROVE TypeOK' /\ JobPhases'
  <2>1. PICK a \in Attempts :
          \/ \E r \in StopReasons, m \in ErrorMessages : Output(j, a, r, m)
          \/ \E outcome \in Outcomes : Close(j, a, outcome)
          \/ SpawnError(j, a)
          \/ SpawnErrorClose(j, a)
    BY <1>4 DEF ProcessEvent
  <2>2. CASE \E r \in StopReasons, m \in ErrorMessages : Output(j, a, r, m)
    BY <2>2, OutputType, OutputPhases
  <2>3. CASE \E outcome \in Outcomes : Close(j, a, outcome)
    BY <2>3, ProcessEndType, ClosePhases
  <2>4. CASE SpawnError(j, a)
    BY <2>4, ProcessEndType, SpawnErrorPhases
  <2>5. CASE SpawnErrorClose(j, a)
    BY <2>5, ProcessEndType, SpawnErrorClosePhases
  <2> QED BY <2>1, <2>2, <2>3, <2>4, <2>5
<1>5. ASSUME NEW j \in Jobs, ~ErrorPending(j), GoQuiet(j) PROVE TypeOK' /\ JobPhases'
  BY <1>5, GoQuietType, GoQuietPhases
<1>6. ASSUME NEW j \in Jobs, ~ErrorPending(j), Tick(j) PROVE TypeOK' /\ JobPhases'
  BY <1>6, MonitorAndCancelType, TickStallPhases, TickTimeoutPhases DEF Tick
<1>7. ASSUME NEW j \in Jobs, ~ErrorPending(j), Cancel(j) PROVE TypeOK' /\ JobPhases'
  BY <1>7, MonitorAndCancelType, CancelBackoffType, CancelRunningPhases, CancelBackoffPhases
    DEF Cancel
<1>8. CASE (\A j \in Jobs : ~ErrorPending(j)) /\ Shutdown
  BY <1>8, ShutdownType, ShutdownPhases
<1>9. CASE \E j \in Jobs :
        \/ SpawnJob(j)
        \/ Fire(j)
        \/ ProcessEvent(j)
        \/ ~ErrorPending(j) /\ (GoQuiet(j) \/ Tick(j) \/ Cancel(j))
  BY <1>2, <1>3, <1>4, <1>5, <1>6, <1>7, <1>9
<1> QED BY <1>1, <1>8, <1>9 DEF Next

(* Every variable keeps its type and every job is in one of its four       *)
(* phases (hub.ts Job, job-retry.ts).                                      *)
THEOREM PhasesCorrect == Spec => [](TypeOK /\ JobPhases)
<1>1. Init => TypeOK /\ JobPhases
  BY InitInv
<1>2. TypeOK /\ JobPhases /\ [Next]_vars => TypeOK' /\ JobPhases'
  BY NextInv
<1> QED BY <1>1, <1>2, PTL DEF Spec

\* The type invariant, for every set of jobs and every retry budget.
THEOREM TypeCorrect == Spec => []TypeOK
BY PhasesCorrect, PTL

LEMMA PhasesOneChild ==
    ASSUME TypeOK, JobPhases
    PROVE  OneChild
<1> SUFFICES ASSUME NEW j \in Jobs, NEW a \in Attempts, proc[j][a] \in Alive
             PROVE  a = pid[j] /\ exitCode[j] = "null" /\ state[j] \notin {"absent", "retrying"}
  BY DEF OneChild
<1> JobPhase(j)
  BY DEF JobPhases
<1>1. a = attempt[j]
  BY DEF JobPhase, Alive
<1>2. Running(j)
  BY <1>1 DEF JobPhase, Idle, Waiting, Ended, Alive
<1> QED BY <1>1, <1>2 DEF Running, Alive

(* No job ever has two live children, or one the hub no longer counts      *)
(* (hub.ts spawnProcess, settle, cancel, shutdown; job-retry.ts fire).     *)
THEOREM OneChildAlways == Spec => []OneChild
BY PhasesCorrect, PhasesOneChild, PTL

LEMMA PhasesPrompt ==
    ASSUME TypeOK, JobPhases
    PROVE  PromptLifetime
<1> SUFFICES ASSUME NEW j \in Jobs
             PROVE  /\ Settled(j) => promptGone[j]
                    /\ promptGone[j] =>
                         ~timer[j] /\ \A a \in Attempts : proc[j][a] \notin Alive
  BY Zenon DEF PromptLifetime
<1> JobPhase(j) /\ OneChild
  BY PhasesOneChild DEF JobPhases
<1>1. CASE Idle(j)
  BY <1>1 DEF Idle, Settled
<1>2. CASE Running(j)
  BY <1>2 DEF Running, Settled
<1>3. CASE Waiting(j)
  BY <1>3 DEF Waiting, Settled, OneChild, TypeOK
<1>4. CASE Ended(j)
  BY <1>4 DEF Ended, Settled, OneChild
<1> QED BY <1>1, <1>2, <1>3, <1>4 DEF JobPhase

(* The prompt directory outlives every attempt that reads it and no        *)
(* settled job leaks it (hub-tools.ts once, hub.ts settle, job-retry.ts    *)
(* dispose).                                                               *)
THEOREM PromptLifetimeAlways == Spec => []PromptLifetime
BY PhasesCorrect, PhasesPrompt, PTL

-----------------------------------------------------------------------------
(* The pid file is written by every handler that changes what it lists,    *)
(* and only by those.                                                      *)
Silent(j) ==
    \/ GoQuiet(j)
    \/ Tick(j)
    \/ CancelRunning(j)
    \/ \E a \in Attempts, r \in StopReasons, m \in ErrorMessages : Output(j, a, r, m)

LEMMA SilentListed ==
    ASSUME TypeOK, NEW j \in Jobs, Silent(j)
    PROVE  pidFile' = pidFile /\ Listed' = Listed
<1>1. pidFile' = pidFile /\ exitCode' = exitCode /\ pid' = pid
  BY DEF Silent, GoQuiet, Tick, TickStall, TickTimeout, CancelRunning, Output,
         jobVars, fileVars
<1>2. ASSUME NEW k \in Jobs PROVE state'[k] # "absent" <=> state[k] # "absent"
  BY DEF Silent, GoQuiet, Tick, TickStall, TickTimeout, CancelRunning, Output,
         jobVars, TypeOK
<1> QED BY <1>1, <1>2 DEF Listed

LEMMA NextListed ==
    ASSUME TypeOK, pidFile = Listed, [Next]_vars
    PROVE  pidFile' = Listed'
<1>1. CASE UNCHANGED vars
  BY <1>1 DEF vars, jobVars, fileVars, Listed
<1>2. CASE WritePids
  BY <1>2 DEF WritePids
<1>3. ASSUME NEW j \in Jobs, Silent(j) PROVE pidFile' = Listed'
  BY <1>3, SilentListed
<1>4. ASSUME NEW j \in Jobs, Fire(j) PROVE pidFile' = Listed'
  BY <1>2, <1>4 DEF Fire, Respawn, jobVars, fileVars, Listed
<1>5. ASSUME NEW j \in Jobs, ProcessEvent(j) PROVE pidFile' = Listed'
  BY <1>2, <1>3, <1>5 DEF ProcessEvent, Silent, Close, SpawnError, SpawnErrorClose, Settle
<1>6. ASSUME NEW j \in Jobs, SpawnJob(j) PROVE pidFile' = Listed'
  BY <1>2, <1>6 DEF SpawnJob
<1>7. ASSUME NEW j \in Jobs, GoQuiet(j) \/ Tick(j) \/ Cancel(j) PROVE pidFile' = Listed'
  BY <1>2, <1>3, <1>7 DEF Silent, Cancel, CancelBackoff
<1>8. CASE Shutdown
  BY <1>2, <1>8 DEF Shutdown
<1>9. CASE \E j \in Jobs :
        \/ SpawnJob(j)
        \/ Fire(j)
        \/ ProcessEvent(j)
        \/ ~ErrorPending(j) /\ (GoQuiet(j) \/ Tick(j) \/ Cancel(j))
  BY <1>4, <1>5, <1>6, <1>7, <1>9
<1> QED BY <1>1, <1>8, <1>9 DEF Next

PidsListed == pidFile = Listed

LEMMA ListedCorrect == Spec => [](TypeOK /\ JobPhases /\ PidsListed)
<1>1. Init => PidsListed
  BY DEF Init, Listed, PidsListed
<1>2. TypeOK /\ PidsListed /\ [Next]_vars => PidsListed'
  BY NextListed DEF PidsListed
<1> QED BY <1>1, <1>2, PhasesCorrect, PTL DEF Spec

LEMMA ListedSweep ==
    ASSUME TypeOK, JobPhases, PidsListed
    PROVE  SweepList
<1>1. ASSUME NEW j \in Jobs, NEW a \in Attempts
      PROVE  <<j, a>> \in Listed <=> proc[j][a] \in Alive
  <2> JobPhase(j) /\ OneChild /\ attempt[j] \in Attempts
    BY PhasesOneChild DEF JobPhases, TypeOK
  <2>1. <<j, a>> \in Listed <=>
          state[j] # "absent" /\ exitCode[j] = "null" /\ pid[j] # NoPid /\ a = pid[j]
    BY DEF Listed
  <2>2. ASSUME proc[j][a] \in Alive PROVE <<j, a>> \in Listed
    BY <2>1, <2>2, AttemptsFacts DEF OneChild
  <2>3. ASSUME <<j, a>> \in Listed PROVE proc[j][a] \in Alive
    <3>1. Running(j)
      BY <2>1, <2>3 DEF JobPhase, Idle, Waiting, Ended
    <3> QED BY <2>1, <2>3, <3>1 DEF Running
  <2> QED BY <2>2, <2>3
<1>2. Listed \subseteq Jobs \X Attempts
  BY DEF Listed, TypeOK
<1>3. Listed = {p \in Jobs \X Attempts : proc[p[1]][p[2]] \in Alive}
  <2>1. ASSUME NEW p \in Jobs \X Attempts
        PROVE  p \in Listed <=> proc[p[1]][p[2]] \in Alive
    BY <1>1
  <2> QED BY <1>2, <2>1
<1> QED BY <1>3 DEF SweepList, PidsListed

(* The pid file always lists exactly the live children, so that the sweep  *)
(* of the next session misses none of them (hub.ts writePids).             *)
THEOREM SweepListAlways == Spec => []SweepList
BY ListedCorrect, ListedSweep, PTL

(* Processes, job table and pid file agree: what a kill and the sweep of   *)
(* the next session go by.                                                 *)
THEOREM ChildrenKnown == Spec => []ChildrenAreKnown
<1>1. OneChild /\ SweepList => ChildrenAreKnown
  BY DEF ChildrenAreKnown
<1> QED BY <1>1, OneChildAlways, SweepListAlways, PTL

-----------------------------------------------------------------------------
\* What the manifest shows of job k does not change.
LEMMA ManifestFrame ==
    ASSUME NEW k \in Jobs, state'[k] = state[k], exitCode'[k] = exitCode[k],
           pid'[k] = pid[k], session'[k] = session[k], attempt'[k] = attempt[k],
           attempts'[k] = attempts[k], manifest'[k] = manifest[k], down' = down,
           ManifestAgrees
    PROVE  (~down /\ state[k] # "absent" => manifest[k] = ManifestOf(k))'
BY DEF ManifestAgrees, ManifestOf

LEMMA NextManifest ==
    ASSUME TypeOK, JobPhases, ManifestAgrees, [Next]_vars
    PROVE  ManifestAgrees'
<1>1. CASE UNCHANGED vars
  BY <1>1, ManifestFrame DEF ManifestAgrees, vars, jobVars, fileVars
<1>2. CASE Shutdown
  BY <1>2 DEF Shutdown, ManifestAgrees
<1>3. ASSUME NEW j \in Jobs, WriteManifest(j), down' = down,
             \A k \in Jobs : k # j =>
                 /\ state'[k] = state[k] /\ exitCode'[k] = exitCode[k]
                 /\ pid'[k] = pid[k] /\ session'[k] = session[k]
                 /\ attempt'[k] = attempt[k] /\ attempts'[k] = attempts[k]
      PROVE  ManifestAgrees'
  <2> SUFFICES ASSUME NEW k \in Jobs
               PROVE  (~down /\ state[k] # "absent" => manifest[k] = ManifestOf(k))'
    BY DEF ManifestAgrees
  <2>1. CASE k = j
    BY <1>3, <2>1 DEF WriteManifest, TypeOK
  <2>2. CASE k # j
    <3>1. manifest'[k] = manifest[k]
      BY <1>3, <2>2 DEF WriteManifest, TypeOK
    <3> QED BY <1>3, <2>2, <3>1, ManifestFrame
  <2> QED BY <2>1, <2>2
<1>4. ASSUME UNCHANGED <<jobVars, manifest, down>> PROVE ManifestAgrees'
  BY <1>4, ManifestFrame DEF ManifestAgrees, jobVars
<1>5. ASSUME NEW j \in Jobs, SpawnJob(j) PROVE ManifestAgrees'
  BY <1>3, <1>5 DEF SpawnJob, SpawnProcess, TypeOK
<1>6. ASSUME NEW j \in Jobs, Fire(j) PROVE ManifestAgrees'
  BY <1>3, <1>4, <1>6 DEF Fire, Respawn, SpawnProcess, TypeOK, fileVars
<1>7. ASSUME NEW j \in Jobs, NEW s, NEW code, Settle(j, s, code) PROVE ManifestAgrees'
  BY <1>3, <1>7 DEF Settle, RecordAttempt, Backoff, FinalSettle, TypeOK
<1>8. ASSUME NEW j \in Jobs, ProcessEvent(j) PROVE ManifestAgrees'
  BY <1>4, <1>7, <1>8
    DEF ProcessEvent, Output, Close, SpawnError, SpawnErrorClose, fileVars
<1>9. ASSUME NEW j \in Jobs, GoQuiet(j) \/ Tick(j) \/ Cancel(j) PROVE ManifestAgrees'
  BY <1>3, <1>4, <1>9
    DEF GoQuiet, Tick, TickStall, TickTimeout, Cancel, CancelRunning, CancelBackoff,
        TypeOK, fileVars
<1>10. CASE \E j \in Jobs :
        \/ SpawnJob(j)
        \/ Fire(j)
        \/ ProcessEvent(j)
        \/ ~ErrorPending(j) /\ (GoQuiet(j) \/ Tick(j) \/ Cancel(j))
  BY <1>5, <1>6, <1>8, <1>9, <1>10
<1> QED BY <1>1, <1>2, <1>10 DEF Next

(* Until the shutdown every manifest on disk shows what the hub has in     *)
(* memory (hub.ts writeJobManifest and its callers).                       *)
THEOREM ManifestAgreesAlways == Spec => []ManifestAgrees
<1>1. Init => ManifestAgrees
  BY DEF Init, ManifestAgrees
<1>2. TypeOK /\ JobPhases /\ ManifestAgrees /\ [Next]_vars => ManifestAgrees'
  BY NextManifest
<1> QED BY <1>1, <1>2, PhasesCorrect, PTL DEF Spec

-----------------------------------------------------------------------------
(* The recorded attempts.  Attempt i runs the i-th session; what settle()  *)
(* has appended is attempts 1, 2, ... in that order, up to the one before  *)
(* the attempt that is open, or up to the last one.                        *)
Open(j) == exitCode[j] = "null" /\ state[j] # "retrying"

Recorded(j) ==
    /\ Len(attempts[j]) = IF Open(j) /\ session[j] > 1 THEN session[j] - 1 ELSE session[j]
    /\ \A i \in 1 .. Len(attempts[j]) : attempts[j][i] = [attempt |-> i, session |-> i]

Started(j) == \A a \in Attempts :
    proc[j][a] # "none" <=> state[j] # "absent" /\ a <= session[j]

Sessions == \A j \in Jobs : Started(j) /\ (state[j] # "absent" => Recorded(j))

\* Nothing the three definitions look at changes.
KeepsSessions(k) ==
    /\ attempts'[k] = attempts[k] /\ session'[k] = session[k]
    /\ state'[k] # "absent" <=> state[k] # "absent"
    /\ Open(k)' <=> Open(k)
    /\ \A a \in Attempts : proc'[k][a] # "none" <=> proc[k][a] # "none"

LEMMA SessionsFrame ==
    ASSUME Sessions, NEW k \in Jobs, KeepsSessions(k)
    PROVE  (Started(k) /\ (state[k] # "absent" => Recorded(k)))'
<1>1. attempts'[k] = attempts[k] /\ session'[k] = session[k] /\ (Open(k)' <=> Open(k))
  BY DEF KeepsSessions
<1>2. Started(k)'
  BY DEF Sessions, KeepsSessions, Started
<1>3. (state[k] # "absent" => Recorded(k))'
  BY <1>1 DEF Sessions, KeepsSessions, Recorded
<1> QED BY <1>2, <1>3

LEMMA SessionFacts ==
    ASSUME TypeOK, JobPhases, Sessions, NEW j \in Jobs, state[j] # "absent"
    PROVE  /\ session[j] \in Nat /\ attempt[j] \in Nat
           /\ 1 <= session[j] /\ session[j] <= attempt[j]
           /\ proc[j][attempt[j]] # "none" => session[j] = attempt[j]
<1>1. session[j] \in Attempts /\ attempt[j] \in Attempts
  BY DEF TypeOK
<1>2. proc[j][session[j]] # "none"
  BY <1>1 DEF Sessions, Started, Attempts
<1>3. session[j] <= attempt[j]
  BY <1>1, <1>2 DEF JobPhases, JobPhase, Attempts
<1>4. ASSUME proc[j][attempt[j]] # "none" PROVE attempt[j] <= session[j]
  BY <1>1, <1>4 DEF Sessions, Started
<1> QED BY <1>1, <1>3, <1>4 DEF Attempts

(* settle() of an attempt that is open appends it; of one already recorded *)
(* it leaves the list as it is.                                            *)
LEMMA RecordFacts ==
    ASSUME TypeOK, NEW j \in Jobs, session[j] = attempt[j], Recorded(j), RecordAttempt(j)
    PROVE  /\ Len(attempts'[j]) = session[j]
           /\ \A i \in 1 .. Len(attempts'[j]) : attempts'[j][i] = [attempt |-> i, session |-> i]
           /\ ~Open(j) => attempts'[j] = attempts[j]
<1> DEFINE list == attempts[j]
           entry == [attempt |-> attempt[j], session |-> session[j]]
<1>1. /\ list \in Seq([attempt : Attempts, session : Attempts])
      /\ DOMAIN list = 1 .. Len(list) /\ Len(list) \in Nat
      /\ session[j] \in Nat /\ session[j] >= 1
  <2>1. list \in Seq([attempt : Attempts, session : Attempts]) /\ session[j] \in Attempts
    BY DEF TypeOK
  <2> QED BY <2>1, AttemptsAssumption DEF Attempts
<1>2. attempts'[j] = IF \E i \in DOMAIN list : list[i].attempt = attempt[j] THEN list
                     ELSE Append(list, entry)
  BY DEF RecordAttempt, TypeOK
<1> \A i \in 1 .. Len(list) : list[i].attempt = i
  <2> SUFFICES ASSUME NEW i \in 1 .. Len(list) PROVE list[i].attempt = i
    OBVIOUS
  <2>1. list[i] = [attempt |-> i, session |-> i]
    BY DEF Recorded
  <2> QED BY <2>1
<1> HIDE DEF list
<1>3. CASE Len(list) = session[j]
  <2>1. session[j] \in DOMAIN list /\ list[session[j]].attempt = attempt[j]
    BY <1>1, <1>3
  <2> QED BY <1>2, <1>3, <2>1 DEF Recorded, list
<1>4. CASE Len(list) # session[j]
  <2>1. Len(list) = session[j] - 1 /\ Open(j)
    BY <1>4 DEF Recorded, list
  <2>2. \A i \in DOMAIN list : list[i].attempt # attempt[j]
    BY <1>1, <2>1
  <2>3. attempts'[j] = Append(list, entry)
    BY <1>2, <2>2
  <2>4. Len(attempts'[j]) = session[j]
    BY <1>1, <2>1, <2>3
  <2>5. ASSUME NEW i \in 1 .. Len(attempts'[j])
        PROVE  attempts'[j][i] = [attempt |-> i, session |-> i]
    <3>1. CASE i = session[j]
      BY <1>1, <2>1, <2>3, <3>1
    <3>2. CASE i # session[j]
      <4>1. i \in 1 .. Len(list)
        BY <1>1, <2>1, <2>4, <3>2
      <4>2. attempts'[j][i] = list[i]
        BY <1>1, <2>3, <4>1
      <4> QED BY <4>1, <4>2 DEF Recorded, list
    <3> QED BY <3>1, <3>2
  <2> QED BY <2>1, <2>4, <2>5
<1> QED BY <1>3, <1>4

LEMMA SettleSessions ==
    ASSUME TypeOK, JobPhases, Sessions, NEW j \in Jobs, NEW s \in SettledStates,
           NEW code \in {"zero", "nonzero"}, NEW p \in {"errored", "gone"},
           state[j] # "absent", proc[j][attempt[j]] # "none",
           proc' = [proc EXCEPT ![j][attempt[j]] = p], Settle(j, s, code)
    PROVE  Sessions'
<1> SUFFICES ASSUME NEW k \in Jobs
             PROVE  (Started(k) /\ (state[k] # "absent" => Recorded(k)))'
  BY DEF Sessions
<1>1. CASE k # j
  <2>1. KeepsSessions(k)
    BY <1>1 DEF KeepsSessions, Open, Settle, RecordAttempt, Backoff, FinalSettle, TypeOK
  <2> QED BY <2>1, SessionsFrame
<1>2. CASE k = j
  <2>1. session[j] = attempt[j] /\ Recorded(j)
    BY SessionFacts DEF Sessions
  <2>2. RecordAttempt(j) /\ session' = session
    BY DEF Settle
  <2>3. ~Open(j)' /\ state'[j] # "absent"
    BY DEF Settle, Backoff, FinalSettle, Open, TypeOK, SettledStates
  <2>4. Recorded(j)'
    BY <2>1, <2>2, <2>3, RecordFacts DEF Recorded
  <2>5. \A a \in Attempts : proc'[j][a] # "none" <=> proc[j][a] # "none"
    BY DEF TypeOK
  <2>6. Started(j)'
    BY <2>2, <2>3, <2>5 DEF Sessions, Started
  <2> QED BY <1>2, <2>4, <2>6
<1> QED BY <1>1, <1>2

\* The handlers of one job leave the others alone.
LEMMA OtherSessions ==
    ASSUME TypeOK, Sessions, NEW j \in Jobs, NEW k \in Jobs, k # j,
           SpawnJob(j) \/ Fire(j)
    PROVE  KeepsSessions(k)
<1>1. CASE SpawnJob(j)
  BY <1>1 DEF SpawnJob, SpawnProcess, KeepsSessions, Open, TypeOK
<1>2. CASE Fire(j)
  BY <1>2 DEF Fire, Respawn, SpawnProcess, KeepsSessions, Open, TypeOK, jobVars
<1> QED BY <1>1, <1>2

LEMMA SpawnJobSessions ==
    ASSUME TypeOK, JobPhases, Sessions, NEW j \in Jobs, SpawnJob(j)
    PROVE  (Started(j) /\ (state[j] # "absent" => Recorded(j)))'
<1>1. session'[j] = 1 /\ state'[j] = "running" /\ attempts'[j] = <<[attempt |-> 1, session |-> 1]>>
  BY DEF SpawnJob, JobPhases, JobPhase, Idle, Running, Waiting, Ended, TypeOK
<1>2. Recorded(j)'
  BY <1>1 DEF Recorded
<1>3. ASSUME NEW a \in Attempts PROVE proc'[j][a] # "none" <=> a <= 1
  <2>1. proc[j][a] = "none" /\ a >= 1
    BY DEF SpawnJob, Sessions, Started, Attempts
  <2>2. proc'[j][1] # "none" /\ (a # 1 => proc'[j][a] = proc[j][a])
    BY AttemptsFacts DEF SpawnJob, SpawnProcess, TypeOK
  <2> QED BY <2>1, <2>2 DEF Attempts
<1> QED BY <1>1, <1>2, <1>3 DEF Started

\* The attempt a timer starts has the session after the last one recorded.
LEMMA FireSessions ==
    ASSUME TypeOK, JobPhases, Sessions, NEW j \in Jobs, Fire(j)
    PROVE  (Started(j) /\ (state[j] # "absent" => Recorded(j)))'
<1>1. Waiting(j) /\ Respawn(j)
  BY DEF Fire, JobPhases, JobPhase, Idle, Running, Waiting, Ended
<1>2. /\ session'[j] = attempt[j] /\ session[j] = attempt[j] - 1 /\ attempts'[j] = attempts[j]
      /\ state'[j] = "running" /\ exitCode'[j] = "null" /\ state[j] = "retrying"
      /\ attempt[j] \in Attempts /\ session[j] \in Attempts
  BY <1>1 DEF Waiting, Respawn, TypeOK
<1>3. Recorded(j)'
  BY <1>2 DEF Sessions, Recorded, Open, Attempts
<1>4. ASSUME NEW a \in Attempts PROVE proc'[j][a] # "none" <=> a <= attempt[j]
  <2>1. proc[j][a] # "none" <=> a <= attempt[j] - 1
    BY <1>2 DEF Sessions, Started
  <2>2. proc'[j][attempt[j]] # "none" /\ (a # attempt[j] => proc'[j][a] = proc[j][a])
    BY <1>1, <1>2 DEF Respawn, SpawnProcess, TypeOK
  <2> QED BY <1>2, <2>1, <2>2 DEF Attempts
<1> QED BY <1>2, <1>3, <1>4 DEF Started

\* Every other handler but settle() keeps sessions and recorded attempts.
LEMMA QuietSessions ==
    ASSUME TypeOK, NEW j \in Jobs, NEW k \in Jobs,
           \/ Silent(j)
           \/ CancelBackoff(j)
    PROVE  KeepsSessions(k)
<1>1. CASE Silent(j)
  <2>1. /\ UNCHANGED <<attempts, session, exitCode>>
        /\ state'[k] = state[k] \/ {state[k], state'[k]} \cap {"absent", "retrying"} = {}
    BY <1>1 DEF Silent, GoQuiet, Tick, TickStall, TickTimeout, CancelRunning, Output, jobVars, TypeOK
  <2>2. proc' = proc \/ KillJob(j)
    BY <1>1 DEF Silent, GoQuiet, Tick, TickStall, TickTimeout, CancelRunning, Output
  <2>3. \A a \in Attempts : proc'[k][a] # "none" <=> proc[k][a] # "none"
    BY <2>2 DEF KillJob, TypeOK
  <2> QED BY <2>1, <2>3 DEF KeepsSessions, Open
<1>2. CASE CancelBackoff(j)
  BY <1>2 DEF CancelBackoff, KeepsSessions, Open, TypeOK
<1> QED BY <1>1, <1>2

LEMMA ShutdownSessions ==
    ASSUME TypeOK, JobPhases, NEW k \in Jobs, Shutdown
    PROVE  KeepsSessions(k)
<1>1. UNCHANGED <<attempts, session, exitCode>>
  BY DEF Shutdown
<1>2. state'[k] = state[k] \/ {state[k], state'[k]} \cap {"absent", "retrying"} = {}
  <2>1. pid[k] # NoPid => state[k] # "retrying" \/ exitCode[k] # "null"
    BY DEF JobPhases, JobPhase, Idle, Running, Waiting, Ended
  <2> QED BY <2>1 DEF Shutdown, TypeOK
<1>3. \A a \in Attempts : proc'[k][a] # "none" <=> proc[k][a] # "none"
  BY DEF Shutdown, TypeOK
<1> QED BY <1>1, <1>2, <1>3 DEF KeepsSessions, Open

LEMMA EventSessions ==
    ASSUME TypeOK, JobPhases, Sessions, NEW j \in Jobs, NEW a \in Attempts,
           \/ \E outcome \in Outcomes : Close(j, a, outcome)
           \/ SpawnError(j, a)
           \/ SpawnErrorClose(j, a)
    PROVE  Sessions'
<1> JobPhase(j)
  BY DEF JobPhases
<1>1. a = attempt[j] /\ state[j] # "absent" /\ proc[j][a] # "none"
  BY DEF Close, SpawnError, SpawnErrorClose, Alive, JobPhase, Idle, Running, Waiting, Ended, Sessions,
         Started
<1>2. ASSUME NEW outcome \in Outcomes, Close(j, a, outcome) PROVE Sessions'
  <2>1. Running(j)
    BY <1>1, <1>2 DEF Close, JobPhase, Idle, Running, Waiting, Ended, Alive
  <2>2. PICK s \in SettledStates : s = CloseState(state[j], outcome)
    BY <2>1, CloseStateFacts DEF SettledStates
  <2>3. PICK code \in {"zero", "nonzero"} : code = IF outcome = "nonzero" THEN "nonzero" ELSE "zero"
    OBVIOUS
  <2>4. Settle(j, s, code) /\ proc' = [proc EXCEPT ![j][attempt[j]] = "gone"]
    BY <1>1, <1>2, <2>2, <2>3 DEF Close
  <2> QED BY <1>1, <2>4, SettleSessions
<1>3. CASE SpawnError(j, a)
  <2>1. PICK s \in SettledStates : s = IF state[j] = "running" THEN "failed" ELSE state[j]
    BY <1>1, <1>3 DEF SpawnError, JobPhase, Idle, Running, Waiting, Ended, Alive, SettledStates
  <2>2. Settle(j, s, "nonzero") /\ proc' = [proc EXCEPT ![j][attempt[j]] = "errored"]
    BY <1>1, <1>3, <2>1 DEF SpawnError
  <2> QED BY <1>1, <2>2, SettleSessions
<1>4. CASE SpawnErrorClose(j, a)
  <2>1. state[j] = "failed"
    BY <1>1, <1>4 DEF SpawnErrorClose, JobPhase, Idle, Running, Waiting, Ended, Alive
  <2>2. Settle(j, "failed", "nonzero") /\ proc' = [proc EXCEPT ![j][attempt[j]] = "gone"]
    BY <1>1, <1>4, <2>1 DEF SpawnErrorClose, CloseState
  <2> QED BY <1>1, <2>2, SettleSessions DEF SettledStates
<1> QED BY <1>2, <1>3, <1>4

LEMMA NextSessions ==
    ASSUME TypeOK, JobPhases, Sessions, [Next]_vars
    PROVE  Sessions'
<1> DEFINE Fine(k) == Started(k) /\ (state[k] # "absent" => Recorded(k))
<1>1. ASSUME \A k \in Jobs : Fine(k)' PROVE Sessions'
  BY <1>1 DEF Sessions
<1>2. ASSUME \A k \in Jobs : KeepsSessions(k) PROVE Sessions'
  BY <1>1, <1>2, SessionsFrame
<1> HIDE DEF Fine
<1>3. CASE UNCHANGED vars
  BY <1>2, <1>3 DEF vars, jobVars, KeepsSessions, Open
<1>4. CASE Shutdown
  BY <1>2, <1>4, ShutdownSessions
<1>5. ASSUME NEW j \in Jobs, SpawnJob(j) PROVE Sessions'
  <2>1. ASSUME NEW k \in Jobs PROVE Fine(k)'
    BY <1>5, <2>1, OtherSessions, SessionsFrame, SpawnJobSessions DEF Fine
  <2> QED BY <1>1, <2>1
<1>6. ASSUME NEW j \in Jobs, Fire(j) PROVE Sessions'
  <2>1. ASSUME NEW k \in Jobs PROVE Fine(k)'
    BY <1>6, <2>1, OtherSessions, SessionsFrame, FireSessions DEF Fine
  <2> QED BY <1>1, <2>1
<1>7. ASSUME NEW j \in Jobs, Silent(j) \/ CancelBackoff(j) PROVE Sessions'
  BY <1>2, <1>7, QuietSessions
<1>8. ASSUME NEW j \in Jobs, ProcessEvent(j) PROVE Sessions'
  BY <1>7, <1>8, EventSessions DEF ProcessEvent, Silent
<1>9. ASSUME NEW j \in Jobs, GoQuiet(j) \/ Tick(j) \/ Cancel(j) PROVE Sessions'
  BY <1>7, <1>9 DEF Silent, Cancel
<1>10. CASE \E j \in Jobs :
        \/ SpawnJob(j)
        \/ Fire(j)
        \/ ProcessEvent(j)
        \/ ~ErrorPending(j) /\ (GoQuiet(j) \/ Tick(j) \/ Cancel(j))
  BY <1>5, <1>6, <1>8, <1>9, <1>10
<1> QED BY <1>3, <1>4, <1>10 DEF Next

LEMMA SessionsCorrect == Spec => [](TypeOK /\ JobPhases /\ Sessions)
<1>1. Init => Sessions
  <2> SUFFICES ASSUME Init, NEW j \in Jobs PROVE Started(j) /\ state[j] = "absent"
    BY DEF Sessions
  <2> QED BY DEF Init, Started
<1>2. TypeOK /\ JobPhases /\ Sessions /\ [Next]_vars => Sessions'
  BY NextSessions
<1> QED BY <1>1, <1>2, PhasesCorrect, PTL DEF Spec

-----------------------------------------------------------------------------
(* A settled job: the one event that can still come is the 'close' of a    *)
(* spawn that failed, and it finds its attempt recorded.                   *)
SettledStep == \A j \in Jobs : Settled(j) =>
    /\ Settled(j)'
    /\ state'[j] = state[j]
    /\ attempt'[j] = attempt[j]
    /\ attempts'[j] = attempts[j]
    /\ \A a \in Attempts : proc'[j][a] \notin Alive

\* The job's own fields; that no child is alive follows from the phase.
Rests(j) ==
    /\ state'[j] = state[j] /\ exitCode'[j] # "null"
    /\ attempt'[j] = attempt[j] /\ attempts'[j] = attempts[j]

LEMMA SettledIsEnded ==
    ASSUME JobPhases, NEW j \in Jobs, Settled(j)
    PROVE  Ended(j) /\ \A a \in Attempts : proc[j][a] \notin Alive
<1> JobPhase(j)
  BY DEF JobPhases
<1>1. Ended(j)
  BY DEF Settled, JobPhase, Idle, Running, Waiting
<1> QED BY <1>1 DEF JobPhase, Ended, Alive

LEMMA LateClose ==
    ASSUME TypeOK, JobPhases, Sessions, NEW j \in Jobs, Settled(j),
           NEW a \in Attempts, SpawnErrorClose(j, a)
    PROVE  Rests(j)
<1>1. a = attempt[j] /\ state[j] = "failed" /\ stopReason[j] = "none" /\ proc[j][a] # "none"
  BY SettledIsEnded DEF SpawnErrorClose, JobPhases, JobPhase, Ended
<1>2. Settle(j, "failed", "nonzero")
  BY <1>1 DEF SpawnErrorClose, CloseState
<1>3. ~WantsRetry(j, "failed")
  BY <1>1 DEF WantsRetry, ClassifyRetry
<1>4. FinalSettle(j, "failed", "nonzero") /\ RecordAttempt(j)
  BY <1>2, <1>3 DEF Settle
<1>5. session[j] = attempt[j] /\ Recorded(j) /\ ~Open(j)
  BY <1>1, SessionFacts DEF Sessions, Open, Settled
<1>6. attempts'[j] = attempts[j]
  BY <1>4, <1>5, RecordFacts
<1> QED BY <1>1, <1>4, <1>6 DEF FinalSettle, Rests, TypeOK

LEMMA NextSettled ==
    ASSUME TypeOK, JobPhases, Sessions, [Next]_vars, NEW j \in Jobs, Settled(j)
    PROVE  Rests(j)
<1>1. Ended(j) /\ \A a \in Attempts : proc[j][a] \notin Alive
  BY SettledIsEnded
<1>2. CASE UNCHANGED vars
  BY <1>2 DEF vars, jobVars, Rests, Settled
<1>3. CASE Shutdown
  BY <1>3 DEF Shutdown, Rests, Settled, TypeOK
<1>4. ASSUME NEW k \in Jobs, SpawnJob(k) PROVE Rests(j)
  BY <1>4 DEF SpawnJob, Rests, Settled, TypeOK
<1>5. ASSUME NEW k \in Jobs, Fire(k) PROVE Rests(j)
  BY <1>1, <1>5 DEF Fire, Respawn, jobVars, Ended, Rests, Settled, TypeOK
<1>6. ASSUME NEW k \in Jobs, ProcessEvent(k) PROVE Rests(j)
  <2>1. CASE k = j
    <3>1. PICK a \in Attempts : SpawnErrorClose(j, a)
      BY <1>1, <1>6, <2>1
        DEF ProcessEvent, Output, Close, SpawnError, Ended, JobPhases, JobPhase
    <3> QED BY <3>1, LateClose
  <2>2. CASE k # j
    <3>1. CASE \E a \in Attempts, r \in StopReasons, m \in ErrorMessages : Output(k, a, r, m)
      BY <3>1 DEF Output, jobVars, Rests, Settled
    <3>2. ASSUME NEW s, NEW code, Settle(k, s, code) PROVE Rests(j)
      BY <2>2, <3>2 DEF Settle, RecordAttempt, Backoff, FinalSettle, Rests, Settled, TypeOK
    <3> QED BY <1>6, <3>1, <3>2 DEF ProcessEvent, Close, SpawnError, SpawnErrorClose
  <2> QED BY <2>1, <2>2
<1>7. ASSUME NEW k \in Jobs, GoQuiet(k) \/ Tick(k) \/ Cancel(k) PROVE Rests(j)
  BY <1>1, <1>7
    DEF GoQuiet, Tick, TickStall, TickTimeout, Cancel, CancelRunning, CancelBackoff, jobVars,
        Ended, Rests, Settled, TypeOK
<1>8. CASE \E k \in Jobs :
        \/ SpawnJob(k)
        \/ Fire(k)
        \/ ProcessEvent(k)
        \/ ~ErrorPending(k) /\ (GoQuiet(k) \/ Tick(k) \/ Cancel(k))
  BY <1>4, <1>5, <1>6, <1>7, <1>8
<1> QED BY <1>2, <1>3, <1>8 DEF Next

(* A settled job stays as it is, whatever event of its child, timer or     *)
(* command comes late (hub.ts settle, job-retry.ts).                       *)
THEOREM SettledForeverAlways == Spec => SettledForever
<1>1. TypeOK /\ JobPhases /\ Sessions /\ [Next]_vars => [SettledStep]_vars
  <2> SUFFICES ASSUME TypeOK, JobPhases, Sessions, [Next]_vars, NEW j \in Jobs, Settled(j)
               PROVE  /\ Rests(j) /\ Settled(j)'
                      /\ \A a \in Attempts : proc'[j][a] \notin Alive
    BY DEF SettledStep, Rests
  <2>1. Rests(j) /\ Settled(j)'
    BY NextSettled DEF Rests, Settled
  <2>2. JobPhases'
    BY NextInv
  <2>3. \A a \in Attempts : proc'[j][a] \notin Alive
    <3>1. Ended(j)'
      BY <2>1, <2>2 DEF Settled, JobPhases, JobPhase, Idle, Running, Waiting
    <3> QED BY <2>2, <3>1 DEF JobPhases, JobPhase, Ended, Alive
  <2> QED BY <2>1, <2>3
<1> QED BY <1>1, SessionsCorrect, PTL DEF Spec, SettledForever, SettledStep

-----------------------------------------------------------------------------
\* What a manifest names: the attempt, its session and the recorded ones.
Names(j) ==
    IF state[j] = "absent" THEN manifest[j] = NoManifest
    ELSE /\ manifest[j] # NoManifest
         /\ manifest[j].attempt = attempt[j] /\ manifest[j].session = session[j]
         /\ manifest[j].attempts = IF attempt[j] > 1 THEN attempts[j] ELSE <<>>

ManifestNames == \A j \in Jobs : Names(j)

LEMMA NamesFrame ==
    ASSUME NEW k \in Jobs, Names(k), state'[k] # "absent" <=> state[k] # "absent",
           session'[k] = session[k], attempt'[k] = attempt[k], attempts'[k] = attempts[k],
           manifest'[k] = manifest[k]
    PROVE  Names(k)'
BY DEF Names

LEMMA NamesWritten ==
    ASSUME TypeOK, ManifestNames, NEW j \in Jobs, WriteManifest(j), state'[j] # "absent",
           \A k \in Jobs : k # j =>
               /\ state'[k] = state[k] /\ session'[k] = session[k]
               /\ attempt'[k] = attempt[k] /\ attempts'[k] = attempts[k]
    PROVE  ManifestNames'
<1> SUFFICES ASSUME NEW k \in Jobs PROVE Names(k)'
  BY DEF ManifestNames
<1>1. CASE k = j
  <2>1. manifest'[j] = ManifestOf(j)'
    BY DEF WriteManifest, TypeOK
  <2>2. manifest'[j].state # NoManifest.state
    BY <2>1 DEF ManifestOf, NoManifest
  <2> QED BY <1>1, <2>1, <2>2 DEF ManifestOf, Names
<1>2. CASE k # j
  <2>1. manifest'[k] = manifest[k]
    BY <1>2 DEF WriteManifest, TypeOK
  <2> QED BY <1>2, <2>1, NamesFrame DEF ManifestNames
<1> QED BY <1>1, <1>2

LEMMA NextNames ==
    ASSUME TypeOK, JobPhases, ManifestNames, [Next]_vars
    PROVE  ManifestNames'
<1>1. ASSUME UNCHANGED <<attempt, session, attempts, manifest>>,
             \A k \in Jobs : state'[k] # "absent" <=> state[k] # "absent"
      PROVE  ManifestNames'
  BY <1>1, NamesFrame DEF ManifestNames
<1>2. CASE UNCHANGED vars
  BY <1>1, <1>2 DEF vars, jobVars, fileVars
<1>3. CASE Shutdown
  <2>1. \A k \in Jobs : state'[k] # "absent" <=> state[k] # "absent"
    BY <1>3 DEF Shutdown
  <2> QED BY <1>1, <1>3, <2>1 DEF Shutdown
<1>4. ASSUME NEW j \in Jobs, SpawnJob(j) PROVE ManifestNames'
  BY <1>4, NamesWritten DEF SpawnJob, TypeOK
<1>5. ASSUME NEW j \in Jobs, Fire(j) PROVE ManifestNames'
  <2>1. CASE Respawn(j)
    BY <2>1, NamesWritten DEF Respawn, TypeOK
  <2>2. CASE UNCHANGED <<jobVars, fileVars>>
    BY <1>1, <2>2 DEF jobVars, fileVars
  <2> QED BY <1>5, <2>1, <2>2 DEF Fire
<1>6. ASSUME NEW j \in Jobs, NEW s, s # "absent", NEW code, Settle(j, s, code)
      PROVE  ManifestNames'
  BY <1>6, NamesWritten DEF Settle, RecordAttempt, Backoff, FinalSettle, TypeOK
<1>7. ASSUME NEW j \in Jobs, ProcessEvent(j) PROVE ManifestNames'
  <2>1. PICK a \in Attempts :
          \/ \E r \in StopReasons, m \in ErrorMessages : Output(j, a, r, m)
          \/ \E outcome \in Outcomes : Close(j, a, outcome)
          \/ SpawnError(j, a)
          \/ SpawnErrorClose(j, a)
    BY <1>7 DEF ProcessEvent
  <2>2. CASE \E r \in StopReasons, m \in ErrorMessages : Output(j, a, r, m)
    BY <1>1, <2>2 DEF Output, jobVars, fileVars
  <2>3. CASE ~\E r \in StopReasons, m \in ErrorMessages : Output(j, a, r, m)
    <3>1. proc[j][a] \in Alive \cup {"unspawned", "errored"}
      BY <2>1, <2>3 DEF Close, SpawnError, SpawnErrorClose
    <3>2. state[j] # "absent"
      BY <3>1, AttemptsFacts DEF JobPhases, JobPhase, Idle, Running, Waiting, Ended, Alive, Attempts
    <3>3. PICK s, code : Settle(j, s, code) /\ s # "absent"
      BY <2>1, <2>3, <3>2 DEF Close, SpawnError, SpawnErrorClose, CloseState
    <3> QED BY <1>6, <3>3
  <2> QED BY <2>2, <2>3
<1>8. ASSUME NEW j \in Jobs, GoQuiet(j) \/ Tick(j) \/ Cancel(j) PROVE ManifestNames'
  <2>1. CASE GoQuiet(j)
    BY <1>1, <2>1 DEF GoQuiet, jobVars, fileVars
  <2>2. CASE Tick(j) \/ Cancel(j)
    BY <2>2, NamesWritten
      DEF Tick, TickStall, TickTimeout, Cancel, CancelRunning, CancelBackoff, TypeOK
  <2> QED BY <1>8, <2>1, <2>2
<1>9. CASE \E j \in Jobs :
        \/ SpawnJob(j)
        \/ Fire(j)
        \/ ProcessEvent(j)
        \/ ~ErrorPending(j) /\ (GoQuiet(j) \/ Tick(j) \/ Cancel(j))
  BY <1>4, <1>5, <1>7, <1>8, <1>9
<1> QED BY <1>2, <1>3, <1>9 DEF Next

(* A reader of the manifest sees attempts 1 .. session: the recorded ones, *)
(* and the open one after them.                                            *)
LEMMA Browsable ==
    ASSUME TypeOK, JobPhases, Sessions, ManifestNames, NEW j \in Jobs, state[j] # "absent"
    PROVE  LET seen == BrowsableAttempts(manifest[j])
           IN  /\ DOMAIN seen = 1 .. session[j]
               /\ \A i \in 1 .. session[j] : seen[i] = [attempt |-> i, session |-> i]
<1> DEFINE m == manifest[j]
           entries == AttemptEntries(m)
           last == [attempt |-> m.attempt, session |-> m.session]
<1>1. /\ m.attempt = attempt[j] /\ m.session = session[j]
      /\ attempt[j] > 1 => m.attempts = attempts[j]
  BY DEF ManifestNames, Names
<1>2. /\ session[j] \in Nat /\ attempt[j] \in Nat
      /\ 1 <= session[j] /\ session[j] <= attempt[j]
  BY SessionFacts
<1>3. /\ entries \in Seq([attempt : Attempts, session : Attempts])
      /\ \A i \in 1 .. Len(entries) : entries[i] = [attempt |-> i, session |-> i]
      /\ Len(entries) = session[j] \/ (Len(entries) = session[j] - 1 /\ attempt[j] = session[j])
  <2>1. CASE attempt[j] > 1
    <3>1. entries = attempts[j] /\ Recorded(j)
      BY <1>1, <2>1 DEF AttemptEntries, Sessions
    <3>2. attempts[j] \in Seq([attempt : Attempts, session : Attempts])
      BY DEF TypeOK
    <3>3. Open(j) => attempt[j] = session[j]
      BY DEF Open, JobPhases, JobPhase, Idle, Running, Waiting, Ended
    <3> QED BY <3>1, <3>2, <3>3 DEF Recorded
  <2>2. CASE attempt[j] = 1
    <3>1. entries = <<[attempt |-> 1, session |-> 1]>> /\ session[j] = 1
      BY <1>1, <1>2, <2>2 DEF AttemptEntries
    <3>2. 1 \in Attempts
      BY AttemptsFacts
    <3>3. Len(entries) = 1 /\ entries[1] = [attempt |-> 1, session |-> 1]
      BY <3>1
    <3>4. entries \in Seq([attempt : Attempts, session : Attempts])
      BY <3>1, <3>2
    <3> HIDE DEF entries
    <3> QED BY <3>1, <3>3, <3>4
  <2> QED BY <1>2, <2>1, <2>2
<1>4. BrowsableAttempts(m) = IF \E i \in DOMAIN entries : entries[i].session = m.session THEN entries
                             ELSE Append(entries, last)
  BY DEF BrowsableAttempts
<1> HIDE DEF m, entries
<1>5. \A i \in 1 .. Len(entries) : entries[i].session = i
  <2> SUFFICES ASSUME NEW i \in 1 .. Len(entries) PROVE entries[i].session = i
    OBVIOUS
  <2>1. entries[i] = [attempt |-> i, session |-> i]
    BY <1>3
  <2> QED BY <2>1
<1>6. CASE Len(entries) = session[j]
  <2>1. BrowsableAttempts(m) = entries
    BY <1>1, <1>2, <1>3, <1>4, <1>5, <1>6
  <2> QED BY <1>2, <1>3, <1>6, <2>1 DEF m
<1>7. CASE Len(entries) = session[j] - 1 /\ attempt[j] = session[j]
  <2>1. BrowsableAttempts(m) = Append(entries, last)
    BY <1>1, <1>2, <1>3, <1>4, <1>5, <1>7
  <2>2. last = [attempt |-> session[j], session |-> session[j]]
    BY <1>1, <1>7
  <2>3. DOMAIN Append(entries, last) = 1 .. session[j]
    BY <1>2, <1>3, <1>7
  <2>4. ASSUME NEW i \in 1 .. session[j]
        PROVE  Append(entries, last)[i] = [attempt |-> i, session |-> i]
    <3>1. CASE i = session[j]
      BY <1>2, <1>3, <1>7, <2>2, <3>1
    <3>2. CASE i # session[j]
      <4>1. i \in 1 .. Len(entries)
        BY <1>2, <1>7, <3>2
      <4>2. Append(entries, last)[i] = entries[i]
        BY <1>3, <4>1
      <4> QED BY <1>3, <4>1, <4>2
    <3> QED BY <3>1, <3>2
  <2> QED BY <2>1, <2>3, <2>4 DEF m
<1> QED BY <1>3, <1>6, <1>7

(* The attempts a reader of the run directory is offered are in order and  *)
(* complete, whatever became of the job (runs.ts browsableAttempts).       *)
THEOREM ProvenanceAlways == Spec => []Provenance
<1>1. Init => ManifestNames
  <2> SUFFICES ASSUME Init, NEW j \in Jobs PROVE state[j] = "absent" /\ manifest[j] = NoManifest
    BY DEF ManifestNames, Names
  <2> QED BY DEF Init
<1>2. TypeOK /\ JobPhases /\ ManifestNames /\ [Next]_vars => ManifestNames'
  BY NextNames
<1>3. TypeOK /\ JobPhases /\ Sessions /\ ManifestNames => Provenance
  <2> SUFFICES ASSUME TypeOK, JobPhases, Sessions, ManifestNames, NEW j \in Jobs,
                      manifest[j] # NoManifest
               PROVE  LET seen == BrowsableAttempts(manifest[j])
                      IN  /\ \A i \in DOMAIN seen : seen[i] = [attempt |-> i, session |-> i]
                          /\ DOMAIN seen = {a \in Attempts : proc[j][a] # "none"}
    BY DEF Provenance
  <2>1. state[j] # "absent"
    BY DEF ManifestNames, Names
  <2>2. 1 .. session[j] = {a \in Attempts : proc[j][a] # "none"}
    <3>1. session[j] \in Attempts
      BY DEF TypeOK
    <3>2. \A a \in Attempts : proc[j][a] # "none" <=> a <= session[j]
      BY <2>1 DEF Sessions, Started
    <3> QED BY <3>1, <3>2, AttemptsAssumption DEF Attempts
  <2> QED BY <2>1, <2>2, Browsable
<1> QED BY <1>1, <1>2, <1>3, SessionsCorrect, PTL DEF Spec

-----------------------------------------------------------------------------
(* The refinement: the hub implements the abstract dispatch of module      *)
(* Dispatch, for every set of jobs and every retry budget.                 *)

\* The abstract state of a job in each phase of the concrete one.
LEMMA AbstractPhase ==
    ASSUME TypeOK, NEW j \in Jobs
    PROVE  /\ Idle(j) => DispatchPhase(j) = "idle" /\ PromptThere(j) = FALSE
           /\ Running(j) => /\ DispatchPhase(j) = "live" /\ PromptThere(j) = TRUE
                            /\ AttemptsMade(j) = attempt[j]
           /\ Waiting(j) => /\ AttemptsMade(j) = attempt[j] - 1
                            /\ DispatchPhase(j) = IF disposed[j] THEN "ended" ELSE "waiting"
                            /\ PromptThere(j) = ~disposed[j]
           /\ Ended(j) => DispatchPhase(j) = "ended" /\ PromptThere(j) = FALSE
<1>1. Idle(j) => DispatchPhase(j) = "idle" /\ PromptThere(j) = FALSE
  BY DEF Idle, DispatchPhase, PromptThere
<1>2. Running(j) => /\ DispatchPhase(j) = "live" /\ PromptThere(j) = TRUE
                    /\ AttemptsMade(j) = attempt[j]
  BY DEF Running, DispatchPhase, PromptThere, AttemptsMade
<1>3. Waiting(j) => /\ AttemptsMade(j) = attempt[j] - 1
                    /\ DispatchPhase(j) = IF disposed[j] THEN "ended" ELSE "waiting"
                    /\ PromptThere(j) = ~disposed[j]
  BY DEF Waiting, DispatchPhase, PromptThere, AttemptsMade
<1>4. Ended(j) => DispatchPhase(j) = "ended" /\ PromptThere(j) = FALSE
  BY DEF Ended, DispatchPhase, PromptThere
<1> QED BY <1>1, <1>2, <1>3, <1>4

LEMMA AbstractFrame ==
    ASSUME NEW k \in Jobs, Same(k)
    PROVE  /\ DispatchPhase(k)' = DispatchPhase(k)
           /\ AttemptsMade(k)' = AttemptsMade(k)
           /\ PromptThere(k)' = PromptThere(k)
BY DEF Same, DispatchPhase, AttemptsMade, PromptThere

LEMMA AbstractInit == Init => Lifecycle!Init
<1> SUFFICES ASSUME Init PROVE Lifecycle!Init
  OBVIOUS
<1>1. \A j \in Jobs : DispatchPhase(j) = "idle"
  BY DEF Init, DispatchPhase
<1>2. \A j \in Jobs : AttemptsMade(j) = 0
  BY DEF Init, AttemptsMade
<1>3. \A j \in Jobs : PromptThere(j) = FALSE
  BY DEF Init, PromptThere
<1> QED BY <1>1, <1>2, <1>3 DEF Lifecycle!Init

(* A handler that takes one job from one abstract state to another is the  *)
(* step of the abstract dispatch that does so.                             *)
LEMMA StartStep ==
    ASSUME NEW j \in Jobs, \A k \in Jobs \ {j} : Same(k),
           DispatchPhase(j) = "idle", DispatchPhase(j)' = "live",
           AttemptsMade(j)' = 1, PromptThere(j)' = TRUE
    PROVE  Lifecycle!Start(j)
<1>1. \A k \in Jobs \ {j} : /\ DispatchPhase(k)' = DispatchPhase(k)
                            /\ AttemptsMade(k)' = AttemptsMade(k)
                            /\ PromptThere(k)' = PromptThere(k)
  BY AbstractFrame
<1> QED BY <1>1 DEF Lifecycle!Start

LEMMA WaitStep ==
    ASSUME NEW j \in Jobs, \A k \in Jobs \ {j} : Same(k),
           DispatchPhase(j) = "live", DispatchPhase(j)' = "waiting",
           AttemptsMade(j) < MaxAttempts,
           AttemptsMade(j)' = AttemptsMade(j), PromptThere(j)' = PromptThere(j)
    PROVE  Lifecycle!Wait(j)
<1>1. \A k \in Jobs \ {j} : /\ DispatchPhase(k)' = DispatchPhase(k)
                            /\ AttemptsMade(k)' = AttemptsMade(k)
                            /\ PromptThere(k)' = PromptThere(k)
  BY AbstractFrame
<1> QED BY <1>1 DEF Lifecycle!Wait

LEMMA AgainStep ==
    ASSUME NEW j \in Jobs, \A k \in Jobs \ {j} : Same(k),
           DispatchPhase(j) = "waiting", DispatchPhase(j)' = "live",
           AttemptsMade(j)' = AttemptsMade(j) + 1, PromptThere(j)' = PromptThere(j)
    PROVE  Lifecycle!Again(j)
<1>1. \A k \in Jobs \ {j} : /\ DispatchPhase(k)' = DispatchPhase(k)
                            /\ AttemptsMade(k)' = AttemptsMade(k)
                            /\ PromptThere(k)' = PromptThere(k)
  BY AbstractFrame
<1> QED BY <1>1 DEF Lifecycle!Again

LEMMA EndStep ==
    ASSUME NEW j \in Jobs, \A k \in Jobs \ {j} : Same(k),
           DispatchPhase(j) \in {"live", "waiting"}, DispatchPhase(j)' = "ended",
           AttemptsMade(j)' = AttemptsMade(j), PromptThere(j)' = FALSE
    PROVE  Lifecycle!End({j})
<1>1. \A k \in Jobs \ {j} : /\ DispatchPhase(k)' = DispatchPhase(k)
                            /\ AttemptsMade(k)' = AttemptsMade(k)
                            /\ PromptThere(k)' = PromptThere(k)
  BY AbstractFrame
<1>2. \A k \in Jobs : PromptThere(k) \in BOOLEAN
  BY DEF PromptThere
<1> QED BY <1>1, <1>2 DEF Lifecycle!End

LEMMA NoStep ==
    ASSUME \A k \in Jobs : /\ DispatchPhase(k)' = DispatchPhase(k)
                           /\ AttemptsMade(k)' = AttemptsMade(k)
                           /\ PromptThere(k)' = PromptThere(k)
    PROVE  UNCHANGED Lifecycle!dispatchVars
BY DEF Lifecycle!dispatchVars

-----------------------------------------------------------------------------
AbstractStep == Lifecycle!Next \/ UNCHANGED Lifecycle!dispatchVars

LEMMA SameIsNoStep ==
    ASSUME \A k \in Jobs : Same(k)
    PROVE  AbstractStep
BY AbstractFrame, NoStep DEF AbstractStep

LEMMA SpawnJobAbstract ==
    ASSUME TypeOK, JobPhases, NEW j \in Jobs, SpawnJob(j)
    PROVE  AbstractStep
<1>1. \A k \in Jobs \ {j} : Same(k)
  BY DEF SpawnJob, SpawnProcess, Same, TypeOK, msgVars, supVars
<1>2. Idle(j)
  BY DEF SpawnJob, JobPhases, JobPhase, Running, Waiting, Ended
<1>3. DispatchPhase(j) = "idle" /\ DispatchPhase(j)' = "live"
      /\ AttemptsMade(j)' = 1 /\ PromptThere(j)' = TRUE
  BY <1>2 DEF SpawnJob, Idle, TypeOK, DispatchPhase, AttemptsMade, PromptThere, supVars
<1>4. Lifecycle!Start(j)
  BY <1>1, <1>3, StartStep
<1> QED BY <1>4 DEF AbstractStep, Lifecycle!Next

LEMMA FireAbstract ==
    ASSUME TypeOK, JobPhases, NEW j \in Jobs, Fire(j)
    PROVE  AbstractStep
<1>1. Waiting(j) /\ ~disposed[j]
  BY DEF Fire, JobPhases, JobPhase, Idle, Running, Waiting, Ended
<1>2. Respawn(j)
  BY <1>1 DEF Fire, Waiting
<1>3. \A k \in Jobs \ {j} : Same(k)
  BY <1>2 DEF Fire, Respawn, SpawnProcess, Same, TypeOK
<1>4. DispatchPhase(j) = "waiting" /\ DispatchPhase(j)' = "live"
      /\ PromptThere(j)' = PromptThere(j)
  BY <1>1, <1>2 DEF Fire, Respawn, Waiting, TypeOK, DispatchPhase, PromptThere
<1>5. AttemptsMade(j)' = AttemptsMade(j) + 1
  <2>1. session[j] = attempt[j] - 1 /\ session'[j] = attempt[j] /\ attempt[j] \in Nat
    BY <1>1, <1>2, AttemptsFacts DEF Respawn, Waiting, TypeOK
  <2>2. state[j] # "absent" /\ state'[j] # "absent"
    BY <1>1, <1>2 DEF Respawn, Waiting, TypeOK
  <2> QED BY <2>1, <2>2 DEF AttemptsMade
<1>6. Lifecycle!Again(j)
  BY <1>3, <1>4, <1>5, AgainStep
<1> QED BY <1>6 DEF AbstractStep, Lifecycle!Next

\* settle() is a Wait or an End, and the second settle of a failed spawn a stutter.
LEMMA SettleAbstract ==
    ASSUME TypeOK, NEW j \in Jobs,
           Running(j) \/ (Ended(j) /\ stopReason[j] = "none" /\ state[j] = "failed"),
           NEW s \in {"done", "failed", "stalled", "cancelled"},
           NEW code \in {"zero", "nonzero"},
           NEW a, NEW p, proc' = [proc EXCEPT ![j][a] = p],
           Settle(j, s, code)
    PROVE  AbstractStep
<1>1. \A k \in Jobs \ {j} : Same(k)
  BY DEF Same, Settle, Backoff, FinalSettle, TypeOK, msgVars
<1>2. session' = session /\ session[j] \in Attempts
  BY DEF Settle, TypeOK
<1>3. CASE WantsRetry(j, s) /\ Backoff(j)
  <2>1. Running(j)
    BY <1>3 DEF WantsRetry, ClassifyRetry
  <2>2. DispatchPhase(j) = "live" /\ AttemptsMade(j) = attempt[j] /\ PromptThere(j) = TRUE
    BY <2>1, AbstractPhase
  <2>3. attempt[j] < MaxAttempts
    BY <1>3 DEF WantsRetry
  <2>4. DispatchPhase(j)' = "waiting" /\ PromptThere(j)' = TRUE
    BY <1>3, <2>1 DEF Backoff, Running, TypeOK, DispatchPhase, PromptThere
  <2>5. AttemptsMade(j)' = AttemptsMade(j)
    BY <1>2, <1>3, <2>1 DEF Backoff, Running, TypeOK, AttemptsMade
  <2>6. Lifecycle!Wait(j)
    BY <1>1, <2>2, <2>3, <2>4, <2>5, WaitStep
  <2> QED BY <2>6 DEF AbstractStep, Lifecycle!Next
<1>4. CASE ~WantsRetry(j, s) /\ FinalSettle(j, s, code)
  <2>1. DispatchPhase(j)' = "ended" /\ PromptThere(j)' = FALSE
    BY <1>4 DEF FinalSettle, TypeOK, DispatchPhase, PromptThere
  <2>2. state'[j] # "absent" /\ state[j] # "absent"
    BY <1>4 DEF FinalSettle, TypeOK, Running, Ended
  <2>3. AttemptsMade(j)' = AttemptsMade(j)
    BY <1>2, <2>2 DEF AttemptsMade
  <2>4. CASE Running(j)
    <3>1. DispatchPhase(j) = "live"
      BY <2>4, AbstractPhase
    <3>2. Lifecycle!End({j})
      BY <1>1, <2>1, <2>3, <3>1, EndStep
    <3> QED BY <3>2 DEF AbstractStep, Lifecycle!Next
  <2>5. CASE Ended(j)
    <3>1. DispatchPhase(j) = "ended" /\ PromptThere(j) = FALSE
      BY <2>5, AbstractPhase
    <3>2. \A k \in Jobs : /\ DispatchPhase(k)' = DispatchPhase(k)
                          /\ AttemptsMade(k)' = AttemptsMade(k)
                          /\ PromptThere(k)' = PromptThere(k)
      BY <1>1, <2>1, <2>3, <3>1, AbstractFrame
    <3> QED BY <3>2, NoStep DEF AbstractStep
  <2> QED BY <2>4, <2>5
<1> QED BY <1>3, <1>4 DEF Settle

LEMMA ProcessEndAbstract ==
    ASSUME TypeOK, JobPhases, NEW j \in Jobs, NEW a \in Attempts,
           \/ \E outcome \in Outcomes : Close(j, a, outcome)
           \/ SpawnError(j, a)
           \/ SpawnErrorClose(j, a)
    PROVE  AbstractStep
<1> JobPhase(j)
  BY DEF JobPhases
<1>1. ASSUME NEW outcome \in Outcomes, Close(j, a, outcome) PROVE AbstractStep
  <2>1. Running(j)
    BY <1>1, AttemptsFacts DEF Close, JobPhase, Idle, Running, Waiting, Ended, Alive, TypeOK
  <2>2. PICK s \in {"done", "failed", "stalled", "cancelled"} :
          s = CloseState(state[j], outcome)
    BY <2>1, CloseStateFacts
  <2>3. PICK code \in {"zero", "nonzero"} :
          code = IF outcome = "nonzero" THEN "nonzero" ELSE "zero"
    OBVIOUS
  <2>4. Settle(j, s, code) /\ proc' = [proc EXCEPT ![j][a] = "gone"]
    BY <1>1, <2>2, <2>3 DEF Close
  <2> QED BY <2>1, <2>4, SettleAbstract
<1>2. CASE SpawnError(j, a)
  <2>1. Running(j) /\ state[j] = "running"
    BY <1>2, AttemptsFacts DEF SpawnError, JobPhase, Idle, Running, Waiting, Ended, Alive, TypeOK
  <2>2. Settle(j, "failed", "nonzero") /\ proc' = [proc EXCEPT ![j][a] = "errored"]
    BY <1>2, <2>1 DEF SpawnError
  <2> QED BY <2>1, <2>2, SettleAbstract
<1>3. CASE SpawnErrorClose(j, a)
  <2>1. Ended(j) /\ state[j] = "failed" /\ stopReason[j] = "none"
    BY <1>3, AttemptsFacts
      DEF SpawnErrorClose, JobPhase, Idle, Running, Waiting, Ended, Alive, TypeOK
  <2>2. Settle(j, "failed", "nonzero") /\ proc' = [proc EXCEPT ![j][a] = "gone"]
    BY <1>3, <2>1 DEF SpawnErrorClose, CloseState
  <2> QED BY <2>1, <2>2, SettleAbstract
<1> QED BY <1>1, <1>2, <1>3

LEMMA CancelBackoffAbstract ==
    ASSUME TypeOK, JobPhases, NEW j \in Jobs, CancelBackoff(j)
    PROVE  AbstractStep
<1>1. Waiting(j)
  BY DEF CancelBackoff, JobPhases, JobPhase, Idle, Running, Ended
<1>2. \A k \in Jobs \ {j} : Same(k)
  <2> SUFFICES ASSUME NEW k \in Jobs \ {j} PROVE Same(k)
    OBVIOUS
  <2>1. disposed'[k] = disposed[k] /\ timer'[k] = timer[k] /\ promptGone'[k] = promptGone[k]
    BY DEF CancelBackoff, Dispose, TypeOK
  <2> QED BY <2>1 DEF CancelBackoff, Same, TypeOK, msgVars
<1>3. DispatchPhase(j)' = "ended" /\ PromptThere(j)' = FALSE
  BY DEF CancelBackoff, Dispose, TypeOK, DispatchPhase, PromptThere
<1>4. AttemptsMade(j)' = AttemptsMade(j)
  BY DEF CancelBackoff, TypeOK, AttemptsMade
<1>5. CASE disposed[j]
  <2>1. DispatchPhase(j) = "ended" /\ PromptThere(j) = FALSE
    BY <1>1, <1>5, AbstractPhase
  <2>2. \A k \in Jobs : /\ DispatchPhase(k)' = DispatchPhase(k)
                        /\ AttemptsMade(k)' = AttemptsMade(k)
                        /\ PromptThere(k)' = PromptThere(k)
    BY <1>2, <1>3, <1>4, <2>1, AbstractFrame
  <2> QED BY <2>2, NoStep DEF AbstractStep
<1>6. CASE ~disposed[j]
  <2>1. DispatchPhase(j) = "waiting"
    BY <1>1, <1>6, AbstractPhase
  <2>2. Lifecycle!End({j})
    BY <1>2, <1>3, <1>4, <2>1, EndStep
  <2> QED BY <2>2 DEF AbstractStep, Lifecycle!Next
<1> QED BY <1>5, <1>6

\* A handler after which every job looks the same to the dispatch is a stutter.
LEMMA RunningMark ==
    ASSUME TypeOK, NEW j \in Jobs, NEW s \in {"stalled", "timeout", "cancelled"},
           state[j] \notin {"absent", "retrying"},
           state' = [state EXCEPT ![j] = s],
           UNCHANGED <<exitCode, session, supVars>>
    PROVE  AbstractStep
<1>1. \A k \in Jobs : DispatchPhase(k)' = DispatchPhase(k)
  BY DEF TypeOK, DispatchPhase, supVars
<1>2. \A k \in Jobs : AttemptsMade(k)' = AttemptsMade(k)
  BY DEF TypeOK, AttemptsMade
<1>3. \A k \in Jobs : PromptThere(k)' = PromptThere(k)
  BY DEF TypeOK, PromptThere, supVars
<1> QED BY <1>1, <1>2, <1>3, NoStep DEF AbstractStep

LEMMA SilentAbstract ==
    ASSUME TypeOK, NEW j \in Jobs,
           \/ \E a \in Attempts, r \in StopReasons, m \in ErrorMessages : Output(j, a, r, m)
           \/ GoQuiet(j)
    PROVE  AbstractStep
<1>1. UNCHANGED <<state, exitCode, session, supVars>>
  BY DEF Output, GoQuiet, jobVars
<1>2. \A k \in Jobs : /\ DispatchPhase(k)' = DispatchPhase(k)
                      /\ AttemptsMade(k)' = AttemptsMade(k)
                      /\ PromptThere(k)' = PromptThere(k)
  BY <1>1 DEF DispatchPhase, AttemptsMade, PromptThere, supVars
<1> QED BY <1>2, NoStep DEF AbstractStep

\* A shutdown ends the waiting dispatches together and no other one.
LEMMA ShutdownAbstract ==
    ASSUME TypeOK, JobPhases, Shutdown
    PROVE  AbstractStep
<1> DEFINE S == {j \in Jobs : DispatchPhase(j) = "waiting"}
<1>1. ASSUME NEW k \in Jobs
      PROVE  /\ DispatchPhase(k)' = IF k \in S THEN "ended" ELSE DispatchPhase(k)
             /\ AttemptsMade(k)' = AttemptsMade(k)
             /\ PromptThere(k)' = (PromptThere(k) /\ k \notin S)
  <2>1. exitCode'[k] = exitCode[k] /\ session'[k] = session[k]
    BY DEF Shutdown
  <2>2. state'[k] = IF state[k] # "absent" /\ exitCode[k] = "null" /\ pid[k] # NoPid
                    THEN "cancelled" ELSE state[k]
    BY DEF Shutdown
  <2>3. disposed'[k] = (disposed[k] \/ (k \in Supervised /\ state[k] = "retrying"))
        /\ promptGone'[k] = (promptGone[k] \/ (k \in Supervised /\ state[k] = "retrying"))
    BY DEF Shutdown, Dispose
  <2>4. state[k] = "retrying" => Waiting(k)
    BY DEF JobPhases, JobPhase, Idle, Running, Ended
  <2>5. CASE state[k] = "retrying"
    <3>1. state'[k] = "retrying" /\ disposed'[k] = TRUE /\ promptGone'[k] = TRUE
      BY <2>2, <2>3, <2>4, <2>5 DEF Waiting
    <3>2. (k \in S) = ~disposed[k] /\ PromptThere(k) = ~disposed[k]
      BY <2>4, <2>5 DEF Waiting, DispatchPhase, PromptThere
    <3>3. DispatchPhase(k) = IF disposed[k] THEN "ended" ELSE "waiting"
      BY <2>5 DEF DispatchPhase
    <3> QED BY <2>1, <2>5, <3>1, <3>2, <3>3 DEF DispatchPhase, AttemptsMade, PromptThere
  <2>6. CASE state[k] # "retrying"
    <3>1. state'[k] # "retrying" /\ (state'[k] = "absent" <=> state[k] = "absent")
      BY <2>2, <2>6
    <3>2. promptGone'[k] = promptGone[k]
      BY <2>3, <2>6 DEF TypeOK
    <3>3. k \notin S
      BY <2>6 DEF DispatchPhase
    <3> QED BY <2>1, <2>6, <3>1, <3>2, <3>3 DEF DispatchPhase, AttemptsMade, PromptThere
  <2> QED BY <2>5, <2>6
<1>2. CASE S = {}
  BY <1>1, <1>2, NoStep DEF AbstractStep, PromptThere
<1>3. CASE S # {}
  <2>1. Lifecycle!End(S)
    BY <1>1, <1>3 DEF Lifecycle!End
  <2> QED BY <2>1 DEF AbstractStep, Lifecycle!Next
<1> QED BY <1>2, <1>3

LEMMA NextAbstract ==
    ASSUME TypeOK, JobPhases, [Next]_vars
    PROVE  AbstractStep
<1>1. CASE UNCHANGED vars
  BY <1>1, SameIsNoStep DEF Same, vars, jobVars, msgVars, supVars
<1>2. ASSUME NEW j \in Jobs, ProcessEvent(j) PROVE AbstractStep
  BY <1>2, SilentAbstract, ProcessEndAbstract DEF ProcessEvent
<1>3. ASSUME NEW j \in Jobs, Tick(j) PROVE AbstractStep
  BY <1>3, RunningMark DEF Tick, TickStall, TickTimeout
<1>4. ASSUME NEW j \in Jobs, Cancel(j) PROVE AbstractStep
  BY <1>4, RunningMark, CancelBackoffAbstract DEF Cancel, CancelRunning
<1>5. ASSUME NEW j \in Jobs, SpawnJob(j) \/ Fire(j) \/ GoQuiet(j) PROVE AbstractStep
  BY <1>5, SpawnJobAbstract, FireAbstract, SilentAbstract
<1> QED BY <1>1, <1>2, <1>3, <1>4, <1>5, ShutdownAbstract DEF Next

(* The hub with its supervisors (hub.ts, job-retry.ts) implements the      *)
(* abstract dispatch: one attempt at a time, at most MaxAttempts of them,  *)
(* an end that stays, and the prompt directory in between.                 *)
THEOREM HubImplementsDispatch == Spec => ImplementsDispatch
<1>1. Init => Lifecycle!Init
  BY AbstractInit
<1>2. TypeOK /\ JobPhases /\ [Next]_vars => [Lifecycle!Next]_(Lifecycle!dispatchVars)
  BY NextAbstract DEF AbstractStep
<1> QED BY <1>1, <1>2, PhasesCorrect, PTL DEF Spec, ImplementsDispatch, Lifecycle!Spec
=============================================================================
