--------------------------- MODULE UsageFlushProofs ---------------------------
(***************************************************************************)
(* No invocation is lost by the flush chain, none is recorded twice and no *)
(* record holds a running job, for every number of jobs and invocations.   *)
(*                                                                         *)
(* At the end of a pass the ledger becomes what the pass kept, so a lost   *)
(* invocation would be one the pass went by without keeping it: PassKeeps  *)
(* says that there is none behind the cursor.                              *)
(***************************************************************************)
EXTENDS UsageFlush, TLAPS

\* Behind the cursor everything is kept, durable or given up with a notice.
PassKeeps == cursor # 0 =>
    \A i \in pending : i < cursor => i \in kept \cup durable \cup noticed

IInv == TypeOK /\ NoInvocationLost /\ PassKeeps

(* Up to `from` everything is kept, in `done` (the store after the write   *)
(* that is being made) or given up with a notice.                          *)
Behind(from, keep, given, done) ==
    /\ from \in 0 .. stamped /\ keep \subseteq pending
    /\ given \subseteq 1 .. stamped /\ done \subseteq 1 .. stamped
    /\ durable \subseteq done
    /\ \A i \in pending : i <= from => i \in keep \cup done \cup noticed \cup given

(* What a stretch of a pass leaves behind.                                 *)
LEMMA AdvanceKeeps ==
    ASSUME TypeOK, NoInvocationLost,
           NEW from, NEW keep, NEW onChain, NEW given, NEW done,
           Behind(from, keep, given, done), onChain \subseteq 1 .. stamped,
           Advance(from, keep, onChain, given)
    PROVE  /\ noticed \cup given \subseteq noticed' /\ noticed' \subseteq 1 .. stamped
           /\ pending' \subseteq pending /\ kept' \subseteq pending'
           /\ cursor' \in 0 .. stamped
           /\ seenChain' \subseteq 1 .. stamped /\ observed' \subseteq Jobs
           /\ \A i \in pending : i \in pending' \cup done \cup noticed'
           /\ cursor' # 0 => \A i \in pending' : i < cursor' =>
                                 i \in kept' \cup done \cup noticed'
<1> USE LastAssumption
<1>0. /\ from \in 0 .. stamped /\ keep \subseteq pending
      /\ given \subseteq 1 .. stamped /\ done \subseteq 1 .. stamped
      /\ durable \subseteq done
      /\ \A i \in pending : i <= from => i \in keep \cup done \cup noticed \cup given
  BY DEF Behind
<1> DEFINE todo   == Todo(from, onChain)
           ready  == {i \in todo : Verdict(i, onChain) = "write"}
           passed == {i \in todo : \A w \in ready : i < w}
           keep2  == keep \cup {i \in passed : Verdict(i, onChain) = "gate-closed"}
<1>1. todo \subseteq pending /\ todo \subseteq 1 .. stamped
  BY DEF Todo, TypeOK
<1>2. noticed' = noticed \cup given \cup {i \in passed : Verdict(i, onChain) = "unkeyable"}
  BY DEF Advance
<1>3. noticed \cup given \subseteq noticed' /\ noticed' \subseteq 1 .. stamped
  BY <1>0, <1>1, <1>2 DEF TypeOK
<1>4. keep2 \subseteq pending
  BY <1>0, <1>1
<1>5. ASSUME NEW i \in todo
      PROVE  Verdict(i, onChain) \in {"unkeyable", "gate-closed", "existing", "write"}
  BY DEF Verdict
<1>6. ASSUME NEW i \in todo, Verdict(i, onChain) = "existing" PROVE i \in done
  BY <1>0, <1>6 DEF Verdict, Durable
<1>7. ASSUME NEW i \in pending, i \notin todo \/ i \in passed \ ready
      PROVE  i \in keep2 \cup done \cup noticed'
  <2>1. CASE i \notin todo
    <3>1. i <= from
      BY <1>0, <2>1 DEF Todo, TypeOK
    <3> QED BY <3>1, <1>0, <1>3
  <2>2. CASE i \in passed \ ready
    <3>1. Verdict(i, onChain) \in {"unkeyable", "gate-closed", "existing"}
      BY <2>2, <1>5
    <3> QED BY <2>2, <3>1, <1>2, <1>6
  <2> QED BY <1>7, <2>1, <2>2
<1>8. CASE /\ ready = {} /\ pending' = keep2
           /\ cursor' = 0 /\ kept' = {} /\ seenChain' = {} /\ observed' = {}
  <2>1. ASSUME NEW i \in pending PROVE i \in keep2 \cup done \cup noticed'
    BY <1>7, <1>8
  <2> QED BY <1>0, <1>3, <1>4, <1>8, <2>1 DEF TypeOK
<1>9. CASE \E next \in ready :
              /\ \A w \in ready : next <= w
              /\ cursor' = next /\ kept' = keep2 /\ seenChain' = onChain
              /\ observed' = Window(next) /\ UNCHANGED pending
  <2>1. PICK next \in ready :
              /\ \A w \in ready : next <= w
              /\ cursor' = next /\ kept' = keep2 /\ seenChain' = onChain
              /\ observed' = Window(next) /\ UNCHANGED pending
    BY <1>9
  <2>2. next \in 1 .. stamped /\ ready \subseteq 1 .. stamped
    BY <1>1
  <2>3. ASSUME NEW i \in pending, i < next PROVE i \in keep2 \cup done \cup noticed'
    <3>1. i \in 1 .. stamped
      BY DEF TypeOK
    <3>2. i \notin todo \/ i \in passed \ ready
      BY <2>1, <2>2, <2>3, <3>1 DEF TypeOK
    <3> QED BY <3>2, <1>7
  <2>4. Window(next) \subseteq Jobs
    BY DEF Window
  <2> QED BY <1>3, <1>4, <2>1, <2>2, <2>3, <2>4 DEF TypeOK
<1>10. \/ /\ ready = {} /\ pending' = keep2
          /\ cursor' = 0 /\ kept' = {} /\ seenChain' = {} /\ observed' = {}
       \/ \E next \in ready :
              /\ \A w \in ready : next <= w
              /\ cursor' = next /\ kept' = keep2 /\ seenChain' = onChain
              /\ observed' = Window(next) /\ UNCHANGED pending
  BY DEF Advance
<1> QED BY <1>8, <1>9, <1>10

-----------------------------------------------------------------------------
LEMMA InitIInv == Init => IInv
<1> SUFFICES ASSUME Init PROVE IInv
  OBVIOUS
<1> USE LastAssumption DEF Init
<1>1. stamped \in 0 .. Last /\ cursor \in 0 .. stamped
  OBVIOUS
<1>2. /\ unkeyable \subseteq 1 .. stamped /\ chain \subseteq 1 .. stamped
      /\ pending \subseteq 1 .. stamped /\ seenChain \subseteq 1 .. stamped
      /\ durable \subseteq 1 .. stamped /\ noticed \subseteq 1 .. stamped
  OBVIOUS
<1>3. turn \in BOOLEAN /\ due \in BOOLEAN
  OBVIOUS
<1>4. job \in [Jobs -> {"none", "running", "settled"}] /\ jobOf \in [Jobs -> 0 .. Last]
  OBVIOUS
<1>5. record \in [Invocations -> SUBSET Jobs] /\ observed \subseteq Jobs
  OBVIOUS
<1>6. kept \subseteq pending /\ phase \in {"open", "closing", "closed"}
  OBVIOUS
<1>7. TypeOK
  BY <1>1, <1>2, <1>3, <1>4, <1>5, <1>6 DEF TypeOK
<1> QED BY <1>7 DEF IInv, NoInvocationLost, PassKeeps

(* The type of what a pass writes, beside what it leaves alone.            *)
LEMMA PassTypes ==
    ASSUME TypeOK, UNCHANGED <<sessionVars, missed, jobsVars, phase>>, due' \in BOOLEAN,
           pending' \subseteq pending, kept' \subseteq pending',
           cursor' \in 0 .. stamped,
           seenChain' \subseteq 1 .. stamped, observed' \subseteq Jobs,
           noticed' \subseteq 1 .. stamped, durable' \subseteq 1 .. stamped,
           record' \in [Invocations -> SUBSET Jobs]
    PROVE  TypeOK'
<1>1. /\ stamped' = stamped /\ unkeyable' = unkeyable /\ chain' = chain /\ turn' = turn
      /\ branch' = branch /\ missed' = missed
      /\ job' = job /\ jobOf' = jobOf /\ phase' = phase
  BY DEF sessionVars, jobsVars
<1>2. /\ stamped' \in 0 .. Last /\ unkeyable' \subseteq 1 .. stamped'
      /\ chain' \subseteq 1 .. stamped' /\ turn' \in BOOLEAN
      /\ branch' \in [Invocations -> SUBSET (1 .. stamped')] /\ missed' \subseteq 1 .. stamped'
  BY <1>1 DEF TypeOK
<1>3. /\ job' \in [Jobs -> {"none", "running", "settled"}]
      /\ jobOf' \in [Jobs -> 0 .. Last] /\ phase' \in {"open", "closing", "closed"}
  BY <1>1 DEF TypeOK
<1>4. /\ pending' \subseteq 1 .. stamped' /\ cursor' \in 0 .. stamped'
      /\ seenChain' \subseteq 1 .. stamped' /\ durable' \subseteq 1 .. stamped'
      /\ noticed' \subseteq 1 .. stamped'
  BY <1>1 DEF TypeOK
<1> QED BY <1>2, <1>3, <1>4 DEF TypeOK

LEMMA SessionStep ==
    ASSUME IInv,
           \/ \E keyable \in BOOLEAN : Stamp(keyable)
           \/ Navigate
           \/ \E j \in Jobs : Dispatch(j)
           \/ \E j \in Jobs, settles \in BOOLEAN : HubChange(j, settles)
           \/ TurnSettled \/ ShutdownBegins \/ ShutdownEnds
    PROVE  IInv'
<1> USE LastAssumption DEF IInv, NoInvocationLost, PassKeeps
<1>1. ASSUME NEW keyable \in BOOLEAN, Stamp(keyable) PROVE IInv'
  <2>1. stamped' = stamped + 1 /\ stamped' \in 0 .. Last /\ stamped' \in 1 .. stamped'
    BY <1>1 DEF Stamp, TypeOK
  <2>2. 1 .. stamped' = (1 .. stamped) \cup {stamped'}
    BY <2>1 DEF TypeOK
  <2>3. /\ unkeyable' \subseteq 1 .. stamped' /\ chain' \subseteq 1 .. stamped'
        /\ pending' = pending \cup {stamped'}
    BY <1>1, <2>2 DEF Stamp, TypeOK
  <2>3a. branch' \in [Invocations -> SUBSET (1 .. stamped')] /\ missed' \subseteq 1 .. stamped'
    <3>1. branch \in [Invocations -> SUBSET (1 .. stamped')] /\ missed \subseteq 1 .. stamped'
      BY <2>2 DEF TypeOK
    <3>2. branch' = [branch EXCEPT ![stamped'] = chain'] /\ missed' = missed
      BY <1>1 DEF Stamp
    <3> QED BY <2>3, <3>1, <3>2
  <2>4. TypeOK'
    BY <1>1, <2>1, <2>2, <2>3, <2>3a DEF Stamp, TypeOK, jobsVars, passVars, storeVars
  <2>5. NoInvocationLost'
    BY <1>1, <2>2, <2>3 DEF Stamp, storeVars
  <2>6. PassKeeps'
    BY <1>1, <2>1, <2>3 DEF Stamp, TypeOK, passVars, storeVars
  <2> QED BY <2>4, <2>5, <2>6
<1>2. CASE Navigate
  <2>1. chain' \subseteq 1 .. stamped /\ missed' \subseteq 1 .. stamped
    <3>1. 1 .. stamped \subseteq Invocations
      BY DEF TypeOK, Invocations
    <3>2. \A i \in 1 .. stamped : branch[i] \subseteq 1 .. stamped
      BY <3>1 DEF TypeOK
    <3>3. chain' \in {{}} \cup {branch[i] : i \in 1 .. stamped}
      BY <1>2 DEF Navigate
    <3>4. chain' \subseteq 1 .. stamped
      BY <3>2, <3>3
    <3> QED BY <1>2, <3>4 DEF Navigate, TypeOK
  <2> QED BY <1>2, <2>1 DEF Navigate, TypeOK, jobsVars, passVars, storeVars
<1>3. ASSUME NEW j \in Jobs, Dispatch(j) PROVE IInv'
  BY <1>3 DEF Dispatch, TypeOK, sessionVars, passVars, storeVars
<1>t. Triggers => due' = TRUE /\ missed' \subseteq 1 .. stamped
  BY DEF Triggers, QueueFlush
<1>4. ASSUME NEW j \in Jobs, NEW settles \in BOOLEAN, HubChange(j, settles) PROVE IInv'
  BY <1>4, <1>t DEF HubChange, TypeOK, sessionVars, passVars, storeVars
<1>5. CASE TurnSettled
  BY <1>5, <1>t DEF TurnSettled, TypeOK, jobsVars, passVars, storeVars
<1>6. CASE ShutdownBegins
  BY <1>6, <1>t DEF ShutdownBegins, TypeOK, sessionVars, jobsVars, passVars, storeVars
<1>7. CASE ShutdownEnds
  BY <1>7 DEF ShutdownEnds, TypeOK, sessionVars, jobsVars, passVars, storeVars
<1> QED BY <1>1, <1>2, <1>3, <1>4, <1>5, <1>6, <1>7

LEMMA PassStep == ASSUME IInv, Pass PROVE IInv'
<1> USE LastAssumption DEF IInv
<1>1. CASE PassBegins
  <2>1. /\ Advance(0, {}, chain, {}) /\ due' = FALSE /\ cursor = 0
        /\ UNCHANGED <<sessionVars, missed, jobsVars, durable, record, phase>>
    BY <1>1 DEF PassBegins
  <2>2. Behind(0, {}, {}, durable)
    BY DEF TypeOK, Behind
  <2>3. /\ noticed \subseteq noticed' /\ noticed' \subseteq 1 .. stamped
        /\ pending' \subseteq pending /\ kept' \subseteq pending'
        /\ cursor' \in 0 .. stamped
        /\ seenChain' \subseteq 1 .. stamped /\ observed' \subseteq Jobs
        /\ \A i \in pending : i \in pending' \cup durable \cup noticed'
        /\ cursor' # 0 => \A i \in pending' : i < cursor' =>
                              i \in kept' \cup durable \cup noticed'
    BY <2>1, <2>2, AdvanceKeeps DEF TypeOK
  <2>4. TypeOK'
    <3>1. /\ due' \in BOOLEAN /\ UNCHANGED <<sessionVars, missed, jobsVars, phase>>
          /\ durable' = durable /\ record' = record
      BY <2>1
    <3> QED BY <3>1, <2>3, PassTypes DEF TypeOK
  <2> QED BY <2>1, <2>3, <2>4 DEF NoInvocationLost, PassKeeps, sessionVars
<1>2. CASE RecordWritten
  <2>1. /\ Advance(cursor, kept, seenChain, {}) /\ Persist(cursor) /\ cursor # 0
        /\ UNCHANGED <<sessionVars, missed, jobsVars, due, phase>>
    BY <1>2 DEF RecordWritten
  <2>2. durable' = durable \cup {cursor} /\ durable' \subseteq 1 .. stamped
    BY <2>1 DEF Persist, TypeOK
  <2>3. record' \in [Invocations -> SUBSET Jobs]
    BY <2>1 DEF Persist, TypeOK
  <2>4. PICK done \in SUBSET (1 .. stamped) : done = durable'
    BY <2>2
  <2>5. Behind(cursor, kept, {}, done)
    BY <2>1, <2>2, <2>4 DEF TypeOK, PassKeeps, Behind
  <2>6. /\ noticed \subseteq noticed' /\ noticed' \subseteq 1 .. stamped
        /\ pending' \subseteq pending /\ kept' \subseteq pending'
        /\ cursor' \in 0 .. stamped
        /\ seenChain' \subseteq 1 .. stamped /\ observed' \subseteq Jobs
        /\ \A i \in pending : i \in pending' \cup done \cup noticed'
        /\ cursor' # 0 => \A i \in pending' : i < cursor' =>
                              i \in kept' \cup done \cup noticed'
    BY <2>1, <2>2, <2>4, <2>5, AdvanceKeeps DEF TypeOK
  <2>7. TypeOK'
    <3>1. /\ due' \in BOOLEAN /\ UNCHANGED <<sessionVars, missed, jobsVars, phase>>
      BY <2>1 DEF TypeOK
    <3> QED BY <3>1, <2>2, <2>3, <2>6, PassTypes
  <2> QED BY <2>1, <2>2, <2>4, <2>6, <2>7 DEF NoInvocationLost, PassKeeps, sessionVars
<1>3. CASE WriteFailed
  <2>1. /\ Advance(cursor, kept, seenChain, {cursor}) /\ cursor # 0
        /\ UNCHANGED <<sessionVars, missed, jobsVars, due, durable, record, phase>>
    BY <1>3 DEF WriteFailed
  <2>2. {cursor} \in SUBSET (1 .. stamped)
    BY <2>1 DEF TypeOK
  <2>3. Behind(cursor, kept, {cursor}, durable)
    BY <2>1, <2>2 DEF TypeOK, PassKeeps, Behind
  <2>4. /\ noticed \subseteq noticed' /\ noticed' \subseteq 1 .. stamped
        /\ pending' \subseteq pending /\ kept' \subseteq pending'
        /\ cursor' \in 0 .. stamped
        /\ seenChain' \subseteq 1 .. stamped /\ observed' \subseteq Jobs
        /\ \A i \in pending : i \in pending' \cup durable \cup noticed'
        /\ cursor' # 0 => \A i \in pending' : i < cursor' =>
                              i \in kept' \cup durable \cup noticed'
    BY <2>1, <2>2, <2>3, AdvanceKeeps DEF TypeOK
  <2>5. TypeOK'
    <3>1. /\ due' \in BOOLEAN /\ UNCHANGED <<sessionVars, missed, jobsVars, phase>>
          /\ durable' = durable /\ record' = record
      BY <2>1 DEF TypeOK
    <3> QED BY <3>1, <2>4, PassTypes DEF TypeOK
  <2> QED BY <2>1, <2>4, <2>5 DEF NoInvocationLost, PassKeeps, sessionVars
<1>4. CASE PassAbandoned
  <2>1. /\ cursor' = 0 /\ kept' = {} /\ seenChain' = {} /\ observed' = {}
        /\ UNCHANGED <<sessionVars, missed, jobsVars, pending, due, noticed, phase>>
    BY <1>4 DEF PassAbandoned
  <2>2. /\ durable \subseteq durable' /\ durable' \subseteq 1 .. stamped
        /\ record' \in [Invocations -> SUBSET Jobs]
    <3>1. CASE Persist(cursor)
      <4>1. cursor \in 1 .. stamped
        BY <1>4 DEF PassAbandoned, TypeOK
      <4>2. durable' = durable \cup {cursor}
        BY <3>1 DEF Persist
      <4>3. record' \in [Invocations -> SUBSET Jobs]
        BY <3>1 DEF Persist, TypeOK
      <4> QED BY <4>1, <4>2, <4>3 DEF TypeOK
    <3>2. CASE UNCHANGED <<durable, record>>
      BY <3>2 DEF TypeOK
    <3> QED BY <1>4, <3>1, <3>2 DEF PassAbandoned
  <2>3. TypeOK'
    <3>1. /\ due' \in BOOLEAN /\ UNCHANGED <<sessionVars, missed, jobsVars, phase>>
          /\ pending' \subseteq pending /\ kept' \subseteq pending'
          /\ cursor' \in 0 .. stamped /\ seenChain' \subseteq 1 .. stamped
          /\ observed' \subseteq Jobs /\ noticed' \subseteq 1 .. stamped
      BY <2>1 DEF TypeOK
    <3> QED BY <3>1, <2>2, PassTypes
  <2> QED BY <2>1, <2>2, <2>3 DEF NoInvocationLost, PassKeeps, sessionVars
<1> QED BY <1>1, <1>2, <1>3, <1>4 DEF Pass

LEMMA NextStep == ASSUME IInv, [Next]_vars PROVE IInv'
<1>1. CASE Next
  BY <1>1, SessionStep, PassStep DEF Next
<1>2. CASE UNCHANGED vars
  BY <1>2 DEF vars, sessionVars, jobsVars, passVars, storeVars, IInv, TypeOK,
     NoInvocationLost, PassKeeps
<1> QED BY <1>1, <1>2

LEMMA Invariance == Spec => []IInv
  BY InitIInv, NextStep, PTL DEF Spec

-----------------------------------------------------------------------------
(* Ledger, passes and store keep their types; a pass only keeps what is    *)
(* still pending.                                                          *)
THEOREM TypeCorrect == Spec => []TypeOK
<1>1. IInv => TypeOK
  BY DEF IInv
<1> QED BY <1>1, Invariance, PTL

(* Every stamped invocation is pending, durable or given up with a notice. *)
THEOREM NothingLost == Spec => []NoInvocationLost
<1>1. IInv => NoInvocationLost
  BY DEF IInv
<1> QED BY <1>1, Invariance, PTL

-----------------------------------------------------------------------------
(* What a pass is about to record has settled, and settled jobs stay so.   *)
SettledInv ==
    /\ RecordedJobsSettled
    /\ \A j \in observed : job[j] = "settled"

LEMMA AdvanceObserves ==
    ASSUME NEW from, NEW keep, NEW onChain, NEW given, Advance(from, keep, onChain, given)
    PROVE  \A j \in observed' : job[j] = "settled"
<1> DEFINE todo  == Todo(from, onChain)
           ready == {i \in todo : Verdict(i, onChain) = "write"}
<1>1. CASE observed' = {}
  BY <1>1
<1>2. CASE \E next \in ready : observed' = Window(next)
  <2>1. PICK next \in ready : observed' = Window(next)
    BY <1>2
  <2>2. ForestSettled(next)
    BY <2>1 DEF Verdict
  <2> QED BY <2>1, <2>2 DEF ForestSettled
<1> QED BY <1>1, <1>2 DEF Advance

LEMMA PersistSettled ==
    ASSUME TypeOK, SettledInv, Persist(cursor), UNCHANGED job
    PROVE  RecordedJobsSettled'
<1> SUFFICES ASSUME NEW i \in Invocations, i \in durable', NEW j \in record'[i]
             PROVE  job[j] = "settled"
  BY DEF RecordedJobsSettled
<1>1. durable' = durable \cup {cursor}
      /\ record' = IF cursor \in durable THEN record ELSE [record EXCEPT ![cursor] = observed]
  BY DEF Persist, Durable
<1>2. CASE cursor \in durable
  BY <1>1, <1>2 DEF SettledInv, RecordedJobsSettled
<1>3. CASE cursor \notin durable
  BY <1>1, <1>3 DEF SettledInv, RecordedJobsSettled, TypeOK
<1> QED BY <1>2, <1>3

LEMMA SettledStep == ASSUME TypeOK, SettledInv, [Next]_vars PROVE SettledInv'
<1>1. ASSUME NEW keyable \in BOOLEAN, Stamp(keyable) PROVE SettledInv'
  BY <1>1 DEF Stamp, jobsVars, passVars, storeVars, SettledInv, RecordedJobsSettled
<1>2. ASSUME NEW k \in Jobs, Dispatch(k) PROVE SettledInv'
  <2>1. /\ \A j \in Jobs : job[j] = "settled" => job'[j] = "settled"
        /\ UNCHANGED <<durable, record, observed>>
    BY <1>2 DEF Dispatch, passVars, storeVars, TypeOK
  <2> QED BY <2>1 DEF SettledInv, RecordedJobsSettled, TypeOK
<1>3. ASSUME NEW k \in Jobs, NEW settles \in BOOLEAN, HubChange(k, settles) PROVE SettledInv'
  <2>1. /\ \A j \in Jobs : job[j] = "settled" => job'[j] = "settled"
        /\ UNCHANGED <<durable, record, observed>>
    BY <1>3 DEF HubChange, passVars, storeVars, TypeOK
  <2> QED BY <2>1 DEF SettledInv, RecordedJobsSettled, TypeOK
<1>4. ASSUME Navigate \/ TurnSettled \/ ShutdownBegins \/ ShutdownEnds \/ UNCHANGED vars
      PROVE  SettledInv'
  <2>1. UNCHANGED <<job, durable, record, observed>>
    BY <1>4 DEF Navigate, TurnSettled, ShutdownBegins, ShutdownEnds, vars, jobsVars, passVars,
       storeVars
  <2> QED BY <2>1 DEF SettledInv, RecordedJobsSettled
<1>5. CASE PassBegins
  <2>1. UNCHANGED <<job, durable, record>> /\ \A j \in observed' : job[j] = "settled"
    BY <1>5, AdvanceObserves DEF PassBegins, jobsVars
  <2> QED BY <2>1 DEF SettledInv, RecordedJobsSettled
<1>6. CASE RecordWritten
  <2>1. job' = job /\ Persist(cursor) /\ \A j \in observed' : job[j] = "settled"
    BY <1>6, AdvanceObserves DEF RecordWritten, jobsVars
  <2>2. RecordedJobsSettled'
    BY <2>1, PersistSettled
  <2> QED BY <2>1, <2>2 DEF SettledInv
<1>7. CASE WriteFailed
  <2>1. UNCHANGED <<job, durable, record>> /\ \A j \in observed' : job[j] = "settled"
    BY <1>7, AdvanceObserves DEF WriteFailed, jobsVars
  <2> QED BY <2>1 DEF SettledInv, RecordedJobsSettled
<1>8. CASE PassAbandoned
  <2>1. job' = job /\ observed' = {} /\ (Persist(cursor) \/ UNCHANGED <<durable, record>>)
    BY <1>8 DEF PassAbandoned, jobsVars
  <2>2. RecordedJobsSettled'
    BY <2>1, PersistSettled DEF SettledInv, RecordedJobsSettled
  <2> QED BY <2>1, <2>2 DEF SettledInv
<1> QED BY <1>1, <1>2, <1>3, <1>4, <1>5, <1>6, <1>7, <1>8 DEF Next, Pass

(* A record never holds a job that is still running, although the gate is  *)
(* asked before a fetch that the record waits for (flushPendingInvocations). *)
THEOREM SettledRecorded == Spec => []RecordedJobsSettled
<1>1. Init => SettledInv
  BY DEF Init, SettledInv, RecordedJobsSettled
<1>2. IInv => TypeOK
  BY DEF IInv
<1>3. SettledInv => RecordedJobsSettled
  BY DEF SettledInv
<1> QED BY <1>1, <1>2, <1>3, Invariance, SettledStep, PTL DEF Spec

-----------------------------------------------------------------------------
OnceStep == \A i \in Invocations : i \in durable => i \in durable' /\ record'[i] = record[i]

LEMMA PersistOnce == ASSUME TypeOK, Persist(cursor) PROVE OnceStep
BY DEF Persist, Durable, OnceStep, TypeOK

(* The store is choose-once: a record file is never written again          *)
(* (persistInvocationUsage).                                               *)
THEOREM WrittenOnce == Spec => ChooseOnce
<1>1. TypeOK /\ [Next]_vars => [OnceStep]_vars
  <2> SUFFICES ASSUME TypeOK, [Next]_vars PROVE OnceStep
    OBVIOUS
  <2>1. CASE RecordWritten \/ PassAbandoned
    <3>1. Persist(cursor) \/ UNCHANGED <<durable, record>>
      BY <2>1 DEF RecordWritten, PassAbandoned
    <3> QED BY <3>1, PersistOnce DEF OnceStep
  <2>2. CASE ~(RecordWritten \/ PassAbandoned)
    <3>1. UNCHANGED <<durable, record>>
      BY <2>2 DEF Next, Pass, Stamp, Navigate, Dispatch, HubChange, TurnSettled, ShutdownBegins,
         ShutdownEnds, PassBegins, WriteFailed, vars, storeVars
    <3> QED BY <3>1 DEF OnceStep
  <2> QED BY <2>1, <2>2
<1>2. IInv => TypeOK
  BY DEF IInv
<1> QED BY <1>1, <1>2, Invariance, PTL DEF Spec, ChooseOnce, OnceStep
=============================================================================
