------------------------------ MODULE UsageFlush ------------------------------
(***************************************************************************)
(* The one gated write path of the usage records: the pending-invocation   *)
(* ledger and the flush chain of extensions/index.ts with                  *)
(* flushPendingInvocations of extensions/usage-store.ts.                   *)
(*                                                                         *)
(* A flush pass runs synchronously up to the provider fetch of a record it *)
(* is about to write, so an action here is a stretch of a pass between two *)
(* fetches.  Invocations and jobs start while a fetch is awaited.          *)
(***************************************************************************)
EXTENDS Integers

CONSTANTS
    Jobs,     \* the jobs the invocations dispatch, numbered in that order
    Last      \* bound: invocations in a session, numbered in stamping order

ASSUME JobsAssumption == Jobs \subseteq Nat
ASSUME LastAssumption == Last \in Nat

VARIABLES
    stamped,      \* invocations stamped so far; a marker's `at` is its number
    unkeyable,    \* invocations stamped without a marker time
    branch,       \* the session tree: each marker, with the markers above it
    chain,        \* the markers on the active leaf chain
    missed,       \* history: invocations that were off the chain when a flush
                  \* was last queued, or left it since
    turn,         \* a prompt run is active
    job, jobOf,   \* each job's manifest (exitCode null while running), and the
                  \* last invocation stamped when it was started
    pending,      \* pendingInvocations; its order is the stamping order
    due,          \* a flush is queued on flushChain
    cursor,       \* the invocation whose fetch the running pass awaits, or 0
    kept,         \* the pass's `remaining`
    seenChain,    \* the pass's snapshot of the entries and the leaf
    observed,     \* the jobs of the record being written
    durable,      \* the store: the invocations with a record file
    record,       \* the jobs of each record
    noticed,      \* invocations given up with a notice
    phase         \* the session: "open", "closing", "closed"

sessionVars == <<stamped, unkeyable, branch, chain, turn>>
jobsVars    == <<job, jobOf>>
passVars    == <<cursor, kept, seenChain, observed>>
storeVars   == <<durable, record, noticed>>
vars        == <<sessionVars, missed, jobsVars, pending, due, passVars, storeVars, phase>>

Invocations == 1 .. Last

Init ==
    /\ stamped = 0 /\ unkeyable = {} /\ branch = [i \in Invocations |-> {}] /\ chain = {}
    /\ turn = FALSE /\ missed = {}
    /\ job = [j \in Jobs |-> "none"] /\ jobOf = [j \in Jobs |-> 0]
    /\ pending = {} /\ due = FALSE
    /\ cursor = 0 /\ kept = {} /\ seenChain = {} /\ observed = {}
    /\ durable = {} /\ record = [i \in Invocations |-> {}] /\ noticed = {}
    /\ phase = "open"

-----------------------------------------------------------------------------
(* A procedure command: stampProcedureInvocation, then the prompt is sent. *)
Stamp(keyable) ==
    /\ phase = "open" /\ stamped < Last
    /\ stamped' = stamped + 1
    /\ unkeyable' = IF keyable THEN unkeyable ELSE unkeyable \cup {stamped'}
    /\ chain' = chain \cup {stamped'}
    /\ branch' = [branch EXCEPT ![stamped'] = chain']
    /\ pending' = pending \cup {stamped'}
    /\ turn' = TRUE
    /\ UNCHANGED <<missed, jobsVars, due, passVars, storeVars, phase>>

\* The user moves the leaf to another entry of the tree: to an older one of
\* its branch, or to another branch.
Navigate ==
    /\ phase = "open" /\ ~turn
    /\ chain' \in {{}} \cup {branch[i] : i \in 1 .. stamped}
    /\ missed' = missed \cup ((1 .. stamped) \ chain')
    /\ UNCHANGED <<stamped, unkeyable, branch, turn, jobsVars, pending, due, passVars,
                   storeVars, phase>>

\* The turn dispatches a job; its manifest is written first.
Dispatch(j) ==
    /\ phase = "open" /\ turn
    /\ job[j] = "none" /\ \A k \in Jobs : k < j => job[k] # "none"
    /\ job' = [job EXCEPT ![j] = "running"]
    /\ jobOf' = [jobOf EXCEPT ![j] = stamped]
    /\ UNCHANGED <<sessionVars, missed, pending, due, passVars, storeVars, phase>>

\* Faulty: a trigger that finds a pass running is dropped.
QueueUnlessBusy == due' = (due \/ cursor = 0)

QueueFlush == due' = TRUE

Triggers == QueueFlush /\ missed' = (1 .. stamped) \ chain

\* Any hub change queues a flush; the last one of a job is that it settled.
HubChange(j, settles) ==
    /\ phase # "closed"
    /\ job[j] = "running"
    /\ job' = IF settles THEN [job EXCEPT ![j] = "settled"] ELSE job
    /\ Triggers
    /\ UNCHANGED <<sessionVars, jobOf, pending, passVars, storeVars, phase>>

\* agent_settled queues one too.
TurnSettled ==
    /\ phase = "open" /\ turn
    /\ turn' = FALSE
    /\ Triggers
    /\ UNCHANGED <<stamped, unkeyable, branch, chain, jobsVars, pending, passVars,
                   storeVars, phase>>

\* session_shutdown awaits a last flush, then shuts the hub down.
ShutdownBegins ==
    /\ phase = "open"
    /\ phase' = "closing"
    /\ Triggers
    /\ UNCHANGED <<sessionVars, jobsVars, pending, passVars, storeVars>>

ShutdownEnds ==
    /\ phase = "closing" /\ ~due /\ cursor = 0
    /\ phase' = "closed"
    /\ UNCHANGED <<sessionVars, missed, jobsVars, pending, due, passVars, storeVars>>

-----------------------------------------------------------------------------
\* The invocation's window has a lower bound only.
Window(i) == {j \in Jobs : job[j] # "none" /\ jobOf[j] >= i}

\* Faulty: the gate does not wait for the jobs in the window.
NoGate(i) == TRUE

ForestSettled(i) == \A j \in Window(i) : job[j] = "settled"

\* Faulty: the record is looked up under another key.
NeverThere(i) == FALSE

Durable(i) == i \in durable

Verdict(i, onChain) ==
    IF i \in unkeyable THEN "unkeyable"
    ELSE IF i \notin onChain \/ ~ForestSettled(i) THEN "gate-closed"
    ELSE IF Durable(i) THEN "existing" ELSE "write"

\* Faulty: the loop runs over the markers of the pass's snapshot.
TodoOfSnapshot(from, onChain) == {i \in pending \cap onChain : i > from}

\* What is left to visit: the loop runs over the live array.
Todo(from, onChain) == {i \in pending : i > from}

(* A pass goes on after invocation `from`, up to the next one to write or  *)
(* to the end, where the ledger becomes what the gate kept.                *)
Advance(from, keep, onChain, given) ==
    LET todo   == Todo(from, onChain)
        ready  == {i \in todo : Verdict(i, onChain) = "write"}
        passed == {i \in todo : \A w \in ready : i < w}
        keep2  == keep \cup {i \in passed : Verdict(i, onChain) = "gate-closed"}
    IN  /\ noticed' = noticed \cup given
                      \cup {i \in passed : Verdict(i, onChain) = "unkeyable"}
        /\ \/ /\ ready = {}
              /\ pending' = keep2
              /\ cursor' = 0 /\ kept' = {} /\ seenChain' = {} /\ observed' = {}
           \/ \E next \in ready :
              /\ \A w \in ready : next <= w
              /\ cursor' = next
              /\ kept' = keep2
              /\ seenChain' = onChain
              /\ observed' = Window(next)
              /\ UNCHANGED pending

\* The next link of flushChain.
PassBegins ==
    /\ due /\ cursor = 0 /\ phase # "closed"
    /\ due' = FALSE
    /\ Advance(0, {}, chain, {})
    /\ UNCHANGED <<sessionVars, missed, jobsVars, durable, record, phase>>

\* persistInvocationUsage refuses an existing file.
Persist(i) ==
    /\ durable' = durable \cup {i}
    /\ record' = IF Durable(i) THEN record ELSE [record EXCEPT ![i] = observed]

\* The fetch is back (or gave up) and the record is written ...
RecordWritten ==
    /\ cursor # 0
    /\ Persist(cursor)
    /\ Advance(cursor, kept, seenChain, {})
    /\ UNCHANGED <<sessionVars, missed, jobsVars, due, phase>>

\* ... or the store refuses it: a notice, and no retry ...
WriteFailed ==
    /\ cursor # 0
    /\ Advance(cursor, kept, seenChain, {cursor})
    /\ UNCHANGED <<sessionVars, missed, jobsVars, due, durable, record, phase>>

(* ... or the notice itself throws, on the stale context of a session that *)
(* is being replaced: the pass is abandoned.                               *)
PassAbandoned ==
    /\ cursor # 0 /\ phase = "closing"
    /\ Persist(cursor) \/ UNCHANGED <<durable, record>>
    /\ cursor' = 0 /\ kept' = {} /\ seenChain' = {} /\ observed' = {}
    /\ UNCHANGED <<sessionVars, missed, jobsVars, pending, due, noticed, phase>>

-----------------------------------------------------------------------------
Pass == PassBegins \/ RecordWritten \/ WriteFailed \/ PassAbandoned

Next ==
    \/ \E keyable \in BOOLEAN : Stamp(keyable)
    \/ Navigate
    \/ \E j \in Jobs : Dispatch(j)
    \/ \E j \in Jobs, settles \in BOOLEAN : HubChange(j, settles)
    \/ TurnSettled
    \/ ShutdownBegins \/ ShutdownEnds
    \/ Pass

Spec == Init /\ [][Next]_vars

\* Promises resolve and fetches end (they carry a timeout).
LiveSpec == Spec /\ WF_vars(PassBegins) /\ WF_vars(RecordWritten \/ WriteFailed)

-----------------------------------------------------------------------------
TypeOK ==
    /\ stamped \in 0 .. Last
    /\ unkeyable \subseteq 1 .. stamped
    /\ branch \in [Invocations -> SUBSET (1 .. stamped)]
    /\ chain \subseteq 1 .. stamped /\ missed \subseteq 1 .. stamped
    /\ turn \in BOOLEAN
    /\ job \in [Jobs -> {"none", "running", "settled"}]
    /\ jobOf \in [Jobs -> 0 .. Last]
    /\ pending \subseteq 1 .. stamped
    /\ due \in BOOLEAN
    /\ cursor \in 0 .. stamped
    /\ kept \subseteq pending
    /\ seenChain \subseteq 1 .. stamped
    /\ observed \subseteq Jobs
    /\ durable \subseteq 1 .. stamped
    /\ record \in [Invocations -> SUBSET Jobs]
    /\ noticed \subseteq 1 .. stamped
    /\ phase \in {"open", "closing", "closed"}

(* No invocation is lost: from its stamp on it is pending, durable or      *)
(* given up with a notice, although a pass replaces the whole ledger when  *)
(* it ends and invocations are stamped while it awaits a fetch.            *)
NoInvocationLost ==
    \A i \in 1 .. stamped : i \in pending \cup durable \cup noticed

(* A record is written once: a pass abandoned after a write leaves the     *)
(* invocation pending, and the passes that meet it again change nothing.   *)
ChooseOnce == [][\A i \in Invocations :
    i \in durable => i \in durable' /\ record'[i] = record[i]]_vars

(* A record never holds a job that is still running, neither when it is    *)
(* written nor, with the fetch between the gate and the write, later.      *)
RecordedJobsSettled == \A i \in Invocations :
    i \in durable => \A j \in record[i] : job[j] = "settled"

(* An invocation whose turn is over and whose jobs have settled is         *)
(* recorded or given up with a notice: no trigger is lost while a pass is  *)
(* busy with another invocation.  The user may take it off the chain: it   *)
(* is recorded then when a flush is queued after its chain is back.        *)
EventuallyRecorded == \A i \in Invocations :
    i \in pending /\ i \notin missed /\ ~turn /\ ForestSettled(i) ~>
        \/ i \notin pending
        \/ turn \/ ~ForestSettled(i) \/ i \in missed \/ phase # "open"
        \/ cursor = 0 /\ i \in durable

(* usage-store.ts: "One record per completed invocation".  The gate is     *)
(* open whenever no job of the window is running, also before the first    *)
(* dispatch and between two dispatches of one turn.                        *)
RecordOfCompleted == \A i \in Invocations :
    i \in durable => {j \in Jobs : jobOf[j] = i} \subseteq record[i]
=============================================================================
