# pi-council in TLA+

pi-council is an extension of the pi coding agent. A *facilitator* session
dispatches *seats* (agents with a role) as child processes, gates how much
deliberation a card gets, records what everything cost, and survives providers
that answer with an error instead of a reply. The code is TypeScript under
`src/extensions/`; line numbers below are of that directory.

This directory models the parts of it that are hard to test because several
handlers, processes or sessions meet: the job hub, the retry of the session's
own turns, the usage records, the metered-deliberation gate and the way from
its mode to the merge check, the editor slot, tree and transcript of the
terminal, the configuration file with its pickers and its watcher, the refresh
of the packaged files, and the MCP servers of a session.

- [Inventory](#inventory): components, state, operations, interactions, hazards
- [Modules](#modules): what models what
- [Runs](#runs): what is checked, bounds, fairness
- [Theorems](#theorems): what is proved and how
- [What the code does that its text does not say](#divergences)
- [Not modelled](#not-modelled) and [plan](#plan)

## Inventory

Everything runs in JavaScript event loops: a handler runs to completion, and
state can change under it only across an `await`, a timer or a process event.
Concurrency is therefore between *handlers of one process*, between *processes*
(parent session, runner children with a hub of their own, seats) and between
*sessions of one repository*, which share files.

| component | state | operations | interacts with |
|---|---|---|---|
| job hub (`hub.ts`, `child.ts`, `hub-tools.ts`) | job table, processes, kill timers, monitor interval | dispatch, output, close/error, tick, cancel, wait, shutdown, sweep | supervisors (callback `onSettle`), manifests, pid file, `onChange` |
| retry supervisors (`job-retry.ts`, `retry.ts`) | backoff timer, `disposed` flag | `onSettle`, timer fire, `dispose` | hub (`respawn`), prompt directory |
| run directory (`runs.ts`, `tree.ts`) | one manifest per job, run ids | write, read, prune, attempt list | written by hubs, read by navigator, usage gate, merge check |
| parent turn retry (`index.ts` 361-571, `parent-retry.ts`) | attempt, pending error, saved prompt, timer, countdown, surface, filter flag | agent_start, context, message_end, agent_end, agent_settled, keys, shutdown | host's run loop, editor slot, usage flush (awaited before it) |
| usage records (`usage-store.ts`, `index.ts` 695-735) | pending ledger, flush chain, record files | stamp, flush, persist | manifests, provider fetch (awaited), session tree |
| gate (`gate.ts`, `gate-run.ts`, `gate-tool.ts`, `gate-transport.ts`) | gate files; a call in flight | decide; gate, append a line | decisions service (awaited), ledger |
| follow-up gate (`followup-*.ts`) | as the gate | decide a draft's disposition | service, ledger, board |
| ledger and routing (`gate-ledger.ts`, `gate-route*.ts`) | `gate-ledger.jsonl` | append, route, re-check, read the mode of a card | packed state, decision policy, manifests |
| packing (`gate-state.ts`, `followup-state.ts`) | none (hash of card, wiki, rulings, tests) | build state | gate, routing |
| merge check (`merge-check.ts`) | none | evaluate | the mode read back from the manifests |
| MCP (`mcp/`) | table of server runtimes, secrets file | connect, call, probe, login, logout, close | session start and end, `/mcp` |
| tree widget (`navigator.ts`, `focus-nav.ts`) | focus surface, selection, cached drawing, editor slot | toggle, keys, 2 s refresh, drawing | manifests, retry editor (one slot for both) |
| transcript view (`navigator.ts`, `transcript.ts`) | read offset, partial line, blocks, expanded, focus | 1 s poll, keys, drawing | session files of children |
| configuration (`seats.ts`, `council-config-writer.ts`, `council-models.ts`, `model-picker.ts`) | `.council.json`, the picker's cursors | load, pick, splice, clear | every dispatch, gate, theme |
| theme (`theme-activation.ts`, `theme-watcher.ts`) | watcher, re-arm and debounce timers | activate, deliver, reload | `.council.json`, terminal |
| scaffold and update (`scaffold.ts`, `council-update.ts`) | packaged files in the repository, record, backups, drift note | init, plan, ask, apply, check | the consumer's edits, package upgrades |
| worktrees, evaluation harness | git, reports | sweep, run trials | commands |

What makes each correct, in a line:

- **hub**: one child per job at a time, killed by its own pid; every job comes
  to rest; what is on disk (manifest, pid file, prompt directory) agrees with
  what runs; retries stay within the budget and settled is final.
- **parent retry**: an errored turn is continued or named exhausted, the
  automatic sends are bounded, what is on the screen is what is armed, and the
  user's own run is never taken for a continuation.
- **usage**: no invocation lost, none recorded twice, none recorded early.
- **gate**: a reduced mode is earned by an answer about exactly this state
  under this policy, every other outcome deliberates, one call leaves one line,
  later lines only escalate.
- **merge path**: the mode read for a card never weakens, depends on its own
  dispatches only, and nothing merges without the evidence its mode asks for.
- **tree and transcript**: an open tree can be entered and a closed one takes no
  key; nothing but the reader's keys moves the reader; the view is the file,
  and keys act on the unit the screen marked.
- **configuration**: a write changes the reading of what was chosen and of
  nothing else, whatever the file looks like; the terminal ends up with the
  theme of the file.
- **refresh**: an edit is never lost and never taken for the tool's own content,
  nor the other way round; a deleted file stays deleted.
- **servers**: a registered server runs on the secret that is stored, and an
  open client can be found to be closed.

The hazards, each at its line with the properties that cover it or the reason
why none does, are the `hazards` of `PROJECT.json`.

## Modules

| module | what it is |
|---|---|
| `Dispatch` | abstract: what a dispatch promises about one job id |
| `Hub` | the hub and its retry supervisors; `Lifecycle` instantiates `Dispatch` |
| `HubProofs` | theorems about `Hub`, and that it implements `Dispatch` |
| `ParentRetry`, `ParentRetryProofs` | the retry of the session's own turns |
| `UsageFlush`, `UsageFlushProofs` | the gated write path of the usage records |
| `GateDecide` | `decide` and `decideFollowup` as operators |
| `Gate`, `GateProofs` | gate calls, ledger, routing, re-check |
| `MergePath`, `MergePathProofs` | dispatches and second attempts, the mode read back, the merge check |
| `Ordered` | sorted lists as ranks: the order of the rows, of units, of search results |
| `EditorSlot` | the host's one editor slot and the two overlays that share it |
| `TreeFocus` | the tree widget: manifests, snapshot, drawing, focus, attempts |
| `Navigator` | `TreeFocus` and `EditorSlot` with the retry's surface: who gets a key |
| `TranscriptView` | a view over the incremental reader of a session file |
| `ConfigFile` | `.council.json` as its readers parse it and its writers splice it |
| `ModelPicker` | the four-level modal with its search |
| `CouncilConfig` | both with the commands, the user's editor and the theme watcher |
| `TerminalProofs` | theorems about the tree, the transcript view, the picker and the configuration |
| `Refresh`, `RefreshProofs` | council-init, council-update, the drift notice, crashes |
| `McpServers`, `McpProofs` | the runtime table, the session's connects, the `/mcp` commands |
| `MC...` | instances for TLC |

Operators marked *Faulty* are deliberately wrong variants of the definition
below them; substituting one must break the property it is paired with (the
`mutants` of `PROJECT.json`). No specification uses them.

### Hub

One action per handler. `SpawnJob` is `council_dispatch` (`spawnJob`, 164-260);
`Output` a chunk of the child's stream, reduced to what a closed assistant
message says (stop reason, and whether its error message is retryable);
`Close`, `SpawnError`, `SpawnErrorClose` the process events with the whole of
`settle` (364-397) in them: recording the attempt, asking the supervisor, then
`Backoff` or `FinalSettle`, then manifest and pid file. `TickStall` and
`TickTimeout` are the monitor on one job, `Fire` the supervisor's timer with
`respawn`, `CancelRunning` and `CancelBackoff` the two halves of `cancel`,
`Shutdown` the end.

- A process is named by its attempt (`pid[j] = 2` is the process of attempt 2),
  so a kill of a stale pid would be visible; pid reuse by the system is not.
- SIGTERM and the SIGKILL five seconds later are one state, `signalled`: the
  child will die, and may still talk or exit normally before it does.
- Time is a choice: `GoQuiet` says that the stall window elapsed. The kind of
  classification (`retryable`, `fatal`, none) stands for the error message.
- A failed `spawn` queues its `error` event with `nextTick`, so no timer or
  tool call comes before it (`ErrorPending` guards them); its `close` event
  may come much later.
- `SpawnJob` needs `~down`: after a shutdown the tool gets another hub.

`Dispatch` knows phases, a count of attempts and whether the prompt directory
exists. The mapping is `DispatchPhase`, `AttemptsMade`, `PromptThere`; a job in
backoff whose supervisor a shutdown disposed has ended, although its state is
still `retrying`.

### ParentRetry

`AgentStart`, `Request`, `MessageEnd`, `AgentEnd`, `AgentSettled` are the events
the host delivers, in that order, with the handlers `registerParentTurnRetry`
hangs on them. The host itself is external: a run is `idle`, `starting`,
`running`, `awaiting` or `ended`, and a prompt handed over during a run is
refused or joins it. `OnSettled` is the rest of the settle handler, after the
awaited usage flush; `settling` counts handlers still awaiting it, since the
next run may end before they go on. `Fire` is the timer of a terminal session,
`CountdownEnds` the countdown print mode awaits inside the handler. The user
types, presses Esc, presses Enter on the exhausted message, or ends the
session. A prompt is the number of the act that gave it. `auto` counts the
engine's sends since the last act; no action reads it.

### UsageFlush

A pass runs without interruption from one provider fetch to the next, so
`PassBegins`, `RecordWritten`, `WriteFailed` and `PassAbandoned` are stretches of
`flushPendingInvocations` (410-575) between two fetches, and `Advance` is the loop
from an invocation to the next one it writes. The loop runs over the live
array: what is stamped during a fetch is still visited, with the chain of the
pass's snapshot. `due` is a queued link of `flushChain`; two triggers queued while a
pass runs are one, since the second pass would find what the first left.
An invocation is its number. `chain` is the markers on the path from the leaf to
the root and `branch` the session tree: under each marker the path it was stamped
on. `Navigate` moves the leaf to any of these paths, an older one or another
branch. `missed` is history: what was off the path at the last trigger, or has been
left since. The
`at` of a marker and the `startedAt` of a manifest are compared by `jobOf`, the
last invocation stamped when the job started: a window has a lower bound only,
so later jobs count in earlier windows, as in the code.

### Gate and GateDecide

A call awaits the service exactly once. Up to there (`GateTool`, `FollowupTool`,
`Recheck`) it captures the packed state and the policies; from the answer on
(`Answer`, `Fail`) it decides, appends and reports, and goes on to the next card
of its batch with the policies it captured. Between the two anything may
happen: `Edit` changes the card or what is packed with it, `Retune` the gate
files, other sessions append, `Crash` ends a session, perhaps inside its append.

- The answers' arms are disjuncts: `Record` (verdict appended), `RecordUnusable`
  (`decide` throws, the failure is appended), `RecordAgain` (the append of the
  verdict throws inside the same `try`, the failure is appended after it),
  `RecordNothing` (that append throws as well and the tool reports it).
- The file is its readable lines and whether it ends mid-line. A line appended
  to a torn tail is glued to it and both are unreadable. A write cut exactly
  before its newline is not distinguished.
- A packed state is a value: equal when nothing it covers changed. The cuts
  that packing makes at its budget are not modelled, so a re-check here always
  sees a touched file.
- `enabled` stands for the modes advisory and active, which nothing here tells
  apart.
- `heard`, `by` and `told` are history: what the service answered, the gate files a
  line was written under, what the last re-check handed back.
- `Decide` and `Dispose` are operator CONSTANTS of `Gate`, which is what the
  theorems quantify over. `MCGate` gives them the operators of `GateDecide`, the
  packaged questions and the packaged policies in tenths (so that sums of
  weights are integers). `GateDecide` visits the answers in the order of the
  questions; the order shows only in which message a throw carries.
- `SilenceAssumption` says that no answers at all deliberate. The loader refuses a
  `verify` threshold of 0 (`gate.ts` 501), and under that `SilenceDeliberates` proves it
  of `DecideMode`.

### MergePath

An id is the path of its dispatches: the session numbers its own, a runner
numbers what it dispatches, each process from 1 (`allocateId`). `DispatchRunner`
is a runner dispatched for a card, at first or after an escalation, with the
mode its routing named; `DispatchSeat` what the runner dispatches;
`DispatchStray` a dispatch of the session for no card. `Retry` starts a
runner's next attempt: a new process under the same id, so its counter starts
again and `Dispatch` replaces the manifests of the first attempt one by one.
`CardMode` is `readCardMode` (378-402) with the subtree as a least fixed point,
`Merges` is `evaluateMergeCheck` over any observation. `made` is history: every
dispatch and whom it was for. The mode a root gets here is any mode or none;
which one it should get is the subject of `Gate`.

### EditorSlot, TreeFocus and Navigator

Tree and retry each put an editor into the host's one slot, composed over the
factory found there, and remember it in a module variable that is read when an
editor is *built*. `Built` follows that chain through both variables as they are
at that moment, and `endless` says that it leads back to itself.
`TreeFocus` separates what is on disk (`manifest`), what the last 2 s refresh
read (`rows`), what the cached drawing is of (`drawn`) and what the keys act on
(`ctlRows`). `Navigator` joins the two and routes a key from the outermost
editor inwards: `Escape`, `Enter` and `TreeKey` (arrows, brackets, the progress
keys) are the whole `handleInput` of both editors.

### TranscriptView

A child appends lines, a part at a time; `Poll` reads the bytes since the last
poll, keeps an incomplete last line and folds results into the calls before
them. It decodes each chunk by itself (`transcript.ts` 141), so a character of
several bytes that the file ended inside of is damaged in its line. `Wide` names
the lines that have such a character, `cut` says that the file ends inside one, and
`partial` that what is held back was decoded from such bytes (`torn`); `damaged` is
the blocks whose text this spoilt and `split`, a history, the lines a poll ended
inside a character of. The
damage is in a text, never in the JSON around it, so that the line still parses. `DrawView` computes the window as the code's `render` does: the heights of
the units, the marked head, what is scrolled to. A unit is its position, as in
the code, so a line that arrives or a filter that changes moves what a position
names. `screen` is what the last drawing showed of the focus.

### ConfigFile, ModelPicker and CouncilConfig

A document keeps its members in file order with duplicates, as a reader takes
the last and a splice must choose one; a section can be missing or of the wrong
kind; the theme section can start on the root brace's line. `Documents` is all of
these, and `config` is the file of the moment. Each writer is an
operator from document to document (`SeatWritten`, `GateWritten`, `SeatCleared`); each loader an operator on documents. `ModelPicker` is the modal, key
by key: `RowsFor` its one source of rows at the model level, `Filtered` the search
over them, `Reclamped` the cursor after a letter. `Accepts` is what the writer
demands of a selection. `CouncilConfig` lets the user save while the picker is open, and follows
a save through the watcher: the event of the handle, the re-arming 10 ms later
that drops what the old handle had not delivered, the reload 250 ms after the
last event, the awaited activation.

### Refresh

The writes of one command run without an await, but the process may die
between any two: `Ends(whole, broken)` is a command that ends, or one of the
repositories a crash leaves (`ScaffoldCrashes`, `WriteCrashes`: which files were
written before it, the backup but not the file, the file but not the record,
the record torn). `StartUpdate`, `Ask` and `Answer` are the questions of
council-update, between which the consumer edits and packages are installed;
`Apply` plans again, as the code does. `ours` is history: the files whose
content the tool wrote last. `SessionStart` is the drift check, whose write or
removal of the state file may fail (366-370, 383-388): a failed removal leaves the
file, a failed write the old one or none that can be read. `unsaved` says that
this happened at the last change.

### McpServers

Each command, and each session's connect loop, is a task that runs to its next
await: the user's input, a close, a connect. `Connect` puts the runtime into the
table before it is connected, `Close` takes it out before it is closed, `Submit`
saves the copy of the store that `Login` loaded before its prompt. `off` is the
registered servers that are not enabled: no loop and no `RefreshServerRuntime`
connects them, a probe does.
`SessionShutdown` closes what is in the table and calls nothing off. A secret is
the number of the login that gave it; `stale` and `replaced` are history and name
the two ways in which the properties do fail (below).

## Runs

| run | instance | distinct states | shows |
|---|---|---|---|
| `hub_safety` | 2 jobs, one supervised; 2 attempts | 287 550 | `ChildrenAreKnown`, `ManifestAgrees`, `SettledForever`, `ImplementsDispatch` |
| `hub_liveness` | 1 job, 3 attempts (the default policy) | 1 615 | `Provenance`, `NoLimbo`, `SilentJobEnds` |
| `parent_retry` | terminal or print mode, 3 attempts, 4 acts, 2 handlers | 24 463 | budget, countdown, Enter, `ContinuedOrNamed` |
| `usage_flush` | 2 jobs, 3 invocations, their branches | 996 539 | nothing lost, chosen once, `EventuallyRecorded` |
| `gate_routing` | 2 sessions, 2 card states, 1 draft, 3 gate files, 2 calls, 1 fault | 136 086 | routing, ledger, re-check |
| `merge_path` | 2 cards, 4 dispatches, 1 second attempt | 20 823 | the mode read, the evidence of a merge |
| `navigator` | 2 jobs, one retried once; 24 rows | 341 160 | `TreeEditorLive`, `ReadingKept`, `RowsCatchUp` |
| `transcript_view` | 4 lines, 1 with a wide character, 1 call, a window of 3 rows | 400 374 | the view is the file, keys act on what is marked |
| `council_config` | 2 seats, 3 models, 5 documents, 1 save, 1 write | 334 758 | exact writes, `ThemeSettles` |
| `refresh` | 2 tooling files, 1 data file, 2 packages, 2 edits, 1 crash or failed write | 5 349 345 | no edit lost, none mistaken, drift told |
| `mcp_servers` | 2 servers, 3 commands, 2 at once, 2 sessions, 3 clients | 3 246 826 | stored secret used, open clients found |
| `merge_path_retry` | as `merge_path` | | the counterexample to `GeneratorIsSeen`, [below](#divergences) |

`MCHubCancel.cfg`, `MCHubAttempts.cfg`, `MCParentRetryFresh.cfg`,
`MCUsageFlushCompleted.cfg`, `MCGateRecorded.cfg`, `MCGateSilence.cfg`,
`MCNavigatorRetry.cfg` and `MCTranscriptTwoRows.cfg` check one property each, which TLC finds violated: the
counterexamples of the other divergences, kept to be reproduced.

### Bounds and why they are enough

- `hub_safety`: two jobs share one pid file and one shutdown and are otherwise
  independent; one is supervised and one is not, because the settle path
  differs. Two attempts give a retry, an exhausted budget and a stale pid.
- `hub_liveness`: jobs do not wait for each other, so one job; three attempts so
  that a backoff can follow a backoff.
- `parent_retry`: `MaxActs = 4` allows prompt, Enter on exhausted, Esc and
  another prompt in one behaviour; `MaxSettling = 2` is two overlapping settle
  handlers, the case the await makes possible. Whether there is a terminal is
  chosen at the start; headless handlers do not overlap (the host waits for the
  handler). `RetryBudget` and `CountdownIsLive` are proved without the bounds.
- `usage_flush`: three invocations are one written, one kept because its job
  runs, and one stamped during the fetch. Jobs are dispatched in the order of
  their numbers, which loses nothing: they are alike.
- `gate_routing`: the conflicts are between pairs (two lines about one state,
  two sessions awaiting, a torn tail and a line). The calls stop at two, of
  which one can be of a batch; the theorems hold without the bound. The replies are
  a plainly mechanical card, a fair one, one with a wide blast radius
  and one `decide` refuses; the drafts' a duplicate, one already done and
  one half answered. Three gate files: two with the same version and
  different thresholds, one with a new version.
- `merge_path`: a sibling card, an escalation of the card, a seat below each, and
  a replaced manifest fit into four dispatches; the theorems hold for any
  number.
- `navigator`: two jobs can change places in the sort order, one of them gets a
  second attempt while it is read. A retry surface may come and go any number
  of times; nothing is bounded but the attempts. 24 rows is the usual terminal;
  the layout on smaller ones is [below](#divergences).
- `transcript_view`: four lines hold a call, its result, a thinking block between
  them and a line after; three rows are fewer than a unit with its body, so the
  window must scroll. The second line has a wide character: a line that has
  another before and two after it, and can be a call's result, a thinking block or
  the first of its kind. Of windows of every other height but two `FocusOnScreen` is
proved; of two it is false (below).
- `council_config`: the documents are the scaffold's, one with levels given in
  both ways, one with duplicated keys, one with values the loaders refuse, and
  one without a council section. One save and one write overlap in every order.
- `refresh`: one package over another, an edit before and one during the command,
  and one crash or one failed write of the drift state (`MaxFaults`); a failed
  write, then the drift gone or changed, then back, needs no second one. The
  theorems hold for any number.
- `mcp_servers`: two commands and a session's connects overlap, of two servers
  because a login saves the store of both; three clients are one replaced, one
  replacing and one of the next session.

Deadlock is not checked: a session whose jobs have settled, whose bounds are
used up or which has been shut down rests, as the program does.

Symmetry is used in `gate_routing` (sessions and card states), `merge_path` (cards)
and `mcp_servers` (commands, session starts), which are interchangeable there; the
temporal properties of these runs are action properties.

### Fairness and why the code justifies it

- Hub: an armed `setTimeout` fires; the monitor's `setInterval` ticks until
  the shutdown; a failed spawn delivers its events; a child that was signalled
  dies, since SIGKILL follows SIGTERM. Of a child left alone nothing is
  assumed: it may run for ever if it talks.
- Parent retry: the host finishes its runs and delivers their events, promises
  resolve, timers fire. The user owes nothing.
- Usage: the promise chain proceeds and a fetch ends, as it carries a timeout.
- Navigator: the widget's 2 s interval ticks and the drawing it requests happens,
  unless building an editor never ended. Transcript: the view's 1 s interval.
- Configuration: the events of a file handle, timers and promises; saves and
  writes are bounded, so the file is left alone in the end.
- Gate, merge path, refresh, servers: nothing; safety properties only.

### What the properties say

- `JobPhases` is the inductive heart of the hub: idle, running, waiting or
  ended, and what hub, supervisor, prompt directory and operating system hold
  in each. `ChildrenAreKnown` (one child per job under its own pid, and a pid file
  that lists exactly the children) follows from it.
- `ManifestAgrees` stops at the shutdown, which kills without writing: the
  manifests of jobs it killed stay `running` until their close event.
- `Provenance` is about the reader's operator `BrowsableAttempts` and holds during a
  backoff and after a cancelled one; the stored list alone does not
  (`MCHubAttempts.cfg`).
- `ContinuedOrNamed` is indexed by the number of acts, so that a new act of the
  user is no excuse for an old turn.
- `EventuallyRecorded` needs the leaf chain: an invocation the user navigated
  away from stays pending by design, and one whose branch the user came back to
  waits for the next trigger (`missed`), since coming back is none.
- `RecordedJobsSettled` holds although the gate is checked before the fetch:
  what is written is what was in the window then.
- `ReducedIsEarned` relates the route of today to what the service said at any
  time; `RecordedIsTheDecision` is its converse.
- `RatchetHolds` is about one re-check. Two of them in a row may hand back
  different modes, both no weaker than what was recorded; the merge check reads
  the modes of the dispatched roots.
- `MergedOnEvidence` and `ModeOnlyStrengthens` set replaced manifests aside: what a
  second attempt overwrote cannot be read, which is `GeneratorIsSeen`.
- `SeatWriteIsExact` leaves out the one insertion that produces a malformed file
  (`AtLineStart`, below); `ClearAndGateAreExact` asks of the clears only in files
  without duplicated keys.
- `BlocksAreTheFile` says that each line is there once and in order, whatever part
  of it a poll found, and that the text of exactly those is damaged inside a
  character of which a poll ended: the damage is real, and it does not spread.
- `LinesShown` asks only of a view that found its file (below).
- `DriftIsTold` stops while the state file says something old because it could not be
  saved, until a later write succeeds.
- `UntouchedIsUpdatable` stops at the first crash, `EditsSurvive` and
  `DeletedStaysDeleted` do not.
- `StoredSecretIsUsed` and `OpenClientsAreFound` except servers whose secret another
  login put back or whose own login reconnects nothing (removed meanwhile, or not
  enabled), and clients a second connect replaced (below): they say that these
  are the only ways.

## Theorems

All hold for every value of the constants under the named assumptions of the
modules: `JobsAssumption`, `AttemptsAssumption` (hub), `AttemptsAssumption`, `EnabledAssumption`,
`BoundsAssumption` (parent retry), `LastAssumption`, `JobsAssumption` (usage), `BoundsAssumption`,
`HashesAssumption`, `DecideAssumption`, `SilenceAssumption` (gate),
`SeatsAssumption`, `NoneAssumption`, `StrayAssumption` (merge path), `JobsAssumption`,
`AttemptsAssumption`, `TermRowsAssumption` (tree), `BoundAssumption`,
`ViewportAssumption` (transcript), `NamesAssumption`, `RowsAssumption`, `DocsAssumption`
(configuration), `FilesAssumption`, `PackagesAssumption`, `ContentsAssumption`
(refresh), `TasksAssumption` (servers).

`SilenceAssumption` and the configuration's three are the ones with a content; the
first is itself proved of the code's `decide` (`SilenceDeliberates`).
`NamesAssumption` says that no model or level is named like the mark for a missing
one, `RowsAssumption` that the picker's lists are built of the catalogue the
writer is given (it is the same array, `council-models.ts` 47), `DocsAssumption`
that a user saves documents: a file that is absent or malformed is a case of its
own and is covered.

Four theorems carry a hypothesis in their own statement: `Recorded` (the gate
files agree on their version), `DraftsFiled` and `ReducedIsCertain` (the decision
functions are the code's), `FocusShown` (the window is not of two rows). `MCGate`
and `MCTranscriptView` are instances that satisfy them.

| theorem | argument |
|---|---|
| `HubProofs!PhasesCorrect`, `TypeCorrect` | `TypeOK /\ JobPhases` is inductive; one lemma per handler, `Frame` for the jobs it does not touch |
| `ChildrenKnown`, `PromptLifetimeAlways` | one child per job and the prompt's lifetime are consequences of the phases; the pid file is strengthened by `PidsListed`: the file is what `writePids` would write now, then phases say which processes those are |
| `ManifestAgreesAlways` | every handler that changes a field of the manifest ends with `WriteManifest` of that job |
| `SettledForeverAlways` | strengthened by `Sessions`: attempt i runs session i, what `settle` recorded is 1, 2, ... up to the open attempt or the last one; the only event a settled job can still get is the close of a failed spawn, and it finds its attempt recorded |
| `ProvenanceAlways` | `Sessions`, and that the manifest names the attempt, session and list in memory also after a shutdown (`ManifestNames`) |
| `HubProofs!HubImplementsDispatch` | each handler is a step of the abstract dispatch or none (`StartStep`, `WaitStep`, `AgainStep`, `EndStep`, `NoStep`) |
| `ParentRetryProofs!TypeCorrect`, `BudgetKept`, `CountdownLive` | the attempt ordinal is ahead of the sends, an armed send is one further ahead, and a run the engine started is announced until its `agent_start` |
| `ParentRetryProofs!OfferHasPrompt` | with a budget of more than one attempt (with one, Enter on an exhausted surface has nothing to send): the prompt is kept while a retry is armed, shown or under way (`PromptKept`), every run has one (`RunHasPrompt`), a closed session and print mode show nothing |
| `UsageFlushProofs!TypeCorrect`, `NothingLost` | strengthened by `PassKeeps`: behind the cursor everything is kept, durable or noticed |
| `UsageFlushProofs!SettledRecorded`, `WrittenOnce` | what the pass observed at the gate has settled and stays so across the fetch (`SettledInv`); a write looks for the file in the same step |
| `GateProofs!TypeCorrect`, `OneLine`, `Ratchet`, `Reduced` | a session's step finishes its call or replaces it by one with a fresh number (`Turns`) and adds at most one line, of the call that was in flight (`Outcomes`); the invariant adds that the numbers in flight are distinct (`Numbered`) and that a card's line carries answers the service gave, or none (`LinesEarned`) |
| `GateProofs!Escalation` | the lines only grow, so do the valid modes, and the strongest of more is no weaker |
| `GateProofs!Recorded` | where the gate files agree on their version, a line about the present state is valid (`LinesConsistent`: lines written under equal files carry equal versions), and the strongest valid line is no weaker than it; without the hypothesis the property is false, which is divergence 6 |
| `GateProofs!SilenceDeliberates`, `ReducedIsCertain` | the branches of `DecideMode`: a mode below deliberation is reached only past the rules and the floors and over a threshold (`ReducedSays`), and a sum over no answers is 0, below any threshold the loader admits; `Reduced` carries this to the route |
| `GateProofs!DraftsFiled` | `decideFollowup` files whatever has an unanswered weighted question (`SilentDraftIsFiled`), for any policy that weighs each question; a line carries the answers it was decided on (`LinesConsistent`) |
| `MergePathProofs!ModeStrengthens` | the subtree under more roots of more manifests is larger, and so are its generators and modes |
| `MergePathProofs!Evidence`, `Apart` | whatever was dispatched for a card is a root of it or hangs under one, also after a second attempt, since a replaced manifest has the parent its id spells (`IdsSpellParents`); the roots' own manifests are never replaced, since the session's counter only grows |
| `TerminalProofs!EditorLive` | a table of the slot's contents (`SlotInv`): while building an editor ends, what the slot and the two priors hold follows from whether tree and retry are open and which came first, and the tree's editor is in the chain exactly while the tree is open |
| `ReadingIsKept` | the snapshot lags behind the manifests but never runs ahead (`RowsBehind`), so the attempt the reader chose still exists when it is drawn (`CursorKept`, `HasAttempt`) |
| `LayoutFits` | case split on the space left; for terminals from the display floor up, below it the sum is larger than the terminal |
| `BlocksCorrect` | the blocks are the lines up to the tail's offset (`FileInv` relates offset and the held half line to the file); the damaged ones are those split so far, and what is held is torn exactly while the open line has been split (`SplitInv`) |
| `ToggleMarked` | a line that arrives leaves the units before it in their places, a result because it folds into a call that precedes it (`UnitsStay`, `VisibleStays`): what a position named at the drawing it still names (`Marked`) |
| `FocusShown` | the heads of later units are lower (`HeadsDescend`), so the window that starts two lines above the head holds it, unless it has two lines |
| `PickOffered` | `PickIsOffered`, which no run checks: rows vanish and come back under the cursor of a search, and Enter takes what it stands on; each cursor is on a row, or on the first of none, in and out of the search (`PickerInv`, `FilteredIs`) |
| `SeatWriteExact` | the three splices are an appended member, a replaced value and a new section (`Inserted`, `Revalued`, `SplicedDocument`); each leaves the last entry of every other seat where it was (`LeastOf`, `IsLast`), and what is emitted parses to what was kept (`KeptIs`, `EmittedIs`) |
| `ClearAndGateExact` | without duplicates an entry is the only one (`OnlyEntry`), its removal leaves none and the others their values (`Removed`); the gate's last mode is replaced or appended (`GateWrittenIs`) |
| `RefreshProofs!Untouched`, `Survive`, `Deleted`, `Told` | the record names contents the package shipped and, while nothing crashed, what is on disk for every file the tool wrote last; every end of an apply, whole or broken off, wrote some of the planned files, each after its backup, and nothing else (`Between`, `Applies`) |
| `McpProofs!TypeCorrect`, `SecretUsed`, `ClientsFound` | what is in the table is a client of that server (`Tabled`), a task that waits works on a server and one that connects has a client (`Waiting`); the secret agrees with the store also while its server is not registered, or an `Add` would break it (`SecretsAgree`) |

Only model-checked are the liveness properties (`SilentJobEnds`, `NoLimbo`,
`ContinuedOrNamed`, `EventuallyRecorded`, `RowsCatchUp`, `LinesShown`, `ThemeSettles`)
and everything about fairness, which is outside the prover's reach, and
what the weighted sum of `decide` comes to, which would need induction over the
answers: the theorems compare the sum with the thresholds and do not compute it.

<a name="divergences"></a>
## What the code does that its text does not say

1. A retried runner's second attempt numbers its dispatches from 1 under the
   same job id (`hub.ts` 118), so it replaces the manifests of the first one.
   A generator that had been dispatched is then no longer seen, although the
   mode authority promises "Deliberate iff the union contains >= 1 generator
   dispatch" (run `merge_path_retry`). Session files of nested jobs collide in
   the same way.
2. A cancelled running job whose last message was a retryable error is
   retried (`hub.ts` 379; `MCHubCancel.cfg`).
3. A job cancelled in its backoff settles with attempt 2 and an attempts list
   of attempt 1 (`hub.ts` 402; `MCHubAttempts.cfg`).
4. With a terminal, a prompt the user starts during a re-armed backoff is taken
   for the continuation and keeps the spent budget (`index.ts` 530;
   `MCParentRetryFresh.cfg`).
5. A usage record can be written between two dispatches of one turn and never
   holds the second job (`usage-store.ts` 436; `MCUsageFlushCompleted.cfg`).
6. With the packaged gate files no recorded decision is ever routed by: lines
   carry `policy.json`'s version, the route compares `decision.json`'s
   (`gate-run.ts` 272; `MCGateRecorded.cfg`).
7. An unanswered override question can make a card cheaper (`gate.ts` 1094;
   `MCGateSilence.cfg`).
8. Closing the tree restores the editor it was opened over, unconditionally
   (`focus-nav.ts` 386): a retry editor installed over the tree goes with it while
   its backoff is still shown (`MCNavigatorRetry.cfg`). A tree opened over a retry
   editor whose surface is then cleared and shown again makes each editor the
   other's prior: building one does not end (`endless`).
9. In a window of two rows the head of the focused unit can be off the screen
   while the reader moves by hand, since the window starts two lines above it
   (`navigator.ts` 944; `MCTranscriptTwoRows.cfg`), although
   `council/cards/EV-36.md` 698 has "the marker is always present because the
   focused unit is always on screen"; the layout does grant two rows (nine
   terminal rows, one job).

Met while modelling, without a run of their own:

- *Hub.* A job marked `timeout` whose child then falls silent is never marked
  `stalled`, since the tick looks at running jobs only, while
  `vault/wiki/hub-job-supervision.md` says that a silent job is stopped.
- *Ledger.* A line appended after a torn tail disappears without the report
  the header of `gate-ledger.ts` promises.
- *Merge check.* `effectiveModeForCard` throws when there is no root; nothing in
  the source calls `evaluateMergeCheck`, the facilitator's procedure does.
- *Tree and transcript.* A view built before its session file exists keeps no reader and
  stays empty. A replaced view keeps its 1 s interval. Each poll is decoded by
  itself, so a character split between two polls is damaged (`damaged`). The progress
  layout adds up to more than the terminal has on six rows or fewer.
- *Configuration.* With no council section and the theme section on the root
  brace's line, the insertion yields malformed JSON. With duplicated keys the
  writer finds the first root member, the parser the last; a seat cleared loses
  only its last duplicate, a thinking level only its first. A write that landed
  is reported as an error when loading the seat afterwards throws. An edit saved
  between the writer's read and its rename is lost.
- *Theme.* A section that appears during a session is not watched. An
  activation under way may end after the shutdown.
- *Refresh.* An acceptance covers what is in the file at the apply, not what was
  shown (a copy is kept). After a crash between a file and its record the file
  counts as edited once the package moves on; a torn record reads as empty, so
  deleted files come back. The drift note hashes only the consumer's files: a
  newer package over the same files is not told again. When the state file could
  not be removed, a drift that returns is not told again either.
- *Servers.* A second connect of a server drops the first client without
  closing it. The connect loop of a session goes on after its shutdown and
  fills the table of the next one, whose loop then skips these servers. A header
  login saves the store it loaded before its prompt; a cancelled prompt stores
  an empty secret; a login of a server that is not enabled leaves the client a
  probe connected on the old secret; a login answered after its server was
  removed stores a secret
  and connects nothing, and a probe or login begun before the removal may
  connect a server that is no longer registered.

## Not modelled

- `wait`'s polling, the ring of events, rendering, the child's JSON stream
  beyond what the classifier reads, `pruneRuns`, run ids.
- Several hubs on one pid file (nested dispatches, concurrent sessions).
- Outcome lines of the ledger; the guards of `runGate` that throw before the
  call and leave nothing; the HTTP exchange; the loaders of the gate files; the
  budgets of the packed state.
- Two processes writing `.council.json` or the secrets file between one's read
  and its rename; torn contents of packaged files.
- The OAuth exchange of a login, servers inside seat children, tool calls and
  schema conversion.
- What council-init and council-update write besides the packaged files: the copy
  of the usages skill and the default `mcp.json`, each only where it is missing.
- Usage arithmetic and prices, seat prompts, the full-screen navigator's list,
  colours and wrapping, the evaluation harness, worktrees (a script whose locks
  are git's), procedures and the Python validators. They are sequential, or
  their correctness is about text.

## Plan

1. Proofs: an abstract record keeper (an invocation is recorded at most once, over
   jobs that have settled) that `UsageFlush` implements, as `Hub` implements
   `Dispatch`.
2. Sessions and nested hubs on one pid file (`hub.ts` 476-524): which children a
   sweep misses or kills wrongly.
3. `GatePack` (`gate-state.ts`, `followup-state.ts`): budget and caps as
   operators against a reference; what the hash covers.
4. The OAuth flows of `mcp/oauth.ts`: a verifier overwritten by a background
   connect, tokens refreshed by two processes.
