------------------------------ MODULE ParentRetry ------------------------------
(***************************************************************************)
(* The retry of the session's own turns: registerParentTurnRetry of        *)
(* extensions/index.ts with the RetryController, RetryEditor and one-pass  *)
(* filter of extensions/parent-retry.ts.  A turn whose last reply is the   *)
(* provider's literal error is sent again after a backoff, with a UI from  *)
(* a timer under a countdown the user can interrupt, headless from inside  *)
(* the settle handler.                                                     *)
(*                                                                         *)
(* The host (pi) is external: it delivers agent_start, context,            *)
(* message_end, agent_end and agent_settled in this order for every run,   *)
(* clears its own busy flag before agent_settled, and starts no run while  *)
(* one is active.                                                          *)
(***************************************************************************)
EXTENDS Integers

CONSTANTS
    MaxAttempts,  \* policy.maxAttempts
    Enabled,      \* the policy is there (its file parsed) and enabled
    MaxActs,      \* bound: things the user does
    MaxSettling   \* bound: settle handlers awaiting the usage flush

ASSUME AttemptsAssumption == MaxAttempts \in Nat \ {0}
ASSUME EnabledAssumption == Enabled \in BOOLEAN
ASSUME BoundsAssumption == MaxActs \in Nat /\ MaxSettling \in Nat

VARIABLES
    hasUI,               \* ctx.hasUI: a terminal session, or print mode
    retryAttempt,        \* the attempt the current run is
    pendingError,        \* the last assistant message is the literal error
    originalPrompt,      \* the prompt to send again, 0 for null
    expectContinuation,  \* the next agent_start is our own
    timer,               \* the send timer: the attempt and prompt it carries
    countdown,           \* the same, awaited inside a headless settle handler
    controller,          \* the RetryController was created
    surface,             \* controller.surface
    armed,               \* contextFilter's flag
    exit75,              \* the headless exit code was set
    settling,            \* settle handlers that await flushUsage
    closed,              \* session_shutdown was delivered
    run, runBy, runPrompt, reply,   \* the host's run
    acts, auto           \* the user's acts; automatic sends since the last one

engine   == <<retryAttempt, pendingError, originalPrompt, expectContinuation>>
backoff  == <<timer, controller, surface, armed>>
headless == <<countdown, exit75>>
session  == <<hasUI, closed>>
hostRun  == <<run, runBy, runPrompt, reply>>
counts   == <<acts, auto>>
vars     == <<engine, backoff, headless, settling, session, hostRun, counts>>

-----------------------------------------------------------------------------
Surfaces == {"idle", "backoff", "exhausted"}
Runs     == {"idle", "starting", "running", "awaiting", "ended"}
\* What recordAssistantVerdict tells apart: the literal error; stop, length
\* or aborted; any other error; no reply at all.
Replies  == {"none", "literal", "over", "other"}
Prompts  == 1 .. MaxActs
Sends    == [attempt : 2 .. MaxAttempts, prompt : Prompts]
Nothing  == [attempt |-> 0, prompt |-> 0]

Init ==
    /\ hasUI \in BOOLEAN
    /\ retryAttempt = 1
    /\ pendingError = FALSE
    /\ originalPrompt = 0
    /\ expectContinuation = FALSE
    /\ timer = Nothing
    /\ countdown = Nothing
    /\ controller = FALSE
    /\ surface = "idle"
    /\ armed = FALSE
    /\ exit75 = FALSE
    /\ settling = 0
    /\ closed = FALSE
    /\ run = "idle"
    /\ runBy = "user"
    /\ runPrompt = 0
    /\ reply = "none"
    /\ acts = 0
    /\ auto = 0

(* A prompt handed to the host starts a run of its own or, during another  *)
(* run, is refused or joins that one.                                      *)
Deliver(prompt, by) ==
    \/ /\ run = "idle"
       /\ run' = "starting"
       /\ runBy' = by
       /\ runPrompt' = prompt
       /\ reply' = "none"
    \/ /\ run # "idle"
       /\ runPrompt' \in {runPrompt, prompt}
       /\ UNCHANGED <<run, runBy, reply>>

-----------------------------------------------------------------------------
\* Faulty: the flag is not looked at.
AlwaysFresh ==
    /\ retryAttempt' = 1
    /\ pendingError' = FALSE
    /\ originalPrompt' = 0
    /\ timer' = Nothing
    /\ surface' = "idle"

\* Faulty: the terminal surface outlives the prompt it offers to send.
FreshKeepsSurface ==
    IF expectContinuation
    THEN UNCHANGED <<retryAttempt, pendingError, originalPrompt, timer, surface>>
    ELSE /\ retryAttempt' = 1
         /\ pendingError' = FALSE
         /\ originalPrompt' = 0
         /\ timer' = Nothing
         /\ UNCHANGED surface

\* agent_start: a run the engine did not expect gets a fresh budget.
FreshUnlessExpected ==
    IF expectContinuation
    THEN UNCHANGED <<retryAttempt, pendingError, originalPrompt, timer, surface>>
    ELSE /\ retryAttempt' = 1
         /\ pendingError' = FALSE
         /\ originalPrompt' = 0
         /\ timer' = Nothing
         /\ surface' = "idle"

AgentStart ==
    /\ run = "starting" /\ ~closed
    /\ run' = "running"
    /\ FreshUnlessExpected
    /\ expectContinuation' = FALSE
    /\ auto' = IF runBy = "user" THEN 0 ELSE auto
    /\ UNCHANGED <<controller, armed, headless, settling, session, runBy,
                   runPrompt, reply, acts>>

(* context: the filter applies to one provider request.  The host ends a   *)
(* run at the literal error, which it does not retry itself.               *)
Request ==
    /\ run = "running" /\ ~closed
    /\ reply # "literal"
    /\ run' = "awaiting"
    /\ armed' = FALSE
    /\ UNCHANGED <<engine, timer, controller, surface, headless, settling, session,
                   runBy, runPrompt, reply, counts>>

\* message_end: recordAssistantVerdict.
MessageEnd(r) ==
    /\ run = "awaiting" /\ ~closed
    /\ run' = "running"
    /\ reply' = r
    /\ pendingError' = (r = "literal" \/ (r = "other" /\ pendingError))
    /\ UNCHANGED <<retryAttempt, originalPrompt, expectContinuation, backoff,
                   headless, settling, session, runBy, runPrompt, counts>>

\* The verdict of the run's last assistant message alone.
LastVerdict == reply = "literal"

\* agent_end recomputes the verdict and keeps the run's last user message.
AgentEnd ==
    /\ run = "running" /\ ~closed
    /\ run' = "ended"
    /\ pendingError' = LastVerdict
    /\ originalPrompt' = runPrompt
    /\ UNCHANGED <<retryAttempt, expectContinuation, backoff, headless, settling,
                   session, runBy, runPrompt, reply, counts>>

\* agent_settled: the host is idle again; the handler awaits flushUsage first.
AgentSettled ==
    /\ run = "ended" /\ ~closed
    /\ settling < MaxSettling
    /\ run' = "idle"
    /\ settling' = settling + 1
    /\ UNCHANGED <<engine, backoff, headless, session, runBy, runPrompt, reply, counts>>

-----------------------------------------------------------------------------
\* Faulty: a spent budget is left without a word.
DecideSilently ==
    IF ~Enabled \/ ~pendingError \/ retryAttempt >= MaxAttempts THEN "none"
    ELSE "schedule"

\* decideSettleRetry.
DecideSettleRetry ==
    IF ~Enabled \/ ~pendingError THEN "none"
    ELSE IF retryAttempt < MaxAttempts THEN "schedule" ELSE "exhaust"

\* No retry: the surface is cleared; the send timer is not looked at.
SettleNone ==
    /\ DecideSettleRetry = "none"
    /\ surface' = "idle"
    /\ UNCHANGED <<expectContinuation, timer, controller, countdown, exit75>>

SettleExhaust ==
    /\ DecideSettleRetry = "exhaust"
    /\ surface' = IF hasUI THEN "exhausted" ELSE surface
    /\ controller' = (controller \/ hasUI)
    /\ exit75' = (exit75 \/ ~hasUI)
    /\ UNCHANGED <<expectContinuation, timer, countdown>>

\* Nothing to send again.
SettleNoPrompt ==
    /\ DecideSettleRetry = "schedule" /\ originalPrompt = 0
    /\ UNCHANGED <<expectContinuation, timer, controller, surface, countdown, exit75>>

NextSend == [attempt |-> retryAttempt + 1, prompt |-> originalPrompt]

(* The backoff with a UI.  Once a controller exists, every arming counts   *)
(* as a re-arm and announces the continuation before the timer has fired.  *)
SettleArm ==
    /\ DecideSettleRetry = "schedule" /\ originalPrompt # 0 /\ hasUI
    /\ timer' = NextSend
    /\ surface' = "backoff"
    /\ expectContinuation' = (expectContinuation \/ controller)
    /\ controller' = TRUE
    /\ UNCHANGED <<countdown, exit75>>

\* The backoff without one is awaited inside the handler.
SettleCountdown ==
    /\ DecideSettleRetry = "schedule" /\ originalPrompt # 0 /\ ~hasUI
    /\ countdown' = NextSend
    /\ UNCHANGED <<expectContinuation, timer, controller, surface, exit75>>

\* onSettled, after the awaited flush.
OnSettled ==
    /\ settling > 0
    /\ settling' = settling - 1
    /\ \/ SettleNone \/ SettleExhaust \/ SettleNoPrompt
       \/ SettleArm \/ SettleCountdown
    /\ UNCHANGED <<retryAttempt, pendingError, originalPrompt, armed, session,
                   hostRun, counts>>

\* The automatic send, common to the timer and to the headless countdown.
SendAgain(send) ==
    /\ retryAttempt' = send.attempt
    /\ expectContinuation' = TRUE
    /\ armed' = TRUE
    /\ auto' = auto + 1
    /\ Deliver(send.prompt, "engine")

\* Faulty: the countdown stays up.
FireUnderCountdown ==
    /\ timer # Nothing
    /\ timer' = Nothing
    /\ SendAgain(timer)
    /\ UNCHANGED <<pendingError, originalPrompt, controller, surface, headless,
                   settling, session, acts>>

Fire ==
    /\ timer # Nothing
    /\ timer' = Nothing
    /\ surface' = "idle"
    /\ SendAgain(timer)
    /\ UNCHANGED <<pendingError, originalPrompt, controller, headless, settling,
                   session, acts>>

CountdownEnds ==
    /\ countdown # Nothing
    /\ countdown' = Nothing
    /\ SendAgain(countdown)
    /\ UNCHANGED <<pendingError, originalPrompt, timer, controller, surface, exit75,
                   settling, session, acts>>

-----------------------------------------------------------------------------
\* Everything the user does; MaxActs bounds it.
Act ==
    /\ ~closed /\ acts < MaxActs
    /\ acts' = acts + 1

(* A prompt that does not pass the editor's backoff surface: typed on the  *)
(* idle or exhausted one, or a procedure's.  Print mode sends its prompts  *)
(* one after the other.                                                    *)
UserPrompt ==
    /\ Act
    /\ hasUI \/ (run = "idle" /\ settling = 0 /\ countdown = Nothing)
    /\ Deliver(acts + 1, "user")
    /\ UNCHANGED <<engine, backoff, headless, settling, session, auto>>

\* Esc during the backoff: escAbort and onAbort.
EscOnBackoff ==
    /\ Act
    /\ surface = "backoff"
    /\ surface' = "exhausted"
    /\ timer' = Nothing
    /\ armed' = FALSE
    /\ UNCHANGED <<engine, controller, headless, settling, session, hostRun, auto>>

\* Enter with a draft during the backoff: enterOnBackoff and onSubmitTyped.
TypedOnBackoff ==
    /\ Act
    /\ surface = "backoff"
    /\ surface' = "idle"
    /\ timer' = Nothing
    /\ armed' = FALSE
    /\ Deliver(acts + 1, "user")
    /\ UNCHANGED <<engine, controller, headless, settling, session, auto>>

Rearm ==
    /\ retryAttempt' = 1
    /\ expectContinuation' = TRUE
    /\ armed' = TRUE

\* Enter without a draft when the retries are exhausted: onRearm.
EnterOnExhausted ==
    /\ Act
    /\ surface = "exhausted"
    /\ surface' = "idle"
    /\ Rearm
    /\ auto' = 0
    /\ IF originalPrompt # 0 THEN Deliver(originalPrompt, "engine")
                             ELSE UNCHANGED hostRun
    /\ UNCHANGED <<pendingError, originalPrompt, timer, controller, headless,
                   settling, session>>

(* session_shutdown.  A countdown inside a settle handler is not reached.  *)
SessionShutdown ==
    /\ ~closed
    /\ closed' = TRUE
    /\ timer' = Nothing
    /\ armed' = FALSE
    /\ expectContinuation' = FALSE
    /\ pendingError' = FALSE
    /\ originalPrompt' = 0
    /\ surface' = "idle"
    /\ UNCHANGED <<hasUI, retryAttempt, controller, headless, settling, hostRun, counts>>

-----------------------------------------------------------------------------
Host   == \/ AgentStart \/ Request \/ AgentEnd \/ AgentSettled
          \/ \E r \in Replies \ {"none"} : MessageEnd(r)
Engine == OnSettled \/ Fire \/ CountdownEnds
User   == \/ UserPrompt \/ EscOnBackoff \/ TypedOnBackoff \/ EnterOnExhausted
          \/ SessionShutdown

Next == Host \/ Engine \/ User

Spec == Init /\ [][Next]_vars

(* Fairness: the host finishes the runs it starts and delivers their       *)
(* events, promises resolve, armed timers fire.  The user owes nothing.    *)
Fairness == WF_vars(Host) /\ WF_vars(OnSettled) /\ WF_vars(Fire) /\ WF_vars(CountdownEnds)

LiveSpec == Spec /\ Fairness
-----------------------------------------------------------------------------
TypeOK ==
    /\ hasUI \in BOOLEAN
    /\ retryAttempt \in 1 .. MaxAttempts
    /\ pendingError \in BOOLEAN
    /\ originalPrompt \in 0 .. MaxActs
    /\ expectContinuation \in BOOLEAN
    /\ timer \in Sends \cup {Nothing}
    /\ countdown \in Sends \cup {Nothing}
    /\ controller \in BOOLEAN
    /\ surface \in Surfaces
    /\ armed \in BOOLEAN
    /\ exit75 \in BOOLEAN
    /\ settling \in 0 .. MaxSettling
    /\ closed \in BOOLEAN
    /\ run \in Runs
    /\ runBy \in {"user", "engine"}
    /\ runPrompt \in 0 .. MaxActs
    /\ reply \in Replies
    /\ acts \in 0 .. MaxActs
    /\ auto \in Nat

(* What one user action sets off is bounded: between two of them the       *)
(* engine sends at most MaxAttempts - 1 prompts on its own, although every *)
(* run it starts looks like any other run to agent_start, settle handlers  *)
(* overlap with later runs, and Enter hands out fresh budgets.             *)
RetryBudget == auto < MaxAttempts

(* The countdown on the screen is never a dead one: while it is up the     *)
(* timer it counts to is armed.                                            *)
CountdownIsLive == surface = "backoff" => timer # Nothing

(* "Press Enter to try again" always has a prompt to send again.  With a   *)
(* budget of one attempt a reply that ends while the previous settle       *)
(* handler awaits its flush shows the offer before there is a prompt.      *)
EnterHasPrompt == surface = "exhausted" => originalPrompt # 0

(* A run started by the user has the whole budget, no timer of an older    *)
(* prompt behind it and no terminal message above it.  Not so with a UI:   *)
(* a run that starts after a re-arm, or after Esc on one, is taken for the *)
(* continuation.                                                           *)
UserRunIsFresh ==
    [][run = "starting" /\ runBy = "user" /\ run' = "running" =>
         retryAttempt' = 1 /\ timer' = Nothing /\ surface' = "idle"]_vars

(* A turn that ends with the provider's error is continued without the     *)
(* user until a run ends otherwise, and when the budget is spent the       *)
(* session says so (surface or exit code): it never just stops.            *)
ContinuedOrNamed == \A n \in 0 .. MaxActs :
    run = "ended" /\ reply = "literal" /\ acts = n ~>
        \/ surface = "exhausted" \/ exit75
        \/ reply \in {"over", "other"} \/ (run = "ended" /\ reply = "none")
        \/ acts # n \/ closed \/ ~Enabled
=============================================================================
