--------------------------- MODULE ParentRetryProofs ---------------------------
(***************************************************************************)
(* The budget of the parent-turn retry, for every number of attempts and   *)
(* every sequence of the user's acts.                                      *)
(*                                                                         *)
(* RetryBudget is not inductive.  It is kept because the attempt ordinal   *)
(* is ahead of the sends made since the last act of the user, because an   *)
(* armed send carries an ordinal ahead of one send more, and because a run *)
(* the engine started is announced until its agent_start: only the user's  *)
(* runs find the flag down and set the ordinal back to 1.                  *)
(***************************************************************************)
EXTENDS ParentRetry, TLAPS

\* The ordinal is ahead of the sends it accounts for.
OrdinalAhead == auto < retryAttempt

TimerAhead == timer # Nothing => hasUI /\ auto + 1 < timer.attempt

CountdownAhead == countdown # Nothing => ~hasUI /\ auto + 1 < countdown.attempt

\* agent_start will find the engine's own run announced.
OwnRunAnnounced ==
    run = "starting" /\ runBy = "engine" /\ ~closed => expectContinuation

IInv == /\ TypeOK /\ OrdinalAhead /\ TimerAhead /\ CountdownAhead
        /\ OwnRunAnnounced /\ CountdownIsLive

-----------------------------------------------------------------------------
LEMMA InitIInv == Init => IInv
<1> SUFFICES ASSUME Init PROVE IInv
  OBVIOUS
<1>1. TypeOK
  <2>1. timer \in Sends \cup {Nothing} /\ countdown \in Sends \cup {Nothing}
    BY DEF Init
  <2>2. /\ retryAttempt \in 1 .. MaxAttempts /\ originalPrompt \in 0 .. MaxActs
        /\ runPrompt \in 0 .. MaxActs /\ acts \in 0 .. MaxActs
        /\ settling \in 0 .. MaxSettling /\ auto \in Nat
    BY AttemptsAssumption, BoundsAssumption DEF Init
  <2> QED BY <2>1, <2>2 DEF Init, TypeOK, Surfaces, Runs, Replies
<1>2. OrdinalAhead /\ TimerAhead /\ CountdownAhead /\ OwnRunAnnounced /\ CountdownIsLive
  BY DEF Init, OrdinalAhead, TimerAhead, CountdownAhead, OwnRunAnnounced, CountdownIsLive
<1> QED BY <1>1, <1>2 DEF IInv

(* What an armed send looks like. *)
LEMMA ArmedSend ==
    ASSUME IInv, DecideSettleRetry = "schedule", originalPrompt # 0
    PROVE  /\ NextSend \in Sends /\ NextSend # Nothing
           /\ auto + 1 < NextSend.attempt
<1>1. retryAttempt \in 1 .. MaxAttempts /\ retryAttempt < MaxAttempts
  BY DEF IInv, TypeOK, DecideSettleRetry
<1>2. originalPrompt \in Prompts
  BY BoundsAssumption DEF IInv, TypeOK, Prompts
<1>3. auto \in Nat /\ auto < retryAttempt
  BY DEF IInv, TypeOK, OrdinalAhead
<1>4. retryAttempt + 1 \in 2 .. MaxAttempts
  BY <1>1, AttemptsAssumption
<1>5. NextSend.attempt = retryAttempt + 1 /\ NextSend.prompt = originalPrompt
  BY DEF NextSend
<1>6. NextSend \in Sends
  BY <1>2, <1>4 DEF NextSend, Sends
<1>7. NextSend # Nothing
  BY <1>1, <1>5 DEF Nothing
<1> QED BY <1>1, <1>3, <1>5, <1>6, <1>7, AttemptsAssumption

(* The types of what Deliver changes. *)
LEMMA DeliverType ==
    ASSUME TypeOK, NEW prompt \in 0 .. MaxActs, NEW by \in {"user", "engine"},
           Deliver(prompt, by)
    PROVE  /\ run' \in Runs /\ runBy' \in {"user", "engine"}
           /\ runPrompt' \in 0 .. MaxActs /\ reply' \in Replies
           /\ (run' = run /\ runBy' = runBy) \/ (run' = "starting" /\ runBy' = by)
  BY DEF TypeOK, Deliver, Runs, Replies

-----------------------------------------------------------------------------
LEMMA HostStep == ASSUME IInv, Host PROVE IInv'
<1> USE AttemptsAssumption, BoundsAssumption
    DEF session, IInv, OrdinalAhead, TimerAhead, CountdownAhead, OwnRunAnnounced, CountdownIsLive
<1>1. CASE AgentStart
  <2>1. CASE expectContinuation
    <3>1. /\ UNCHANGED <<retryAttempt, pendingError, originalPrompt, timer, surface>>
          /\ auto' \in {0, auto}
      BY <1>1, <2>1 DEF AgentStart, FreshUnlessExpected
    <3>2. auto' \in Nat /\ auto' <= auto
      BY <3>1 DEF TypeOK
    <3>3. TypeOK'
      BY <1>1, <3>1, <3>2 DEF AgentStart, TypeOK, headless, Runs
    <3>4. TimerAhead'
      BY <1>1, <3>1, <3>2 DEF AgentStart, TypeOK, Sends, Nothing
    <3>5. CountdownAhead'
      BY <1>1, <3>1, <3>2 DEF AgentStart, headless, TypeOK, Sends, Nothing
    <3> QED BY <1>1, <3>1, <3>2, <3>3, <3>4, <3>5 DEF AgentStart, TypeOK
  <2>2. CASE ~expectContinuation
    <3>1. runBy = "user"
      BY <1>1, <2>2 DEF AgentStart, TypeOK
    <3>2. auto' = 0 /\ retryAttempt' = 1 /\ timer' = Nothing /\ surface' = "idle"
      BY <1>1, <2>2, <3>1 DEF AgentStart, FreshUnlessExpected
    <3>3. TypeOK'
      <4>1. timer' \in Sends \cup {Nothing} /\ countdown' \in Sends \cup {Nothing}
        BY <1>1, <3>2 DEF AgentStart, TypeOK, headless
      <4>2. retryAttempt' \in 1 .. MaxAttempts /\ originalPrompt' \in 0 .. MaxActs
        BY <1>1, <2>2, <3>2 DEF AgentStart, FreshUnlessExpected
      <4>3. /\ pendingError' = FALSE /\ expectContinuation' = FALSE /\ run' = "running"
            /\ UNCHANGED <<controller, armed, headless, settling, session, runBy,
                           runPrompt, reply, acts>>
        BY <1>1, <2>2 DEF AgentStart, FreshUnlessExpected
      <4> QED BY <3>2, <4>1, <4>2, <4>3 DEF TypeOK, headless, Runs, Surfaces
    <3>4. CountdownAhead'
      BY <1>1, <3>2 DEF AgentStart, headless, TypeOK, Sends, Nothing
    <3> QED BY <1>1, <3>2, <3>3, <3>4 DEF AgentStart
  <2> QED BY <2>1, <2>2
<1>2. CASE Request
  BY <1>2 DEF Request, engine, headless, counts, TypeOK, Runs
<1>3. ASSUME NEW r \in Replies \ {"none"}, MessageEnd(r) PROVE IInv'
  BY <1>3 DEF MessageEnd, backoff, headless, counts, TypeOK, Runs
<1>4. CASE AgentEnd
  BY <1>4 DEF AgentEnd, LastVerdict, backoff, headless, counts, TypeOK, Runs
<1>5. CASE AgentSettled
  BY <1>5 DEF AgentSettled, engine, backoff, headless, counts, TypeOK, Runs
<1> QED BY <1>1, <1>2, <1>3, <1>4, <1>5 DEF Host

LEMMA SettleStep == ASSUME IInv, OnSettled PROVE IInv'
<1> USE AttemptsAssumption, BoundsAssumption
    DEF session, IInv, OrdinalAhead, TimerAhead, CountdownAhead, OwnRunAnnounced, CountdownIsLive
<1> USE DEF OnSettled, hostRun, counts
<1>1. CASE SettleNone
  BY <1>1 DEF SettleNone, TypeOK, Surfaces
<1>2. CASE SettleExhaust
  BY <1>2, EnabledAssumption DEF SettleExhaust, TypeOK, Surfaces
<1>3. CASE SettleNoPrompt
  BY <1>3 DEF SettleNoPrompt, TypeOK
<1>4. CASE SettleArm
  <2>1. /\ NextSend \in Sends /\ NextSend # Nothing
        /\ auto + 1 < NextSend.attempt
    BY <1>4, ArmedSend DEF SettleArm
  <2>2. /\ timer' = NextSend /\ hasUI /\ surface' = "backoff"
        /\ expectContinuation' = (expectContinuation \/ controller)
        /\ controller' = TRUE /\ UNCHANGED <<countdown, exit75>>
    BY <1>4 DEF SettleArm
  <2>3. TypeOK'
    BY <2>1, <2>2 DEF TypeOK, Surfaces
  <2> QED BY <2>1, <2>2, <2>3 DEF TypeOK
<1>5. CASE SettleCountdown
  <2>1. /\ NextSend \in Sends /\ NextSend # Nothing
        /\ auto + 1 < NextSend.attempt
    BY <1>5, ArmedSend DEF SettleCountdown
  <2>2. /\ countdown' = NextSend /\ ~hasUI
        /\ UNCHANGED <<expectContinuation, timer, controller, surface, exit75>>
    BY <1>5 DEF SettleCountdown
  <2>3. TypeOK'
    BY <2>1, <2>2 DEF TypeOK
  <2> QED BY <2>1, <2>2, <2>3
<1> QED BY <1>1, <1>2, <1>3, <1>4, <1>5

LEMMA SendStep == ASSUME IInv, Fire \/ CountdownEnds PROVE IInv'
<1> USE AttemptsAssumption, BoundsAssumption
    DEF session, IInv, OrdinalAhead, TimerAhead, CountdownAhead, OwnRunAnnounced, CountdownIsLive
<1>1. CASE Fire
  <2>1. /\ timer \in Sends /\ timer # Nothing /\ hasUI /\ auto + 1 < timer.attempt
        /\ countdown = Nothing
    BY <1>1 DEF Fire, TypeOK
  <2>2. timer.attempt \in 1 .. MaxAttempts /\ timer.prompt \in 0 .. MaxActs
    BY <2>1 DEF Sends, Prompts
  <2>3. /\ retryAttempt' = timer.attempt /\ expectContinuation' /\ armed' = TRUE
        /\ auto' = auto + 1 /\ Deliver(timer.prompt, "engine")
    BY <1>1 DEF Fire, SendAgain
  <2>4. TypeOK'
    BY <1>1, <2>2, <2>3, DeliverType DEF Fire, SendAgain, TypeOK, Surfaces, headless
  <2> QED BY <1>1, <2>1, <2>2, <2>3, <2>4 DEF Fire, headless
<1>2. CASE CountdownEnds
  <2>1. /\ countdown \in Sends /\ countdown # Nothing /\ ~hasUI
        /\ auto + 1 < countdown.attempt /\ timer = Nothing
    BY <1>2 DEF CountdownEnds, TypeOK
  <2>2. countdown.attempt \in 1 .. MaxAttempts /\ countdown.prompt \in 0 .. MaxActs
    BY <2>1 DEF Sends, Prompts
  <2>3. /\ retryAttempt' = countdown.attempt /\ expectContinuation' /\ armed' = TRUE
        /\ auto' = auto + 1 /\ Deliver(countdown.prompt, "engine")
    BY <1>2 DEF CountdownEnds, SendAgain
  <2>4. TypeOK'
    BY <1>2, <2>2, <2>3, DeliverType DEF CountdownEnds, SendAgain, TypeOK
  <2> QED BY <1>2, <2>1, <2>2, <2>3, <2>4 DEF CountdownEnds
<1> QED BY <1>1, <1>2

LEMMA UserStep == ASSUME IInv, User PROVE IInv'
<1> USE AttemptsAssumption, BoundsAssumption
    DEF session, IInv, OrdinalAhead, TimerAhead, CountdownAhead, OwnRunAnnounced, CountdownIsLive
<1>1. CASE UserPrompt
  <2>1. acts + 1 \in 0 .. MaxActs
    BY <1>1 DEF UserPrompt, Act, TypeOK
  <2>2. Deliver(acts + 1, "user") /\ acts' = acts + 1
        /\ UNCHANGED <<engine, backoff, headless, settling, session, auto>>
    BY <1>1 DEF UserPrompt, Act
  <2>3. TypeOK'
    BY <2>1, <2>2, DeliverType DEF TypeOK, engine, backoff, headless
  <2>4. OwnRunAnnounced'
    BY <2>1, <2>2, DeliverType DEF engine
  <2> QED BY <2>2, <2>3, <2>4 DEF engine, backoff, headless
<1>2. CASE EscOnBackoff
  <2>1. timer' \in Sends \cup {Nothing} /\ countdown' \in Sends \cup {Nothing}
    BY <1>2 DEF EscOnBackoff, TypeOK, headless
  <2>2. /\ surface' = "exhausted" /\ timer' = Nothing /\ armed' = FALSE
        /\ acts < MaxActs /\ acts' = acts + 1
        /\ UNCHANGED <<engine, controller, headless, settling, session, hostRun, auto>>
    BY <1>2 DEF EscOnBackoff, Act
  <2>3. acts' \in 0 .. MaxActs
    BY <2>2 DEF TypeOK
  <2>4. TypeOK'
    BY <2>1, <2>2, <2>3 DEF engine, headless, hostRun, TypeOK, Surfaces
  <2>5. TimerAhead' /\ CountdownIsLive'
    BY <2>2
  <2> QED BY <2>2, <2>4, <2>5 DEF engine, headless, hostRun
<1>3. CASE TypedOnBackoff
  <2>1. acts + 1 \in 0 .. MaxActs
    BY <1>3 DEF TypedOnBackoff, Act, TypeOK
  <2>2. /\ Deliver(acts + 1, "user") /\ acts' = acts + 1
        /\ surface' = "idle" /\ timer' = Nothing /\ armed' = FALSE
        /\ UNCHANGED <<engine, controller, headless, settling, session, auto>>
    BY <1>3 DEF TypedOnBackoff, Act
  <2>3. TypeOK'
    BY <2>1, <2>2, DeliverType DEF TypeOK, engine, headless, Surfaces
  <2>4. OwnRunAnnounced'
    BY <2>1, <2>2, DeliverType DEF engine
  <2> QED BY <2>2, <2>3, <2>4 DEF engine, headless
<1>4. CASE EnterOnExhausted
  <2>1. /\ surface' = "idle" /\ retryAttempt' = 1 /\ expectContinuation' = TRUE
        /\ armed' = TRUE /\ auto' = 0 /\ acts' = acts + 1 /\ acts < MaxActs
        /\ UNCHANGED <<pendingError, originalPrompt, timer, controller, headless,
                       settling, session>>
    BY <1>4 DEF EnterOnExhausted, Act, Rearm
  <2>2. /\ run' \in Runs /\ runBy' \in {"user", "engine"}
        /\ runPrompt' \in 0 .. MaxActs /\ reply' \in Replies
    <3>1. CASE originalPrompt # 0
      BY <1>4, <3>1, DeliverType DEF EnterOnExhausted, TypeOK
    <3>2. CASE originalPrompt = 0
      BY <1>4, <3>2 DEF EnterOnExhausted, hostRun, TypeOK
    <3> QED BY <3>1, <3>2
  <2>3. TypeOK'
    BY <2>1, <2>2 DEF TypeOK, Surfaces, headless
  <2>4. TimerAhead' /\ CountdownAhead'
    BY <2>1 DEF headless, TypeOK, Sends, Nothing
  <2> QED BY <2>1, <2>3, <2>4
<1>5. CASE SessionShutdown
  <2>1. timer' \in Sends \cup {Nothing} /\ countdown' \in Sends \cup {Nothing}
    BY <1>5 DEF SessionShutdown, TypeOK, headless
  <2>2. /\ closed' = TRUE /\ timer' = Nothing /\ armed' = FALSE
        /\ expectContinuation' = FALSE /\ pendingError' = FALSE
        /\ originalPrompt' = 0 /\ surface' = "idle"
        /\ UNCHANGED <<hasUI, retryAttempt, controller, headless, settling, hostRun, counts>>
    BY <1>5 DEF SessionShutdown
  <2>3. TypeOK'
    <3>1. originalPrompt' \in 0 .. MaxActs /\ surface' \in Surfaces
      BY <2>2 DEF Surfaces
    <3>2. /\ pendingError' \in BOOLEAN /\ expectContinuation' \in BOOLEAN
          /\ armed' \in BOOLEAN /\ closed' \in BOOLEAN
      BY <2>2
    <3> QED BY <2>1, <2>2, <3>1, <3>2 DEF headless, hostRun, counts, TypeOK
  <2> QED BY <2>2, <2>3 DEF headless, hostRun, counts
<1> QED BY <1>1, <1>2, <1>3, <1>4, <1>5 DEF User

LEMMA NextStep == ASSUME IInv, [Next]_vars PROVE IInv'
<1>1. CASE Next
  BY <1>1, HostStep, SettleStep, SendStep, UserStep DEF Next, Engine
<1>2. CASE UNCHANGED vars
  BY <1>2 DEF vars, engine, backoff, headless, session, hostRun, counts, IInv, TypeOK, OrdinalAhead,
     TimerAhead, CountdownAhead, OwnRunAnnounced, CountdownIsLive
<1> QED BY <1>1, <1>2

LEMMA Invariance == Spec => []IInv
  BY InitIInv, NextStep, PTL DEF Spec

-----------------------------------------------------------------------------
(* Every variable of registerParentTurnRetry keeps its type, for every     *)
(* budget and in both modes; in particular no ordinal exceeds maxAttempts. *)
THEOREM TypeCorrect == Spec => []TypeOK
<1>1. IInv => TypeOK
  BY DEF IInv
<1> QED BY <1>1, Invariance, PTL

(* Between two acts of the user the engine sends at most MaxAttempts - 1   *)
(* prompts, whatever the host and the user do.                             *)
THEOREM BudgetKept == Spec => []RetryBudget
<1>1. IInv => RetryBudget
  BY AttemptsAssumption DEF IInv, TypeOK, OrdinalAhead, RetryBudget
<1> QED BY <1>1, Invariance, PTL

(* A countdown on the screen has an armed timer behind it.                 *)
THEOREM CountdownLive == Spec => []CountdownIsLive
<1>1. IInv => CountdownIsLive
  BY DEF IInv
<1> QED BY <1>1, Invariance, PTL

-----------------------------------------------------------------------------
(* With a terminal and a budget of more than one attempt there is a prompt *)
(* to send again whenever a retry is armed, shown or under way.  A run has *)
(* a prompt from the start, and a closed session shows nothing.            *)
PromptKept ==
    MaxAttempts > 1 /\ hasUI /\ ~closed
        /\ (retryAttempt > 1 \/ timer # Nothing \/ surface # "idle") => originalPrompt # 0

RunHasPrompt == run # "idle" => runPrompt # 0

ClosedIsQuiet == closed => surface = "idle" /\ ~pendingError /\ timer = Nothing

ShownToTheUser == surface # "idle" => hasUI

OfferInv == PromptKept /\ RunHasPrompt /\ ClosedIsQuiet /\ ShownToTheUser

LEMMA DeliverPrompt ==
    ASSUME RunHasPrompt, NEW prompt \in Nat \ {0}, NEW by, Deliver(prompt, by)
    PROVE  RunHasPrompt'
BY DEF RunHasPrompt, Deliver

LEMMA OfferStep == ASSUME IInv, OfferInv, [Next]_vars PROVE OfferInv'
<1> USE AttemptsAssumption, BoundsAssumption
    DEF session, OfferInv, PromptKept, RunHasPrompt, ClosedIsQuiet, ShownToTheUser
<1>1. CASE AgentStart
  BY <1>1 DEF AgentStart, FreshUnlessExpected
<1>2. CASE Request \/ AgentSettled \/ \E r \in Replies \ {"none"} : MessageEnd(r)
  BY <1>2 DEF Request, AgentSettled, MessageEnd, engine, backoff
<1>3. CASE AgentEnd
  BY <1>3 DEF AgentEnd, backoff
<1>4. CASE OnSettled
  <2>1. /\ UNCHANGED <<retryAttempt, pendingError, originalPrompt, hasUI, closed, run, runPrompt>>
    BY <1>4 DEF OnSettled, hostRun
  <2>2. CASE SettleNone
    BY <2>1, <2>2 DEF SettleNone
  <2>3. CASE SettleExhaust
    <3>1. /\ retryAttempt >= MaxAttempts /\ pendingError /\ UNCHANGED timer
          /\ surface' # "idle" => (hasUI \/ surface # "idle")
      BY <2>3 DEF SettleExhaust, DecideSettleRetry, IInv, TypeOK
    <3> QED BY <2>1, <3>1 DEF IInv, TypeOK
  <2>4. CASE SettleNoPrompt
    BY <2>1, <2>4 DEF SettleNoPrompt
  <2>5. CASE SettleArm
    BY <2>1, <2>5 DEF SettleArm, DecideSettleRetry
  <2>6. CASE SettleCountdown
    BY <2>1, <2>6 DEF SettleCountdown
  <2> QED BY <1>4, <2>2, <2>3, <2>4, <2>5, <2>6 DEF OnSettled
<1>5. CASE Fire
  <2>1. timer.prompt \in Nat \ {0} /\ timer # Nothing
    BY <1>5 DEF Fire, IInv, TypeOK, Sends, Prompts
  <2>2. RunHasPrompt'
    BY <1>5, <2>1, DeliverPrompt DEF Fire, SendAgain
  <2> QED BY <1>5, <2>1, <2>2 DEF Fire
<1>6. CASE CountdownEnds
  <2>1. countdown.prompt \in Nat \ {0} /\ ~hasUI
    BY <1>6 DEF CountdownEnds, IInv, TypeOK, CountdownAhead, Sends, Prompts
  <2>2. RunHasPrompt'
    BY <1>6, <2>1, DeliverPrompt DEF CountdownEnds, SendAgain
  <2> QED BY <1>6, <2>1, <2>2 DEF CountdownEnds
<1>7. CASE UserPrompt \/ TypedOnBackoff
  <2>1. acts + 1 \in Nat \ {0} /\ Deliver(acts + 1, "user")
    BY <1>7 DEF UserPrompt, TypedOnBackoff, Act, IInv, TypeOK
  <2>2. RunHasPrompt'
    BY <2>1, DeliverPrompt
  <2> QED BY <1>7, <2>2 DEF UserPrompt, TypedOnBackoff, engine, backoff
<1>8. CASE EscOnBackoff
  BY <1>8 DEF EscOnBackoff, Act, engine, hostRun
<1>9. CASE EnterOnExhausted
  <2>1. /\ surface = "exhausted" /\ surface' = "idle" /\ ~closed
        /\ UNCHANGED <<pendingError, originalPrompt, timer, hasUI, closed>>
    BY <1>9 DEF EnterOnExhausted, Act
  <2>2. RunHasPrompt'
    <3>1. CASE originalPrompt # 0
      <4>1. originalPrompt \in Nat \ {0} /\ Deliver(originalPrompt, "engine")
        BY <1>9, <3>1 DEF EnterOnExhausted, IInv, TypeOK
      <4> QED BY <4>1, DeliverPrompt
    <3>2. CASE originalPrompt = 0
      BY <1>9, <3>2 DEF EnterOnExhausted, hostRun
    <3> QED BY <3>1, <3>2
  <2> QED BY <2>1, <2>2
<1>10. CASE SessionShutdown
  BY <1>10 DEF SessionShutdown, hostRun
<1>11. CASE UNCHANGED vars
  BY <1>11 DEF vars, engine, backoff, hostRun
<1> QED BY <1>1, <1>2, <1>3, <1>4, <1>5, <1>6, <1>7, <1>8, <1>9, <1>10, <1>11
        DEF Next, Host, Engine, User

(* "Press Enter to try again" has a prompt to send again, for every budget *)
(* of more than one attempt (enterOnExhausted, onRearm).                   *)
THEOREM OfferHasPrompt == Spec => [](MaxAttempts > 1 => EnterHasPrompt)
<1>1. Init => OfferInv
  BY DEF Init, OfferInv, PromptKept, RunHasPrompt, ClosedIsQuiet, ShownToTheUser
<1>2. IInv /\ OfferInv => (MaxAttempts > 1 => EnterHasPrompt)
  BY DEF IInv, OfferInv, PromptKept, ClosedIsQuiet, ShownToTheUser, EnterHasPrompt, TypeOK
<1> QED BY <1>1, <1>2, Invariance, OfferStep, PTL DEF Spec
=============================================================================
