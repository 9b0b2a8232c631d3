------------------------------ MODULE GateProofs ------------------------------
(***************************************************************************)
(* The gate's ledger for any number of sessions, calls and faults, and for *)
(* every decision function that deliberates when nothing is answered.      *)
(*                                                                         *)
(* Two facts carry the proofs.  A step of a session leaves its call        *)
(* finished or replaced by one with a fresh number (Turns), and adds to    *)
(* the ledger at most one line, of the call that was in flight (Outcomes). *)
(***************************************************************************)
EXTENDS Gate, SequenceTheorems, TLAPS

CONSTANT QuestionOrder   \* the order in which answers are visited

\* What a call in flight is about fits its kind.
Fits(c) ==
    /\ c \in Call
    /\ c.kind = "followup" => c.hash \in Drafts
    /\ c.kind # "followup" => c.hash \in Hashes
    /\ c.kind = "recheck" => c.recorded \in Modes /\ c.left = 0

CallsFit == \A s \in Sessions : call[s] # None => Fits(call[s])

\* The calls' numbers are those given so far, each to one session.
Numbered ==
    /\ \A i \in DOMAIN file.lines : file.lines[i].id <= made
    /\ \A s \in Sessions : call[s] # None => call[s].id <= made
    /\ \A s, t \in Sessions :
           call[s] # None /\ call[t] # None /\ call[s].id = call[t].id => s = t

\* A line's answers came from the service, or are none.
Earned(line, answered) ==
    line.hash \in Hashes =>
        \/ line.answers = NoAnswers
        \/ line.answers \in Replies /\ <<line.hash, line.answers>> \in answered

LinesEarned == \A i \in DOMAIN file.lines : Earned(file.lines[i], heard)

IInv == TypeOK /\ CallsFit /\ Numbered /\ LinesEarned /\ OneLinePerCall /\ RatchetHolds

\* What a session's step does to its call, and to the ledger.
Turns(s) ==
    \/ made' = made /\ call' = [call EXCEPT ![s] = None]
    \/ /\ made < MaxCalls /\ made' = made + 1
       /\ \E c \in Call : /\ Fits(c) /\ c.id = made'
                          /\ call' = [call EXCEPT ![s] = c]

Outcomes(c, answered) ==
    {line \in Line : line.id = c.id /\ line.hash = c.hash /\ Earned(line, answered)}

Adds(s) ==
    /\ file' \in [lines : Seq(Line), torn : BOOLEAN]
    /\ \/ file'.lines = file.lines
       \/ /\ call[s] # None
          /\ \E line \in Outcomes(call[s], heard') :
                 file'.lines = Append(file.lines, line)

\* The decision functions of gate.ts, for any order of the questions.
Decisions == INSTANCE GateDecide

-----------------------------------------------------------------------------
(* The operators.                                                          *)

(* decideFollowup files a draft with an unanswered weighted question,      *)
(* whatever its other answers say and the policy's overrides and           *)
(* thresholds are.                                                         *)
LEMMA SilentDraftIsFiled ==
    ASSUME NEW answers, NEW policy, NEW q \in DOMAIN policy.weights,
           ~Decisions!Answered(answers, q)
    PROVE  Decisions!FollowupDisposition(answers, policy) = "File"
<1>1. {p \in DOMAIN policy.weights : ~Decisions!Answered(answers, p)} # {}
  OBVIOUS
<1> QED BY <1>1 DEF Decisions!FollowupDisposition

(* With no answer at all decide deliberates, for every policy the loader of    *)
(* decision.json admits (verify above 0 and not above direct): what            *)
(* SilenceAssumption asks of a decision function holds of the code's.          *)
THEOREM SilenceDeliberates ==
    ASSUME NEW answers, NEW policy, \A q : ~Decisions!Answered(answers, q),
           policy.verify \in Nat \ {0}, policy.direct \in Nat, policy.verify <= policy.direct
    PROVE  Decisions!DecideMode(answers, policy) = "Deliberate"
<1>1. Decisions!Hits(answers, policy) = {}
  BY DEF Decisions!Hits
<1>2. Decisions!Unsure(answers, policy, QuestionOrder) = {}
  BY DEF Decisions!Unsure
<1>3. ~Decisions!SumThrows(answers, policy, policy.mechanical)
  BY DEF Decisions!SumThrows
<1>4. Decisions!Composite(answers, policy, policy.mechanical) = 0
  BY DEF Decisions!Composite, Decisions!MapThenSumSet, Decisions!MapThenFoldSet
<1> QED BY <1>1, <1>2, <1>3, <1>4 DEF Decisions!DecideMode

(* decide names a mode or throws, whatever is answered and configured.     *)
LEMMA DecideNames ==
    ASSUME NEW answers, NEW policy
    PROVE  Decisions!DecideMode(answers, policy) \in Modes \cup {Throws}
BY DEF Decisions!DecideMode, Modes

\* What the answers say when decide names a mode below deliberation.
RulesSilent(answers, policy) ==
    \A i \in DOMAIN policy.overrides :
        LET rule == policy.overrides[i]
        IN  Decisions!Answered(answers, rule.question) =>
                ~Decisions!OverrideFires(answers[rule.question], rule.option, policy)

AboveFloors(answers, policy) ==
    \A i \in DOMAIN QuestionOrder :
        Decisions!Answered(answers, QuestionOrder[i]) =>
            ~Decisions!BelowFloor(answers[QuestionOrder[i]], policy)

Weighty(answers, policy, mode) ==
    LET composite == Decisions!Composite(answers, policy, policy.mechanical)
    IN  composite >= IF mode = "Direct" THEN policy.direct ELSE policy.verify

(* decide names Verify or Direct only on answers that fire no override, are *)
(* each above its floor, and weigh as much as the mode's threshold.        *)
LEMMA ReducedSays ==
    ASSUME NEW answers, NEW policy,
           Decisions!DecideMode(answers, policy) \notin {"Deliberate", Throws}
    PROVE  /\ RulesSilent(answers, policy) /\ AboveFloors(answers, policy)
           /\ Weighty(answers, policy, Decisions!DecideMode(answers, policy))
<1>1. /\ Decisions!Hits(answers, policy) = {}
      /\ Decisions!Unsure(answers, policy, QuestionOrder) = {}
  BY DEF Decisions!DecideMode
<1>2. RulesSilent(answers, policy)
  BY <1>1 DEF RulesSilent, Decisions!Hits
<1>3. AboveFloors(answers, policy)
  BY <1>1 DEF AboveFloors, Decisions!Unsure
<1>4. Weighty(answers, policy, Decisions!DecideMode(answers, policy))
  BY <1>1 DEF Decisions!DecideMode, Weighty
<1> QED BY <1>2, <1>3, <1>4

(* A non-empty set of modes has a strongest one.                           *)
LEMMA StrongestIs ==
    ASSUME NEW S, S \subseteq Modes, S # {}
    PROVE  Strongest(S) \in S /\ \A n \in S : AtLeast(Strongest(S), n)
<1>1. \E m \in S : \A n \in S : AtLeast(m, n)
  <2>1. CASE "Deliberate" \in S
    BY <2>1 DEF AtLeast, Rank, Modes
  <2>2. CASE "Deliberate" \notin S /\ "Verify" \in S
    BY <2>2 DEF AtLeast, Rank, Modes
  <2>3. CASE "Deliberate" \notin S /\ "Verify" \notin S
    <3>1. S = {"Direct"}
      BY <2>3 DEF Modes
    <3> QED BY <3>1 DEF AtLeast, Rank
  <2> QED BY <2>1, <2>2, <2>3
<1> QED BY <1>1 DEF Strongest

(* Appending to the file keeps its lines and adds the line or nothing.     *)
LEMMA AppendedIs ==
    ASSUME NEW f \in [lines : Seq(Line), torn : BOOLEAN], NEW line \in Line
    PROVE  /\ Appended(f, line) \in [lines : Seq(Line), torn : BOOLEAN]
           /\ \/ Appended(f, line).lines = f.lines
              \/ Appended(f, line).lines = Append(f.lines, line)
<1>1. CASE f.torn
  BY <1>1 DEF Appended
<1>2. CASE ~f.torn
  BY <1>2 DEF Appended
<1> QED BY <1>1, <1>2

LEMMA DamagedIs ==
    ASSUME TypeOK, NEW f \in Damaged
    PROVE  f \in [lines : Seq(Line), torn : BOOLEAN] /\ f.lines = file.lines
BY DEF Damaged, TypeOK

(* The line of a failed call is one of its outcomes.                       *)
LEMMA FailedLineIs ==
    ASSUME NEW c, Fits(c), NEW answered
    PROVE  FailedLine(c) \in Outcomes(c, answered)
<1>1. c.tuning \in Tunings /\ c.id \in Nat /\ c.hash \in Hashes \cup Drafts
  BY DEF Fits, Call
<1>2. FailedLine(c) \in Line
  <2>1. CASE c.kind = "followup"
    BY <1>1, <2>1 DEF FailedLine, LineOf, SafeMode, Line, Modes, Dispositions
  <2>2. CASE c.kind # "followup"
    BY <1>1, <2>2 DEF FailedLine, LineOf, SafeMode, Line, Modes, Dispositions
  <2> QED BY <2>1, <2>2
<1>3. Earned(FailedLine(c), answered)
  BY HashesAssumption DEF Earned, FailedLine, LineOf, Fits
<1> QED BY <1>2, <1>3 DEF Outcomes, FailedLine, LineOf

(* So is the line of a verdict.                                            *)
LEMMA VerdictLineIs ==
    ASSUME NEW c, Fits(c), NEW reply \in RepliesTo(c), Verdict(c, reply) # Throws,
           NEW answered, <<c.hash, reply>> \in answered
    PROVE  LineOf(c, reply, Verdict(c, reply), FALSE) \in Outcomes(c, answered)
<1> DEFINE line == LineOf(c, reply, Verdict(c, reply), FALSE)
<1>1. c.tuning \in Tunings /\ c.id \in Nat /\ c.hash \in Hashes \cup Drafts
  BY DEF Fits, Call
<1>2. CASE c.kind = "followup"
  <2>1. reply \in DraftReplies /\ Verdict(c, reply) \in Dispositions
    BY <1>2, DecideAssumption DEF RepliesTo, Verdict
  <2>2. line \in Line
    BY <1>1, <1>2, <2>1 DEF LineOf, Line
  <2>3. c.hash \notin Hashes
    BY <1>2, HashesAssumption DEF Fits
  <2> QED BY <2>2, <2>3 DEF Outcomes, Earned, LineOf
<1>3. CASE c.kind # "followup"
  <2>1. reply \in Replies /\ Verdict(c, reply) \in Modes
    BY <1>1, <1>3, DecideAssumption DEF RepliesTo, Verdict
  <2>2. line \in Line
    BY <1>1, <1>3, <2>1 DEF LineOf, Line
  <2> QED BY <2>1, <2>2 DEF Outcomes, Earned, LineOf
<1> QED BY <1>2, <1>3

-----------------------------------------------------------------------------
(* The parts of a session's step.                                          *)

LEMMA PostTurns ==
    ASSUME TypeOK, NEW s \in Sessions,
           NEW kind \in {"gate", "recheck", "followup"}, NEW hash \in Hashes \cup Drafts,
           NEW t \in Tunings, NEW recorded \in Modes \cup {None}, NEW left \in Nat,
           kind = "followup" => hash \in Drafts, kind # "followup" => hash \in Hashes,
           kind = "recheck" => recorded \in Modes /\ left = 0,
           Post(s, kind, hash, t, recorded, left)
    PROVE  Turns(s)
<1>1. PICK c : c = [kind |-> kind, id |-> made', hash |-> hash,
                    tuning |-> t, recorded |-> recorded, left |-> left]
  OBVIOUS
<1>2. made < MaxCalls /\ made' = made + 1 /\ made' \in Nat
  BY BoundsAssumption DEF Post, TypeOK
<1>3. c \in Call
  BY <1>1, <1>2 DEF Call
<1>4. Fits(c) /\ c.id = made'
  BY <1>1, <1>3 DEF Fits
<1>5. call' = [call EXCEPT ![s] = c]
  BY <1>1 DEF Post
<1> QED BY <1>2, <1>3, <1>4, <1>5 DEF Turns

LEMMA ProceedTurns ==
    ASSUME TypeOK, CallsFit, NEW s \in Sessions, call[s] # None, Proceed(s)
    PROVE  Turns(s)
<1>1. Fits(call[s]) /\ call[s] \in Call
  BY DEF CallsFit, Fits
<1>2. /\ call[s].kind \in {"gate", "recheck", "followup"}
      /\ call[s].tuning \in Tunings /\ call[s].left \in Nat
  BY <1>1 DEF Call
<1>3. CASE call[s].left > 0 /\ call[s].kind # "recheck"
             /\ \E h \in IF call[s].kind = "followup" THEN Drafts ELSE Hashes :
                    Post(s, call[s].kind, h, call[s].tuning, None, call[s].left - 1)
  <2>1. PICK h \in IF call[s].kind = "followup" THEN Drafts ELSE Hashes :
                 Post(s, call[s].kind, h, call[s].tuning, None, call[s].left - 1)
    BY <1>3
  <2>2. call[s].left - 1 \in Nat
    BY <1>2, <1>3
  <2>3. h \in Hashes \cup Drafts
    BY <2>1
  <2> QED BY <1>2, <1>3, <2>1, <2>2, <2>3, PostTurns
<1>4. CASE made' = made /\ call' = [call EXCEPT ![s] = None]
  BY <1>4 DEF Turns
<1> QED BY <1>1, <1>3, <1>4 DEF Proceed, Fits

(* A re-check hands back the stronger of its two modes.                    *)
LEMMA TellHolds ==
    ASSUME TypeOK, CallsFit, RatchetHolds, NEW s \in Sessions, call[s] # None,
           NEW mode, NEW usable \in BOOLEAN,
           call[s].kind = "recheck" => mode \in Modes,
           call[s].kind = "recheck" /\ ~usable => mode = "Deliberate",
           Tell(s, mode, usable)
    PROVE  told' \in [Sessions -> Told \cup {None}] /\ RatchetHolds'
<1>1. CASE call[s].kind # "recheck"
  <2>1. told' = told
    BY <1>1 DEF Tell
  <2> QED BY <2>1 DEF TypeOK, RatchetHolds
<1>2. CASE call[s].kind = "recheck"
  <2>1. call[s].recorded \in Modes /\ mode \in Modes
    BY <1>2 DEF CallsFit, Fits
  <2>2. PICK e : e = Strongest({call[s].recorded, mode})
    OBVIOUS
  <2>3. e \in Modes /\ AtLeast(e, call[s].recorded) /\ AtLeast(e, mode)
    BY <2>1, <2>2, StrongestIs
  <2>4. told' = [told EXCEPT ![s] = [recorded |-> call[s].recorded, effective |-> e,
                                     usable |-> usable]]
    BY <1>2, <2>2 DEF Tell
  <2>5. ~usable => e = "Deliberate"
    BY <1>2, <2>3 DEF AtLeast, Rank, Modes
  <2>6. told' \in [Sessions -> Told \cup {None}]
    BY <2>1, <2>3, <2>4 DEF TypeOK, Told
  <2>7. ASSUME NEW u \in Sessions, told'[u] # None
        PROVE  /\ AtLeast(told'[u].effective, told'[u].recorded)
               /\ ~told'[u].usable => told'[u].effective = "Deliberate"
    <3>1. CASE u = s
      BY <2>3, <2>4, <2>5, <3>1 DEF TypeOK
    <3>2. CASE u # s
      <4>1. told'[u] = told[u]
        BY <2>4, <3>2 DEF TypeOK
      <4> QED BY <2>7, <4>1 DEF RatchetHolds
    <3> QED BY <3>1, <3>2
  <2> QED BY <2>6, <2>7 DEF RatchetHolds
<1> QED BY <1>1, <1>2

(* The file after an append of one of the call's outcomes, or none.        *)
LEMMA LineAdds ==
    ASSUME TypeOK, NEW s \in Sessions, call[s] # None,
           NEW f \in [lines : Seq(Line), torn : BOOLEAN], f.lines = file.lines,
           NEW line \in Outcomes(call[s], heard'),
           file' = f \/ file' = Appended(f, line)
    PROVE  Adds(s)
<1>1. line \in Line
  BY DEF Outcomes
<1>2. CASE file' = f
  BY <1>2 DEF Adds
<1>3. CASE file' = Appended(f, line)
  <2>1. file' \in [lines : Seq(Line), torn : BOOLEAN]
    BY <1>1, <1>3, AppendedIs
  <2>2. file'.lines = file.lines \/ file'.lines = Append(file.lines, line)
    BY <1>1, <1>3, AppendedIs
  <2> QED BY <2>1, <2>2 DEF Adds
<1> QED BY <1>2, <1>3

\* A step of a session as the invariant sees it.
Sound(s) ==
    /\ Turns(s) /\ Adds(s) /\ UNCHANGED settings
    /\ heard \subseteq heard'
    /\ heard' \subseteq (Hashes \cup Drafts) \X (Replies \cup DraftReplies)
    /\ told' \in [Sessions -> Told \cup {None}] /\ RatchetHolds'
    /\ faults' \in 0 .. MaxFaults

LEMMA AnswerSound ==
    ASSUME IInv, NEW s \in Sessions, Answer(s) \/ Fail(s)
    PROVE  Sound(s)
<1> DEFINE c == call[s]
<1>1. /\ c # None /\ Fits(c) /\ c \in Call /\ Proceed(s) /\ UNCHANGED settings
      /\ TypeOK /\ CallsFit /\ RatchetHolds
  BY DEF Answer, Fail, IInv, CallsFit, Fits
<1>2. Turns(s)
  BY <1>1, ProceedTurns
<1>3. /\ c.hash \in Hashes \cup Drafts /\ c.tuning \in Tunings
      /\ RepliesTo(c) \subseteq Replies \cup DraftReplies
  BY <1>1 DEF Call, RepliesTo
<1>4. /\ heard \subseteq heard'
      /\ heard' \subseteq (Hashes \cup Drafts) \X (Replies \cup DraftReplies)
  <2>1. CASE Fail(s)
    BY <1>1, <2>1 DEF Fail, TypeOK
  <2>2. CASE Answer(s)
    <3>1. PICK reply \in RepliesTo(c) : heard' = heard \cup {<<c.hash, reply>>}
      BY <2>2 DEF Answer
    <3> QED BY <1>1, <1>3, <3>1 DEF TypeOK
  <2> QED BY <2>1, <2>2
<1>5. FailedLine(c) \in Outcomes(c, heard')
  BY <1>1, FailedLineIs
<1>6. /\ file \in [lines : Seq(Line), torn : BOOLEAN]
      /\ SafeMode(c) \in Modes \cup Dispositions
      /\ c.kind = "recheck" => SafeMode(c) = "Deliberate" /\ SafeMode(c) \in Modes
      /\ faults \in 0 .. MaxFaults
  BY <1>1 DEF TypeOK, SafeMode, Modes, Dispositions
<1>7. CASE RecordNothing(s)
  <2>1. Adds(s)
    BY <1>1, <1>5, <1>7, DamagedIs, LineAdds DEF RecordNothing
  <2>2. told' \in [Sessions -> Told \cup {None}] /\ RatchetHolds'
    BY <1>1, <1>6, <1>7, TellHolds DEF RecordNothing
  <2>3. faults' \in 0 .. MaxFaults
    BY <1>6, <1>7, BoundsAssumption DEF RecordNothing
  <2> QED BY <1>1, <1>2, <1>4, <2>1, <2>2, <2>3 DEF Sound
<1>8. CASE file' = Appended(file, FailedLine(c)) /\ Tell(s, SafeMode(c), FALSE) /\ UNCHANGED faults
  <2>1. Adds(s)
    BY <1>1, <1>5, <1>6, <1>8, LineAdds
  <2>2. told' \in [Sessions -> Told \cup {None}] /\ RatchetHolds'
    BY <1>1, <1>6, <1>8, TellHolds
  <2> QED BY <1>1, <1>2, <1>4, <1>6, <1>8, <2>1, <2>2 DEF Sound
<1>9. ASSUME NEW reply \in RepliesTo(c), heard' = heard \cup {<<c.hash, reply>>},
             Record(s, reply) \/ RecordAgain(s, reply)
      PROVE  Sound(s)
  <2>1. Verdict(c, reply) # Throws
    BY <1>9 DEF Record, RecordAgain
  <2>2. c.kind = "recheck" => Verdict(c, reply) \in Modes
    BY <1>3, <1>9, <2>1, DecideAssumption DEF Verdict, RepliesTo
  <2>3. CASE Record(s, reply)
    <3>1. LineOf(c, reply, Verdict(c, reply), FALSE) \in Outcomes(c, heard')
      BY <1>1, <1>9, <2>1, VerdictLineIs
    <3>2. Adds(s)
      BY <1>1, <1>6, <2>3, <3>1, LineAdds DEF Record
    <3>3. told' \in [Sessions -> Told \cup {None}] /\ RatchetHolds'
      BY <1>1, <2>2, <2>3, TellHolds DEF Record
    <3> QED BY <1>1, <1>2, <1>4, <1>6, <2>3, <3>2, <3>3 DEF Sound, Record
  <2>4. CASE RecordAgain(s, reply)
    <3>1. PICK f \in Damaged : file' = Appended(f, FailedLine(c))
      BY <2>4 DEF RecordAgain
    <3>2. f \in [lines : Seq(Line), torn : BOOLEAN] /\ f.lines = file.lines
      BY <1>1, DamagedIs
    <3>3. Adds(s)
      BY <1>1, <1>5, <3>1, <3>2, LineAdds
    <3>4. told' \in [Sessions -> Told \cup {None}] /\ RatchetHolds'
      BY <1>1, <1>6, <2>4, TellHolds DEF RecordAgain
    <3>5. faults' \in 0 .. MaxFaults
      BY <1>6, <2>4, BoundsAssumption DEF RecordAgain
    <3> QED BY <1>1, <1>2, <1>4, <3>3, <3>4, <3>5 DEF Sound
  <2> QED BY <1>9, <2>3, <2>4
<1>10. CASE Fail(s)
  BY <1>7, <1>8, <1>10 DEF Fail
<1>11. CASE Answer(s)
  <2>1. PICK reply \in RepliesTo(c) :
            /\ heard' = heard \cup {<<c.hash, reply>>}
            /\ \/ Record(s, reply)
               \/ RecordUnusable(s, reply)
               \/ RecordAgain(s, reply)
               \/ RecordNothing(s)
    BY <1>11 DEF Answer
  <2>2. CASE RecordUnusable(s, reply)
    BY <1>8, <2>2 DEF RecordUnusable
  <2> QED BY <1>7, <1>9, <2>1, <2>2
<1> QED BY <1>10, <1>11

LEMMA CallSound ==
    ASSUME IInv, NEW s \in Sessions, GateTool(s) \/ FollowupTool(s) \/ Recheck(s)
    PROVE  Sound(s)
<1>1. /\ TypeOK /\ RatchetHolds /\ UNCHANGED <<settings, file, heard, told, faults>>
      /\ tuning \in Tunings /\ made \in Nat
  BY BoundsAssumption DEF GateTool, FollowupTool, Recheck, IInv, TypeOK
<1>2. Turns(s)
  <2>1. CASE GateTool(s)
    <3>1. PICK h \in Hashes, left \in 0 .. MaxCalls - made :
              Post(s, "gate", h, tuning, None, left)
      BY <2>1 DEF GateTool
    <3>2. left \in Nat
      OBVIOUS
    <3> QED BY <1>1, <3>1, <3>2, PostTurns
  <2>2. CASE FollowupTool(s)
    <3>1. PICK d \in Drafts, left \in 0 .. MaxCalls - made :
              Post(s, "followup", d, tuning, None, left)
      BY <2>2 DEF FollowupTool
    <3>2. left \in Nat
      OBVIOUS
    <3> QED BY <1>1, <3>1, <3>2, PostTurns
  <2>3. CASE Recheck(s)
    <3>1. PICK h \in Hashes \ {packed} : Post(s, "recheck", h, tuning, Route.mode, 0)
      BY <2>3 DEF Recheck
    <3>2. Route.mode \in Modes
      <4>1. ValidModes # {} /\ Route.mode = Strongest(ValidModes)
        BY <2>3 DEF Recheck, Route
      <4>2. ValidModes \subseteq Modes
        BY DEF ValidModes, Valid
      <4> QED BY <4>1, <4>2, StrongestIs
    <3>3. Route.mode \in Modes \cup {None}
      BY <3>2
    <3> QED BY <1>1, <3>1, <3>2, <3>3, PostTurns
  <2> QED BY <2>1, <2>2, <2>3
<1>3. Adds(s) /\ RatchetHolds'
  BY <1>1 DEF Adds, TypeOK, RatchetHolds
<1> QED BY <1>1, <1>2, <1>3 DEF Sound, TypeOK

LEMMA CrashSound ==
    ASSUME IInv, NEW s \in Sessions, Crash(s)
    PROVE  Sound(s)
<1>1. /\ TypeOK /\ RatchetHolds /\ UNCHANGED <<settings, made, heard, told>>
      /\ file' \in Damaged /\ faults' \in 0 .. MaxFaults
  BY BoundsAssumption DEF Crash, IInv, TypeOK
<1>2. Turns(s)
  BY <1>1 DEF Crash, Turns
<1>3. Adds(s)
  BY <1>1, DamagedIs DEF Adds
<1>4. RatchetHolds'
  BY <1>1 DEF RatchetHolds
<1> QED BY <1>1, <1>2, <1>3, <1>4 DEF Sound, TypeOK

-----------------------------------------------------------------------------
(* The parts of the invariant.                                             *)

(* Every session's step keeps them all.                                    *)
LEMMA SoundInv ==
    ASSUME IInv, NEW s \in Sessions, Sound(s)
    PROVE  IInv'
<1>1. /\ TypeOK /\ CallsFit /\ Numbered /\ LinesEarned /\ OneLinePerCall
      /\ Turns(s) /\ Adds(s) /\ heard \subseteq heard' /\ RatchetHolds'
      /\ file.lines \in Seq(Line) /\ made \in Nat /\ made' \in made .. made + 1
      /\ made' \in 0 .. MaxCalls
  BY BoundsAssumption DEF IInv, Sound, Turns, TypeOK
<1>2. ASSUME NEW u \in Sessions
      PROVE  \/ call'[u] = None
             \/ u # s /\ call'[u] = call[u] /\ call[u] # None
             \/ u = s /\ Fits(call'[u]) /\ call'[u].id = made + 1 /\ made' = made + 1
  BY <1>1 DEF Turns, TypeOK
<1>3. call' \in [Sessions -> Call \cup {None}]
  BY <1>1 DEF Turns, TypeOK
<1>4. CallsFit'
  BY <1>1, <1>2 DEF CallsFit, Fits
<1>5. TypeOK'
  BY <1>1, <1>3 DEF Sound, Adds, TypeOK, settings
<1>6. PICK grown :
          \/ file'.lines = file.lines
          \/ /\ call[s] # None /\ grown \in Outcomes(call[s], heard')
             /\ file'.lines = Append(file.lines, grown)
  BY <1>1 DEF Adds
<1>7. ASSUME NEW i \in DOMAIN file'.lines
      PROVE  \/ i \in DOMAIN file.lines /\ file'.lines[i] = file.lines[i]
             \/ /\ call[s] # None /\ grown \in Outcomes(call[s], heard')
                /\ i = Len(file.lines) + 1 /\ file'.lines[i] = grown
  BY <1>1, <1>6
<1>8. LinesEarned'
  <2>1. ASSUME NEW i \in DOMAIN file'.lines PROVE Earned(file'.lines[i], heard')
    <3>1. CASE i \in DOMAIN file.lines /\ file'.lines[i] = file.lines[i]
      BY <1>1, <3>1 DEF LinesEarned, Earned
    <3>2. CASE grown \in Outcomes(call[s], heard') /\ file'.lines[i] = grown
      BY <3>2 DEF Outcomes
    <3> QED BY <1>7, <3>1, <3>2
  <2> QED BY <2>1 DEF LinesEarned
<1>9. call[s] # None =>
          /\ call[s].id \in Nat /\ call[s].id <= made
          /\ grown \in Outcomes(call[s], heard') => grown.id = call[s].id
  BY <1>1 DEF Numbered, CallsFit, Fits, Call, Outcomes
<1>10. ASSUME NEW i \in DOMAIN file'.lines
       PROVE  file'.lines[i].id \in Nat /\ file'.lines[i].id <= made
  <2>1. CASE i \in DOMAIN file.lines /\ file'.lines[i] = file.lines[i]
    <3>1. file.lines[i] \in Line
      BY <1>1, <2>1
    <3> QED BY <1>1, <2>1, <3>1 DEF Numbered, Line
  <2>2. CASE call[s] # None /\ grown \in Outcomes(call[s], heard') /\ file'.lines[i] = grown
    BY <1>9, <2>2
  <2> QED BY <1>7, <2>1, <2>2
<1>11. ASSUME NEW u \in Sessions, call'[u] # None
       PROVE  /\ call'[u].id \in Nat /\ call'[u].id <= made'
              /\ \/ u # s /\ call'[u] = call[u] /\ call[u].id <= made
                 \/ u = s /\ call'[u].id = made + 1
  BY <1>1, <1>2, <1>11 DEF Numbered, CallsFit, Fits, Call
<1>12. Numbered'
  <2>1. ASSUME NEW i \in DOMAIN file'.lines PROVE file'.lines[i].id <= made'
    BY <1>1, <1>10
  <2>2. ASSUME NEW u \in Sessions, NEW v \in Sessions, call'[u] # None, call'[v] # None,
               call'[u].id = call'[v].id
        PROVE  u = v
    BY <1>1, <1>11, <2>2 DEF Numbered
  <2> QED BY <1>11, <2>1, <2>2 DEF Numbered
<1>13. OneLinePerCall'
  <2>1. ASSUME NEW i \in DOMAIN file'.lines, NEW j \in DOMAIN file'.lines,
               file'.lines[i].id = file'.lines[j].id
        PROVE  i = j
    BY <1>1, <1>7, <1>9, <2>1 DEF OneLinePerCall
  <2>2. ASSUME NEW i \in DOMAIN file'.lines, NEW u \in Sessions, call'[u] # None
        PROVE  file'.lines[i].id # call'[u].id
    <3>1. CASE u = s
      BY <1>1, <1>10, <1>11, <2>2, <3>1
    <3>2. CASE u # s
      BY <1>1, <1>7, <1>9, <1>11, <2>2, <3>2 DEF OneLinePerCall, Numbered
    <3> QED BY <3>1, <3>2
  <2> QED BY <2>1, <2>2 DEF OneLinePerCall
<1> QED BY <1>1, <1>4, <1>5, <1>8, <1>12, <1>13 DEF IInv

LEMMA InitIInv == Init => IInv
<1> SUFFICES ASSUME Init PROVE IInv
  OBVIOUS
<1>1. TypeOK
  BY BoundsAssumption DEF Init, TypeOK
<1>2. /\ DOMAIN file.lines = {} /\ \A s \in Sessions : call[s] = None /\ told[s] = None
  BY DEF Init
<1> QED BY <1>1, <1>2
    DEF IInv, CallsFit, Numbered, LinesEarned, OneLinePerCall, RatchetHolds

LEMMA NextIInv == IInv /\ [Next]_vars => IInv'
<1> SUFFICES ASSUME IInv, [Next]_vars PROVE IInv'
  OBVIOUS
<1>1. ASSUME UNCHANGED <<file, call, made, heard, told, faults>>, TypeOK'
      PROVE  IInv'
  BY <1>1 DEF IInv, CallsFit, Fits, Numbered, LinesEarned, OneLinePerCall, RatchetHolds
<1>2. CASE UNCHANGED vars
  <2>1. TypeOK'
    BY <1>2 DEF vars, settings, IInv, TypeOK
  <2> QED BY <1>1, <1>2, <2>1 DEF vars
<1>3. CASE Edit
  <2>1. TypeOK'
    BY <1>3 DEF Edit, IInv, TypeOK
  <2> QED BY <1>1, <1>3, <2>1 DEF Edit
<1>4. CASE Retune
  <2>1. TypeOK'
    BY <1>4 DEF Retune, IInv, TypeOK
  <2> QED BY <1>1, <1>4, <2>1 DEF Retune
<1>5. ASSUME NEW s \in Sessions, GateTool(s) \/ FollowupTool(s) \/ Recheck(s) PROVE IInv'
  BY <1>5, CallSound, SoundInv
<1>6. ASSUME NEW s \in Sessions, Answer(s) \/ Fail(s) \/ Crash(s) PROVE IInv'
  BY <1>6, AnswerSound, CrashSound, SoundInv
<1> QED BY <1>2, <1>3, <1>4, <1>5, <1>6 DEF Next

-----------------------------------------------------------------------------
(* What a line says, and what decided it.                                  *)

\* A card's line has the version and the mode of the gate files it was
\* decided under; a draft's has the disposition of its own answers.
Consistent(line) ==
    /\ line.hash \in Hashes => /\ line.version = line.by.policyVersion
                               /\ Decide(line.answers, line.by.decision) = line.mode
                               /\ line.mode \in Modes
    /\ line.hash \in Drafts /\ ~line.failed =>
           line.answers \in DraftReplies /\ line.mode = Dispose(line.answers)
    /\ line.hash \in Drafts /\ line.failed => line.mode = "File"

LinesConsistent == \A i \in DOMAIN file.lines : Consistent(file.lines[i])

(* The line of a failed call, and that of a verdict, are consistent.       *)
LEMMA FailedLineConsistent ==
    ASSUME NEW c, Fits(c)
    PROVE  FailedLine(c) \in Line /\ Consistent(FailedLine(c))
<1>1. FailedLine(c) \in Line
  BY FailedLineIs DEF Outcomes
<1>2. c.tuning \in Tunings
  BY DEF Fits, Call
<1>3. CASE c.kind = "followup"
  <2>1. c.hash \notin Hashes
    BY <1>3, HashesAssumption DEF Fits
  <2> QED BY <1>1, <1>3, <2>1 DEF Consistent, FailedLine, LineOf, SafeMode
<1>4. CASE c.kind # "followup"
  <2>1. c.hash \notin Drafts
    BY <1>4, HashesAssumption DEF Fits
  <2>2. Decide(NoAnswers, c.tuning.decision) = "Deliberate"
    BY <1>2, SilenceAssumption
  <2> QED BY <1>1, <1>4, <2>1, <2>2 DEF Consistent, FailedLine, LineOf, SafeMode, Modes
<1> QED BY <1>3, <1>4

LEMMA VerdictLineConsistent ==
    ASSUME NEW c, Fits(c), NEW reply \in RepliesTo(c), Verdict(c, reply) # Throws
    PROVE  /\ LineOf(c, reply, Verdict(c, reply), FALSE) \in Line
           /\ Consistent(LineOf(c, reply, Verdict(c, reply), FALSE))
<1>1. LineOf(c, reply, Verdict(c, reply), FALSE) \in Line
  BY VerdictLineIs, <<c.hash, reply>> \in {<<c.hash, reply>>} DEF Outcomes
<1>2. c.tuning \in Tunings
  BY DEF Fits, Call
<1>3. CASE c.kind = "followup"
  <2>1. c.hash \notin Hashes
    BY <1>3, HashesAssumption DEF Fits
  <2>2. reply \in DraftReplies /\ Verdict(c, reply) = Dispose(reply)
    BY <1>3 DEF RepliesTo, Verdict
  <2> QED BY <1>1, <2>1, <2>2 DEF Consistent, LineOf
<1>4. CASE c.kind # "followup"
  <2>1. c.hash \notin Drafts
    BY <1>4, HashesAssumption DEF Fits
  <2>2. reply \in Replies /\ Verdict(c, reply) = Decide(reply, c.tuning.decision)
    BY <1>4 DEF RepliesTo, Verdict
  <2>3. Verdict(c, reply) \in Modes
    BY <1>2, <2>2, DecideAssumption
  <2> QED BY <1>1, <1>4, <2>1, <2>2, <2>3 DEF Consistent, LineOf
<1> QED BY <1>3, <1>4

(* What a step may do to the ledger: nothing, or append one such line.     *)
LEMMA NextLines ==
    ASSUME IInv, [Next]_vars
    PROVE  \/ file'.lines = file.lines
           \/ \E line \in Line : Consistent(line) /\ file'.lines = Append(file.lines, line)
<1> DEFINE Grows == \E line \in Line : Consistent(line) /\ file'.lines = Append(file.lines, line)
<1>1. TypeOK /\ file \in [lines : Seq(Line), torn : BOOLEAN]
  BY DEF IInv, TypeOK
<1>2. CASE file' = file
  BY <1>2
<1>3. CASE file' \in Damaged
  BY <1>1, <1>3 DEF Damaged, TypeOK
<1>4. ASSUME NEW f, f = file \/ f \in Damaged, NEW line \in Line, Consistent(line),
             file' = Appended(f, line)
      PROVE  file'.lines = file.lines \/ Grows
  <2>1. f \in [lines : Seq(Line), torn : BOOLEAN] /\ f.lines = file.lines
    BY <1>1, <1>4 DEF Damaged
  <2> QED BY <1>4, <2>1, AppendedIs
<1>5. ASSUME NEW s \in Sessions, Answer(s) \/ Fail(s) PROVE file'.lines = file.lines \/ Grows
  <2>1. Fits(call[s])
    BY <1>5 DEF IInv, CallsFit, Answer, Fail
  <2>2. FailedLine(call[s]) \in Line /\ Consistent(FailedLine(call[s]))
    BY <2>1, FailedLineConsistent
  <2>3. CASE RecordNothing(s)
    BY <1>3, <2>3 DEF RecordNothing
  <2>4. CASE file' = Appended(file, FailedLine(call[s]))
    BY <1>4, <2>2, <2>4
  <2>5. ASSUME NEW reply \in RepliesTo(call[s]), Record(s, reply) \/ RecordAgain(s, reply)
        PROVE  file'.lines = file.lines \/ Grows
    <3>1. CASE Record(s, reply)
      <4>1. PICK line : line = LineOf(call[s], reply, Verdict(call[s], reply), FALSE)
        OBVIOUS
      <4>2. line \in Line /\ Consistent(line)
        BY <2>1, <3>1, <4>1, VerdictLineConsistent DEF Record
      <4> QED BY <1>4, <3>1, <4>1, <4>2 DEF Record
    <3>2. CASE RecordAgain(s, reply)
      <4>1. PICK f \in Damaged : file' = Appended(f, FailedLine(call[s]))
        BY <3>2 DEF RecordAgain
      <4> QED BY <1>4, <2>2, <4>1
    <3> QED BY <2>5, <3>1, <3>2
  <2>6. CASE Fail(s)
    BY <2>3, <2>4, <2>6 DEF Fail
  <2>7. CASE Answer(s)
    BY <2>3, <2>4, <2>5, <2>7 DEF Answer, RecordUnusable
  <2> QED BY <1>5, <2>6, <2>7
<1>6. ASSUME NEW s \in Sessions, GateTool(s) \/ FollowupTool(s) \/ Recheck(s) \/ Crash(s)
      PROVE  file' = file \/ file' \in Damaged
  BY <1>6 DEF GateTool, FollowupTool, Recheck, Crash
<1>7. CASE Edit \/ Retune \/ UNCHANGED vars
  BY <1>2, <1>7 DEF Edit, Retune, vars
<1> QED BY <1>2, <1>3, <1>5, <1>6, <1>7 DEF Next

(* Every line of the ledger is consistent, in every reachable state.       *)
LEMMA AlwaysConsistent == Spec => [](IInv /\ LinesConsistent)
<1>1. Init => LinesConsistent
  BY DEF Init, LinesConsistent
<1>2. IInv /\ LinesConsistent /\ [Next]_vars => LinesConsistent'
  <2> SUFFICES ASSUME IInv, LinesConsistent, [Next]_vars,
                      NEW i \in DOMAIN file'.lines
               PROVE  Consistent(file'.lines[i])
    BY DEF LinesConsistent
  <2>1. file.lines \in Seq(Line)
    BY DEF IInv, TypeOK
  <2>2. PICK line : \/ file'.lines = file.lines
                    \/ line \in Line /\ Consistent(line) /\ file'.lines = Append(file.lines, line)
    BY NextLines
  <2>3. (i \in DOMAIN file.lines /\ file'.lines[i] = file.lines[i]) \/ Consistent(file'.lines[i])
    BY <2>1, <2>2
  <2> QED BY <2>3 DEF LinesConsistent
<1> QED BY <1>1, <1>2, InitIInv, NextIInv, PTL DEF Spec

-----------------------------------------------------------------------------
(* The theorems.                                                           *)

(* Every variable stays within its type, at any bound.                     *)
THEOREM TypeCorrect == Spec => []TypeOK
<1>1. IInv => TypeOK
  BY DEF IInv
<1> QED BY <1>1, InitIInv, NextIInv, PTL DEF Spec

(* runGate and runFollowupGate append one line per call, however many of   *)
(* their appends fail and however their sessions interleave.               *)
THEOREM OneLine == Spec => []OneLinePerCall
<1>1. IInv => OneLinePerCall
  BY DEF IInv
<1> QED BY <1>1, InitIInv, NextIInv, PTL DEF Spec

(* No re-check of council_route hands back a cheaper mode than it began    *)
(* with, whatever the decision function says of the new state.             *)
THEOREM Ratchet == Spec => []RatchetHolds
<1>1. IInv => RatchetHolds
  BY DEF IInv
<1> QED BY <1>1, InitIInv, NextIInv, PTL DEF Spec

(* resolveRoute names a reduced mode only on the service's own answers     *)
(* about the current state, decided under the current policy.              *)
THEOREM Reduced == Spec => []ReducedIsEarned
<1>1. IInv => ReducedIsEarned
  <2> SUFFICES ASSUME IInv, Route.mode # "Deliberate" PROVE
          \E reply \in Replies : /\ <<packed, reply>> \in heard
                                /\ Decide(reply, tuning.decision) = Route.mode
    BY DEF ReducedIsEarned
  <2>1. ValidModes # {} /\ Route.mode = Strongest(ValidModes)
    BY DEF Route
  <2>2. ValidModes \subseteq Modes
    BY DEF ValidModes, Valid
  <2>3. Route.mode \in ValidModes
    BY <2>1, <2>2, StrongestIs
  <2>4. PICK i \in DOMAIN file.lines : Valid(file.lines[i]) /\ file.lines[i].mode = Route.mode
    BY <2>3 DEF ValidModes
  <2>5. PICK line : line = file.lines[i]
    OBVIOUS
  <2>6. /\ line \in Line /\ Earned(line, heard) /\ line.hash = packed
        /\ Decide(line.answers, tuning.decision) = Route.mode
    BY <2>4, <2>5 DEF IInv, TypeOK, LinesEarned, Valid
  <2>7. packed \in Hashes
    BY <2>6, HashesAssumption DEF Line, IInv, TypeOK
  <2>8. line.answers # NoAnswers
    BY <2>6, SilenceAssumption DEF IInv, TypeOK
  <2> QED BY <2>6, <2>7, <2>8 DEF Earned
<1> QED BY <1>1, InitIInv, NextIInv, PTL DEF Spec

(* With decide itself as the decision function: a card is routed to Verify *)
(* or Direct only if the service has answered about its present packed     *)
(* state, no override of the present policy fires on an answer, none is    *)
(* below its floor, and together they weigh what the mode asks for         *)
(* (gate-route.ts over gate.ts).                                           *)
THEOREM ReducedIsCertain ==
    ASSUME \A r \in Replies, t \in Tunings :
               Decide(r, t.decision) = Decisions!DecideMode(r, t.decision)
    PROVE  Spec => [](Route.mode # "Deliberate" =>
               \E reply \in Replies :
                   /\ <<packed, reply>> \in heard
                   /\ RulesSilent(reply, tuning.decision) /\ AboveFloors(reply, tuning.decision)
                   /\ Weighty(reply, tuning.decision, Route.mode))
<1>1. ASSUME IInv, ReducedIsEarned, Route.mode # "Deliberate"
      PROVE  \E reply \in Replies :
                 /\ <<packed, reply>> \in heard
                 /\ RulesSilent(reply, tuning.decision) /\ AboveFloors(reply, tuning.decision)
                 /\ Weighty(reply, tuning.decision, Route.mode)
  <2>1. PICK reply \in Replies : /\ <<packed, reply>> \in heard
                                 /\ Decide(reply, tuning.decision) = Route.mode
    BY <1>1 DEF ReducedIsEarned
  <2>2. Route.mode \in Modes
    <3>1. ValidModes # {} /\ Route.mode = Strongest(ValidModes)
      BY <1>1 DEF Route
    <3>2. ValidModes \subseteq Modes
      BY DEF ValidModes, Valid
    <3> QED BY <3>1, <3>2, StrongestIs
  <2>3. tuning \in Tunings
    BY <1>1 DEF IInv, TypeOK
  <2>4. PICK policy : policy = tuning.decision
    OBVIOUS
  <2>5. Decisions!DecideMode(reply, policy) = Route.mode /\ Route.mode # Throws
    BY <2>1, <2>2, <2>3, <2>4, DecideAssumption
  <2>6. /\ RulesSilent(reply, policy) /\ AboveFloors(reply, policy)
        /\ Weighty(reply, policy, Route.mode)
    BY <1>1, <2>5, ReducedSays
  <2> QED BY <2>1, <2>4, <2>6
<1> QED BY <1>1, Reduced, InitIInv, NextIInv, PTL DEF Spec

\* RouteOnlyEscalates says this of every step.
Escalates ==
    (Route.source = "recorded" /\ UNCHANGED settings) =>
        Route'.source = "recorded" /\ AtLeast(Route'.mode, Route.mode)

(* While the card and the gate files stay as they are, no step of any      *)
(* session makes resolveRoute name a cheaper mode.                         *)
THEOREM Escalation == Spec => RouteOnlyEscalates
<1>1. ASSUME IInv, Next, UNCHANGED settings, Route.source = "recorded"
      PROVE  Route'.source = "recorded" /\ AtLeast(Route'.mode, Route.mode)
  <2>1. ValidModes \subseteq ValidModes'
    <3>1. file.lines \in Seq(Line)
      BY <1>1 DEF IInv, TypeOK
    <3>2. \/ file'.lines = file.lines
          \/ \E line : file'.lines = Append(file.lines, line)
      <4>1. ASSUME NEW s \in Sessions, GateTool(s) \/ FollowupTool(s) \/ Recheck(s)
            PROVE  Adds(s)
        BY <1>1, <4>1, CallSound DEF Sound
      <4>2. ASSUME NEW s \in Sessions, Answer(s) \/ Fail(s) \/ Crash(s) PROVE Adds(s)
        BY <1>1, <4>2, AnswerSound, CrashSound DEF Sound
      <4>3. CASE Edit \/ Retune
        BY <4>3 DEF Edit, Retune
      <4> QED BY <1>1, <4>1, <4>2, <4>3 DEF Next, Adds
    <3>3. ASSUME NEW i \in DOMAIN file.lines
          PROVE  i \in DOMAIN file'.lines /\ file'.lines[i] = file.lines[i]
      BY <3>1, <3>2
    <3> QED BY <1>1, <3>3 DEF ValidModes, Valid, settings
  <2>2. enabled /\ ValidModes # {} /\ Route.mode = Strongest(ValidModes)
    BY <1>1 DEF Route
  <2>3. Route' = [mode |-> Strongest(ValidModes'), source |-> "recorded"]
    BY <1>1, <2>1, <2>2 DEF Route, settings, Strongest, AtLeast, Rank
  <2>4. PICK S : S = ValidModes'
    OBVIOUS
  <2>5. S \subseteq Modes
    BY <2>4 DEF ValidModes, Valid, Modes
  <2>6. ValidModes \subseteq Modes
    BY DEF ValidModes, Valid
  <2>7. Strongest(ValidModes) \in S /\ S # {}
    BY <2>1, <2>2, <2>4, <2>6, StrongestIs
  <2>8. AtLeast(Strongest(S), Strongest(ValidModes))
    BY <2>5, <2>7, StrongestIs
  <2> QED BY <2>2, <2>3, <2>4, <2>8 DEF AtLeast, Rank
<1>2. IInv /\ [Next]_vars => [Escalates]_vars
  BY <1>1 DEF Escalates
<1> QED BY <1>2, InitIInv, NextIInv, PTL DEF Spec, RouteOnlyEscalates, Escalates

(* Where the gate files agree on their version, a card whose packed state  *)
(* and gate files are those of a recorded line is routed by that line or a *)
(* stronger one: the contract of gate-route.ts.  Where they do not, as in  *)
(* the packaged files, no line is ever valid.                              *)
THEOREM Recorded ==
    Spec => [](tuning.policyVersion = tuning.decision.version => RecordedIsTheDecision)
<1>1. IInv /\ LinesConsistent /\ tuning.policyVersion = tuning.decision.version
          => RecordedIsTheDecision
  <2> SUFFICES ASSUME IInv, LinesConsistent, tuning.policyVersion = tuning.decision.version,
                      NEW i \in DOMAIN file.lines, enabled,
                      file.lines[i].hash = packed, file.lines[i].by = tuning
               PROVE  Route.source = "recorded" /\ AtLeast(Route.mode, file.lines[i].mode)
    BY DEF RecordedIsTheDecision
  <2>1. PICK line : line = file.lines[i]
    OBVIOUS
  <2>2. line \in Line /\ Consistent(line) /\ line.hash = packed /\ line.by = tuning
    BY <2>1 DEF IInv, TypeOK, LinesConsistent
  <2>3. packed \in Hashes
    BY <2>2, HashesAssumption DEF Line, IInv, TypeOK
  <2>4. Valid(line)
    BY <2>2, <2>3 DEF Valid, Consistent
  <2>5. line.mode \in ValidModes
    BY <2>1, <2>4 DEF ValidModes
  <2>6. ValidModes \subseteq Modes
    BY DEF ValidModes, Valid
  <2>7. AtLeast(Strongest(ValidModes), line.mode)
    BY <2>5, <2>6, StrongestIs
  <2> QED BY <2>1, <2>5, <2>7 DEF Route
<1> QED BY <1>1, AlwaysConsistent, PTL

(* A line that merges or drops a draft is the verdict of decideFollowup on *)
(* a full set of answers, for every policy that weighs each question: a    *)
(* draft with a failed call or a question left open is filed for a human.  *)
THEOREM DraftsFiled ==
    ASSUME NEW policy,
           \A r \in DraftReplies : /\ DOMAIN policy.weights = DOMAIN r
                                   /\ Dispose(r) = Decisions!FollowupDisposition(r, policy)
    PROVE  Spec => []UnsureDraftIsFiled
<1>1. ASSUME NEW r \in DraftReplies, NEW q \in DOMAIN r, r[q] = None
      PROVE  Dispose(r) = "File"
  BY <1>1, SilentDraftIsFiled DEF Decisions!Answered
<1>2. IInv /\ LinesConsistent => UnsureDraftIsFiled
  <2> SUFFICES ASSUME IInv, LinesConsistent, NEW i \in DOMAIN file.lines,
                      file.lines[i].mode \in {"Merge", "Drop"}
               PROVE  /\ ~file.lines[i].failed
                      /\ \A q \in DOMAIN file.lines[i].answers : file.lines[i].answers[q] # None
    BY DEF UnsureDraftIsFiled
  <2>1. PICK line : line = file.lines[i]
    OBVIOUS
  <2>2. line \in Line /\ Consistent(line) /\ line.mode \in {"Merge", "Drop"}
    BY <2>1 DEF IInv, TypeOK, LinesConsistent
  <2>3. line.hash \in Drafts
    BY <2>2 DEF Line, Consistent, Modes
  <2>4. line.failed \in BOOLEAN
    BY <2>2 DEF Line
  <2>5. ~line.failed /\ line.answers \in DraftReplies /\ line.mode = Dispose(line.answers)
    BY <2>2, <2>3, <2>4 DEF Consistent
  <2>6. ASSUME NEW q \in DOMAIN line.answers, line.answers[q] = None PROVE FALSE
    BY <1>1, <2>2, <2>5, <2>6
  <2> QED BY <2>1, <2>5, <2>6
<1> QED BY <1>2, AlwaysConsistent, PTL
=============================================================================
