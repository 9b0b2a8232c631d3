--------------------------------- MODULE Gate ---------------------------------
(***************************************************************************)
(* The metered-deliberation gate around its append-only ledger: the calls  *)
(* of extensions/gate-run.ts and followup-tool.ts that write a line, the   *)
(* ledger file of gate-ledger.ts, and the routing read and the re-check of *)
(* gate-route.ts and gate-route-tool.ts that consume the lines.            *)
(*                                                                         *)
(* A call awaits the decisions service once; everything else it does is    *)
(* synchronous.  So a call is two actions: up to the await, which captures *)
(* the packed state and the policies, and from the answer to the append.   *)
(* The sessions are the parent session and the runner children that hold   *)
(* the follow-up grant: one repository, one ledger.                        *)
(***************************************************************************)
EXTENDS Integers, Sequences

CONSTANTS
    Sessions,           \* the processes that call the gate
    Hashes,             \* packed states of the card, with or without touched files
    Drafts,             \* packed states of drafted follow-ups
    Replies,            \* the answers the service may give about a card
    DraftReplies,       \* the answers the service may give about a draft
    NoAnswers,          \* every asked question unanswered
    NoDraftAnswers,
    Tunings,            \* gate files: [policyVersion, decision], decision.version
    DraftVersion,       \* the version of the follow-up decision policy
    Decide(_, _),       \* decide(answers, decision policy): a mode, or Throws
    Dispose(_),         \* decideFollowup(answers): a disposition, or Throws
    Throws, None, Unpackable,
    MaxCalls,           \* bound: calls of the service
    MaxFaults           \* bound: crashes, and calls whose append fails

Modes        == {"Deliberate", "Verify", "Direct"}
Dispositions == {"File", "Merge", "Drop"}

ASSUME BoundsAssumption  == MaxCalls \in Nat /\ MaxFaults \in Nat
ASSUME HashesAssumption  == /\ Hashes \cap Drafts = {}
                            /\ Unpackable \notin Hashes \cup Drafts
ASSUME DecideAssumption  ==
    /\ Throws \notin Modes \cup Dispositions
    /\ \A r \in Replies \cup {NoAnswers}, t \in Tunings :
           Decide(r, t.decision) \in Modes \cup {Throws}
    /\ \A r \in DraftReplies : Dispose(r) \in Dispositions \cup {Throws}
\* The loader refuses a verify threshold of 0, so no evidence deliberates.
ASSUME SilenceAssumption == \A t \in Tunings : Decide(NoAnswers, t.decision) = "Deliberate"

VARIABLES
    enabled,   \* gate.mode is advisory or active
    tuning,    \* the gate files as they are on disk
    packed,    \* the card's packed state now, or Unpackable
    file,      \* gate-ledger.jsonl: the readable lines; does it end mid-line?
    call,      \* each session's call in flight, or None
    made,      \* calls made, which numbers them (the callId)
    heard,     \* history: what the service answered, about which state
    told,      \* the last re-check result each session was handed
    faults

settings == <<enabled, tuning, packed>>
vars     == <<settings, file, call, made, heard, told, faults>>

Call == [kind : {"gate", "recheck", "followup"}, id : Nat, hash : Hashes \cup Drafts,
         tuning : Tunings, recorded : Modes \cup {None}, left : Nat]
Line == [id : Nat, hash : Hashes \cup Drafts,
         answers : Replies \cup DraftReplies \cup {NoAnswers, NoDraftAnswers},
         mode : Modes \cup Dispositions, version : {t.policyVersion : t \in Tunings} \cup {DraftVersion},
         failed : BOOLEAN, by : Tunings]
Told == [recorded : Modes, effective : Modes, usable : BOOLEAN]

Init ==
    /\ enabled \in BOOLEAN /\ tuning \in Tunings /\ packed \in Hashes \cup {Unpackable}
    /\ file = [lines |-> <<>>, torn |-> FALSE]
    /\ call = [s \in Sessions |-> None]
    /\ made = 0 /\ heard = {} /\ told = [s \in Sessions |-> None] /\ faults = 0

-----------------------------------------------------------------------------
(* The routing read. *)

Rank == [Deliberate |-> 0, Verify |-> 1, Direct |-> 2]

AtLeast(a, b) == Rank[a] <= Rank[b]

Strongest(S) == CHOOSE m \in S : \A n \in S : AtLeast(m, n)

\* Faulty: the recorded mode is trusted, not derived again.
ValidUnderived(line) ==
    line.hash = packed /\ line.version = tuning.decision.version /\ line.mode \in Modes

\* A line counts for the current state if its policy version is the current
\* one and its mode follows from its own answers under the current policy.
Valid(line) ==
    /\ line.hash = packed
    /\ line.version = tuning.decision.version
    /\ Decide(line.answers, tuning.decision) = line.mode
    /\ line.mode \in Modes

ValidModes == {file.lines[i].mode : i \in {j \in DOMAIN file.lines : Valid(file.lines[j])}}

\* Faulty: the newest valid line wins, whatever the older ones say.
RouteByNewest ==
    LET valid == {j \in DOMAIN file.lines : Valid(file.lines[j])}
    IN  IF enabled /\ valid # {}
        THEN [mode |-> file.lines[CHOOSE i \in valid : \A j \in valid : j <= i].mode,
              source |-> "recorded"]
        ELSE [mode |-> "Deliberate", source |-> "fallback"]

\* resolveRoute: only a recorded line can name a reduced mode.
Route ==
    IF enabled /\ ValidModes # {}
    THEN [mode |-> Strongest(ValidModes), source |-> "recorded"]
    ELSE [mode |-> "Deliberate", source |-> "fallback"]

-----------------------------------------------------------------------------
(* The ledger file.  A line appended to a file that ends mid-line is glued *)
(* to the torn tail, and neither can be parsed.                            *)

Appended(f, line) ==
    IF f.torn THEN [f EXCEPT !.torn = FALSE]
    ELSE [f EXCEPT !.lines = Append(@, line)]

\* appendFileSync fails having written nothing, or a part of the line.
Damaged == {file, [file EXCEPT !.torn = TRUE]}

\* Faulty: the version is read from disk again, after the await.
LineStampedLate(c, answers, mode, failed) ==
    [id |-> c.id, hash |-> c.hash, answers |-> answers, mode |-> mode, failed |-> failed,
     version |-> IF c.kind = "followup" THEN DraftVersion ELSE tuning.policyVersion,
     by |-> c.tuning]

LineOf(c, answers, mode, failed) ==
    [id |-> c.id, hash |-> c.hash, answers |-> answers, mode |-> mode, failed |-> failed,
     version |-> IF c.kind = "followup" THEN DraftVersion ELSE c.tuning.policyVersion,
     by |-> c.tuning]

\* failRun: every question unanswered, the safe outcome by construction.
SafeMode(c) == IF c.kind = "followup" THEN "File" ELSE "Deliberate"
FailedLine(c) ==
    LineOf(c, IF c.kind = "followup" THEN NoDraftAnswers ELSE NoAnswers, SafeMode(c), TRUE)

-----------------------------------------------------------------------------
(* The calls, up to the await. *)

Post(s, kind, hash, t, recorded, left) ==
    /\ made < MaxCalls /\ made' = made + 1
    /\ call' = [call EXCEPT ![s] = [kind |-> kind, id |-> made', hash |-> hash,
                    tuning |-> t, recorded |-> recorded, left |-> left]]

\* council_gate at intake, and council_followup_gate or _review: the policies
\* are loaded once, then one call per card.  With the gate off, nothing.
GateTool(s) ==
    /\ enabled /\ call[s] = None
    /\ \E h \in Hashes, left \in 0 .. MaxCalls - made : Post(s, "gate", h, tuning, None, left)
    /\ UNCHANGED <<settings, file, heard, told, faults>>

FollowupTool(s) ==
    /\ enabled /\ call[s] = None
    /\ \E d \in Drafts, left \in 0 .. MaxCalls - made : Post(s, "followup", d, tuning, None, left)
    /\ UNCHANGED <<settings, file, heard, told, faults>>

\* council_route op recheck, when a reduced mode is recorded: the state is
\* rebuilt with the observed touched files, and only a change is re-gated.
Recheck(s) ==
    /\ call[s] = None
    /\ Route.source = "recorded" /\ Route.mode # "Deliberate"
    /\ \E h \in Hashes \ {packed} : Post(s, "recheck", h, tuning, Route.mode, 0)
    /\ UNCHANGED <<settings, file, heard, told, faults>>

-----------------------------------------------------------------------------
(* The calls, from the answer on. *)

RepliesTo(c) == IF c.kind = "followup" THEN DraftReplies ELSE Replies

Verdict(c, reply) == IF c.kind = "followup" THEN Dispose(reply) ELSE Decide(reply, c.tuning.decision)

\* The session turns to the next card of its batch, or is done.
Proceed(s) ==
    \/ /\ (call[s].left = 0 \/ made = MaxCalls)
       /\ call' = [call EXCEPT ![s] = None] /\ UNCHANGED made
    \/ /\ call[s].left > 0
       /\ \E h \in IF call[s].kind = "followup" THEN Drafts ELSE Hashes :
              Post(s, call[s].kind, h, call[s].tuning, None, call[s].left - 1)

\* Faulty: the re-check hands back the verdict.
TellVerdict(s, mode, usable) ==
    told' = IF call[s].kind # "recheck" THEN told
            ELSE [told EXCEPT ![s] = [recorded  |-> call[s].recorded,
                                      effective |-> mode,
                                      usable    |-> usable]]

\* What a re-check hands back: escalation only; a call that threw routes full.
Tell(s, mode, usable) ==
    told' = IF call[s].kind # "recheck" THEN told
            ELSE [told EXCEPT ![s] = [recorded  |-> call[s].recorded,
                                      effective |-> Strongest({call[s].recorded, mode}),
                                      usable    |-> usable]]

\* The service answered, the answers decide, and the line is appended.
Record(s, reply) ==
    /\ Verdict(call[s], reply) # Throws
    /\ file' = Appended(file, LineOf(call[s], reply, Verdict(call[s], reply), FALSE))
    /\ Tell(s, Verdict(call[s], reply), TRUE)
    /\ UNCHANGED faults

\* The answers are unusable, and the failure is appended in their place.
RecordUnusable(s, reply) ==
    /\ Verdict(call[s], reply) = Throws
    /\ file' = Appended(file, FailedLine(call[s]))
    /\ Tell(s, SafeMode(call[s]), FALSE)
    /\ UNCHANGED faults

\* Faulty: something throws after the verdict was appended, inside the try.
RecordTwice(s, reply) ==
    /\ Verdict(call[s], reply) # Throws /\ faults < MaxFaults /\ faults' = faults + 1
    /\ LET line == LineOf(call[s], reply, Verdict(call[s], reply), FALSE)
       IN  file' = Appended(Appended(file, line), FailedLine(call[s]))
    /\ Tell(s, SafeMode(call[s]), FALSE)

\* Appending the verdict throws inside the same try, so the failure is
\* appended after it.
RecordAgain(s, reply) ==
    /\ Verdict(call[s], reply) # Throws /\ faults < MaxFaults /\ faults' = faults + 1
    /\ file' \in {Appended(f, FailedLine(call[s])) : f \in Damaged}
    /\ Tell(s, SafeMode(call[s]), FALSE)

\* The append of a failure throws to the tool, which reports it.
RecordNothing(s) ==
    /\ faults < MaxFaults /\ faults' = faults + 1
    /\ file' \in Damaged
    /\ Tell(s, SafeMode(call[s]), FALSE)

Answer(s) ==
    /\ call[s] # None
    /\ \E reply \in RepliesTo(call[s]) :
           /\ heard' = heard \cup {<<call[s].hash, reply>>}
           /\ \/ Record(s, reply)
              \/ RecordUnusable(s, reply)
              \/ RecordAgain(s, reply)
              \/ RecordNothing(s)
    /\ Proceed(s)
    /\ UNCHANGED settings

\* No key, no network, a timeout, an error status, a body nobody can parse.
Fail(s) ==
    /\ call[s] # None
    /\ \/ /\ file' = Appended(file, FailedLine(call[s]))
          /\ Tell(s, SafeMode(call[s]), FALSE)
          /\ UNCHANGED faults
       \/ RecordNothing(s)
    /\ Proceed(s)
    /\ UNCHANGED <<settings, heard>>

-----------------------------------------------------------------------------
(* The world around. *)

\* A session dies with its call, perhaps while it appends.
Crash(s) ==
    /\ call[s] # None /\ faults < MaxFaults /\ faults' = faults + 1
    /\ call' = [call EXCEPT ![s] = None]
    /\ file' \in Damaged
    /\ UNCHANGED <<settings, made, heard, told>>

\* The card, the wiki, the rulings or the tests change.
Edit ==
    /\ packed' \in (Hashes \cup {Unpackable}) \ {packed}
    /\ UNCHANGED <<enabled, tuning, file, call, made, heard, told, faults>>

\* The repository's gate files, or its .council.json, change.
Retune ==
    /\ \/ tuning' \in Tunings \ {tuning} /\ UNCHANGED enabled
       \/ enabled' = ~enabled /\ UNCHANGED tuning
    /\ UNCHANGED <<packed, file, call, made, heard, told, faults>>

Next ==
    \/ \E s \in Sessions : GateTool(s) \/ FollowupTool(s) \/ Recheck(s)
    \/ \E s \in Sessions : Answer(s) \/ Fail(s) \/ Crash(s)
    \/ Edit \/ Retune

Spec == Init /\ [][Next]_vars

-----------------------------------------------------------------------------
(* Properties. *)

TypeOK ==
    /\ enabled \in BOOLEAN /\ tuning \in Tunings /\ packed \in Hashes \cup {Unpackable}
    /\ file \in [lines : Seq(Line), torn : BOOLEAN]
    /\ call \in [Sessions -> Call \cup {None}]
    /\ made \in 0 .. MaxCalls /\ faults \in 0 .. MaxFaults
    /\ heard \subseteq (Hashes \cup Drafts) \X (Replies \cup DraftReplies)
    /\ told \in [Sessions -> Told \cup {None}]

\* One call never leaves two lines, whichever of its appends fail, and none
\* while its answer is awaited.
OneLinePerCall ==
    LET lines == file.lines
    IN  /\ \A i, j \in DOMAIN lines : lines[i].id = lines[j].id => i = j
        /\ \A i \in DOMAIN lines, s \in Sessions : call[s] # None => lines[i].id # call[s].id

\* A card is routed to a reduced mode only if the service has answered about
\* exactly its current packed state, with answers that decide that mode under
\* the policy of today: no failure, edit, retuning or torn line earns one.
ReducedIsEarned ==
    Route.mode # "Deliberate" =>
        \E reply \in Replies : /\ <<packed, reply>> \in heard
                              /\ Decide(reply, tuning.decision) = Route.mode

\* The header of gate-route.ts: if the packed state is unchanged, the recorded
\* decision is the decision.  A line written under the gate files of today
\* about the state of today is what the card is routed by, or a stronger one.
RecordedIsTheDecision ==
    \A i \in DOMAIN file.lines :
        LET line == file.lines[i]
        IN  enabled /\ line.hash = packed /\ line.by = tuning =>
                Route.source = "recorded" /\ AtLeast(Route.mode, line.mode)

\* Later lines about an unchanged state, whatever their verdict, and torn or
\* lost appends, never route it to a cheaper mode than it was routed to.
RouteOnlyEscalates ==
    [][(Route.source = "recorded" /\ UNCHANGED settings) =>
           Route'.source = "recorded" /\ AtLeast(Route'.mode, Route.mode)]_vars

\* A re-check hands back no less deliberation than the recorded mode it began
\* with, and full deliberation when it got no usable verdict.
RatchetHolds ==
    \A s \in Sessions : told[s] # None =>
        /\ AtLeast(told[s].effective, told[s].recorded)
        /\ ~told[s].usable => told[s].effective = "Deliberate"

\* A draft is merged or dropped only on the service's own full answers: one
\* unanswered question, or a failed call, files it for a human.
UnsureDraftIsFiled ==
    \A i \in DOMAIN file.lines :
        LET line == file.lines[i]
        IN  line.mode \in {"Merge", "Drop"} =>
                /\ ~line.failed
                /\ \A q \in DOMAIN line.answers : line.answers[q] # None

\* The comment on decide: missing evidence drags toward Deliberate, never
\* toward a cheaper mode.  Withholding one answer of a recorded line must not
\* decide a cheaper mode than the line has.
MissingEvidenceIsSafe ==
    \A i \in DOMAIN file.lines :
        LET line == file.lines[i]
        IN  line.hash \in Hashes /\ ~line.failed =>
                \A q \in DOMAIN line.answers :
                    LET mode == Decide([line.answers EXCEPT ![q] = None], line.by.decision)
                    IN  mode # Throws => AtLeast(mode, line.mode)
=============================================================================
