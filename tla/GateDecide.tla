------------------------------ MODULE GateDecide ------------------------------
(***************************************************************************)
(* The two pure decision functions of extensions/gate.ts: decide, which    *)
(* turns the decisions service's answers about a card into an execution    *)
(* mode, and decideFollowup, which turns its answers about a drafted       *)
(* follow-up card into a disposition.                                      *)
(*                                                                         *)
(* A probability or a confidence is a whole number of tenths, and so are   *)
(* the weighted sums and the thresholds.  An answer keeps what the         *)
(* functions read of it: a noul answer its probability, a choice or score  *)
(* answer the option it picked, its confidence and its probabilities.      *)
(***************************************************************************)
EXTENDS Integers, Sequences, FiniteSetsExt

CONSTANTS
    QuestionOrder,   \* the order answers are visited in
    None,            \* an unanswered question, an absent number
    Throws           \* no value: the function threw

Unit == 10

Answered(answers, q) == q \in DOMAIN answers /\ answers[q] # None

\* The probability of one side of an answer; an option without one counts 0.
SideProbability(answer, option, policy) ==
    IF answer.type = "noul"
    THEN IF option = policy.noulProbabilityOf THEN answer.p ELSE Unit - answer.p
    ELSE IF option \in DOMAIN answer.probs THEN answer.probs[option] ELSE 0

\* A probability outside [0, 1] throws, as does a type nobody knows.
BadNoul(answer)          == answer.type = "noul" /\ answer.p \notin 0 .. Unit
BadSide(answer, option)  == /\ answer.type \in {"choice", "score"}
                            /\ option \in DOMAIN answer.probs
                            /\ answer.probs[option] \notin 0 .. Unit
UnknownType(answer)      == answer.type \notin {"choice", "score", "noul"}

\* An override reads the answer itself, never a probability one could argue.
OverrideFires(answer, option, policy) ==
    IF answer.type = "noul"
    THEN 2 * SideProbability(answer, option, policy) > Unit
    ELSE answer.pick = option

OverrideThrows(answer) == BadNoul(answer) \/ UnknownType(answer)

\* The positions of the override rules with something to say; the first speaks.
Hits(answers, policy) ==
    {i \in DOMAIN policy.overrides :
        LET rule == policy.overrides[i]
            answer == answers[rule.question]
        IN  /\ Answered(answers, rule.question)
            /\ OverrideThrows(answer) \/ OverrideFires(answer, rule.option, policy)}

First(positions) == CHOOSE i \in positions : \A h \in positions : i <= h

FloorThrows(answer) ==
    \/ BadNoul(answer) \/ UnknownType(answer)
    \/ answer.type \in {"choice", "score"} /\ answer.confidence = None

BelowFloor(answer, policy) ==
    IF answer.type = "noul"
    THEN answer.p < policy.noulThreshold /\ Unit - answer.p < policy.noulThreshold
    ELSE answer.confidence < policy.floors[answer.type]

\* The positions, among `questions`, of the answers that stop at a floor.
Unsure(answers, policy, questions) ==
    {i \in DOMAIN questions :
        /\ Answered(answers, questions[i])
        /\ FloorThrows(answers[questions[i]]) \/ BelowFloor(answers[questions[i]], policy)}

\* The raw weighted sum: an unanswered question contributes nothing.
Composite(answers, policy, counted) ==
    MapThenSumSet(LAMBDA q : policy.weights[q] * SideProbability(answers[q], counted[q], policy),
                  {q \in DOMAIN policy.weights : Answered(answers, q)})

SumThrows(answers, policy, counted) ==
    \E q \in DOMAIN policy.weights : Answered(answers, q) /\ BadSide(answers[q], counted[q])

-----------------------------------------------------------------------------
(* decide: overrides, then floors, then positive evidence. *)
DecideMode(answers, policy) ==
    LET hits      == Hits(answers, policy)
        unsure    == Unsure(answers, policy, QuestionOrder)
        composite == Composite(answers, policy, policy.mechanical)
    IN  CASE hits # {} ->
                IF OverrideThrows(answers[policy.overrides[First(hits)].question])
                THEN Throws ELSE "Deliberate"
          [] hits = {} /\ unsure # {} ->
                IF FloorThrows(answers[QuestionOrder[First(unsure)]])
                THEN Throws ELSE "Deliberate"
          [] OTHER ->
                IF SumThrows(answers, policy, policy.mechanical) THEN Throws
                ELSE IF composite >= policy.direct THEN "Direct"
                ELSE IF composite >= policy.verify THEN "Verify"
                ELSE "Deliberate"

\* Faulty: a draft is decided as a card is, silence counting 0.
DispositionOfAnswered(answers, policy) ==
    LET hits      == Hits(answers, policy)
        composite == Composite(answers, policy, policy.countedOption)
    IN  IF hits # {} THEN policy.overrides[First(hits)].disposition
        ELSE IF composite >= policy.drop THEN "Drop"
        ELSE IF composite >= policy.merge THEN "Merge"
        ELSE "File"

(* decideFollowup: an unanswered weighted question is filed outright; then *)
(* floors (a score answer has none, and throws), overrides, the composite. *)
FollowupDisposition(answers, policy) ==
    LET unanswered == {q \in DOMAIN policy.weights : ~Answered(answers, q)}
        weighted   == SelectSeq(QuestionOrder, LAMBDA q : q \in DOMAIN policy.weights)
        others     == SelectSeq(QuestionOrder, LAMBDA q : q \notin DOMAIN policy.weights)
        visited    == weighted \o others
        unsure     == {i \in DOMAIN visited :
                          /\ Answered(answers, visited[i])
                          /\ \/ answers[visited[i]].type = "score"
                             \/ FloorThrows(answers[visited[i]])
                             \/ BelowFloor(answers[visited[i]], policy)}
        hits       == Hits(answers, policy)
        composite  == Composite(answers, policy, policy.countedOption)
    IN  CASE unanswered # {} -> "File"
          [] unanswered = {} /\ unsure # {} ->
                LET answer == answers[visited[First(unsure)]]
                IN  IF answer.type = "score" \/ FloorThrows(answer) THEN Throws ELSE "File"
          [] unanswered = {} /\ unsure = {} /\ hits # {} ->
                policy.overrides[First(hits)].disposition
          [] OTHER ->
                IF SumThrows(answers, policy, policy.countedOption) THEN Throws
                ELSE IF composite >= policy.drop THEN "Drop"
                ELSE IF composite >= policy.merge THEN "Merge"
                ELSE "File"
=============================================================================
