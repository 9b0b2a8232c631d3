-------------------------------- MODULE MCGate --------------------------------
\* The packaged questions and policies of council/gate, in tenths.
EXTENDS Gate, TLC

Decisions == INSTANCE GateDecide WITH
    QuestionOrder <- <<"reversible", "publicContract", "blastRadius", "decidablyTestable",
                       "duplicate", "alreadyDone", "actionable">>

MCDecide(answers, policy) == Decisions!DecideMode(answers, policy)

CardQuestions  == {"reversible", "publicContract", "blastRadius", "decidablyTestable"}
DraftQuestions == {"duplicate", "alreadyDone", "actionable"}

Noul(p) == [type |-> "noul", p |-> p]
Choice(pick, confidence, yes) ==
    [type |-> "choice", pick |-> pick, confidence |-> confidence,
     probs |-> [yes |-> yes, no |-> 10 - yes]]

-----------------------------------------------------------------------------
\* A card: plainly mechanical, fairly so, one with a wide blast radius, and
\* one the service answered unusably.
Reply(reversible, contract, blast, testable) ==
    "reversible" :> reversible @@ "publicContract" :> contract
        @@ "blastRadius" :> blast @@ "decidablyTestable" :> testable

Plain    == Reply(Noul(10), Noul(0), Noul(0), Choice("yes", 9, 10))
Fair     == Reply(Noul(8), Noul(2), Noul(2), Choice("yes", 8, 7))
Wide     == Reply(Noul(10), Noul(0), Noul(9), Choice("yes", 9, 10))
Unusable == Reply(Noul(10), Noul(0), Noul(0), Choice("yes", None, 10))

MCReplies   == {Plain, Fair, Wide, Unusable}
MCNoAnswers == [q \in CardQuestions |-> None]

Policy(version, verify, direct) ==
    [version |-> version, verify |-> verify, direct |-> direct,
     weights |-> [q \in CardQuestions |-> 1],
     mechanical |-> [q \in CardQuestions |->
                        IF q \in {"reversible", "decidablyTestable"} THEN "yes" ELSE "no"],
     floors |-> [choice |-> 7, score |-> 7],
     noulThreshold |-> 6, noulProbabilityOf |-> "yes",
     overrides |-> <<[question |-> "reversible", option |-> "no"],
                     [question |-> "publicContract", option |-> "yes"],
                     [question |-> "blastRadius", option |-> "yes"]>>]

\* A repository whose gate files agree on the version; its thresholds are
\* raised, once with a new version and once without.
MCTunings == {[policyVersion |-> "v1", decision |-> Policy("v1", 26, 34)],
              [policyVersion |-> "v1", decision |-> Policy("v1", 34, 40)],
              [policyVersion |-> "v2", decision |-> Policy("v2", 30, 38)]}

\* The packaged files.
PackagedTunings == {[policyVersion |-> "gate-policy-1", decision |-> Policy("gate-decision-1", 26, 34)]}

-----------------------------------------------------------------------------
\* A draft: a plain duplicate, already done, new work, a half-answered one.
DraftReply(duplicate, done, actionable) ==
    "duplicate" :> duplicate @@ "alreadyDone" :> done @@ "actionable" :> actionable

Duplicate == DraftReply(Noul(9), Noul(0), Choice("yes", 9, 9))
Done      == DraftReply(Noul(1), Noul(9), Choice("no", 9, 1))
Half      == DraftReply(Noul(9), None, Choice("no", 9, 1))

MCDraftReplies   == {Duplicate, Done, Half}
MCNoDraftAnswers == [q \in DraftQuestions |-> None]

DraftPolicy ==
    [weights |-> [q \in DraftQuestions |-> 1],
     countedOption |-> [q \in DraftQuestions |-> IF q = "actionable" THEN "no" ELSE "yes"],
     floors |-> [choice |-> 6], noulThreshold |-> 6, noulProbabilityOf |-> "yes",
     merge |-> 10, drop |-> 20,
     overrides |-> <<[question |-> "alreadyDone", option |-> "yes", disposition |-> "Drop"],
                     [question |-> "duplicate", option |-> "yes", disposition |-> "Merge"]>>]

MCDispose(answers) == Decisions!FollowupDisposition(answers, DraftPolicy)

Sym == Permutations(Sessions) \cup Permutations(Hashes)
=============================================================================
