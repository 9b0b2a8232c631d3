\* The packaged gate files.
CONSTANTS
    Sessions = {s1, s2}
    Hashes = {h1, h2}
    Drafts = {d1}
    Replies <- MCReplies
    DraftReplies <- MCDraftReplies
    NoAnswers <- MCNoAnswers
    NoDraftAnswers <- MCNoDraftAnswers
    Tunings <- PackagedTunings
    DraftVersion = "followup-decision-1"
    Decide <- MCDecide
    Dispose <- MCDispose
    Throws = "throws"
    None = none
    Unpackable = unpackable
    MaxCalls = 2
    MaxFaults = 1
SPECIFICATION Spec
INVARIANT RecordedIsTheDecision
CHECK_DEADLOCK FALSE
