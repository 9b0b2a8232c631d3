\* Two sessions, two packed states of the card, one draft; a repository whose
\* gate files agree on the version.
CONSTANTS
    Sessions = {s1, s2}
    Hashes = {h1, h2}
    Drafts = {d1}
    Replies <- MCReplies
    DraftReplies <- MCDraftReplies
    NoAnswers <- MCNoAnswers
    NoDraftAnswers <- MCNoDraftAnswers
    Tunings <- MCTunings
    DraftVersion = "followup-decision-1"
    Decide <- MCDecide
    Dispose <- MCDispose
    Throws = "throws"
    None = none
    Unpackable = unpackable
    MaxCalls = 2
    MaxFaults = 1
SPECIFICATION Spec
SYMMETRY Sym
INVARIANTS OneLinePerCall ReducedIsEarned RecordedIsTheDecision RatchetHolds UnsureDraftIsFiled
PROPERTY RouteOnlyEscalates
CHECK_DEADLOCK FALSE
