SPECIFICATION Spec
CONSTANTS
    Parties = {a, b, c}
    Proposers = {q1}
    Confirmers = {o1}
    Loaders = {}
    ProposalIds = {i1, i2}
    NoParty = NoParty
    Awards = {w}
    Rebuilds = {r1, r2}
    MaxMergeDepth = 3
INVARIANTS EdgesAreLostToNewPartiesOnly
PROPERTIES UndisturbedGraphIsExact OnlyOvertakenPlansForget
SYMMETRY PartySymmetry
CHECK_DEADLOCK FALSE
