SPECIFICATION PartySpec
CONSTANTS
    Parties = {a, b, c, d}
    Proposers = {q1}
    Confirmers = {o1}
    Loaders = {l1}
    ProposalIds = {i1, i2, i3}
    NoParty = NoParty
INVARIANTS ConfirmedPairsAreOne
PROPERTIES MergesAreDecidedOnce MergeHandsOnNames
SYMMETRY PartySymmetry
CHECK_DEADLOCK FALSE
