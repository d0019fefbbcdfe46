SPECIFICATION PartySpec
CONSTANTS
    Parties = {a, b, c}
    Proposers = {q1}
    Confirmers = {o1, o2}
    Loaders = {}
    ProposalIds = {i1, i2}
    NoParty = NoParty
PROPERTIES MergedOnce
CHECK_DEADLOCK FALSE
