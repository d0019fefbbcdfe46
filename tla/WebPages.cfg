SPECIFICATION FairSpec
CONSTANTS
    Types = {"company"}
    Texts = {"x"}
    States = {"EK", "LA"}
    Lgas = {"ADO"}
    Years = {"2024"}
    PartialYears = {"20"}
    MaxEvents = 4
    NoRow = NoRow
INVARIANTS PagesShowTheirQuery PickedRowIsShown FiltersFitTheTab
PROPERTIES LoadsEnd
CHECK_DEADLOCK FALSE
