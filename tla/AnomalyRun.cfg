SPECIFICATION RunSpec
CONSTANTS
    Runner = r1
    OtherRunner = r2
    Reviewer = v1
    OtherReviewer = v2
    Runners = {r1, r2}
    Reviewers = {v1, v2}
    FlagIds = {f1, f2, f3, f4}
    Keys <- MCKeys
    Ids <- MCIds
    Scenes <- MCScenes
    NoKey = NoKey
    Missing = Missing
    ShortWindowDays = 2
    ApprovalThresholds = {5, 10}
    HugPercent = 40
    RepeatMinAwards = 2
    RepeatWindowDays = 1
    OutlierMinN = 3
    OutlierMadK = 3
    TolerancePercent = 10
INVARIANTS OneOpenPerKey StickyAfterLookUp
PROPERTIES ReviewedIsFinal RunFlagsWhatIsWarranted
SYMMETRY RunSymmetry
CHECK_DEADLOCK FALSE
