SPECIFICATION FairSpec
CONSTANTS
    catalog = catalog
    plain = plain
    page = page
    year = year
    fileA = fileA
    fileB = fileB
    gone = gone
    catalogUrl = catalogUrl
    plainUrl = plainUrl
    yearUrl = yearUrl
    urlA = urlA
    urlB = urlB
    goneUrl = goneUrl
    Workers = {w}
    Batches = {b}
    Sources <- MCSources
    UrlOf <- MCUrlOf
    Answers <- MCAnswers
    Catalogs = {catalog}
    Links <- MCLinks
    YearPages <- MCYearPages
    MaxChildren = 2
    MaxYearPages = 1
    MaxFaults = 2
    NoBody = NoBody
INVARIANTS RowsAreArchived CapturesAreWhole ChildrenAreCapturedOnce ParentsListTheirChildren
PROPERTIES ListedChildrenAreCaptured
CHECK_DEADLOCK FALSE
