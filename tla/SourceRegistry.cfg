SPECIFICATION FairRegistrySpec
CONSTANTS
    oldUrl = oldUrl
    newUrl = newUrl
    formUrl = formUrl
    goneUrl = goneUrl
    print1 = print1
    print2 = print2
    Urls = {oldUrl, newUrl, formUrl, goneUrl}
    Operators = {o1}
    Seeders = {z1}
    Monitors = {m1}
    Roles = {"leaf", "search_ui"}
    ProposedRoles = {"leaf"}
    Obsolete <- MCObsolete
    PlaywrightUrls = {newUrl}
    Catalog <- MCCatalog
    Tables <- MCTables
    Answers <- MCAnswers
    MaxCalls = 2
    MaxDeaths = 1
    NoUrl = NoUrl
    NoMethod = NoMethod
    NoPrint = NoPrint
INVARIANTS RegistryTypeOK
PROPERTIES SeedSettles ApprovedSourcesAreChecked
CHECK_DEADLOCK FALSE
