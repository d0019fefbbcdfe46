SPECIFICATION Spec
CONSTANTS
    Loaders = {l1, l2}
    Publications <- AllPublications
    Signed <- AllSigned
    Bodies <- SomeBodies
    Documents <- SomeDocuments
    Budgets <- SomeBudgets
    Mixes <- SomeMixes
    DefaultAgency = Agency
    MaxRows = 3
    NoId = NoId
    NoName = NoName
    NoAmount = NoAmount
    First = First
    Second = Second
    Agency = Agency
    AgencyRespelt = AgencyRespelt
    Supplier = Supplier
    SupplierRespelt = SupplierRespelt
    FirstId = FirstId
    Ministry = Ministry
    Salaries = Salaries
    Road = Road
INVARIANTS NothingIsCountedTwice LoadsAreWhole BudgetIsOfOneDocument
PROPERTIES AmountsStayKnown LiveBeatsArchive
SYMMETRY LoaderSymmetry
CHECK_DEADLOCK FALSE
