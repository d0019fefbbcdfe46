----------------------------- MODULE MCOcdsLoad -----------------------------
(***************************************************************************)
(* Small files.  The first publication and the live portal are of one      *)
(* tender, the amount or the id left out in some of them, the supplier     *)
(* spelt in two ways, and in one file the agency too; the second           *)
(* publication and the legacy packages are of other tenders of the same    *)
(* agency.  The bill and the act of a year list the same two budget lines  *)
(* in other orders, one of them under the agency of the releases.          *)
(***************************************************************************)
EXTENDS OcdsLoad, TLC

CONSTANTS First, Second, Agency, AgencyRespelt, Supplier, SupplierRespelt, FirstId,
          Ministry, Salaries, Road

Listed(agency, supplier) ==
    <<[name |-> agency, agency |-> TRUE], [name |-> supplier, agency |-> FALSE]>>

Release(ocid, agency, supplier, id, amount) ==
    [ocid |-> ocid, parties |-> Listed(agency, supplier), procuring |-> NoName,
     titled |-> TRUE, amount |-> amount,
     awards |-> <<[id |-> id, suppliers |-> <<supplier>>, amount |-> amount]>>,
     contracts |-> <<[id |-> id, award |-> id, suppliers |-> <<supplier>>,
                      amount |-> amount]>>]

Priced == Release("t", Agency, SupplierRespelt, FirstId, 1)

\* With another award, to the other supplier, that has neither id nor amount.
AndNameless(r, supplier) ==
    [r EXCEPT !.awards = Append(@, [id |-> NoId, suppliers |-> <<supplier>>,
                                    amount |-> NoAmount])]

Respelt == Release("t", AgencyRespelt, SupplierRespelt, FirstId, NoAmount)
Live == Release("t", Agency, Supplier, FirstId, 2)
LiveNameless == [Live EXCEPT !.awards[1].id = NoId, !.contracts = <<>>]
Portal == AndNameless(Release("u", Agency, Supplier, FirstId, 1), SupplierRespelt)

\* An award to two suppliers, and a contract that leaves its suppliers out; only
\* the procuring entity names the agency.
Joint == [Release("v", Agency, Supplier, FirstId, 1) EXCEPT
              !.parties = <<>>, !.procuring = Agency,
              !.awards[1].suppliers = <<Supplier, SupplierRespelt>>,
              !.contracts[1].suppliers = <<>>]

\* No title, hence no tender and no award; no ocid.
Untitled == [Portal EXCEPT !.titled = FALSE]
Refused == [Portal EXCEPT !.ocid = NoId]

AllPublications == <<First, Second>>
AllSigned == {First, Second}

SomeBodies ==
    [p \in AllSigned |-> IF p = First
        THEN {<<Priced>>, <<AndNameless(Respelt, Supplier)>>} ELSE {<<Joint, Refused>>}]

SomeDocuments ==
    [kind \in {"live", "legacy"} |-> IF kind = "live"
        THEN {<<Live>>, <<LiveNameless>>}
        ELSE {<<Portal>>, <<Untitled, Portal>>, <<Portal, Refused>>}]

\* A ministry's salaries have a code, the road of the default agency has none.
SalariesRow(amount) ==
    [agency |-> Ministry, code |-> Salaries, description |-> Salaries, amount |-> amount]
RoadRow(code, amount) ==
    [agency |-> NoName, code |-> code, description |-> Road, amount |-> amount]
BlankRow == [agency |-> Ministry, code |-> NoId, description |-> NoName, amount |-> NoAmount]

Table(known, scale, lines) == [known |-> known, scale |-> scale, rows |-> lines]

Bill == [year |-> 1, tables |->
    <<Table(TRUE, 1000, <<SalariesRow(1), BlankRow, RoadRow(Road, 1)>>),
      Table(FALSE, 1, <<SalariesRow(9)>>)>>]

\* It lists the road again at its end, beyond the cap, and before without a code.
Act == [year |-> 1, tables |->
    <<Table(TRUE, 1, <<RoadRow(Road, 2)>>),
      Table(TRUE, 1, <<SalariesRow(NoAmount), RoadRow(NoId, NoAmount), RoadRow(Road, 7)>>)>>]

SomeBudgets == {Bill, Act}

SomeMixes ==
    {[releases |-> 3, budgets |-> 0], [releases |-> 1, budgets |-> 1],
     [releases |-> 0, budgets |-> 3]}

LoaderSymmetry == Permutations(Loaders)
=============================================================================
