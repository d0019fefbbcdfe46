----------------------------- MODULE BudgetMap ------------------------------
(***************************************************************************)
(* From the tables of an appropriation document to the budget lines it     *)
(* asks for (finance/budget_map.py).  A document is its fiscal year and    *)
(* the tables the PDF parser found; a table says if a header of it was     *)
(* recognised, in what unit its amounts are, and its rows.  A cell that is *)
(* blank, or whose column was not recognised, is missing.                  *)
(***************************************************************************)
EXTENDS OcdsNormalise

CONSTANTS
    DefaultAgency,  \* default_agency
    MaxRows         \* normalize_load_max_rows

\* Nothing but an agency, or not even that.
Skipped(row) ==
    row.description = NoName /\ row.amount = NoAmount /\ row.code = NoId

AgencyName(row) == IF row.agency = NoName THEN DefaultAgency ELSE row.agency

Allocated(table, row) ==
    IF row.amount = NoAmount THEN NoAmount ELSE row.amount * table.scale

\* A row without a code is known by what it says; an amount that is missing
\* counts as 0 there.
LineCode(table, row) ==
    IF row.code # NoId THEN row.code
    ELSE <<AgencyName(row), row.description,
           IF row.amount = NoAmount THEN 0 ELSE Allocated(table, row)>>

LineOf(table, row) ==
    [agency |-> AgencyName(row), code |-> LineCode(table, row),
     amount |-> Allocated(table, row)]

TableLines(table) ==
    LET kept == SelectSeq(table.rows, LAMBDA row : ~Skipped(row))
    IN  IF table.known THEN [n \in 1..Len(kept) |-> LineOf(table, kept[n])] ELSE <<>>

\* The cap is on the lines of all tables together.
BudgetLines(doc) ==
    LET all == FlattenSeq([n \in 1..Len(doc.tables) |-> TableLines(doc.tables[n])])
    IN  SubSeq(all, 1, IF Len(all) < MaxRows THEN Len(all) ELSE MaxRows)

LineItem(doc, line) ==
    [table |-> "line", key |-> <<doc.year, line.agency, line.code>>,
     supplier |-> NoName, amount |-> line.amount]

\* The agency is looked up again for each line.
BudgetItems(doc) ==
    FlattenSeq([n \in 1..Len(BudgetLines(doc)) |->
        <<PartyItem(BudgetLines(doc)[n].agency), LineItem(doc, BudgetLines(doc)[n])>>])
=============================================================================
