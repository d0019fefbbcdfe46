------------------------------ MODULE OcdsLoad ------------------------------
(***************************************************************************)
(* Loads of OCDS releases and of budgets into the finance tables, side by  *)
(* side (finance/ocds_load.py, ocp_load.py, budget_load.py and             *)
(* normalize_load.py).                                                     *)
(* Every row is looked up by one statement and inserted or updated by      *)
(* another, and each statement sees what is committed by then and what its *)
(* own transaction wrote.  Postgres locks a written row to the end of the  *)
(* transaction, or to the rollback of its savepoint.                       *)
(*                                                                         *)
(* An archive load is one publication of the job that copies the OCP       *)
(* registry; a live load and a legacy one are of a document that was       *)
(* fetched.  Archive and live loads pass identity="ocp" and differ in the  *)
(* source_kind they stamp; a legacy load passes the default.  A budget     *)
(* load is of an appropriation document.                                   *)
(***************************************************************************)
EXTENDS BudgetMap, FiniteSets

CONSTANTS
    Loaders,       \* processes that load
    Publications,  \* PUBLICATIONS, in their order
    Signed,        \* those with a signed record of an open licence
    Bodies,        \* publication -> what its download may be, sequences of releases
    Documents,     \* "live" or "legacy" -> the packages there are, likewise
    Budgets,       \* appropriation documents
    Mixes          \* bound: how many loads of releases and of budgets may start

ASSUME OcdsLoadAssumption ==
    /\ DOMAIN Bodies = Signed /\ Signed \subseteq Range(Publications)
    /\ DOMAIN Documents = {"live", "legacy"}
    /\ Mixes \subseteq [{"releases", "budgets"} -> Nat]
    /\ MaxRows \in Nat

VARIABLES
    rows,         \* id -> committed row of parties, tenders, awards, contracts
                  \* or budget_lines
    extractions,  \* committed extractions, each with its provenance edges
    job,          \* loader -> the publications its job has left
    tx,           \* loader -> its transaction
    left          \* how many loads of either sort may still start

vars == <<rows, extractions, job, tx, left>>

Put(f, x, v) == [y \in DOMAIN f \cup {x} |-> IF y = x THEN v ELSE f[y]]
Drop(f, x) == [y \in DOMAIN f \ {x} |-> f[y]]
Over(f, g) == [y \in DOMAIN f \cup DOMAIN g |-> IF y \in DOMAIN f THEN f[y] ELSE g[y]]

(***************************************************************************)
(* Lookups.                                                                *)
(***************************************************************************)
SameSupplier(kind, item, row) ==
    kind = "legacy" /\ item.table \in {"award", "contract"}
        => row.supplier = item.supplier

\* = NULL is true of no row.
Matches(kind, item, table) ==
    {id \in DOMAIN table :
        /\ table[id].table = item.table /\ table[id].key = item.key
        /\ ~Nameless(item) /\ SameSupplier(kind, item, table[id])}

Seen(l) == Over(tx[l].own, rows)

(***************************************************************************)
(* The rules of spec 0041, section 3.1.                                    *)
(***************************************************************************)
ProtectLiveFromArchive(existing, kind) == existing.kind = "live" /\ kind = "archive"

\* Fault: a null is taken as it comes.
PickIncoming(existing, incoming, protect) == IF protect THEN existing ELSE incoming

PickValue(existing, incoming, protect) ==
    IF incoming = NoAmount \/ (protect /\ existing # NoAmount)
    THEN existing ELSE incoming

\* Fault: the archive's source_kind replaces the live one.
ShallowMergeKindDemoted(existing, kind) == kind

ShallowMergeKind(existing, kind) ==
    IF ProtectLiveFromArchive(existing, kind) THEN "live" ELSE kind

Inserted(kind, item) ==
    [table |-> item.table, key |-> item.key, supplier |-> item.supplier,
     amount |-> item.amount, kind |-> kind]

\* Fault: budget and legacy loads merge as the others do, and keep an amount
\* for which a null comes.
UpdatedByMerging(kind, existing, item) ==
    [existing EXCEPT
        !.supplier = item.supplier,
        !.amount = PickValue(@, item.amount, ProtectLiveFromArchive(existing, kind)),
        !.kind = ShallowMergeKind(existing, kind)]

\* A legacy or a budget load takes every amount as it comes.
Updated(kind, existing, item) ==
    IF kind \in {"legacy", "budget"}
    THEN [existing EXCEPT !.amount = item.amount, !.kind = kind]
    ELSE [existing EXCEPT
            !.supplier = item.supplier,
            !.amount = PickValue(@, item.amount, ProtectLiveFromArchive(existing, kind)),
            !.kind = ShallowMergeKind(existing, kind)]

(***************************************************************************)
(* Locks and unique indexes (party_type and name; ocid; the natural key of *)
(* a budget line).                                                         *)
(***************************************************************************)
Others(l) == DOMAIN tx \ {l}

HeldByOther(l, id) == \E o \in Others(l) : id \in DOMAIN tx[o].own

Unique(item) == item.table \in {"party", "tender", "line"}

InsertedByOther(l, item) ==
    Unique(item) /\ \E o \in Others(l) : Matches("archive", item, tx[o].own) # {}

Taken(item) == Unique(item) /\ Matches("archive", item, rows) # {}

UsedIds == DOMAIN rows \cup UNION {DOMAIN tx[l].own : l \in DOMAIN tx}
NextId == CHOOSE n \in 1..Cardinality(UsedIds) + 1 : n \notin UsedIds

(***************************************************************************)
(* The job: publication after publication, each in its own transaction.    *)
(***************************************************************************)
Unread == [read |-> FALSE]
NoRow == [read |-> TRUE, id |-> 0]
Nothing == [n \in {} |-> n]

Init ==
    /\ rows = Nothing
    /\ extractions = {}
    /\ job = Nothing
    /\ tx = Nothing
    /\ left \in Mixes

Readable(kind, r) == kind # "budget" => Normalises(r)

Asked(kind, r) == IF kind = "budget" THEN BudgetItems(r) ELSE Items(kind, r)

Files(kind) ==
    IF kind = "archive" THEN UNION Range(Bodies)
    ELSE IF kind = "budget" THEN {<<doc>> : doc \in Budgets} ELSE Documents[kind]

Releases(kind) == UNION {Range(file) : file \in Files(kind)}

AllAsked(kind) ==
    UNION {Range(Asked(kind, r)) : r \in {q \in Releases(kind) : Readable(kind, q)}}

\* What is counted: awards and contracts that have an id.
Counted(item) == item.table \in {"award", "contract"} /\ ~Nameless(item)

\* The row whose lock orders the loads of an award or a contract.
IsParent(row, item) ==
    /\ row.table = (IF item.table = "award" THEN "tender" ELSE "party")
    /\ row.key = item.key[1]

\* Releases ask for the tender before its awards, and for the agency before its
\* contracts.
ASSUME ParentsComeFirst ==
    \A kind \in Kinds \cup {"budget"} :
        /\ Files(kind) \subseteq Seq(Releases(kind))
        /\ \A r \in {q \in Releases(kind) : Readable(kind, q)} :
              LET items == Asked(kind, r)
              IN  /\ items \in Seq(AllAsked(kind))
                  /\ \A n \in 1..Len(items) :
                        Counted(items[n]) =>
                            /\ kind # "budget"
                            /\ \E m \in 1..(n - 1) : IsParent(items[m], items[n])

\* Spec 0041, section 3.1: no tender is loaded under both identities, as "the
\* default would double-count awards when the supplier string drifts".
ASSUME OneIdentity ==
    \A kind \in {"archive", "live"} :
        \A item \in AllAsked(kind), other \in AllAsked("legacy") :
            Counted(item) => <<item.table, item.key>> # <<other.table, other.key>>

\* A budget document asks for its agencies and lines, a release for no line.
ASSUME OnlyBudgetsListLines ==
    /\ \A item \in AllAsked("budget") : item.table \in {"party", "line"}
    /\ \A kind \in Kinds : \A item \in AllAsked(kind) : item.table # "line"

\* The lines of a document are a list.
ASSUME BudgetsAreLists ==
    \A doc \in Budgets : BudgetLines(doc) \in Seq(Range(BudgetLines(doc)))

\* The items of the first release that is left; one that does not normalise has none.
Todo(kind, file) ==
    IF file # <<>> /\ Readable(kind, Head(file)) THEN Asked(kind, Head(file)) ELSE <<>>

Begun(kind, file) ==
    [kind |-> kind, file |-> file, todo |-> Todo(kind, file), seen |-> Unread,
     own |-> Nothing, base |-> Nothing, done |-> {}, ok |-> TRUE]

Free(l) == l \notin DOMAIN job \cup DOMAIN tx

StartJob(l) ==
    /\ Free(l) /\ left.releases > 0
    /\ job' = Put(job, l, Publications)
    /\ UNCHANGED <<rows, extractions, tx, left>>

OnToNext(l) == IF Len(job[l]) = 1 THEN Drop(job, l) ELSE [job EXCEPT ![l] = Tail(@)]

Between(l) == l \in DOMAIN job \ DOMAIN tx

\* No signed record, or one of another licence; a page that shows none or another
\* one, or no date; a source that is not approved; a request that failed twice.
SkipPublication(l) ==
    /\ Between(l)
    /\ job' = OnToNext(l)
    /\ UNCHANGED <<rows, extractions, tx, left>>

\* 401 or 403, for the page or for the download, ends the job.
RegistryRefuses(l) ==
    /\ Between(l) /\ Head(job[l]) \in Signed
    /\ job' = Drop(job, l)
    /\ UNCHANGED <<rows, extractions, tx, left>>

BeginPublication(l) ==
    /\ Between(l) /\ Head(job[l]) \in Signed
    /\ left.releases > 0
    /\ left' = [left EXCEPT !.releases = @ - 1]
    /\ \E body \in Bodies[Head(job[l])] : tx' = Put(tx, l, Begun("archive", body))
    /\ UNCHANGED <<rows, extractions, job>>

\* The adapter normalises the whole package before the extraction is written: a
\* package with a release that does not normalise leaves nothing.
StartLoad(l, kind, package) ==
    /\ Free(l) /\ left.releases > 0
    /\ \A n \in 1..Len(package) : Normalises(package[n])
    /\ left' = [left EXCEPT !.releases = @ - 1]
    /\ tx' = Put(tx, l, Begun(kind, package))
    /\ UNCHANGED <<rows, extractions, job>>

\* One that is too large, or whose year nothing tells, is skipped.
StartBudget(l, doc) ==
    /\ Free(l) /\ left.budgets > 0
    /\ left' = [left EXCEPT !.budgets = @ - 1]
    /\ tx' = Put(tx, l, Begun("budget", <<doc>>))
    /\ UNCHANGED <<rows, extractions, job>>

(***************************************************************************)
(* A release, item by item.                                                *)
(***************************************************************************)
AtItem(l) == l \in DOMAIN tx /\ tx[l].todo # <<>>

Current(l) == Head(tx[l].todo)

Select(l) ==
    /\ AtItem(l) /\ tx[l].seen = Unread /\ Current(l).table # "line"
    /\ LET found == Matches(tx[l].kind, Current(l), Seen(l))
       IN  \/ /\ found = {}
              /\ tx' = [tx EXCEPT ![l].seen = NoRow]
           \/ \E id \in found :
                 tx' = [tx EXCEPT ![l].seen =
                           [read |-> TRUE, id |-> id, row |-> Seen(l)[id]]]
    /\ UNCHANGED <<rows, extractions, job, left>>

\* Fault: an update that would change nothing is left out.
AfterUnlessSame(l, id, row) ==
    [tx[l] EXCEPT !.todo = Tail(@), !.seen = Unread,
                  !.own = IF "row" \in DOMAIN tx[l].seen /\ tx[l].seen.row = row THEN @
                          ELSE Put(@, id, row)]

\* The transaction after it wrote, and locked, row id.
After(l, id, row) ==
    [tx[l] EXCEPT !.todo = Tail(@), !.seen = Unread, !.own = Put(@, id, row)]

InsertRow(l) ==
    /\ AtItem(l) /\ tx[l].seen = NoRow
    /\ ~InsertedByOther(l, Current(l)) /\ ~Taken(Current(l))
    /\ tx' = [tx EXCEPT ![l] = After(l, NextId, Inserted(tx[l].kind, Current(l)))]
    /\ UNCHANGED <<rows, extractions, job, left>>

\* UPDATE ... WHERE id: it waits for the row, and writes what was made of the
\* row the SELECT had seen.
UpdateRow(l) ==
    /\ AtItem(l) /\ tx[l].seen.read /\ tx[l].seen # NoRow
    /\ tx[l].kind # "budget"
    /\ ~HeldByOther(l, tx[l].seen.id)
    /\ tx' = [tx EXCEPT ![l] = After(l, tx[l].seen.id,
                  Updated(tx[l].kind, tx[l].seen.row, Current(l)))]
    /\ UNCHANGED <<rows, extractions, job, left>>

(***************************************************************************)
(* A budget line: its agency, then the line itself.                        *)
(***************************************************************************)
\* An agency that is there is neither written nor locked.
FindAgency(l) ==
    /\ AtItem(l) /\ tx[l].seen.read /\ tx[l].seen # NoRow
    /\ tx[l].kind = "budget"
    /\ tx' = [tx EXCEPT ![l].todo = Tail(@), ![l].seen = Unread]
    /\ UNCHANGED <<rows, extractions, job, left>>

\* INSERT ... ON CONFLICT ON CONSTRAINT uq_budget_lines_natural DO UPDATE
UpsertLine(l) ==
    /\ AtItem(l) /\ Current(l).table = "line"
    /\ ~InsertedByOther(l, Current(l))
    /\ LET found == Matches("budget", Current(l), Seen(l))
       IN  \/ /\ found = {}
              /\ tx' = [tx EXCEPT ![l] =
                            After(l, NextId, Inserted("budget", Current(l)))]
           \/ \E id \in found :
                 tx' = [tx EXCEPT ![l] =
                            After(l, id, Updated("budget", Seen(l)[id], Current(l)))]
    /\ UNCHANGED <<rows, extractions, job, left>>

(***************************************************************************)
(* Savepoints and the end of a load.                                       *)
(***************************************************************************)
InRelease(l) == l \in DOMAIN tx /\ tx[l].file # <<>>

AtNext(t) ==
    [t EXCEPT !.file = Tail(@), !.todo = Todo(t.kind, Tail(t.file)), !.seen = Unread]

EndRelease(l) ==
    /\ InRelease(l) /\ Readable(tx[l].kind, Head(tx[l].file)) /\ tx[l].todo = <<>>
    /\ tx' = [tx EXCEPT ![l] = [AtNext(tx[l]) EXCEPT
                                !.base = tx[l].own,
                                !.done = tx[l].done \cup {Head(tx[l].file)}]]
    /\ UNCHANGED <<rows, extractions, job, left>>

\* Fault: the rollback takes the releases before with it.
RolledBackToStart(t) == Nothing

RolledBack(t) == t.base

\* A unique index, a deadlock, a release that does not normalise: an archive
\* load rolls the release back to its savepoint, counts it failed and goes on.
ReleaseFails(l) ==
    /\ InRelease(l) /\ tx[l].kind = "archive"
    /\ tx' = [tx EXCEPT ![l] = [AtNext(@) EXCEPT !.own = RolledBack(tx[l])]]
    /\ UNCHANGED <<rows, extractions, job, left>>

\* Fault: there is no savepoint around the releases of a body.
UnreadableKept(t) == [t EXCEPT !.own = t.base]

Unreadable(t) == [t EXCEPT !.own = Nothing]

\* A body that cannot be read to its end: the rollback takes all releases and
\* the extraction, and a failed extraction is written instead.
BodyUnreadable(l) ==
    /\ l \in DOMAIN tx /\ tx[l].kind = "archive" /\ tx[l].ok
    /\ tx[l].todo = Todo("archive", tx[l].file) /\ tx[l].seen = Unread
    /\ tx' = [tx EXCEPT ![l] = [Unreadable(@) EXCEPT !.file = <<>>, !.todo = <<>>,
                                                     !.done = {}, !.ok = FALSE]]
    /\ UNCHANGED <<rows, extractions, job, left>>

\* Any other error, or the death of the process, ends the transaction and the job.
LoadFails(l) ==
    /\ l \in DOMAIN tx
    /\ tx' = Drop(tx, l)
    /\ job' = Drop(job, l)
    /\ UNCHANGED <<rows, extractions, left>>

\* A budget load links its lines only, not the agencies it had to insert.
Linked(t) ==
    IF ~t.ok THEN {}
    ELSE IF t.kind = "budget" THEN {id \in DOMAIN t.own : t.own[id].table = "line"}
    ELSE DOMAIN t.own

Extracted(t, releases) ==
    [kind |-> t.kind, ok |-> t.ok, releases |-> releases, edges |-> Linked(t)]

\* A text of the document that cannot be sent to Postgres: the worker fails the
\* job and commits the lines before it.
BudgetBreaksOff(l) ==
    /\ AtItem(l) /\ tx[l].kind = "budget"
    /\ rows' = Over(tx[l].own, rows)
    /\ extractions' = extractions \cup {Extracted(tx[l], {})}
    /\ tx' = Drop(tx, l)
    /\ UNCHANGED <<job, left>>

\* The extraction has an edge to each row that was inserted or updated.
Commit(l) ==
    /\ l \in DOMAIN tx /\ tx[l].file = <<>>
    /\ rows' = Over(tx[l].own, rows)
    /\ extractions' = extractions \cup {Extracted(tx[l], tx[l].done)}
    /\ tx' = Drop(tx, l)
    /\ job' = IF l \in DOMAIN job THEN OnToNext(l) ELSE job
    /\ UNCHANGED left

Next ==
    \E l \in Loaders :
        \/ StartJob(l) \/ SkipPublication(l) \/ RegistryRefuses(l) \/ BeginPublication(l)
        \/ \E kind \in DOMAIN Documents : \E package \in Documents[kind] :
              StartLoad(l, kind, package)
        \/ \E doc \in Budgets : StartBudget(l, doc)
        \/ Select(l) \/ InsertRow(l) \/ UpdateRow(l)
        \/ FindAgency(l) \/ UpsertLine(l)
        \/ EndRelease(l) \/ ReleaseFails(l)
        \/ BodyUnreadable(l) \/ LoadFails(l) \/ BudgetBreaksOff(l) \/ Commit(l)

Spec == Init /\ [][Next]_vars
-----------------------------------------------------------------------------
\* Spec 0041, section 3.1: no award and no contract is counted twice, however
\* the supplier is spelt.  No index says so: it is the lock on the tender, or
\* on the agency, that makes the second load look after the first committed.
\* Legacy loads keep one row for each supplier.
NothingIsCountedTwice ==
    \A id, other \in {n \in DOMAIN rows : Counted(rows[n])} :
        /\ id # other
        /\ rows[id].table = rows[other].table /\ rows[id].key = rows[other].key
        => /\ rows[id].kind = "legacy" /\ rows[other].kind = "legacy"
           /\ rows[id].supplier # rows[other].supplier

\* Null never erases (spec 0041, section 3.1), for awards and contracts: an
\* amount once known stays known, whichever loads overlap.
AmountsStayKnown ==
    [][\A id \in DOMAIN rows :
          /\ Counted(rows[id]) /\ rows[id].kind # "legacy" /\ rows[id].amount # NoAmount
          => rows'[id].amount # NoAmount]_vars

\* Live beats archive: an archive load never changes the amount of an award or
\* a contract that a live load wrote.
LiveBeatsArchive ==
    [][\A l \in DOMAIN tx \ DOMAIN tx' :
          tx[l].kind = "archive" /\ tx[l].file = <<>> =>
              \A id \in DOMAIN rows :
                  /\ Counted(rows[id]) /\ rows[id].kind = "live" /\ rows[id].amount # NoAmount
                  => rows'[id].amount = rows[id].amount /\ rows'[id].kind = "live"]_vars

\* What a load has counted is there: a release with all its rows, whatever became
\* of the others of its file, and a document with all its budget lines.  And what
\* is there has evidence, an edge from the extraction of a load that did not fail:
\* no row stays of a release or of a body that failed.  The agency that a budget
\* load had to insert has none.
LoadsAreWhole ==
    /\ \A e \in extractions : \A r \in e.releases : \A n \in 1..Len(Asked(e.kind, r)) :
          LET item == Asked(e.kind, r)[n]
          IN  Nameless(item) \/ Matches("archive", item, rows) # {}
    /\ \A id \in DOMAIN rows :
          \/ rows[id].table = "party" /\ rows[id].kind = "budget"
          \/ \E e \in extractions : e.ok /\ id \in e.edges

\* Two documents of one year that list the same lines, the bill and the act, are
\* never mixed: all lines are as one of them says, the one that was loaded last,
\* in whatever order both list them.  A load that broke off mixes them.
ListedAt(doc, id) ==
    {n \in 1..Len(BudgetLines(doc)) :
        LineItem(doc, BudgetLines(doc)[n]).key = rows[id].key}

Says(doc, id) ==
    LET listed == ListedAt(doc, id)
    IN  listed # {} /\ BudgetLines(doc)[Max(listed)].amount = rows[id].amount

BudgetIsOfOneDocument ==
    LET budgets == {e \in extractions : e.kind = "budget"}
        loaded == UNION {e.releases : e \in budgets}
        lines == {id \in DOMAIN rows : rows[id].table = "line"}
    IN  (\A e \in budgets : e.releases # {}) =>
            \A id, other \in lines :
                {doc \in loaded : ListedAt(doc, id) # {}}
                    = {doc \in loaded : ListedAt(doc, other) # {}}
                => \E doc \in loaded : Says(doc, id) /\ Says(doc, other)
=============================================================================
