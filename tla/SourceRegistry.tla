--------------------------- MODULE SourceRegistry ---------------------------
(***************************************************************************)
(* The registry of sources (engine/src/naijaledger/sources, .../seeds):    *)
(* operators who propose, edit, approve, demote and retire sources, the    *)
(* seed run ("make seed-sources") and the health monitor ("make            *)
(* health-monitor").  Each of these is one transaction; rows are the       *)
(* committed rows, tx the open transactions.  A call of                    *)
(* sources/service.py reads the row, checks its status and then updates it *)
(* by its id alone, in a second statement.  A url stands for the pair      *)
(* (url, format), which is unique.                                         *)
(***************************************************************************)
EXTENDS Naturals, Sequences, FiniteSets, SequencesExt

CONSTANTS
    Urls,
    Operators, Seeders, Monitors,
    Roles,           \* ingest roles that occur
    ProposedRoles,   \* roles that operators give to the sources they propose
    Obsolete,        \* seq of [url, to, method]: where seeded sources moved to
    PlaywrightUrls,  \* _PLAYWRIGHT_SOURCE_URLS
    Catalog,         \* SEED_CATALOG, a seq of [url, role, method, proposed]
    Tables,          \* what the registry may hold at first
    Answers,         \* url -> what a probe may find; {} where none is allowed
    MaxCalls,        \* bound: calls of operators and seed runs
    MaxDeaths,       \* bound: processes that die
    NoUrl,           \* to, for a source that is retired instead
    NoMethod,        \* method, when the correction leaves it as it is
    NoPrint          \* NULL in schema_fingerprint

SeedAutoApproveRoles == {"leaf", "catalog"}
Statuses == {"proposed", "approved", "retired"}
Methods == {"http", "scrapling", "playwright", "api", "manual"}
HealthStatuses == {"unknown", "healthy", "degraded", "down", "tls_expired"}
Prints == {NoPrint} \cup {a.print : a \in UNION {Answers[u] : u \in Urls}}

SourceRows ==
    [url : Urls, role : Roles, method : Methods, status : Statuses,
     health : HealthStatuses, print : Prints]

At(table, url) == {id \in DOMAIN table : table[id].url = url}
OneRowPerUrl(table) == \A url \in Urls : Cardinality(At(table, url)) <= 1

ASSUME SourceRegistryAssumption ==
    /\ Roles \subseteq {"leaf", "catalog", "discovery_ui", "search_ui"}
    /\ ProposedRoles \subseteq Roles
    /\ Obsolete \in Seq([url : Urls, to : Urls \cup {NoUrl}, method : Methods \cup {NoMethod}])
    /\ Catalog \in Seq([url : Urls, role : Roles, method : Methods, proposed : BOOLEAN])
    /\ PlaywrightUrls \subseteq Urls
    /\ \A n \in DOMAIN Catalog :
          /\ Catalog[n].url \in PlaywrightUrls => Catalog[n].method = "playwright"
          /\ \A m \in DOMAIN Catalog : Catalog[m].url = Catalog[n].url => m = n
    /\ \A n \in DOMAIN Obsolete :
          /\ \A m \in DOMAIN Obsolete : Obsolete[n].to # Obsolete[m].url
          /\ \A m \in DOMAIN Catalog : Obsolete[n].url # Catalog[m].url
    /\ \A table \in Tables :
          /\ DOMAIN table \subseteq Nat /\ IsFiniteSet(DOMAIN table)
          /\ table \in [DOMAIN table -> SourceRows]
          /\ OneRowPerUrl(table)
    /\ Seeders \cap (Operators \cup Monitors) = {}
    /\ DOMAIN Answers = Urls /\ NoUrl \notin Urls
    /\ MaxCalls \in Nat /\ MaxDeaths \in Nat

VARIABLES
    rows,    \* id -> committed row
    tx,      \* process -> its transaction
    calls,   \* how many calls were begun
    deaths

registryVars == <<rows, tx, calls, deaths>>

Over(f, g) == [x \in DOMAIN f \cup DOMAIN g |-> IF x \in DOMAIN f THEN f[x] ELSE g[x]]
With(f, x, v) == Over([y \in {x} |-> v], f)
Without(f, x) == [y \in DOMAIN f \ {x} |-> f[y]]
Empty == [x \in {} |-> x]

Seen(p) == Over(tx[p].own, rows)
Others(p) == DOMAIN tx \ {p}

UsedIds == DOMAIN rows \cup (UNION {DOMAIN tx[p].own : p \in DOMAIN tx})
               \cup {tx[p].calls[1].id : p \in {q \in DOMAIN tx : tx[q].calls # <<>>}}
NextId == CHOOSE n \in 1..Cardinality(UsedIds) + 1 : n \notin UsedIds

(***************************************************************************)
(* Calls of sources/service.py: on a row with a status in from they set    *)
(* some columns, with one in idle they do nothing, otherwise they raise.   *)
(***************************************************************************)
Call(id, from, idle, set) == [id |-> id, from |-> from, idle |-> idle, set |-> set]

UpdateSource(id, set) == Call(id, {"proposed", "approved"}, {}, set)
ApproveSource(id) == Call(id, {"proposed"}, {}, [status |-> "approved"])
DemoteToProposed(id) == Call(id, {"approved"}, {"proposed"}, [status |-> "proposed"])
RetireSource(id) == Call(id, {"proposed", "approved"}, {}, [status |-> "retired"])

\* INSERT: there is no row to check.
CreateSource(id, url, role, method) ==
    Call(id, {}, {}, [url |-> url, role |-> role, method |-> method,
                      status |-> "proposed", health |-> "unknown", print |-> NoPrint])

Inserts(call) == call.from = {}

(***************************************************************************)
(* The seed run: corrections, then fetch methods, then the catalog.        *)
(***************************************************************************)
MoveItems == [n \in DOMAIN Obsolete |-> [op |-> "move", what |-> Obsolete[n]]]
EntryItems == [n \in DOMAIN Catalog |-> [op |-> "entry", what |-> Catalog[n]]]
MethodsItem == <<[op |-> "methods"]>>

\* Fault: fetch methods before the corrections.
SeedItemsMethodsFirst == MethodsItem \o MoveItems \o EntryItems

SeedItems == MoveItems \o MethodsItem \o EntryItems

\* A source at an obsolete url is moved, or retired when it has no new url or
\* the new url is taken.  (Its row and the one at the new url are two SELECTs.)
MoveCalls(table, o) ==
    LET Retired(id) == IF table[id].status = "retired" THEN {} ELSE {RetireSource(id)}
        method == IF o.method = NoMethod THEN Empty ELSE [method |-> o.method]
    IN  UNION {IF o.to = NoUrl \/ At(table, o.to) \ {id} # {} THEN Retired(id)
               ELSE {UpdateSource(id, Over([url |-> o.to], method))} : id \in At(table, o.url)}

MethodCalls(table) ==
    {UpdateSource(id, [method |-> "playwright"]) :
        id \in {i \in DOMAIN table : /\ table[i].url \in PlaywrightUrls
                                     /\ table[i].method # "playwright"}}

AutoApproved(e) == ~e.proposed /\ e.role \in SeedAutoApproveRoles

StatusCalls(table, e) ==
    UNION {IF AutoApproved(e)
           THEN IF table[id].status = "proposed" THEN {ApproveSource(id)} ELSE {}
           ELSE IF table[id].status = "approved" THEN {DemoteToProposed(id)} ELSE {}
           : id \in At(table, e.url)}

WrongRole(table, e) == {id \in At(table, e.url) : table[id].role # e.role}

EntryCalls(table, e) ==
    IF At(table, e.url) = {}
    THEN <<CreateSource(NextId, e.url, e.role, e.method)>>
         \o (IF AutoApproved(e) THEN <<ApproveSource(NextId)>> ELSE <<>>)
    ELSE IF WrongRole(table, e) # {}
    THEN SetToSeq({UpdateSource(id, [role |-> e.role]) : id \in WrongRole(table, e)})
    ELSE SetToSeq(StatusCalls(table, e))

(***************************************************************************)
(* The health monitor.                                                     *)
(***************************************************************************)
\* code 0: no answer.  tls is "expired", "soon" or "ok" ("ok" without TLS).
DeriveHealthStatus(a, previous) ==
    LET drift == previous # NoPrint /\ a.print # NoPrint /\ a.print # previous
    IN  IF a.tls = "expired" THEN "tls_expired"
        ELSE IF a.code = 0 \/ a.code >= 500 THEN "down"
        ELSE IF a.code >= 400 \/ a.tls = "soon" \/ drift THEN "degraded"
        ELSE "healthy"

\* Fault: a source that does not answer is left as it is.
HealthOfAnswer(s, a) ==
    IF a.code = 0 THEN <<>>
    ELSE <<UpdateSource(s.id, [health |-> DeriveHealthStatus(a, s.print)])>>

\* The first fingerprint is kept.
HealthCalls(s, a) ==
    LET health == [health |-> DeriveHealthStatus(a, s.print)]
    IN  <<UpdateSource(s.id, IF s.print = NoPrint /\ a.print # NoPrint
                             THEN Over(health, [print |-> a.print]) ELSE health)>>

\* What list_sources returned, newest first: url and fingerprint of that moment.
NewestFirst(ids) == CHOOSE list \in SetToSeqs(ids) :
                       \A m, n \in DOMAIN list : m < n => list[m] > list[n]
ApprovedIds == {id \in DOMAIN rows : rows[id].status = "approved"}
Probe(id) == [op |-> "probe",
              what |-> [id |-> id, url |-> rows[id].url, print |-> rows[id].print]]

(***************************************************************************)
(* Actions.  items are what is left of a command, calls the calls that its *)
(* last item led to.  alone is a history of the transaction: nobody else   *)
(* has committed since it began.                                           *)
(***************************************************************************)
RegistryInit ==
    /\ rows \in Tables
    /\ tx = Empty
    /\ calls = 0 /\ deaths = 0

Begin(p, items, first) ==
    /\ p \notin DOMAIN tx
    /\ tx' = With(tx, p, [items |-> items, calls |-> first, checked |-> FALSE,
                         own |-> Empty, alone |-> TRUE])
    /\ UNCHANGED <<rows, deaths>>

Counted == calls < MaxCalls /\ calls' = calls + 1

OperatorCalls ==
    (UNION {{ApproveSource(id), DemoteToProposed(id), RetireSource(id)} : id \in DOMAIN rows})
    \cup {UpdateSource(id, [url |-> url]) : id \in DOMAIN rows, url \in Urls}
    \cup {CreateSource(NextId, url, role, "http") : url \in Urls, role \in ProposedRoles}

Operate(p) == Counted /\ \E call \in OperatorCalls : Begin(p, <<>>, <<call>>)
ApplySeedCatalog(p) == Counted /\ Begin(p, SeedItems, <<>>)

RunHealthMonitor(p) ==
    /\ ApprovedIds # {}
    /\ LET ids == NewestFirst(ApprovedIds)
       IN  Begin(p, [n \in DOMAIN ids |-> Probe(ids[n])], <<>>)
    /\ UNCHANGED calls

\* The calls that the next item leads to.
CallsFor(p, item) ==
    CASE item.op = "move" -> {SetToSeq(MoveCalls(Seen(p), item.what))}
      [] item.op = "methods" -> {SetToSeq(MethodCalls(Seen(p)))}
      [] item.op = "entry" -> {EntryCalls(Seen(p), item.what)}
      [] item.op = "status" -> {SetToSeq(StatusCalls(Seen(p), item.what))}
      [] item.op = "probe" -> {HealthCalls(item.what, a) : a \in Answers[item.what.url]}

\* An entry whose role was corrected is read again for its status.
ItemsAfter(p, item) ==
    IF item.op = "entry" /\ WrongRole(Seen(p), item.what) # {}
    THEN <<[op |-> "status", what |-> item.what]>> ELSE <<>>

Look(p) ==
    /\ p \in DOMAIN tx /\ tx[p].calls = <<>> /\ tx[p].items # <<>>
    /\ LET item == Head(tx[p].items)
       IN  \E next \in CallsFor(p, item) :
              tx' = [tx EXCEPT ![p].items = ItemsAfter(p, item) \o Tail(@),
                               ![p].calls = next]
    /\ UNCHANGED <<rows, calls, deaths>>

(***************************************************************************)
(* One call.                                                               *)
(***************************************************************************)
Calls(p) == p \in DOMAIN tx /\ tx[p].calls # <<>>
Current(p) == Head(tx[p].calls)
StatusSeen(p) == Seen(p)[Current(p).id].status

\* The SELECT of the row, and the check of its status.
Check(p) ==
    /\ Calls(p) /\ ~tx[p].checked /\ ~Inserts(Current(p))
    /\ \/ /\ StatusSeen(p) \in Current(p).from
          /\ tx' = [tx EXCEPT ![p].checked = TRUE]
       \/ /\ StatusSeen(p) \in Current(p).idle
          /\ tx' = [tx EXCEPT ![p].calls = Tail(@)]
    /\ UNCHANGED <<rows, calls, deaths>>

Ready(p) == Calls(p) /\ (tx[p].checked \/ Inserts(Current(p)))

\* Fault: a statement waits for who wrote its row, but not for its url.
WaitsForRow(p) ==
    IF ~Ready(p) THEN {} ELSE {q \in Others(p) : Current(p).id \in DOMAIN tx[q].own}

\* Whose end a statement waits for: who wrote its row, or has put a row at its
\* url or taken one from there.
NewUrl(p) == IF "url" \in DOMAIN Current(p).set THEN {Current(p).set.url} ELSE {}
UrlsHeld(q) == {tx[q].own[id].url : id \in DOMAIN tx[q].own}
                   \cup {rows[id].url : id \in DOMAIN tx[q].own \cap DOMAIN rows}
WaitsFor(p) ==
    IF ~Ready(p) THEN {}
    ELSE {q \in Others(p) : \/ Current(p).id \in DOMAIN tx[q].own
                            \/ NewUrl(p) \cap UrlsHeld(q) # {}}

UrlTaken(p) == \E url \in NewUrl(p) : At(Seen(p), url) \ {Current(p).id} # {}

\* The INSERT, or the UPDATE ... WHERE id = :id of the row as it is by now.
Write(p) ==
    /\ Ready(p) /\ WaitsFor(p) = {} /\ ~UrlTaken(p)
    /\ LET id == Current(p).id
           row == IF Inserts(Current(p)) THEN Current(p).set
                  ELSE Over(Current(p).set, Seen(p)[id])
       IN  tx' = [tx EXCEPT ![p].own = With(@, id, row), ![p].calls = Tail(@),
                            ![p].checked = FALSE]
    /\ UNCHANGED <<rows, calls, deaths>>

Commit(p) ==
    /\ p \in DOMAIN tx /\ tx[p].calls = <<>> /\ tx[p].items = <<>>
    /\ rows' = Over(tx[p].own, rows)
    /\ tx' = [q \in Others(p) |->
                 [tx[q] EXCEPT !.alone = @ /\ DOMAIN tx[p].own = {}]]
    /\ UNCHANGED <<calls, deaths>>

RollBack(p) == tx' = Without(tx, p) /\ UNCHANGED <<rows, calls>>

\* InvalidSourceTransitionError, "source with this url and format already
\* exists", or a url that validate_probe_url refuses: the command ends with it.
Raises(p) ==
    /\ p \in DOMAIN tx
    /\ \/ /\ Calls(p) /\ ~tx[p].checked /\ ~Inserts(Current(p))
          /\ StatusSeen(p) \notin Current(p).from \cup Current(p).idle
       \/ Ready(p) /\ WaitsFor(p) = {} /\ UrlTaken(p)
       \/ /\ tx[p].calls = <<>> /\ tx[p].items # <<>>
          /\ CallsFor(p, Head(tx[p].items)) = {}
    /\ RollBack(p) /\ UNCHANGED deaths

Dies(p) ==
    /\ p \in DOMAIN tx
    /\ deaths < MaxDeaths /\ deaths' = deaths + 1
    /\ RollBack(p)

\* Postgres ends one of those that wait for each other.
DeadlockBroken(p) ==
    /\ \E ring \in SUBSET DOMAIN tx :
          p \in ring /\ \A q \in ring : WaitsFor(q) \cap ring # {}
    /\ RollBack(p) /\ UNCHANGED deaths

Step(p) ==
    Look(p) \/ Check(p) \/ Write(p) \/ Commit(p) \/ Raises(p) \/ DeadlockBroken(p)

Processes == Operators \cup Seeders \cup Monitors

RegistryNext ==
    \/ \E p \in Operators : Operate(p)
    \/ \E p \in Seeders : ApplySeedCatalog(p)
    \/ \E p \in Monitors : RunHealthMonitor(p)
    \/ \E p \in Processes : Step(p) \/ Dies(p)

\* The monitor is run again and again (make health-monitor), every command ends,
\* since requests time out, and who waits for a lock is next in its queue.
Fairness ==
    /\ \A p \in Monitors : WF_registryVars(RunHealthMonitor(p))
    /\ \A p \in Processes : WF_registryVars(Step(p)) /\ SF_registryVars(Write(p))

RegistrySpec == RegistryInit /\ [][RegistryNext]_registryVars
FairRegistrySpec == RegistrySpec /\ Fairness
-----------------------------------------------------------------------------
\* uq_sources_url_format is part of the type.
RegistryTypeOK ==
    /\ rows \in [DOMAIN rows -> SourceRows]
    /\ OneRowPerUrl(rows)
    /\ DOMAIN tx \subseteq Processes
    /\ \A p, q \in DOMAIN tx : p # q => DOMAIN tx[p].own \cap DOMAIN tx[q].own = {}
    /\ \A p \in DOMAIN tx : Calls(p) /\ ~Inserts(Current(p)) =>
                                Current(p).id \in DOMAIN Seen(p)
    /\ calls \in 0..MaxCalls /\ deaths \in 0..MaxDeaths

\* "make seed-sources" is idempotent (README.md:49, test_seed_catalog_is_idempotent):
\* whatever operators had made of the registry, a seed run that nobody
\* disturbed leaves every entry of the catalog with its role and with the
\* status its role asks for, nothing live at an obsolete url, and Playwright
\* where it is needed.  What an operator retired stays as it is.
LiveRows(table) == {id \in DOMAIN table : table[id].status # "retired"}

Settled(table) ==
    /\ \A n \in DOMAIN Catalog :
          LET e == Catalog[n]
          IN  \E id \in At(table, e.url) : id \in LiveRows(table) =>
                 /\ table[id].role = e.role
                 /\ (table[id].status = "approved") = AutoApproved(e)
    /\ \A n \in DOMAIN Obsolete : At(table, Obsolete[n].url) \cap LiveRows(table) = {}
    /\ \A id \in LiveRows(table) :
          table[id].url \in PlaywrightUrls => table[id].method = "playwright"

SeedSettles ==
    [][\A p \in Seeders : Commit(p) /\ tx[p].alone => Settled(rows')]_registryVars

\* The monitor gets to every approved source, also behind sources that do not
\* answer, that are retired while it runs or that a seed run holds; but one
\* approved source whose url the probe refuses takes every run down with it.
Unchecked == {id \in ApprovedIds : rows[id].health = "unknown"}
Refused == {id \in ApprovedIds : Answers[rows[id].url] = {}}

ApprovedSourcesAreChecked == Unchecked # {} ~> Unchecked = {} \/ Refused # {}
=============================================================================
