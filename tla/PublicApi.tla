----------------------------- MODULE PublicApi ------------------------------
(***************************************************************************)
(* The public API (engine/src/naijaledger/api): the fixed-window limiter   *)
(* that both budgets are made of, the partner export that is read page by  *)
(* page while other transactions commit and rows stop being public, and    *)
(* the lists of parties and tenders, read by offset meanwhile.             *)
(*                                                                         *)
(* The middleware takes from the budget of an address on the event loop,   *)
(* one request at a time.  The budget of a partner is taken by a plain     *)
(* function, which FastAPI runs in its thread pool: the statements of one  *)
(* request interleave with those of another on one dict.                   *)
(***************************************************************************)
EXTENDS Integers, Sequences, FiniteSets, SequencesExt

CONSTANTS
    Clients,         \* addresses that read the public routes
    Partners,        \* bearer tokens of the settings
    Readers,         \* who reads a list from its first page to its last
    EventLoop,       \* the one thread of the middleware
    Threads,         \* threads of the pool
    Limit,           \* requests a caller may make in a window
    WindowSeconds,   \* window_seconds
    TicksPerSecond,  \* the clock is finer than the seconds of Retry-After
    MaxKeys,         \* api_rate_limit_max_keys
    Writers,         \* transactions that insert rows, one after the other
    RowIds,          \* ids of exported rows, ordered
    ListedIds,       \* ids of parties or tenders
    PageSize,        \* limit of an export request
    MaxRequests,     \* bound: requests of addresses
    MaxExports,      \* bound: requests of partners
    MaxTime,         \* bound: the clock
    Start            \* no cursor

Window == WindowSeconds * TicksPerSecond

ASSUME PublicApiAssumption ==
    /\ Limit \in Nat \ {0} /\ MaxKeys \in Nat \ {0} /\ PageSize \in Nat \ {0}
    /\ WindowSeconds \in Nat \ {0} /\ TicksPerSecond \in Nat \ {0}
    /\ RowIds \subseteq Nat /\ ListedIds \subseteq Nat
    /\ IsFiniteSet(RowIds) /\ IsFiniteSet(ListedIds) /\ IsFiniteSet(Clients)
    /\ MaxRequests \in Nat /\ MaxExports \in Nat /\ MaxTime \in Nat
    /\ EventLoop \notin Threads
    /\ Clients # Partners /\ Readers # Clients
    /\ Partners # Readers /\ Partners \cap Readers = {}
    /\ Start \notin [created : Nat, id : Nat]

VARIABLES
    now,       \* time.monotonic()
    callers,   \* who calls here: the addresses, the partners or the readers
    windows,   \* caller -> count and start, the dict of the limiter
    req,       \* thread -> the request it handles
    requests,  \* how many requests there were
    served,    \* caller -> when the requests came that were let through
    told,      \* caller -> when it was told to come back, 0 for never
    rows,      \* id -> committed row: when it was created, and if it is public
    writing,   \* writer -> the rows of its open transaction, likewise
    walk       \* partner or reader -> what it has read, and what was there all the time

limiterVars == <<windows, served, told>>
exportVars == <<rows, writing, walk>>
vars == <<now, callers, windows, req, requests, served, told, rows, writing, walk>>

Put(f, x, v) == [y \in DOMAIN f \cup {x} |-> IF y = x THEN v ELSE f[y]]
Drop(f, x) == [y \in DOMAIN f \ {x} |-> f[y]]

Workers == IF callers = Partners THEN Threads
           ELSE IF callers = Clients THEN {EventLoop} ELSE {}

Idle == [step |-> "idle"]
NoEntry == [count |-> 0]
Nothing == [x \in {} |-> x]

(***************************************************************************)
(* The keyset of the export.                                               *)
(***************************************************************************)
\* Fault: the cursor is compared by created_at alone.
AfterCursorByTime(row, cursor) == cursor = Start \/ row.created > cursor.created

\* (created_at, id) > (:cursor_ts, :cursor_id)
AfterCursor(row, cursor) ==
    \/ cursor = Start
    \/ row.created > cursor.created
    \/ row.created = cursor.created /\ row.id > cursor.id

\* ORDER BY created_at ASC, id ASC
Ordered(list) == \A m, n \in DOMAIN list : m < n => ~AfterCursor(list[m], list[n])

Public == {[created |-> rows[i].created, id |-> i] : i \in {j \in DOMAIN rows : rows[j].shown}}

Following(cursor) ==
    CHOOSE list \in SetToSeqs({r \in Public : AfterCursor(r, cursor)}) : Ordered(list)

\* LIMIT is one more than the page has: there is a next cursor if it was found.
HasMore(cursor) == Len(Following(cursor)) > PageSize

Page(cursor) ==
    IF HasMore(cursor) THEN SubSeq(Following(cursor), 1, PageSize)
    ELSE Following(cursor)

NextCursor(cursor) == IF HasMore(cursor) THEN Last(Page(cursor)) ELSE Start

NotBegun == [begun |-> FALSE, ended |-> FALSE, cursor |-> Start, got |-> <<>>,
             there |-> {}]

(***************************************************************************)
(* Requests.                                                               *)
(***************************************************************************)
Init ==
    /\ now = 0
    /\ callers \in {Clients, Partners, Readers}
    /\ windows = Nothing
    /\ req = [t \in Threads \cup {EventLoop} |-> Idle]
    /\ requests = 0
    /\ served = [c \in callers |-> <<>>]
    /\ told = [c \in callers |-> 0]
    /\ rows = Nothing
    /\ writing = Nothing
    /\ walk = [p \in Partners \cup Readers |-> NotBegun]

Tick ==
    /\ now < MaxTime
    /\ now' = now + 1
    /\ UNCHANGED <<callers, req, requests, limiterVars, exportVars>>

\* A request, after the checks of the path and of the token; take() reads the
\* clock once, at its start.
Arrive(t, c) ==
    /\ req[t] = Idle
    /\ requests < IF callers = Partners THEN MaxExports ELSE MaxRequests
    /\ requests' = requests + 1
    /\ req' = [req EXCEPT ![t] =
                 [step |-> "expire", caller |-> c, at |-> now, doomed |-> {},
                  seen |-> NoEntry,
                  cursor |-> IF c \in Partners THEN walk[c].cursor ELSE Start]]
    /\ UNCHANGED <<now, callers, limiterVars, exportVars>>

(***************************************************************************)
(* take: prune, read the entry, write it.                                  *)
(***************************************************************************)
Ends(entry, at) == at - entry.start >= Window

ListExpired(t) ==
    /\ req[t].step = "expire"
    /\ req' = [req EXCEPT ![t].step = "prune",
                 ![t].doomed = {c \in DOMAIN windows : Ends(windows[c], req[t].at)}]
    /\ UNCHANGED <<now, callers, requests, limiterVars, exportVars>>

\* del of a key another thread has deleted meanwhile is a KeyError: the request
\* fails with a 500.
DeleteDoomed(t) ==
    /\ req[t].step = "prune"
    /\ \E c \in req[t].doomed :
          /\ windows' = Drop(windows, c)
          /\ req' = [req EXCEPT ![t] = IF c \in DOMAIN windows
                                       THEN [req[t] EXCEPT !.doomed = @ \ {c}] ELSE Idle]
    /\ UNCHANGED <<now, callers, requests, served, told, exportVars>>

Oldest == {c \in DOMAIN windows :
             \A d \in DOMAIN windows : windows[c].start <= windows[d].start}

\* Fault: the table is cut before it is full.
OverfullAtCap == Cardinality(DOMAIN windows) >= MaxKeys

Overfull == Cardinality(DOMAIN windows) > MaxKeys

CapTable(t) ==
    /\ req[t].step = "prune" /\ req[t].doomed = {}
    /\ IF Overfull
       THEN \E c \in Oldest : req' = [req EXCEPT ![t].doomed = {c}]
       ELSE req' = [req EXCEPT ![t].step = "get"]
    /\ UNCHANGED <<now, callers, requests, limiterVars, exportVars>>

\* Both passes over the dict raise when another thread changes its size.
IterationFails(t) ==
    /\ \/ req[t].step = "expire"
       \/ req[t].step = "prune" /\ req[t].doomed = {} /\ Overfull
    /\ \E u \in Workers \ {t} : req[u] # Idle
    /\ req' = [req EXCEPT ![t] = Idle]
    /\ UNCHANGED <<now, callers, requests, limiterVars, exportVars>>

GetEntry(t) ==
    /\ req[t].step = "get"
    /\ LET c == req[t].caller
       IN  req' = [req EXCEPT ![t].step = "put",
                     ![t].seen = IF c \in DOMAIN windows THEN windows[c] ELSE NoEntry]
    /\ UNCHANGED <<now, callers, requests, limiterVars, exportVars>>

Current(r) == r.seen # NoEntry /\ ~Ends(r.seen, r.at)

Spent(r) == Current(r) /\ r.seen.count >= Limit

\* Fault: the seconds that are left, cut to whole ones.
RetryAfterCut(r) ==
    LET left == (Window - (r.at - r.seen.start)) \div TicksPerSecond
    IN  IF left < 1 THEN 1 ELSE left

RetryAfter(r) ==
    LET left == (Window - (r.at - r.seen.start)) \div TicksPerSecond + 1
    IN  IF left < 1 THEN 1 ELSE left

LetThrough(t) ==
    LET r == req[t]
        entry == IF Current(r) THEN [r.seen EXCEPT !.count = @ + 1]
                 ELSE [count |-> 1, start |-> r.at]
    IN  /\ r.step = "put" /\ ~Spent(r)
        /\ windows' = Put(windows, r.caller, entry)
        /\ served' = [served EXCEPT ![r.caller] = Append(@, r.at)]
        /\ told' = [told EXCEPT ![r.caller] = 0]
        /\ req' = [req EXCEPT ![t] = IF r.caller \in Partners
                                     THEN [@ EXCEPT !.step = "page"] ELSE Idle]
        /\ UNCHANGED <<now, callers, requests, exportVars>>

Refuse(t) ==
    LET r == req[t]
    IN  /\ r.step = "put" /\ Spent(r)
        /\ told' = [told EXCEPT ![r.caller] = r.at + RetryAfter(r) * TicksPerSecond]
        /\ req' = [req EXCEPT ![t] = Idle]
        /\ UNCHANGED <<now, callers, requests, windows, served, exportVars>>

(***************************************************************************)
(* The export.                                                             *)
(***************************************************************************)
\* One SELECT.  A partner that asked twice uses the first answer.
ReadPage(t) ==
    LET r == req[t]
        w == walk[r.caller]
    IN  /\ r.step = "page"
        /\ req' = [req EXCEPT ![t] = Idle]
        /\ IF w.ended \/ w.cursor # r.cursor
           THEN UNCHANGED walk
           ELSE walk' = [walk EXCEPT ![r.caller] =
                  [begun |-> TRUE, ended |-> NextCursor(r.cursor) = Start,
                   cursor |-> NextCursor(r.cursor),
                   got |-> w.got \o Page(r.cursor),
                   there |-> IF w.begun THEN w.there ELSE Public]]
        /\ UNCHANGED <<now, callers, requests, limiterVars, rows, writing>>

\* The database fails, or the answer is lost; the partner asks again.
LoseAnswer(t) ==
    /\ req[t].step = "page"
    /\ req' = [req EXCEPT ![t] = Idle]
    /\ UNCHANGED <<now, callers, requests, limiterVars, exportVars>>

Ids == IF callers = Readers THEN ListedIds ELSE RowIds

Made == DOMAIN rows \cup UNION {DOMAIN writing[w] : w \in DOMAIN writing}

\* When the transactions began, in their order.
Starts == {rows[i].created : i \in DOMAIN rows}
          \cup UNION {{writing[w][i].created : i \in DOMAIN writing[w]} : w \in DOMAIN writing}

\* created_at is the start of the transaction that inserts, one for all its rows;
\* transactions may commit in another order than they start.
BeginInsert(w, ids) ==
    /\ callers # Clients
    /\ w \notin DOMAIN writing
    /\ ids \cap Made = {}
    /\ writing' = Put(writing, w, [i \in ids |->
                      [created |-> Cardinality(Starts), shown |-> TRUE]])
    /\ UNCHANGED <<now, callers, req, requests, limiterVars, rows, walk>>

CommitInsert(w) ==
    /\ w \in DOMAIN writing
    /\ rows' = [i \in DOMAIN rows \cup DOMAIN writing[w] |->
                   IF i \in DOMAIN rows THEN rows[i] ELSE writing[w][i]]
    /\ writing' = Drop(writing, w)
    /\ UNCHANGED <<now, callers, req, requests, limiterVars, walk>>

\* A flag is dismissed or confirmed, a source is retired or approved again.
ChangeStatus(i) ==
    /\ callers = Partners
    /\ rows' = [rows EXCEPT ![i].shown = ~@]
    /\ walk' = [p \in DOMAIN walk |-> [walk[p] EXCEPT
                  !.there = {r \in @ : r.id # i}]]
    /\ UNCHANGED <<now, callers, req, requests, limiterVars, writing>>

(***************************************************************************)
(* The lists, whose budget is that of an address.  Parties and tenders are *)
(* only ever added to them.                                                *)
(***************************************************************************)
\* Fault: no ORDER BY.
AnyOrder(list) == TRUE

\* ORDER BY created_at alone: rows of one transaction come in any order, and in
\* another one each time.
InOrder(list) == \A m, n \in 1..Len(list) : m < n => list[m].created <= list[n].created

\* LIMIT PageSize OFFSET as many rows as it has; a page that is not full is the last.
ReadList(r) ==
    /\ callers = Readers
    /\ ~walk[r].ended
    /\ \E list \in SetToSeqs(Public) :
          /\ InOrder(list)
          /\ LET got == walk[r].got
                 end == IF Len(list) < Len(got) + PageSize THEN Len(list)
                        ELSE Len(got) + PageSize
                 page == SubSeq(list, Len(got) + 1, end)
             IN  walk' = [walk EXCEPT ![r] =
                   [begun |-> TRUE, ended |-> Len(page) < PageSize, cursor |-> Start,
                    got |-> got \o page,
                    there |-> IF walk[r].begun THEN walk[r].there ELSE Public]]
    /\ UNCHANGED <<now, callers, req, requests, limiterVars, rows, writing>>

Next ==
    \/ Tick
    \/ \E t \in Workers :
          \/ \E c \in callers : Arrive(t, c)
          \/ ListExpired(t) \/ DeleteDoomed(t) \/ CapTable(t) \/ IterationFails(t)
          \/ GetEntry(t) \/ LetThrough(t) \/ Refuse(t)
          \/ ReadPage(t) \/ LoseAnswer(t)
    \/ \E w \in Writers :
          \/ \E ids \in (SUBSET Ids) \ {{}} : BeginInsert(w, ids)
          \/ CommitInsert(w)
    \/ \E i \in DOMAIN rows : ChangeStatus(i)
    \/ \E r \in Readers : ReadList(r)

Spec == Init /\ [][Next]_vars
-----------------------------------------------------------------------------
\* Callers served about the time of the window from s on.
Seen(s) == {c \in callers : \E n \in 1..Len(served[c]) :
                               served[c][n] > s - Window /\ served[c][n] < s + Window}

ServedFrom(c, s) ==
    Cardinality({n \in 1..Len(served[c]) : served[c][n] >= s /\ served[c][n] < s + Window})

\* A window begins with a request, and a stretch of time as long as a window lies
\* in two of them, so that an address gets less than twice its budget in it (spec
\* 0024: fixed window), unless more addresses are seen than the table holds.
BudgetHolds ==
    callers = Clients =>
        \A c \in Clients, s \in 0..now :
            Cardinality(Seen(s)) <= MaxKeys => ServedFrom(c, s) < 2 * Limit

\* Retry-After is the time to the end of the window: an address that comes back no
\* sooner than it was told is not refused again.  (A partner may be: between the read
\* of its entry and the answer, another request of it may begin the next window.)
RetryAfterIsEnough ==
    [][\A t \in Workers :
          LET c == req[t].caller
          IN  callers = Clients /\ Refuse(t) /\ told[c] # 0 => req[t].at < told[c]]_vars

\* A walk from cursor to cursor, at its end, has seen every row that was public
\* all the time since its first page, also the rows of one transaction, which
\* share created_at, and however many rows were committed meanwhile; and it has
\* seen none twice, even if answers are lost and requested again.
WalkIsExact ==
    \A p \in Partners :
        /\ walk[p].ended => walk[p].there \subseteq ToSet(walk[p].got)
        /\ IsInjective(walk[p].got)

\* Who reads a list to its end misses a row that was there at the first page only if it saw
\* another of the same load twice in its place (spec 0023, limit and offset):
\* loads that commit meanwhile, before the page or behind it, hide nothing.
Times(r, p) == Cardinality({n \in 1..Len(walk[p].got) : walk[p].got[n] = r})

MissedOnesHaveDoubles ==
    \A p \in Readers : walk[p].ended =>
        \A r \in walk[p].there :
            Times(r, p) > 0 \/ \E d \in walk[p].there : d.created = r.created /\ Times(d, p) > 1
=============================================================================
