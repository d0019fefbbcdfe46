------------------------------ MODULE Capture -------------------------------
(***************************************************************************)
(* What a fetch leaves behind (engine/src/naijaledger/fetch, archive,      *)
(* documents): objects in the write-once archive, fetch_records, documents *)
(* and, for a catalog page, the artifacts it links to.                     *)
(*                                                                         *)
(* A worker fetches one source in the transaction of its job, which also   *)
(* commits when the fetch raises (jobs/worker.py); "make fetch-sources"    *)
(* fetches all of them in one transaction, which it then rolls back        *)
(* (fetch/cli.py).  Objects are outside of any transaction.  A body stands *)
(* for its sha256 and for the key of its object.                           *)
(***************************************************************************)
EXTENDS Naturals, FiniteSets, Sequences, SequencesExt

CONSTANTS
    Workers,      \* processes that run fetch jobs
    Batches,      \* processes that run "make fetch-sources"
    Sources,      \* approved sources, in the order of list_sources
    UrlOf,        \* source -> its url
    Answers,      \* url -> what it may answer: sets of [ok, body]
    Catalogs,     \* sources in CATALOG_SOURCE_URLS
    Links,        \* body -> artifacts it links to, in order
    YearPages,    \* body -> year pages of the Budget Office index, in order
    MaxChildren,  \* catalog_discovery_max_children
    MaxYearPages, \* catalog_subdir_max
    MaxFaults,    \* bound: lost answers, exceptions and deaths
    NoBody

Bodies == {a.body : a \in UNION {Answers[u] : u \in DOMAIN Answers}}
SourceSet == ToSet(Sources)
Fetchers == Workers \cup Batches

ASSUME CaptureAssumption ==
    /\ Workers \cap Batches = {}
    /\ Sources \in Seq(SourceSet) /\ Sources # <<>>
    /\ UrlOf \in [SourceSet -> DOMAIN Answers]
    /\ \A u \in DOMAIN Answers : \A a \in Answers[u] : a.ok \in BOOLEAN
    /\ Catalogs \subseteq SourceSet
    /\ Links \in [Bodies -> Seq(DOMAIN Answers)]
    /\ YearPages \in [Bodies -> Seq(DOMAIN Answers)]
    /\ MaxChildren \in Nat /\ MaxYearPages \in Nat /\ MaxFaults \in Nat
    /\ NoBody \notin Bodies

VARIABLES
    archive,  \* bodies in the object store
    records,  \* fetch_records; two with the same outcome are one here
    docs,     \* body -> its document
    last,     \* source -> last_success_hash
    tx,       \* fetcher -> its transaction
    faults

vars == <<archive, records, docs, last, tx, faults>>

Over(f, g) == [x \in DOMAIN f \cup DOMAIN g |-> IF x \in DOMAIN f THEN f[x] ELSE g[x]]
Put(f, x, v) == Over([y \in {x} |-> v], f)
Drop(f, x) == [y \in DOMAIN f \ {x} |-> f[y]]
Empty == [x \in {} |-> x]
FirstOf(s, n) == SubSeq(s, 1, IF Len(s) < n THEN Len(s) ELSE n)

Page(s) == [url |-> UrlOf[s], parent |-> NoBody]

\* A transaction about to request the page of the first source of list.
Begun(list, own) ==
    [rest |-> list, phase |-> "page", step |-> "get", target |-> Page(Head(list)),
     body |-> NoBody, ok |-> FALSE, years |-> <<>>, links |-> <<>>, count |-> 0,
     own |-> own]

Nothing == [records |-> {}, docs |-> Empty, last |-> Empty]
Over3(own) == [records |-> records \cup own.records, docs |-> Over(docs, own.docs),
               last |-> Over(own.last, last)]

Source(t) == Head(t.rest)
Running(f) == f \in DOMAIN tx /\ tx[f].rest # <<>>
At(f, step) == Running(f) /\ tx[f].step = step
Others(f) == DOMAIN tx \ {f}

Init ==
    /\ archive = {}
    /\ records = {}
    /\ docs = Empty
    /\ last = Empty
    /\ tx = Empty
    /\ faults = 0

StartFetch(f, list) ==
    /\ f \notin DOMAIN tx
    /\ tx' = Put(tx, f, Begun(list, Nothing))
    /\ UNCHANGED <<archive, records, docs, last, faults>>

(***************************************************************************)
(* From one request to the next.                                           *)
(***************************************************************************)
\* The source is done: the next of a batch, or the end.
NextSource(t) ==
    IF Len(t.rest) = 1 THEN [Begun(t.rest, t.own) EXCEPT !.rest = <<>>]
    ELSE Begun(Tail(t.rest), t.own)

Discovered(body, urls, links) ==
    LET after[n \in 0..Len(urls)] ==
            IF n = 0 THEN links
            ELSE IF \E link \in ToSet(after[n - 1]) : link.url = urls[n] THEN after[n - 1]
            ELSE Append(after[n - 1], [url |-> urls[n], parent |-> body])
    IN  after[Len(urls)]

\* Fault: the index is named as the parent of what a year page links to.
ParentIndex(t) == t.target.parent

Parent(t) == t.body

\* The page or year page of t is captured (or not): what there is to follow.
Followed(t) ==
    IF t.phase = "page" /\ t.ok /\ Source(t) \in Catalogs
    THEN [t EXCEPT !.phase = "years", !.step = "choose",
                   !.years = FirstOf(YearPages[t.body], MaxYearPages),
                   !.links = Discovered(t.body, Links[t.body], <<>>),
                   !.target.parent = t.body]
    ELSE IF t.phase = "page" THEN NextSource(t)
    ELSE IF t.phase = "years" /\ t.ok
    THEN [t EXCEPT !.step = "choose",
                   !.links = Discovered(Parent(t), Links[t.body], @)]
    ELSE [t EXCEPT !.step = "choose"]

\* Fault: a child that failed once is not tried again.
HasAnyFetch(seen, s, url) == \E r \in seen : r.source = s /\ r.url = url

HasSuccessfulFetch(seen, s, url) ==
    \E r \in seen : r.source = s /\ r.url = url /\ r.ok

Capped(t) == t.count >= MaxChildren

\* The year pages first, then the children up to the cap.
Chosen(t, seen) ==
    IF t.phase = "years" /\ t.years # <<>>
    THEN [t EXCEPT !.step = "get", !.years = Tail(@), !.target.url = Head(t.years)]
    ELSE IF t.links = <<>> \/ Capped(t) THEN NextSource(t)
    ELSE IF HasSuccessfulFetch(seen, Source(t), Head(t.links).url)
    THEN [t EXCEPT !.phase = "children", !.links = Tail(@)]
    ELSE [t EXCEPT !.phase = "children", !.step = "get", !.links = Tail(@),
                   !.target = Head(t.links), !.count = @ + 1]

Choose(f) ==
    /\ At(f, "choose")
    /\ tx' = [tx EXCEPT ![f] = Chosen(@, Over3(tx[f].own).records)]
    /\ UNCHANGED <<archive, records, docs, last, faults>>

(***************************************************************************)
(* One request and persist_fetch_capture.                                  *)
(***************************************************************************)
Record(t, ok, body) == [source |-> Source(t), url |-> t.target.url, ok |-> ok, body |-> body]
WithRecord(t) == [t EXCEPT !.own.records = @ \cup {Record(t, t.ok, t.body)}]

\* An httpx.HTTPError is recorded; a year page that fails is only logged.
Unanswered(t) ==
    LET none == [t EXCEPT !.ok = FALSE, !.body = NoBody]
    IN  Followed(IF t.phase = "years" THEN none ELSE WithRecord(none))

\* A url that is not known, or has no answers, never answers; the others may fail
\* now and then.
AnswersOf(url) == IF url \in DOMAIN Answers THEN Answers[url] ELSE {}

GetFails(f) ==
    /\ At(f, "get")
    /\ IF AnswersOf(tx[f].target.url) = {} THEN UNCHANGED faults
       ELSE faults < MaxFaults /\ faults' = faults + 1
    /\ tx' = [tx EXCEPT ![f] = Unanswered(@)]
    /\ UNCHANGED <<archive, records, docs, last>>

Get(f) ==
    /\ At(f, "get")
    /\ \E a \in AnswersOf(tx[f].target.url) :
          LET t == [tx[f] EXCEPT !.ok = a.ok, !.body = a.body]
          IN  tx' = [tx EXCEPT ![f] = IF t.phase = "years" /\ ~a.ok THEN Unanswered(t)
                                      ELSE [t EXCEPT !.step = "stat"]]
    /\ UNCHANGED <<archive, records, docs, last, faults>>

\* Fault: an object is taken to be there when another fetch is about to put it.
BeingPut(b) == b \in archive \/ \E g \in DOMAIN tx : tx[g].body = b /\ tx[g].step = "put"

ObjectExists(b) == b \in archive

Stat(f) ==
    /\ At(f, "stat")
    /\ tx' = [tx EXCEPT ![f].step = IF ObjectExists(tx[f].body) THEN "record" ELSE "put"]
    /\ UNCHANGED <<archive, records, docs, last, faults>>

PutObject(f) ==
    /\ At(f, "put")
    /\ archive' = archive \cup {tx[f].body}
    /\ tx' = [tx EXCEPT ![f].step = "record"]
    /\ UNCHANGED <<records, docs, last, faults>>

\* Fault: the record is committed on its own.
RecordsApart(f) ==
    /\ At(f, "record")
    /\ records' = records \cup WithRecord(tx[f]).own.records
    /\ tx' = [tx EXCEPT ![f] = IF @.ok THEN [@ EXCEPT !.step = "document"] ELSE Followed(@)]
    /\ UNCHANGED <<archive, docs, last, faults>>

CreateFetchRecord(f) ==
    /\ At(f, "record")
    /\ tx' = [tx EXCEPT ![f] = IF @.ok THEN [WithRecord(@) EXCEPT !.step = "document"]
                               ELSE Followed(WithRecord(@))]
    /\ UNCHANGED <<archive, records, docs, last, faults>>

\* ON CONFLICT (sha256) DO NOTHING waits for who is inserting the body.
InsertsBefore(f) ==
    {g \in Others(f) : tx[f].body \in DOMAIN tx[g].own.docs \ DOMAIN docs}

Document(t) == [source |-> Source(t), url |-> t.target.url, parent |-> t.target.parent]

UpsertDocument(f) ==
    /\ At(f, "document")
    /\ InsertsBefore(f) = {}
    /\ LET b == tx[f].body
           known == Over3(tx[f].own).docs
       IN  tx' = [tx EXCEPT ![f].step = "success",
                            ![f].own.docs = IF b \in DOMAIN known THEN @
                                            ELSE Put(@, b, Document(tx[f]))]
    /\ UNCHANGED <<archive, records, docs, last, faults>>

\* Fault: the row of the source is not locked.
LocksUnseen(f) == {}

\* UPDATE sources: the row is locked to the end of the transaction.
LocksSource(f) == {g \in Others(f) : Source(tx[f]) \in DOMAIN tx[g].own.last}

WithSuccess(t) == [t EXCEPT !.own.last = Put(@, Source(t), t.body)]

RecordFetchSuccess(f) ==
    /\ At(f, "success")
    /\ LocksSource(f) = {}
    /\ tx' = [tx EXCEPT ![f] = Followed(WithSuccess(@))]
    /\ UNCHANGED <<archive, records, docs, last, faults>>

(***************************************************************************)
(* How a transaction ends.                                                 *)
(***************************************************************************)
Commit(f) ==
    /\ f \in DOMAIN tx /\ tx[f].rest = <<>>
    /\ records' = Over3(tx[f].own).records
    /\ docs' = Over3(tx[f].own).docs
    /\ last' = Over3(tx[f].own).last
    /\ tx' = Drop(tx, f)
    /\ UNCHANGED <<archive, faults>>

\* The archive is out of reach, or a url is refused: a job is marked failed
\* and commits with what was captured, a batch is rolled back.
Raises(f) ==
    /\ At(f, "get") \/ At(f, "stat") \/ At(f, "put")
    /\ faults < MaxFaults /\ faults' = faults + 1
    /\ tx' = IF f \in Workers THEN [tx EXCEPT ![f].rest = <<>>] ELSE Drop(tx, f)
    /\ UNCHANGED <<archive, records, docs, last>>

Dies(f) ==
    /\ f \in DOMAIN tx
    /\ faults < MaxFaults /\ faults' = faults + 1
    /\ tx' = Drop(tx, f)
    /\ UNCHANGED <<archive, records, docs, last>>

WaitsFor(f) ==
    IF At(f, "document") THEN InsertsBefore(f)
    ELSE IF At(f, "success") THEN LocksSource(f) ELSE {}

\* Postgres ends one of those that wait for each other.
DeadlockBroken(f) ==
    /\ \E ring \in SUBSET DOMAIN tx :
          f \in ring /\ \A g \in ring : WaitsFor(g) \cap ring # {}
    /\ tx' = Drop(tx, f)
    /\ UNCHANGED <<archive, records, docs, last, faults>>

Step(f) ==
    \/ Choose(f) \/ GetFails(f) \/ Get(f) \/ Stat(f) \/ PutObject(f)
    \/ CreateFetchRecord(f) \/ UpsertDocument(f) \/ RecordFetchSuccess(f)
    \/ Commit(f) \/ DeadlockBroken(f)

Next ==
    \/ \E f \in Workers, s \in SourceSet : StartFetch(f, <<s>>)
    \/ \E f \in Batches : StartFetch(f, Sources)
    \/ \E f \in Fetchers : Step(f) \/ Raises(f) \/ Dies(f)

\* The scheduler fetches every source again and again (DueSourceIsFetched of
\* JobQueue), requests time out, and who waits for a lock is next in its queue.
Fairness ==
    /\ \A s \in SourceSet : SF_vars(\E f \in Workers : StartFetch(f, <<s>>))
    /\ \A f \in Fetchers :
          /\ WF_vars(Step(f))
          /\ SF_vars(UpsertDocument(f) \/ RecordFetchSuccess(f))

Spec == Init /\ [][Next]_vars
FairSpec == Spec /\ Fairness
-----------------------------------------------------------------------------
\* Every row that names an object has it in the archive, whoever died between
\* the put and the commit and whoever found the object of a fetch that was
\* rolled back (spec 0002, the archive is the evidence).
RowsAreArchived ==
    \A r \in records : r.body # NoBody => r.body \in archive

\* A capture is whole: a successful record has its document, and a document
\* the record it was first fetched by, though two fetches of the same bytes
\* overlap and one of them is rolled back.
CapturesAreWhole ==
    /\ \A r \in records : r.ok => r.body \in DOMAIN docs
    /\ \A b \in DOMAIN docs : [source |-> docs[b].source, url |-> docs[b].url,
                               ok |-> TRUE, body |-> b] \in records

YearUrls == UNION {ToSet(YearPages[b]) : b \in Bodies}

\* Spec 0008, "skip if child URL already has ok fetch_record": also when a job
\* and a batch fetch the catalog at the same time.  It is the lock on the
\* source, taken by the capture of the page, that makes the second one look
\* after the first has committed.
Children(f, s) ==
    {r.url : r \in {q \in tx[f].own.records : q.ok /\ q.source = s}}
        \ ({UrlOf[s]} \cup YearUrls)

ChildrenAreCapturedOnce ==
    \A f \in DOMAIN tx : \A s \in SourceSet : \A url \in Children(f, s) :
        /\ ~\E r \in records : r.source = s /\ r.url = url /\ r.ok
        /\ \A g \in Others(f) : url \notin Children(g, s)

\* The document of a child names the page that links to it: the year page for
\* what was found there, in a version of the page that is itself a document.
ParentsListTheirChildren ==
    \A b \in DOMAIN docs :
        LET p == docs[b].parent
        IN  p # NoBody => /\ p \in DOMAIN docs
                          /\ docs[b].url \in ToSet(Links[p]) \cup ToSet(YearPages[p])

\* A child that is listed and answers is captured in the end, behind children
\* that never do, as long as these are fewer than the cap of a fetch.
Answering(url) == Answers[url] # {} /\ \A a \in Answers[url] : a.ok
Listed(b) == ToSet(Links[b]) \cup UNION {ToSet(Links[a.body]) :
                 a \in UNION {Answers[u] : u \in ToSet(FirstOf(YearPages[b], MaxYearPages))}}

ListedChildrenAreCaptured ==
    \A s \in Catalogs, url \in DOMAIN Answers :
        (/\ Answering(url) /\ Answering(UrlOf[s])
         /\ \A a \in Answers[UrlOf[s]] :
               /\ url \in Listed(a.body)
               /\ Cardinality({u \in Listed(a.body) : ~Answering(u)}) < MaxChildren)
            => <>(\E r \in records : r.source = s /\ r.url = url /\ r.ok)
=============================================================================
