# Verification of NaijaLedger

TLA+ models of the engine of NaijaLedger (`engine/src/naijaledger`) and of the pages
of its web frontend (`web/src`), the TLC configurations that check them on small instances, and proofs that TLAPS checks.
The models are written from the code. Where a property is taken from a specification
of the repository (`specs/00NN-*.md`) its comment quotes that specification.

1. [The system](#1-the-system)
2. [How the models see it](#2-how-the-models-see-it)
3. [The modules](#3-the-modules)
4. [The runs](#4-the-runs)
5. [Where the code and its documents differ](#5-where-the-code-and-its-documents-differ)
6. [Fairness](#6-fairness)
7. [The proofs](#7-the-proofs)
8. [What is not modelled](#8-what-is-not-modelled)
9. [Plan](#9-plan)

To run: `tlc -config JobQueue.cfg MCJobQueue` and likewise for the rows of the table in
section 4; `tlapm JobQueueProofs.tla` and likewise for the eight modules of section 7.

## 1. The system

NaijaLedger fetches Nigerian public-finance publications, keeps the bytes as
evidence, extracts finance rows from them, looks for anomalies, and publishes
stories that a human approved. The engine is a set of command-line programs over
one Postgres database, an object store (MinIO), a graph database (Memgraph) that
holds a projection, and a read-only HTTP API. The programs talk through tables
only: no process calls another, so whatever goes wrong goes wrong between
transactions.

```
 operators, seeds ──> sources <── health monitor
                         │ due
          cron ──> jobs table ──> workers ──> fetch ──> archive (MinIO)
                         ▲                      │          fetch_records, documents
                         └── normalize_load <───┘          │
                                   │                       │
                        extractions, parties, tenders, awards, contracts, ...
                             │            │               │
                    match proposals   anomaly flags   export, API
                       and merges         │
                             │        story drafts ──> review ──> public stories
                       graph rebuild (Memgraph)
```

| Component | State | Operations | What makes it hard | What makes it correct |
|---|---|---|---|---|
| Job scheduler (`jobs`) | `jobs` rows with key, status, `run_after`, attempts, lock | enqueue due sources, claim (`SKIP LOCKED`), reclaim stale locks, complete, fail with backoff, enqueue the load of a fetched document | workers race for rows; a worker dies; an enqueuer works from a stale list; an error inside Postgres takes the attempt with it | one worker for each job; ended jobs stay ended; attempts are exact; a fetched document is handed to the load its first source asks for; a source is not fetched twice in a cadence; every job ends |
| Source registry (`sources`, `seeds`) | `sources` rows: url, status, role, cadence, last fetch, health | create, update, approve, demote, retire, record fetch, seed run | read, then update by id alone; a seed run of many calls in one transaction | only approved sources are fetched; the seed run settles |
| Health monitor (`sources/health.py`) | `health_*` columns | probe every approved source, store the verdict | one source that raises ends the run for all | every approved source is probed |
| Fetch and capture (`fetch`, `archive`, `documents`) | objects, `fetch_records`, `documents`, `last_success_hash` | request, put the object, record, deduplicate, follow a catalog | the archive is outside of the transaction; two fetches of the same bytes; a catalog fetched by a job and by hand at once | rows name objects that exist; captures are whole; children are captured once, all of them, under the right page |
| Extraction (`extract`, `extractions`) | append-only `extractions` | detect, route to a parser, second pass, store | thresholds, several parsers, retries that write again | a document gets the parser its kind needs |
| OCDS, budget and OCP loads (`finance/*_load.py`) | `parties`, `tenders`, `awards`, `contracts`, `budget_lines`, `provenance_edges` | map, look up, insert or merge | several loads of one tender, no unique index on awards or contracts, failing releases, bodies that break off | nothing counted twice; every row has evidence; null never erases; live beats archive |
| Party matching (`finance/service.py`, `proposals.py`) | `parties.merged_into_id`, aliases, `match_proposals` | propose, confirm and merge, reject | unlocked reads of the parties, chains of merges | merges only after a human confirmed, once each; pairs stay joined unless a confirmation is stale |
| Graph projection (`graph`) | the graph in Memgraph | read everything, resolve merges, replace the graph | every SELECT sees a newer database; rebuilds overlap and end in any order | no edge is lost; an undisturbed rebuild is exact; only an overtaken plan forgets |
| Anomaly rules and flags (`anomaly`) | `flags` | read six tables, compute drafts, upsert open flags, dismiss, confirm | loads commit between the SELECTs of a run; medians, windows and bands at their bounds; the look-up of a reviewed flag locks only what it finds | a run flags what the ledger warrants; one open flag for each key; reviews are final; dismissals stick |
| Review and stories (`review`, `stories`) | `review_decisions`, `stories` | enqueue, fail a verification, decide, publish | several reviewers; `now()` is the start of a transaction; publishing can raise | the public reads only what a human approved, and the newest of it |
| Story agents (`agents`) | none | draft, verify, submit | model output | what they submit enters the review only |
| Public API (`api`) | rate-limiter table, export cursors | list, read, export | a full table; rows that commit late with an early timestamp; pages by offset over rows of one timestamp | the limit holds; an export misses nothing; a list hides no more than a row of the same load |
| Web frontend (`web`) | the address; what a page has loaded and the row picked | type, pick, follow links; render, run effects, answer | events come faster than renders, answers in any order or not at all | a page shows the answer to what it asks, the panel a row of it; no filter of another tab; no page stays loading |

The hard cases found in the code are listed, line by line, under `hazards` in
`PROJECT.json`, with the properties that cover each of them.

## 2. How the models see it

The conventions are the same in every module.

* **A command is one transaction.** The CLIs open one connection and one `begin()`
  around the whole command (`jobs/cli.py`, `fetch/cli.py`); a load adds a savepoint
  for each release. Rows a transaction wrote are in its record (`tx`, `run`, `desk`,
  ...) under the name `own` or `wrote`, and reach the table variables at its commit.
  Confirming a proposal and rebuilding the graph have no command in the repository
  yet; the models take each call as one transaction.
* **Postgres runs READ COMMITTED**, the default, which nothing in the code changes:
  each statement sees what is committed before it and what its own transaction wrote.
  So where the code does a SELECT and then an UPDATE these are two actions, and the
  values it carries from one to the other are in the record of the transaction.
* **Locks.** A written row, a row read FOR UPDATE and a key inserted into a unique
  index are held to the end of the transaction. Who wants one that is held waits: its
  action is disabled. `ON CONFLICT DO NOTHING` and `DO UPDATE` decide after the wait.
  A rollback releases what was held.
* **Deadlocks** between transactions are found and broken by Postgres. `Capture`
  models that explicitly; elsewhere a transaction may be rolled back at any step,
  which includes it. This is why the configurations do not check for TLC's deadlock:
  a system that has used up its bounds, or has nothing left to do, stops.
* **Faults.** An exception, the loss of a connection and the death of a process end in
  a rollback of everything but objects in the archive. Only `process_claimed_job` catches
  an exception and commits, with what was written until then.
* **Data** are what the properties tell apart. A body is its sha256, an amount stands
  for each field that may be null, an award in the graph stands for every row that
  names a party, the drafts of a run are any set of keys in `AnomalyFlags` and those of the
  rules in `AnomalyRun`.

Postgres, the archive and Memgraph are no part of the repository; the models take from
them exactly what is said here: of Memgraph, that a write transaction is all or nothing and that one
rebuild is applied as if alone.

## 3. The modules

| Module | Models | State | Actions and the code |
|---|---|---|---|
| `WorkQueue` | what the job table promises | waiting, owned, finished and exhausted keys | Submit, Take, Done, GiveBack, GiveUp |
| `JobQueue` | `jobs/`, and of `sources/`, `fetch/`, `documents/` what the scheduler sees | committed rows `jobs`, `source`, `docs`; open transactions `tx` (workers), `enq` (enqueuers), `manual` (`make fetch-sources`); the clock | ListDue and EnqueueDue are the two statements of `enqueue_due_source_jobs`; Claim is `reclaim_stale_locks` and `claim_next_job`; FetchOk, FetchFails, FetchFailsLate, LoadOk, LoadFails are `process_claimed_job` with its outcome; DbError and Killed are the two ways a transaction is rolled back; ManualFetch, ApproveSource, DemoteSource, RetireSource are the other writers of `sources` |
| `AnomalyFlags` | `anomaly/service.py`, `runner.py`, for any drafts | `flags`; `run`, `desk` | StartRun, LookUpSticky and UpsertOpenFlag for each draft, CommitRun, AbortRun; ReadFlag, SetReviewedStatus, CommitReview, AbortReview |
| `AnomalyRules` | `anomaly/rules.py`, `util.py` | none: operators | SingleBidder, ShortWindow, ThresholdHugging, RepeatWinner, SharedAddress, PriceOutlier and BudgetPaymentMismatch are the rules over a context, Drafts all of them; Warranted says the same in the words of spec 0018 |
| `AnomalyRun` | `anomaly/context.py`, `runner.py`, composed of `AnomalyRules` and `AnomalyFlags` | `versions` of the ledger, `loads` to come, `context` and the state of `AnomalyFlags` | CommitLoad; BeginRun, Evaluate (LoadRuleContext table by table, each from some version not older than that of the one before), EndRun, beside the actions of `AnomalyFlags` |
| `PublicationLog` | what the review gate promises | `entries`, `public` | HandIn, Publish, Close |
| `ReviewDesk` | `review/service.py`, `stories/service.py` | `reviews`, `stories`; `desk`, `failing` | EnqueueReview, VerificationFails and RecordFailure, ReadReview, DecideReview (the decision and `publish_story_from_review`), DecideRaises |
| `PartyMerge` | `finance/service.py`, `finance/proposals.py` | `party`, `proposals`; `draft`, `tx`, `load` | CreateParty, ReadCandidates, InsertProposal; LockProposal, ReadPair, UpdateSurvivor, UpdateMerged, Confirm; RejectProposal; LoadReads, LoadWrites, LoadCommits for a load that rewrites a known party |
| `GraphProjection` | `graph/`, composed with `PartyMerge` | `supplier`, `begun`, `plan` (rebuild by rebuild), `graph` and the state of `PartyMerge` | InsertAward; for each of any number of rebuilds LoadParties, LoadAwards, Walk (`canonical_party_id`, one SELECT a step), ApplyPlan (the plan and the graph made of it in one transaction of Memgraph), RebuildFails |
| `OcdsNormalise` | `finance/ocds.py`, `finance/ocp_registry.py` | none: operators | Items is what `load_normalized_release` is given for a release: NormalParties, the tender, NormalAwards (collapsed by id for archive and live), NormalContracts with their ids |
| `BudgetMap` | `finance/budget_map.py` | none: operators | BudgetItems is what a budget load asks for: the rows of the tables of a document that are not Skipped, with the code, agency and amount of each (AgencyName, LineCode, Allocated) |
| `OcdsLoad` | `finance/ocds_load.py`, `ocp_load.py`, `budget_load.py`, `normalize_load.py`, `extractions/` | `rows`, `extractions`, `job`; `tx` | StartJob, then for each publication SkipPublication (licence gate, source, download), RegistryRefuses or BeginPublication; StartLoad for a document, StartBudget for a budget; for each party, tender, award and contract Select and InsertRow or UpdateRow; FindAgency and UpsertLine for a budget line; EndRelease and ReleaseFails (the savepoint), BodyUnreadable, BudgetBreaksOff, LoadFails, Commit |
| `Capture` | `fetch/`, `archive/storage.py`, `documents/service.py` | `archive`, `records`, `docs`, `last`; `tx` | StartFetch, Get, Stat, PutObject, CreateFetchRecord, UpsertDocument, RecordFetchSuccess, Choose (the next page or child), Commit; GetFails, Raises, Dies, DeadlockBroken |
| `SourceRegistry` | `sources/`, `seeds/` | `rows`; `tx`, whose items are what is left of a command and whose calls are those of the item at hand | Operate, ApplySeedCatalog, RunHealthMonitor begin a command; Look reads what the next item is about; Check is the SELECT and the status check of a call, Write its INSERT or UPDATE by id; Commit, Raises, Dies, DeadlockBroken |
| `PublicApi` | `api/rate_limit.py`, `auth_partner.py`, `export_queries.py`, `v1/export.py` | `windows`, `req`; `rows`, `writing`, `walk`; `served` and `told` record what callers saw | Arrive; ListExpired, DeleteDoomed and CapTable are `_prune`, GetEntry with LetThrough or Refuse the rest of `take`, IterationFails what a second thread can do to it; ReadPage is one SELECT of the export, LoseAnswer its failure; ReadList is one page of a list by offset; BeginInsert, CommitInsert and ChangeStatus are the writers of the tables |
| `WebPages` | `web/src/App.tsx`, `pages/`, `explore/`, `components/`, `api/client.ts` of the pages Explore, Map, Sources and Graph | `url`, `view`, `due`, `load`, `facets`, `picked`; `calls` | Render, RunEffects (cleanups, then the effects whose dependencies changed), Answer and Fail of a request; ClickTab, ChangeType, ChangeText, ChangeLga, ChangeState, ChangeYear, PickRow, ClickColumn, ClickBesideColumns, FollowLink, FollowStateLink are the handlers, each of which writes the address that a later Render shows |

`JobQueueProofs`, `AnomalyRunProofs`, `SourcesAndStoriesProofs`, `GraphProjectionProofs`, `OcdsLoadProofs`,
`CaptureProofs`, `WebPagesProofs` and `PublicApiProofs` hold the theorems. A module `MCx` only gives
constants their values and states symmetry. In a module, an operator under a comment
`Fault:` is no part of the model: it is a version of the operator below it with a
plausible mistake in it, kept to show that the properties notice it (`mutants` in
`PROJECT.json`).

How the modules fit together. `JobQueue` treats a fetch as one step with an outcome,
since all that it writes is committed at once; `Capture` opens that step and shows
that its parts fit. `Capture` in turn assumes that each source is fetched again and
again, which is `DueSourceIsFetched` of `JobQueue`. `GraphProjection` extends
`PartyMerge` and runs beside all of its actions. `PublicApi` reads the rows the
others write and knows of them only when they were created and whether they are public.
`PartyMerge` has the part of a load
that rewrites party rows, `OcdsLoad` the rest. `SourceRegistry` has the commands that
edit sources; of these `JobQueue` keeps the changes of status, each as one step. `OcdsLoad`
has the tables of `BudgetMap` and the releases of `OcdsNormalise` written by the same loaders.
`AnomalyRun` runs the rules over ledgers that loads change, and its flags are
those of `AnomalyFlags`. `ReviewDesk` shares no rows with the others, and `WebPages` asks the
API and knows of an answer only which request it is of.

Three detailed specifications are shown to implement abstract ones: the job table the queue
(`ImplementsWorkQueue`), the review rows and stories the log (`ImplementsPublicationLog`), and
runs of the rules the runs of any drafts (`RunsAreFlagRuns`).

## 4. The runs

| Run | Module, configuration | Distinct states | Expected |
|---|---|---|---|
| `job_queue` | `MCJobQueue`, `JobQueue.cfg` | 340,000 | pass |
| `job_queue_poison` | `MCJobQueue`, `JobQueuePoison.cfg` | | `LoadJobsEnd` violated |
| `anomaly_run` | `MCAnomalyRun`, `AnomalyRun.cfg` | 401,000 | pass |
| `review_desk` | `MCReviewDesk`, `ReviewDesk.cfg` | 4,311,000 | pass |
| `party_merge_safety` | `MCPartyMerge`, `PartyMergeSafety.cfg` | 76,000 | pass |
| `party_merge_twice` | `MCPartyMerge`, `PartyMergeTwice.cfg` | | `MergedOnce` violated |
| `graph_projection_safety` | `MCGraphProjection`, `GraphProjection.cfg` | 4,649,000 | pass |
| `ocds_load_safety` | `MCOcdsLoad`, `OcdsLoadSafety.cfg` | 1,207,000 | pass |
| `capture_safety` | `MCCapture`, `CaptureSafety.cfg` | 359,000 | pass |
| `source_registry` | `MCSourceRegistry`, `SourceRegistry.cfg` | 331,000 | pass |
| `public_api` | `MCPublicApi`, `PublicApi.cfg` | 3,104,000 | pass |
| `web_pages` | `MCWebPages`, `WebPages.cfg` | 667,000 | pass |

What each shows, and why its bounds are enough:

**job_queue.** Two workers and an enqueuer share the table with operators and a manual
fetch. `s1` is a plain source; `s2` is a catalog with an adapter, fetched by hand as well and
approved, demoted and retired meanwhile; both may serve the same document `d1`, so the
second is a duplicate and the adapter is looked up by the source that had it first. Two
attempts and a backoff of two steps reach every boundary of the attempt count, the clock
(`MaxTime` 2, with cadences 1 and 2) lets a source become due again and a job fail and wait,
one worker is killed in the middle of a job that the other must take up, and one database
error rolls an attempt back. Portals may fail until `OutageEnd`, the last tick, so that a job
may fail for good. It checks that no two workers run one job, that dead means exhausted, that
the first source of a document decides of its load (section 5), that plain sources keep their cadence, that each load job
ends and each due source is fetched, and that all of this is the abstract queue
`WorkQueue` (a row committed as running would drop out of it, so this also says that there is
never one for `reclaim_stale_locks` to find). `FetchSpacing` is about plain sources only: a
catalog is fetched again when one of its children raises after the page was captured, and a
manual fetch asks for no cadence. The outage ends before the attempts of a window are used
up, because with a longer one `DueSourceIsFetched` does not hold: a dead fetch job keeps its
idempotency key and `last_fetched_at` does not move, so no job is ever queued for that
window again.

**anomaly_run.** Three sorts of scenes. In 1,850 ledgers one run is alone: a few rows around
every bound of each rule (the band under a threshold, the window of wins, the median of three
and four amounts, the tolerance of a budget), missing values included, and what it drafts is
compared with `Warranted`, a definition that has the words of spec 0018 and none of the
arithmetic of the code; that the two agree on every ledger is proved (section 7). In two ledgers with one or two keys, two runs and one or two
reviewers take part: two runs are what it takes for one to wait for the other's insert, a second
reviewer for one to wait for the other's update, two keys for runs to hold rows in opposite
orders; four rows allow one key every row that `StickyAfterLookUp` admits and one more. In one ledger loads
commit between the SELECTs of a run: an award comes with the count of tenderers, a tender goes to
another agency as it is awarded, a party is merged, a contract is signed. `RunFlagsWhatIsWarranted` is
that a run flags what one of the ledgers it saw warrants, but for the two rules whose
tables it reads from two of them (`Judged`, section 5).

**review_desk.** Two stories whose two texts have one slug, two reviewers, a
verifier that inserts a decided row for a failed verification, four reviews. Four are
enough for a story that is approved, revised and approved again while the other story
takes part. The clock is only the order in which transactions began. What is public is
always the newest text a human approved: this and that a decision is final is what
`PublicationLog` says, and the rows implement it. `decided_at`, though it is the START of a
transaction, orders the human decisions of a subject as the reviews were created.

**party_merge_safety.** Four parties and three proposals: chains of three merges, and a
party that is the survivor of one and the merged party of the next. One confirmer at a
time (see `party_merge_twice`) beside rejections of the same proposals and a load, which reads
aliases and writes them back around a merge. `MergesAreDecidedOnce` is proved for any number of
confirmers. `ConfirmedPairsAreOne` fails with two, and how is proved: only where a confirmation commits on
a party that was merged since it read it. `MergeHandsOnNames` is about the step that merges, and needs both
the one confirmer and the one load: a second confirmer or load may write aliases between the read and the
commit of a merge. A load that read the aliases before it may
afterwards write them back without the merged name. `MergedOnce` is refuted for two confirmers.

**graph_projection_safety.** Three parties, two merges and an award while two rebuilds read the
database, statement by statement, one after the other or overlapping, and apply their plans in
either order. An award loses its supplier only to a
survivor younger than the list of parties the rebuild began with. A rebuild
that is applied while the parties are as it listed them has every award it saw at the end of its chain of
merges. `OnlyOvertakenPlansForget` is about the
replacement of the graph: awards, and parties that were not merged, stay in it whatever
a rebuild did or where it failed, but for a rebuild that another one overtook (section 5). Two rebuilds
are what it takes to overtake. The run has one confirmer, three parties and one award because
more would not be checked in a few minutes; the three properties are proved for any number. `MaxMergeDepth`
is 3, which no chain of two merges reaches; a chain longer than the code's 16 makes the
rebuild raise, which RebuildFails includes.

**ocds_load_safety.** Two loaders run three loads of releases, a load of releases beside one of
a budget, or three of budgets. The job's first publication and the
live portal are of one tender, with and without an amount or an id and with the names spelt in
two ways. The second publication has an award to two suppliers, a contract without and a
release that is refused; the legacy packages have a release without a title, the same contract
again, and one package is refused as a whole, before its load writes anything, for a release without an ocid. All tenders share the agency. The bill and the act of a year
list the same two lines, one of them under the agency of the releases, with other amounts, units and
orders and without a code once. Every order and overlap of two loads and what a third does to the
result is covered; for budgets three, because the agencies that the first inserts
make the second wait for its end. Releases fail inside their savepoint, a body breaks off
between any two of its releases, a budget between any two lines, a job ends at an error or when the registry refuses.
`BudgetIsOfOneDocument` is that, while no budget load broke off, two lines that the same documents
list have the amounts of one of these documents: loads that overlap do not mix them.
The answers of the registry cannot be told in advance, so that any publication may be
skipped; why is not told apart. No
code loads a live portal with `identity="ocp"` today except tests; the kind is modelled
because `load_normalized_release` offers it and spec 0041 states rules for it.
`AmountsStayKnown` is stated for awards and contracts: the amount of a tender can be
lost, when a load that spells agency and supplier anew reads the tender before another
commits its amount. `NothingIsCountedTwice` needs what spec 0041 asks for: that no tender is
loaded under both identities. The legacy packages here are of a tender of their own.

**capture_safety.** A job and `make fetch-sources` run side by side over a plain source
and a catalog. The catalog has a dead link, a file and a year page with
another file and a link to the first as well; the plain source serves the bytes of the first file. Two faults (lost answers, exceptions
or deaths) happen at any two steps. With one dead link and a cap of two children
the listed files must be reached behind it, over several fetches.
`ListedChildrenAreCaptured` is the liveness property of this run. There is one job and one batch, as
the code deploys them; with a second worker the property does not hold, because two
fetches that lock a source and a document in opposite orders may be broken by Postgres
again and again.

**source_registry.** One operator, one seed run and the monitor, two calls of operators
or seeds, one death. The registry starts empty, or as an earlier catalog may have left it:
with the portal at its old url, or without its browser and with the search form approved
as a leaf. There is an obsolete url that moved, one that was given up, a url that needs
Playwright and an entry that is never approved: each branch of the seed run is taken. The
old url is one the probe refuses, the new one does not always answer. `SeedSettles` is
about seed runs that no other commit disturbed. Others can leave the registry otherwise:
all calls update by id what they read before, so that an approval that began before a
retirement revives the source. `ApprovedSourcesAreChecked` excepts an approved source
whose url `validate_probe_url` refuses, since it makes every run of the monitor raise.

**public_api.** The limiter is the same code for addresses and for partners, so callers are
of three sorts: three addresses on the event loop over a table for two, five requests,
a budget of two, one partner whose requests run in two threads of the pool, or a reader of a list. A window
of two seconds has four ticks, so that Retry-After, in whole seconds, has something to
round, and the five ticks of `MaxTime` let a caller that was refused wait it out. Two transactions insert rows, each any number of the two ids and all with its own start as
`created_at`, and commit in any order; rows stop being public and come back. With one row
a page, three requests end a walk over both. `BudgetHolds` is about addresses only:
two threads of the pool may read one count and both write the next (a partner then gets more
than its budget), delete one expired key twice, or change the dict under an iteration; all
three are in the model (GetEntry, DeleteDoomed, IterationFails). `RetryAfterIsEnough` is about
addresses too: a request of a partner may read its entry and, before it answers, another thread may
begin the next window, in which the partner is refused again at the time it was told. `WalkIsExact` (each row once,
none missed) is about rows that were there at the first page: one that commits later with a `created_at` before
the cursor is not in that walk. A reader pages through a list by offset, whose rows are
ordered by `created_at` alone: Postgres may then order rows of one load differently for
each page, and four rows let a page hide one behind another that is shown twice.
`MissedOnesHaveDoubles` says that this is all that can happen to parties and tenders, to which rows are only added.

**web_pages.** A visitor makes up to four steps (types, picks a row or a tab, follows a link, goes
back to a blank page) on any of the four pages, from a blank address; each render, each run of
effects and each answer or loss of a request may come between any two of them or after all. Four
are enough to leave a page and come back to it with a request of the first visit still under way, or to
pick a row, change the filter and pick again before one render. `PagesShowTheirQuery` and
`PickedRowIsShown` speak of pages whose effects have run; before that the code itself shows the
rows of the query before.

Symmetry is declared for sets that no property tells apart, in runs with safety and
action properties only. Runs with liveness properties have none.

## 5. Where the code and its documents differ

Two runs check what a document of the repository says and end in a counterexample.

* `job_queue_poison`: spec 0010 sends a job that failed back to the queue and finally to
  `dead`. When the failure is a database error, `fail_job` runs in the aborted
  transaction (`jobs/worker.py:177`), raises as well, and the rollback takes the attempt
  with it. The job keeps its `run_after`, is the oldest, and is claimed first for ever.
* `party_merge_twice`: spec 0014 has the second merge of a row raise.
  `apply_party_merge` (`finance/service.py:135`) reads the parties without a lock and
  updates by id; two confirmations that share a party both pass its checks.

Spec 0017 lets no run open a flag again that was dismissed. `upsert_open_flag`
(`anomaly/service.py:65`) locks the reviewed rows it finds; when the flag is dismissed
between that look and the insert, the run inserts a new open one. `StickyAfterLookUp`
says what does hold: such a run had looked before the review was committed, and each run
adds one row at most.

Spec 0033 (section 3, and its acceptance criteria) has a successful `fetch_source` of an adapted source
enqueue the load, by `adapter_for(source.url, ...)`. `_maybe_enqueue_normalize_load` (`jobs/worker.py:29`) takes the source of
the document instead, which is the one that captured the bytes first. So when a source without an adapter served the same bytes before, the
fetch of the adapted source succeeds and no load is queued, then or at a later fetch of these bytes; and a
fetch of a source without an adapter may queue one. `LoadsFollowTheFirstSource` says what the code does, and the run
has both cases (`d1`, served by `s1` and `s2`).

No document says that rebuilds of the graph come one at a time, and nothing in the code sees to it: `rebuild_finance_graph`
(`graph/rebuild.py:83`) reads the database before `rebuild_from_plan` (`graph/client.py:72`) opens the transaction that replaces the graph.
Of two that overlap, the one that read first may be applied last; awards and parties that the
other had put into the graph are then missing until the next rebuild. `OnlyOvertakenPlansForget` excepts such a plan, and
no other. The exactness of an undisturbed rebuild does not depend on it.

Spec 0038 has the upsert of a story update the row with its slug; the code conflicts
on the id only (`stories/service.py:93`), so that an approval under another id with a slug
that is taken raises and is rolled back. That step is in `ReviewDesk` (`DecideRaises`).

Spec 0017 has the rules read "in-memory snapshots". `load_rule_context`
(`anomaly/context.py:22`) reads six tables by six SELECTs, each of which sees what was committed by
then, so that a context may mix two ledgers: `single_bidder` can see a tender before the load that
counted its tenderers and the award of that load, `repeat_winner` an award and the tender it names
from before that went to another agency. Such a flag had no ledger to warrant it, and no later run takes
it back: open flags whose reason is gone stay open. `RunFlagsWhatIsWarranted` judges those two rules
only when the run saw one ledger; the others read one table, and `budget_payment_mismatch` besides it one
that nothing writes. Further, `repeat_winner` drafts one key twice for a supplier with two
agencies, of which the second draft is the evidence that stays, and it counts by
`awards.supplier_id`, so that what a merged party won is not counted with its survivor.
No command of the repository runs `run_anomaly_rules` yet.

The README and `docs` of the repository have every datum link to its source (P2). The
agency that a budget load inserts gets no provenance edge (`LoadsAreWhole` excepts it). Rows of a budget
without a code that say the same collapse into one line; a revised document without codes
adds new lines beside the old. Any later document overwrites the amount of a line, with
null too; that an Act should win over a Bill (spec 0037) is left to who runs the loads. A budget
load that breaks off in the worker has its first lines committed among those of another
document.

An award or contract without an id, under the legacy identity, is inserted anew by every
reload (`finance/ocds_load.py:335`). Contract ids of that identity are unique in a release only, but looked
up by agency and supplier. If a tender were loaded under both identities its awards would
be counted twice; spec 0041 forbids it and nothing in the code does.

The lists of parties, tenders and sources (`api/queries.py:254`, `:290`, `:334`) are ordered by
`created_at` alone, which all rows of one load share (spec 0023 pages them by limit and offset).
The list of stories has a tie-break. The list of sources is filtered by status as well, so that a
row that leaves it shifts the pages; that one is not walked in the model.

## 6. Fairness

`JobQueue`, `Capture`, `SourceRegistry` and `WebPages` have fair specifications; the other
modules state safety only.

* `JobQueue!Fairness`: weak fairness of Tick (time passes), of ListDue and EnqueueDue
  (cron starts `naijaledger-jobs enqueue` again and again and it ends), and for each
  worker of Claim and of Finish (the disjunction of the outcomes of a job). Spec 0010 has host
  cron start both commands. Nothing is assumed of Killed, of manual
  fetches or of operators. Which outcome a job has is not fair either: a document of
  `PoisonDocs` always has a database error, as the code has it. That an outage of a portal ends
  (`OutageEnd`) and that database errors and kills are finitely many are bounds, and without them
  the liveness properties do not hold.
* `Capture!Fairness`: strong fairness of the start of a fetch of each source by some
  worker, because the scheduler comes back to each due source (`DueSourceIsFetched`);
  weak fairness of the step a transaction is at, since every request has a timeout and
  statements end; strong fairness of the two statements that wait for a lock, since
  Postgres serves waiters of a row in their order. Faults are bounded, not fair.
* `SourceRegistry!Fairness`: weak fairness of RunHealthMonitor (`make health-monitor` is
  run again and again) and of the steps of a command, strong fairness of Write for the
  same reason as above: without it the monitor could take a row again and again from a
  seed run that waits for it. Operators and seed runs are not fair, and finitely many.
* `WebPages!Fairness`: weak fairness of Render and RunEffects, because React ends each render and runs
  its effects, and of Settle, the answer or failure of some request that was not
  cancelled, because the browser ends each request. Nothing is assumed of the visitor.

## 7. The proofs

The theorems hold for every value of the constants that satisfies the named assumptions
(`JobQueueAssumption`, `AnomalyFlagsAssumption`, `AnomalyRulesAssumption`, `AnomalyRunAssumption`,
`ReviewDeskAssumption`, `SourceRegistryAssumption`, `PartyMergeAssumption`, `GraphProjectionAssumption`, `CaptureAssumption`,
`WebPagesAssumption`, `PublicApiAssumption`; `OcdsLoadAssumption`, `ParentsComeFirst`, `OneIdentity`,
`OnlyBudgetsListLines` and `BudgetsAreLists`). These give types, keep null apart from the values and
relate parameters to each other (the keys of flags are pairs of a rule and a row, an award names a
party, the three sorts of callers differ; no correction leads to an obsolete url, no entry of the catalog
has one, two entries have two, and an entry whose url needs Playwright asks for it, all of which is true of
`seeds/catalog.py` and `seeds/run.py`; rows have the columns of the schema, and a load has no payments, because no
statement of the program writes that table). Where a proof counts (runs, parties, addresses, rows) the set it
counts is finite, which a database and its clients are. Those of the loads that say more are
explained with their proofs.

TLC evaluates every assumption in the runs. Where an argument is by induction on a number (the length
of a walk, the places in an order) it takes the least counterexample: a set of naturals
that has a member has a least one (`LeastNatural`, from the well-foundedness of `<`).

**JobQueueProofs** (1184 obligations). The safety properties of the table are not
inductive: that a job has one worker says nothing about what the worker will write. The
inductive invariant `QueueInv` adds `ClaimedRowsAreCurrent`: what a worker holds is the
committed row it claimed, still queued, with the same attempts and `run_after`, and
claimed no later than now. With it, a commit of a worker replaces a row by its next
state, a rollback leaves a row that is queued, and `Reclaimed` finds nothing
(`NothingToReclaim`). There is one lemma for each action, and one lemma each for the
parts that several actions share (`CommitIsShaped`, `CommitKeepsLocks`,
`CommitKeepsHandOn`).

* `QueueInvariant`, and from it `TypeCorrect`, `JobsHaveOneWorker`, `NothingIsReclaimed`,
  `DeadMeansExhausted`, `FirstSourceDecidesTheLoad`. `NothingIsReclaimed` says that no row is
  ever committed as running: a claim commits with its outcome or not at all.
* `EndedJobsAreFinal`: each step writes rows that are new or that its worker owns, and
  owned rows are queued.
* `FetchesAreSpaced` needs a second invariant, `OneOpenWindow`: every queued fetch
  job of a plain source, and every key an enqueuer still holds for it that the table does
  not know, is of the current window and due. So however stale the list of an enqueuer
  is, the key it would insert exists already or is the one of the window.
* `QueueImplementsWorkQueue`: the refinement mapping sends a row to waiting, owned,
  finished or exhausted by its status and its lock. Enqueue and a manual fetch are
  Submit or a stutter, Claim is Take, success is Done (which submits the load), failure is
  GiveBack or GiveUp, a rollback is GiveBack.

**AnomalyRunProofs** (2472 obligations) has the theorems on `AnomalyFlags` first, then carries
them over to the rules, and then has what the rules themselves are about. That a key has one open flag is not inductive:
the rows that runs have written and not committed count as well. `FlagInv` adds what the
locks are for: a row a run wrote stays open until the run ends (`WrittenStayOpen`), it is
the only one any run wrote for its key (`OneWriterPerKey`), one that is new has no open row
beside it (`InsertedAlone`), and a flag about to be committed as reviewed is open and nobody
else's (`ReviewedAreOpen`).

* `FlagsAreUnique`: a commit adds at most the one row its key may have.
* `ReviewsAreFinal`: a commit of a run writes rows that are open, one of a reviewer an
  open row that no other reviewer has updated.
* `StickyUpToLookUps` is a count. The rows of a key, committed or not, and the runs that looked it
  up, found no reviewed row and have not upserted yet (`Due`) are together at most one more than there are
  runners (`RowsAreCounted`): an insert turns a member of `Due` into a row, and a run joins `Due` only
  while no row of the key is reviewed, when there is one row at most.
* `LedgerInv` says that each ledger has rows with known ids and the columns of the schema,
  whatever was loaded, and that the SELECTs of a run saw a first and a last ledger in this
  order. So every draft of the rules is a key (`DraftsAreKeys`), a step of the composed system is
  one of `AnomalyFlags` or leaves it unchanged (`RunStepIsFlagStep`), and with
  `RunsAreFlagRuns` the theorems on flags hold of the runs of the rules (`RuleFlagsAreUnique`,
  `RuleReviewsAreFinal`, `RuleFlagsStayFew`).
* `RulesAreAsSpecified`: from any context with the columns of the schema and any thresholds, the seven
  rules draft what the words of spec 0018 say. Four of them are computed as they are worded, and three are not.
  What sorting does is said by counts (`IsNth`: fewer than n values are below the nth,
  n or more not above it), which is enough for both of its users. The middles of a sorted list are the
  least and the greatest of the values that halve it (`MedianIsMiddle`), and the median
  deviation is the same of the distances (`OutliersAreFar`). The sliding window is an induction over its
  steps (`SlidTo`): left is where the dates near the last one begin, which moves only to the right because the dates ascend,
  and best is the size of the largest cluster so far. A cluster of places is then a set of awards
  within a window, of the size of its places, and back (`ClusterIsInWindow`, `WindowIsInCluster`). A sum of
  payments is a number (`PaidIsNumber`, by induction on the size of the set), and a whole number is beyond the cut limit
  when it is beyond the limit (`LimitIsExact`).
* `RunsFlagWhatIsWarranted` says it of a run beside loads, other runs and reviews. `RunsHaveViews` is the history that
  is needed: there is a choice of ledgers for the SELECTs of a run, between its first and its last, of
  which the drafts are what it has yet to do, what it has written and what a reviewer had decided when
  it looked. A row stays decided (`DecidedStays`) and a ledger stays as it is (`LedgersStay`). At the
  commit nothing is left to do. Each rule that `Judged` does not except reads one table, hence one ledger, of which
  its drafts are those of that ledger (`RuleReadsItsTable`, `ViewWarrants`). `budget_payment_mismatch` reads payments
  too, and payments are the same in every ledger (`PaymentsStay`).

**SourcesAndStoriesProofs** (3799 obligations) has `ReviewDesk` and `SourceRegistry`. `DeskInv` adds to the properties of the run: ids
are in the order of creation (`IdsInOrder`); a pending review is newer than all others of
its subject but records of failed verifications (`PendingIsNewest`); and what a reviewer
read keeps its meaning while it waits (`DesksAreInOrder`): no older review of the subject
is pending, and the decisions before it began before it.

* `StoriesAreApproved`, `StoriesNeverGoBack`, `DecisionsAreDated`: the review that is being
  decided was the newest when it was read and is the newest still.
* `DecisionsAreFinal`: the UPDATE is of a pending row, whoever read it before.
* `GateIsPublicationLog`: the refinement mapping reads entries off the reviews and the public
  texts off the stories. EnqueueReview and RecordFailure are HandIn or a stutter, a decision is
  Publish or Close of the entry it read, which `DeskInv` says is the newest.
* `RegistryTypeCorrect`: that the unique url survives a commit is not inductive, since two transactions
  may each have moved a row. `RegistryInv` says that no url is held by two of them (the urls of the rows
  one has written, and those these rows had: what the index makes the second wait for) and that none sees one twice;
  and that only the first call of a list inserts, with an id nobody else has, so that each other call finds its row.
* `SeedRunsSettle` needs `SeedInv`: a run that nobody disturbed is at its k-th item, the items before it
  are done in what it sees, and the calls of the k-th reach all that is still wrong. Two facts make it inductive. A
  call brings no retired source back, since its status was checked and nobody commits in between; and a later item undoes
  no earlier one (`DoneStays`), which is what the assumptions on the catalog are for. The order of the items matters:
  a source that moves to a url that needs Playwright gets it only because the methods come second.

**GraphProjectionProofs** (1891 obligations) has the theorems on `PartyMerge` first, about its own
specification `PartySpec`, which the composed one implements (`GraphKeepsParties`). None of them assumes
anything about who confirms, loads or rebuilds, and how many at a time. `PartyInv`
is the types, `LockedProposals` (a confirmer has a pending proposal nobody else has, and the two parties in its
hands are the two of the proposal) and `MergesAreConfirmed`.

* `MergesAreDecidedByOneHuman` needs `PairsInv`. The partial unique index keeps one pending proposal for a pair
  (`PendingOnce`), and a party of a confirmed pair stays merged (`ConfirmedIsMerged`). So a confirmation that found
  both parties unmerged can rely on it to its end that nobody else confirms this pair (`CheckedPairsAreNew`), although
  it has locked the proposal only. That a resolution is final (`ProposalsResolveOnce`) is due to that lock.
* `OnlyStaleMergesDivide` says what can end `ConfirmedPairsAreOne`: the commit of a confirmation on parties of which
  one was merged after it had read them, and no other step of anybody. That two parties have one survivor says
  nothing of what the next merge does to it. `ForestInv` is that there are functions `root` and
  `depth` of the parties: the root of a party is unmerged and that of the party it was merged into, the depth
  one more and at most the number of merged parties, and both parties of a confirmed pair have one root. A merge
  of two unmerged parties moves the root of one tree below that of another (`ForestConfirm`). That a walk along `into` ends
  at the root is an induction on the depth (`SurvivorIsRoot`), and where all walks of confirmed pairs end at one unmerged
  party there is such a forest (`ForestOfPairs`), so that the property alone is enough to start a step from.
* `MergesLoseNoEdge`. What a rebuild has read is a row for each of its phases, and other rebuilds do not touch
  it (`PlansOK`). `ListedParties` is what the SELECT of the parties leaves behind: who is listed as merged is
  merged for good, by a confirmed proposal of these two. `ResolvedParties` is the same for each walk: its
  end is either a node or younger than the list.
* `GraphForgetsByOvertaking`: a plan that no other one overtook has read all that is in the graph it replaces
  (`ReadTheGraph`), because the plan of that graph was applied before it began and rows of `supplier` and of the
  parties only come.
* `UndisturbedRebuildIsExact`: a plan whose listing is what the parties are now has walked through this listing only
  (`WalkedTheListing`). Once the parties differ from a listing they never equal it again: a merge
  that was moved would take a second confirmation of its pair to come back (`DisturbedForGood`). A walk that visits no party twice
  and ends at an unmerged one has found what `Survivor` finds (`LeadsToSurvivor`).

**OcdsLoadProofs** (2585 obligations). No index keeps awards or contracts unique, and the look-up of one
locks nothing, so that `NothingIsCountedTwice` says nothing of what two loads are about to commit. `LoadInv` says,
of each transaction, that its rows could be committed as they are (`Fits`: over the committed rows they count nothing
twice, and each award or contract of its own has its parent, the tender or the agency, among its own
rows), that what a savepoint would go back to could be too, and that what its SELECT saw of an award or
contract is so still (`LookedUp`); and of two transactions that they have neither a row nor a
key of a unique index in common (`Apart`). Who is about to look up an award has therefore
written its tender and holds its lock, and nobody else commits an award of that tender between
the look-up and the insert (`NamesakesApart`, `CommitKeepsFits`).

* `LoadInvariant`, and from it `CountedOnce`.
* `CountedIsThere` needs `WholeInv`: what is left of a release is its last items, and those
  before are in the rows as the transaction sees them; so are all of the releases that are done, also
  under the rows that a savepoint would go back to; and a row without evidence is the agency of a budget (section 5).
* `NullNeverErases` and `LiveIsKept` follow from the same invariant, which keeps for each row that a
  transaction has written over a committed award or contract that the amount is known and, for an archive load over a live row,
  the same. The row it read is still the row it writes over, because of the lock on the parent.
* `YearIsOfOneDocument` needs `BudgetInv`: a budget load that has come to some line has written all lines before
  it with the last word of its document (`LastWord`), and holds them. A load that ends has
  therefore written all lines it lists and no other; two loads that share a line do not overlap.
* `ParentsComeFirst` is assumed: each release asks for the tender before its awards and for the agency
  before its contracts. `Items` is made of folds over the lists of a release, what they return for every
  release is an induction over data, and TLC evaluates the assumption on the releases of the run.
* `OneIdentity` is assumed: no award or contract is loaded under both identities. Spec 0041 forbids
  it and no code does (section 5).
* `OnlyBudgetsListLines` and `BudgetsAreLists` are assumed for the same reason as the first: a budget asks
  for agencies and lines and a release for no line, and the lines of a document are a finite list.

**CaptureProofs** (1825 obligations). `CaptureInv` adds to the properties what a transaction has in
its hands: its record names an object once the object was put or found, each document it has
written has a record, in the table or its own, with which it is committed, and what it waits for is typed. A job
that fails half way commits, which is why the invariant speaks of every prefix of a fetch.

* `EvidenceIsArchived`: nothing removes an object, and a record that names one is written after Stat or PutObject.
* `CapturesCommitWhole`: a success is committed with its document, and a document that
  another transaction inserted first is there before it is pointed to.
* `ChildrenAreListedOnce` needs a second invariant, `ChildInv`: who follows the links of a catalog
  has updated its row of `sources` and holds that lock until it ends, so whatever child it did
  not find captured stays so until its commit.
* `ParentsAreDocuments` needs a third, `LinkInv`: each link a fetch still has to follow, and the
  target and documents of its transaction, name no parent or one that is a document, its own or committed, with the
  link in it. Links are gathered from pages one after the other (`Discovered`); that the list that results
  has such links only is an induction on the number of links.

**WebPagesProofs** (642 obligations). `PageInv` relates each request to the render it comes from: one
that is not cancelled asks what the page asks, unless the effect that will cancel it is
due. `AddressInv` is about the address alone.

* `PagesAreCurrent`: an answer that is shown is of a request that no cleanup has cancelled.
* `FiltersFit`: every handler patches the parameters that the last render showed, which are those of the page and
  the tab it patches them for. A patch of the address as the last event left it would mix them: between a
  change of the tab and its render, a handler of the tab before would put its filter into the address of the next.
* `PickedRowsAreCurrent` needs `PanelInv`: one request for rows is live at a time and the page
  loads or is about to as long as it is, and a row in the panel is of the rows shown unless the effect that drops it or looks
  it up again is due.

**PublicApiProofs** (3691 obligations). The counts of the limiter, the cursor and the offset are three
arguments, each with an invariant of its own.

* `TwoWindowsAtMost` and `WaitingHelps` need `LimiterInv`, which relates the table to what callers were in truth
  given. An entry counts the requests that were let through since its start (`EntryOk`). Of an
  address without an entry, or with one that is listed for deletion, no stretch of time that is not over has seen a
  budget of requests, unless it saw more addresses than the table holds (`Lost`): an
  expired entry is over, and an entry that is evicted while it runs is the oldest of more than the table may hold,
all of which were seen since it began. Two windows that
  touch a stretch then add up to less than two budgets. An address is handled on the event loop, which has one request
  at a time between its `await`s; with threads neither holds (section 4).
* `CursorMissesNothing` needs `WalkInv`: what was got lies at or before the cursor and is got once, and each
  row that was there all the time is got or lies behind it. The order by `created_at` and id is total, a
  page is a prefix of what follows the cursor (`FollowingIsAhead`, `PageSplits`), and rows
  that are committed between two pages take no place away.
* `OffsetHidesOnlyTwins` needs `ListInv`, which counts places. The order by `created_at` alone leaves rows of one
  load in any order, another one for each page. For each time of which a row was there at the first page, either as many
  of its rows have been got as there are, or as many as the places read so far reach into those of that time (`Enough`).
  At the end, as many were got as there are, so that if one is missing another was got twice
  (`SomeTwice`). Rows of one load come in one commit (`ClassesStay`), later loads only push places back.

Only model-checked are: liveness (`LoadJobsEnd`, `DueSourceIsFetched`,
`ListedChildrenAreCaptured`, `ApprovedSourcesAreChecked`) and `LoadsEnd`, which need ENABLED, and
`MergeHandsOnNames`, which is true of one confirmer and one load and false of more (section 4). `ConfirmedPairsAreOne`
is checked for one confirmer, and what can end it for any number is proved. Every other
invariant and action property that a passing run checks is a theorem. The type invariants of `JobQueue`, `AnomalyFlags`, `ReviewDesk`, `PartyMerge`, `Capture` and
`WebPages` are proved and not checked again by the runs, as are `EndedJobsStay`, `DecidedStays`,
`StoriesAreApproved` and `StoriesNeverGoBack`.

## 8. What is not modelled

* Parsers, HTML and the URL filters of link discovery (libraries and text processing):
  what they return is given with the body. Name scores and the adjudicator of
  `finance/matching.py` and `adjudicators.py`: any two unmerged parties may be proposed.
  Matches are proposed between parties of one type, which is left out; the normaliser
  fills no aliases, so a load writes back those it read.
* The extraction pipeline (`extract/`): no command and no other module calls it, only tests do. It is
  a function of one document that ends in one insert, and its parsers are libraries. Its two ways of storing an
  unsupported document differ: `persist_outcome` writes `ok` false, `record_unsupported` (`extract/router.py:84`) true.
* How a table is found in a PDF and how a fiscal year is read from a title; the reasons of the
  licence gate (text of a page and of a file); the adapters that make releases of HTML and
  JSON; the award a contract refers to.
* The backtest of the rules over a fixed corpus, the severity and the wording of flags.
* The other endpoints of the public API (one row, facets, map, graph): each answers from SELECTs
  and keeps no state. So do the queries on the graph.
* Story agents (`agents/`): drafts from read-only SELECTs and a language model; what they submit enters
  `ReviewDesk`. `verify_story` checks that citations are there, not that the flags they cite are still open.
* Of the web frontend: sorting, charts, drawings, and the pages that load one item or nothing.
* Configuration, database and HTTP plumbing are I/O. The retention of the archive and the creation
  of its bucket are settings of the store.

## 9. Plan

What was planned is there, in this order: `JobQueue` with `WorkQueue`, the scheduler everything hangs
on; `AnomalyFlags`; `ReviewDesk` and later `PublicationLog`; `PartyMerge` and `GraphProjection`;
`OcdsNormalise` and `OcdsLoad`; `Capture`; `SourceRegistry`; `PublicApi`; `AnomalyRules` and
`AnomalyRun`; `WebPages`; `BudgetMap`; each with its proofs where section 7 lists them.

What could follow: a command that runs the rules, when there is one, as a process of
its own beside the reviews of the stories that cite its flags.
