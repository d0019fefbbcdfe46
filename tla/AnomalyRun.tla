----------------------------- MODULE AnomalyRun -----------------------------
(***************************************************************************)
(* A run of the anomaly rules from the first SELECT to the commit, beside  *)
(* loads that commit between its SELECTs: run_anomaly_rules with           *)
(* load_rule_context, AnomalyRules and the flags of AnomalyFlags.          *)
(***************************************************************************)
EXTENDS AnomalyRules, AnomalyFlags

CONSTANTS
    Scenes,   \* ledgers at the start, with the loads to come and who takes part
    Ids       \* ids of rows in the ledger

Tables == {"tenders", "awards", "contracts", "parties", "payments", "lines"}

\* What their columns hold; address_key of an address is a number here.
Maybe == Int \cup {Missing}
Columns ==
    [tenders |-> [agency : Ids, tenderers : Maybe, opens : Maybe, closes : Maybe,
                  method : {Missing, "open", "selective", "limited", "direct"}],
     awards |-> [tender : Ids, supplier : Ids, amount : Maybe, ngn : BOOLEAN, date : Maybe],
     contracts |-> [agency : Ids, amount : Maybe, ngn : BOOLEAN],
     parties |-> [company : BOOLEAN, address : Maybe, merged : BOOLEAN],
     payments |-> [agency : Ids, year : Maybe, ngn : BOOLEAN, amount : Int],
     lines |-> [agency : Ids, year : Int, ngn : BOOLEAN, utilised : Maybe, allocated : Maybe]]

\* The tables of a ledger, or those that a load writes.
HasRows(tables) ==
    /\ DOMAIN tables \subseteq Tables
    /\ \A table \in DOMAIN tables :
          /\ DOMAIN tables[table] \subseteq Ids
          /\ tables[table] \in [DOMAIN tables[table] -> Columns[table]]

\* No statement of the program writes payments.
IsLoad(tables) == HasRows(tables) /\ "payments" \notin DOMAIN tables

ASSUME AnomalyRunAssumption ==
    /\ IsFiniteSet(Ids) /\ Keys = RuleIds \X Ids
    /\ \A scene \in Scenes :
          /\ HasRows(scene.ledger) /\ DOMAIN scene.ledger = Tables
          /\ \A load \in scene.loads : IsLoad(load)

VARIABLES
    versions,   \* the ledgers that were committed, in their order
    loads,      \* the loads to come
    cast,       \* who takes part
    context     \* runner -> the first and the last ledger its SELECTs saw

ledgerVars == <<versions, loads, cast>>
runVars == <<flags, run, desk, versions, loads, cast, context>>

Ledger == versions[Len(versions)]

RunInit ==
    /\ Init
    /\ \E scene \in Scenes :
          /\ versions = <<scene.ledger>>
          /\ loads = scene.loads
          /\ cast = scene.cast
    /\ context = [r \in {} |-> r]

\* A load inserts rows and updates others, all in one transaction.
Upserted(rows, old) ==
    [id \in DOMAIN rows \cup DOMAIN old |-> IF id \in DOMAIN rows THEN rows[id] ELSE old[id]]

Loaded(load) ==
    [table \in Tables |-> IF table \in DOMAIN load THEN Upserted(load[table], Ledger[table])
                          ELSE Ledger[table]]

CommitLoad ==
    \E load \in loads :
        /\ versions' = Append(versions, Loaded(load))
        /\ loads' = loads \ {load}
        /\ UNCHANGED <<flags, run, desk, cast, context>>

(***************************************************************************)
(* load_rule_context: a SELECT for each table, one after the other.  Each  *)
(* sees the ledger of its moment.                                          *)
(***************************************************************************)
SelectOrder == <<"tenders", "awards", "contracts", "parties", "payments", "lines">>

BeginRun(r) ==
    /\ r \in cast \ (DOMAIN run \cup DOMAIN context)
    /\ context' = Put(context, r, [first |-> Len(versions), last |-> Len(versions)])
    /\ UNCHANGED <<flags, run, desk, ledgerVars>>

\* For each table, which ledger its SELECT sees.
Views(first) ==
    {view \in [Tables -> first .. Len(versions)] :
        \A m, n \in 1..Len(SelectOrder) :
            m <= n => view[SelectOrder[m]] <= view[SelectOrder[n]]}

\* Fault: merged parties are selected too.
SelectedAll(table, rows) == DOMAIN rows

\* WHERE merged_into_id IS NULL
Selected(table, rows) ==
    IF table = "parties" THEN {p \in DOMAIN rows : ~rows[p].merged} ELSE DOMAIN rows

LoadRuleContext(view) ==
    [table \in Tables |->
        [id \in Selected(table, versions[view[table]][table]) |->
            versions[view[table]][table][id]]]

\* The rules draft flags from the context; what they draft is looked up and
\* upserted as in AnomalyFlags.
Evaluate(r) ==
    /\ r \in DOMAIN context
    /\ \E view \in Views(context[r].first) : StartRun(r, Drafts(LoadRuleContext(view)))
    /\ context' = [context EXCEPT ![r].last = Len(versions)]
    /\ UNCHANGED ledgerVars

EndRun(r) ==
    /\ CommitRun(r) \/ AbortRun(r)
    /\ context' = Drop(context, r)
    /\ UNCHANGED ledgerVars

RunNext ==
    \/ CommitLoad
    \/ \E r \in Runners : BeginRun(r) \/ Evaluate(r) \/ EndRun(r)
    \/ /\ \/ \E r \in Runners : LookUpSticky(r) \/ UpsertOpenFlag(r)
          \/ \E v \in Reviewers \cap cast :
                \/ ReadFlag(v) \/ SetReviewedStatus(v)
                \/ CommitReview(v) \/ AbortReview(v)
       /\ UNCHANGED <<ledgerVars, context>>

RunSpec == RunInit /\ [][RunNext]_runVars
-----------------------------------------------------------------------------
\* Spec 0018 on the ledger: merged parties are no parties of it.
WarrantedIn(n) ==
    Warranted([versions[n] EXCEPT
        !.parties = [p \in {q \in DOMAIN @ : ~@[q].merged} |-> @[p]]])

KeysWritten(r) == {run[r].wrote[f].key : f \in Written(r)}

\* A run whose SELECTs saw different ledgers is not judged by the two rules that
\* join tables which loads write: tenders read before their awards may show an
\* award without the count of tenderers that came with it, or at an agency the
\* tender has left, and be flagged as no ledger warrants.
Judged(keys, r) ==
    {k \in keys : \/ context[r].first = context[r].last
                  \/ k[1] \notin {"single_bidder", "repeat_winner"}}

\* Spec 0018, section 3.2, and spec 0017, "in-memory snapshots": a run flags the
\* subjects the rules are about, and no others.  What was warranted in every
\* ledger between its first and its last SELECT is flagged when it ends, unless a
\* reviewer has decided it; what it flags was warranted in one of them.  Without
\* a load meanwhile this is exactly what the specification asks for.
RunFlagsWhatIsWarranted ==
    [][\A r \in Runners :
          r \in DOMAIN run /\ CommitRun(r) =>
            LET seen == context[r].first .. context[r].last
            IN  /\ \A k \in Judged({k \in Keys : \A n \in seen : k \in WarrantedIn(n)}, r) :
                      k \in KeysWritten(r) \/ StickyRows(k) # {}
                /\ \A k \in Judged(KeysWritten(r), r) :
                      \E n \in seen : k \in WarrantedIn(n)]_runVars
=============================================================================
