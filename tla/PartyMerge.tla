----------------------------- MODULE PartyMerge -----------------------------
(***************************************************************************)
(* Entity resolution: parties, the proposals that two of them are one, and *)
(* the people who confirm or reject them (finance/service.py,              *)
(* finance/proposals.py).  party and proposals are the committed rows;     *)
(* draft, tx and load are the open transactions.  Matches are proposed     *)
(* between parties of one type, so the type is left out, and a party       *)
(* stands for its own canonical_name.                                      *)
(***************************************************************************)
EXTENDS Naturals, FiniteSets

CONSTANTS
    Parties,      \* ids a load can give to parties
    Proposers,    \* callers of create_match_proposal
    Confirmers,   \* callers of confirm_match_proposal
    Loaders,      \* loads that meet parties they know (finance/ocds_load.py)
    ProposalIds,  \* bound: as many proposals as there are ids are made
    NoParty       \* SQL NULL in merged_into_id

ASSUME PartyMergeAssumption == NoParty \notin Parties /\ IsFiniteSet(Parties)

VARIABLES
    party,      \* id -> committed row
    proposals,  \* id -> committed row
    draft,      \* proposer -> the pair it has read and is having judged
    tx,         \* confirmer -> its transaction
    load        \* loader -> its transaction

partyVars == <<party, proposals, draft, tx, load>>

PartyRows == [into : Parties \cup {NoParty}, aliases : SUBSET Parties]
Pairs == {pair \in SUBSET Parties : Cardinality(pair) = 2}
ProposalRows == [pair : Pairs, status : {"pending", "confirmed", "rejected"}]
Steps == {"locked", "read", "survivor", "merged"}

Put(f, x, v) == [y \in DOMAIN f \cup {x} |-> IF y = x THEN v ELSE f[y]]
Drop(f, x) == [y \in DOMAIN f \ {x} |-> f[y]]

Unmerged(p) == p \in DOMAIN party /\ party[p].into = NoParty

PendingPairs == {proposals[i].pair : i \in {j \in DOMAIN proposals :
                                              proposals[j].status = "pending"}}

\* Fault: the proposal is read without FOR UPDATE.
NotLocked(i) == FALSE

\* Row locks: a proposal from its SELECT ... FOR UPDATE on, a party from its
\* UPDATE on, both to the end of the transaction.
ProposalLocked(i) == \E o \in DOMAIN tx : tx[o].proposal = i

HoldsParty(o, p) ==
    \/ tx[o].step \in {"survivor", "merged"} /\ p = tx[o].survivor
    \/ tx[o].step = "merged" /\ p = tx[o].merged

LoadHoldsParty(l, p) == load[l].written /\ p = load[l].party

PartyLocked(who, p) ==
    \/ \E o \in DOMAIN tx \ {who} : HoldsParty(o, p)
    \/ \E l \in DOMAIN load \ {who} : LoadHoldsParty(l, p)

PartyInit ==
    /\ party = [p \in {} |-> p]
    /\ proposals = [i \in {} |-> i]
    /\ draft = [q \in {} |-> q]
    /\ tx = [o \in {} |-> o]
    /\ load = [l \in {} |-> l]

NewParty == [into |-> NoParty, aliases |-> {}]

CreateParty(p) ==
    /\ p \notin DOMAIN party
    /\ party' = Put(party, p, NewParty)
    /\ UNCHANGED <<proposals, draft, tx, load>>

(***************************************************************************)
(* create_match_proposal reads both parties, asks the adjudicator (which   *)
(* may be a call over the network) and inserts the proposal; a pending one *)
(* of the same pair makes the insert fail.                                 *)
(***************************************************************************)
ReadCandidates(q, pair) ==
    /\ q \notin DOMAIN draft
    /\ \A p \in pair : Unmerged(p)
    /\ draft' = Put(draft, q, pair)
    /\ UNCHANGED <<party, proposals, tx, load>>

InsertProposal(q) ==
    /\ q \in DOMAIN draft
    /\ draft[q] \notin PendingPairs
    /\ \E i \in ProposalIds \ DOMAIN proposals :
          proposals' = Put(proposals, i, [pair |-> draft[q], status |-> "pending"])
    /\ draft' = Drop(draft, q)
    /\ UNCHANGED <<party, tx, load>>

InsertFails(q) ==
    /\ q \in DOMAIN draft
    /\ draft' = Drop(draft, q)
    /\ UNCHANGED <<party, proposals, tx, load>>

(***************************************************************************)
(* confirm_match_proposal.                                                 *)
(***************************************************************************)
Open(i) == proposals[i].status = "pending"

\* Fault: the two ids are not compared with the proposal.
AnyTwo(i, survivor, merged) == survivor # merged

ItsPair(i, survivor, merged) ==
    survivor # merged /\ {survivor, merged} = proposals[i].pair

LockProposal(o) ==
    /\ o \notin DOMAIN tx
    /\ \E i \in DOMAIN proposals, survivor, merged \in DOMAIN party :
          /\ ~ProposalLocked(i)
          /\ Open(i)
          /\ ItsPair(i, survivor, merged)
          /\ tx' = Put(tx, o, [proposal |-> i, step |-> "locked",
                               survivor |-> survivor, merged |-> merged,
                               aliases |-> {}])
    /\ UNCHANGED <<party, proposals, draft, load>>

\* Fault: only the survivor is checked.
MayMergeAgain(survivor, merged) == Unmerged(survivor)

MayMerge(survivor, merged) == Unmerged(survivor) /\ Unmerged(merged)

\* Fault: the aliases the merged party had are left behind.
JoinedNames(survivor, merged) == party[survivor].aliases \cup {merged}

JoinedAliases(survivor, merged) ==
    party[survivor].aliases \cup party[merged].aliases \cup {merged}

\* Two SELECTs without a lock, and the checks on what they read.
ReadPair(o) ==
    /\ o \in DOMAIN tx /\ tx[o].step = "locked"
    /\ MayMerge(tx[o].survivor, tx[o].merged)
    /\ tx' = [tx EXCEPT ![o].step = "read",
                        ![o].aliases = JoinedAliases(tx[o].survivor, tx[o].merged)]
    /\ UNCHANGED <<party, proposals, draft, load>>

\* UPDATE parties ... WHERE id = ...: it waits for the row, and looks at
\* nothing but the id.
UpdateSurvivor(o) ==
    /\ o \in DOMAIN tx /\ tx[o].step = "read"
    /\ ~PartyLocked(o, tx[o].survivor)
    /\ tx' = [tx EXCEPT ![o].step = "survivor"]
    /\ UNCHANGED <<party, proposals, draft, load>>

UpdateMerged(o) ==
    /\ o \in DOMAIN tx /\ tx[o].step = "survivor"
    /\ ~PartyLocked(o, tx[o].merged)
    /\ tx' = [tx EXCEPT ![o].step = "merged"]
    /\ UNCHANGED <<party, proposals, draft, load>>

Confirm(o) ==
    /\ o \in DOMAIN tx /\ tx[o].step = "merged"
    /\ party' = [party EXCEPT ![tx[o].survivor].aliases = tx[o].aliases,
                              ![tx[o].merged].into = tx[o].survivor]
    /\ proposals' = [proposals EXCEPT ![tx[o].proposal].status = "confirmed"]
    /\ tx' = Drop(tx, o)
    /\ UNCHANGED <<draft, load>>

\* A check raises, Postgres breaks a deadlock, or the caller dies.
AbortConfirm(o) ==
    /\ o \in DOMAIN tx
    /\ tx' = Drop(tx, o)
    /\ UNCHANGED <<party, proposals, draft, load>>

RejectProposal(i) ==
    /\ i \in DOMAIN proposals
    /\ ~ProposalLocked(i)
    /\ Open(i)
    /\ proposals' = [proposals EXCEPT ![i].status = "rejected"]
    /\ UNCHANGED <<party, draft, tx, load>>

(***************************************************************************)
(* _upsert_party of a load that meets a party by its name, merged or not:  *)
(* the aliases are read, those of the release added (the OCDS normaliser   *)
(* gives none) and the whole written back.  The load goes on after that    *)
(* and keeps the row locked until it ends.                                 *)
(***************************************************************************)
LoadReads(l, p) ==
    /\ l \notin DOMAIN load
    /\ p \in DOMAIN party
    /\ load' = Put(load, l, [party |-> p, aliases |-> party[p].aliases,
                            written |-> FALSE])
    /\ UNCHANGED <<party, proposals, draft, tx>>

LoadWrites(l) ==
    /\ l \in DOMAIN load /\ ~load[l].written
    /\ ~PartyLocked(l, load[l].party)
    /\ load' = [load EXCEPT ![l].written = TRUE]
    /\ UNCHANGED <<party, proposals, draft, tx>>

LoadCommits(l) ==
    /\ l \in DOMAIN load /\ load[l].written
    /\ party' = [party EXCEPT ![load[l].party].aliases = load[l].aliases]
    /\ load' = Drop(load, l)
    /\ UNCHANGED <<proposals, draft, tx>>

LoadAborts(l) ==
    /\ l \in DOMAIN load
    /\ load' = Drop(load, l)
    /\ UNCHANGED <<party, proposals, draft, tx>>

PartyNext ==
    \/ \E p \in Parties : CreateParty(p)
    \/ \E q \in Proposers :
          \/ \E pair \in Pairs : ReadCandidates(q, pair)
          \/ InsertProposal(q) \/ InsertFails(q)
    \/ \E o \in Confirmers :
          \/ LockProposal(o) \/ ReadPair(o) \/ UpdateSurvivor(o)
          \/ UpdateMerged(o) \/ Confirm(o) \/ AbortConfirm(o)
    \/ \E i \in ProposalIds : RejectProposal(i)
    \/ \E l \in Loaders :
          \/ \E p \in Parties : LoadReads(l, p)
          \/ LoadWrites(l) \/ LoadCommits(l) \/ LoadAborts(l)

PartySpec == PartyInit /\ [][PartyNext]_partyVars
-----------------------------------------------------------------------------
PartyTypeOK ==
    /\ DOMAIN party \subseteq Parties /\ party \in [DOMAIN party -> PartyRows]
    /\ DOMAIN proposals \subseteq ProposalIds
    /\ proposals \in [DOMAIN proposals -> ProposalRows]
    /\ DOMAIN draft \subseteq Proposers /\ draft \in [DOMAIN draft -> Pairs]
    /\ DOMAIN tx \subseteq Confirmers
    /\ tx \in [DOMAIN tx -> [proposal : DOMAIN proposals, step : Steps,
                             survivor : DOMAIN party, merged : DOMAIN party,
                             aliases : SUBSET Parties]]
    /\ DOMAIN load \subseteq Loaders
    /\ load \in [DOMAIN load -> [party : DOMAIN party, aliases : SUBSET Parties,
                                 written : BOOLEAN]]

\* No party is merged by a machine: behind each merge stands the proposal of
\* just these two parties that a human confirmed.
MergesAreConfirmed ==
    \A p \in DOMAIN party : party[p].into # NoParty =>
        \E i \in DOMAIN proposals : /\ proposals[i].status = "confirmed"
                                    /\ proposals[i].pair = {p, party[p].into}

\* Two parties are confirmed to be one at most once, whichever of them goes
\* into the other.
PairsAreConfirmedOnce ==
    \A i, j \in DOMAIN proposals :
        (/\ proposals[i].status = "confirmed" /\ proposals[j].status = "confirmed"
         /\ proposals[i].pair = proposals[j].pair) => j = i

\* A proposal is resolved once, whoever confirms and rejects it at a time.
ResolvedIsFinal ==
    [][\A i \in DOMAIN proposals : proposals[i].status # "pending" =>
          i \in DOMAIN proposals' /\ proposals'[i] = proposals[i]]_partyVars

\* A merge is one human decision, which nobody else takes back: it has a
\* confirmed proposal, there is no second one for the pair, and a rejection that
\* races with the confirmation resolves the proposal only if it is the first.
MergesAreDecidedOnce ==
    [](MergesAreConfirmed /\ PairsAreConfirmedOnce) /\ ResolvedIsFinal

\* Spec 0014, acceptance: "second merge of same row raises".
MergedOnce ==
    [][\A p \in DOMAIN party : party[p].into # NoParty =>
          p \in DOMAIN party' /\ party'[p].into = party[p].into]_partyVars

\* Ancestor[n][p] is the party n merges above p (or the last there is).
Ancestor[n \in 0..Cardinality(Parties)] ==
    IF n = 0 THEN [p \in DOMAIN party |-> p]
    ELSE [p \in DOMAIN party |->
             LET q == Ancestor[n - 1][p]
             IN  IF party[q].into = NoParty THEN q ELSE party[q].into]

Survivor(p) == Ancestor[Cardinality(Parties)][p]

\* With one confirmer at a time, what was confirmed stays true: however many
\* merges follow, the two parties of a proposal have one unmerged survivor.
ConfirmedPairsAreOne ==
    \A i \in DOMAIN proposals : proposals[i].status = "confirmed" =>
        \A p, q \in proposals[i].pair :
            Survivor(p) = Survivor(q) /\ Unmerged(Survivor(p))

\* Spec 0014, section 3.4, "merge aliases (union)": the survivor gets the merged
\* party's name and every alias it has when the merge commits, though a load
\* rewrites the aliases of both rows meanwhile.  This is so with one confirmer
\* and one load at a time; and a load may later put back the aliases it read
\* before the merge.
MergeHandsOnNames ==
    [][\A p \in DOMAIN party : party'[p].into # party[p].into =>
          party[p].aliases \cup {p} \subseteq party'[party'[p].into].aliases]_partyVars
=============================================================================
