----------------------- MODULE GraphProjectionProofs -----------------------
(***************************************************************************)
(* Theorems about PartyMerge and GraphProjection for any parties and any   *)
(* number of proposers, confirmers, loads, proposals and rebuilds: first   *)
(* of the parties alone, then of the graph that is built from them.        *)
(***************************************************************************)
EXTENDS GraphProjection, FiniteSetTheorems, WellFoundedInduction, TLAPS

(***************************************************************************)
(* What the lock on a proposal is for: who holds it is the only one, and   *)
(* finds it pending and about the two parties it was asked to merge, for   *)
(* as long as the transaction lasts.                                       *)
(***************************************************************************)
LockedProposals ==
    \A o \in DOMAIN tx :
        /\ proposals[tx[o].proposal].status = "pending"
        /\ proposals[tx[o].proposal].pair = {tx[o].survivor, tx[o].merged}
        /\ tx[o].survivor # tx[o].merged
        /\ \A other \in DOMAIN tx :
              tx[other].proposal = tx[o].proposal => other = o

PartyInv == PartyTypeOK /\ LockedProposals /\ MergesAreConfirmed

TxRows == [proposal : DOMAIN proposals, step : Steps, survivor : DOMAIN party,
           merged : DOMAIN party, aliases : SUBSET Parties]

LEMMA InitInv == PartyInit => PartyInv
BY DEF PartyInit, PartyInv, PartyTypeOK, LockedProposals, MergesAreConfirmed

LEMMA CreateInv ==
    ASSUME PartyInv, NEW p \in Parties, CreateParty(p)
    PROVE  PartyInv'
<1>1. NewParty \in PartyRows
  BY DEF NewParty, PartyRows
<1>2. /\ DOMAIN party' = DOMAIN party \cup {p} /\ DOMAIN party' \subseteq Parties
      /\ party' \in [DOMAIN party' -> PartyRows] /\ party'[p] = NewParty
      /\ \A q \in DOMAIN party : party'[q] = party[q]
  BY <1>1 DEF Put, CreateParty, PartyInv, PartyTypeOK
<1>3. PartyTypeOK'
  BY <1>2 DEF CreateParty, PartyInv, PartyTypeOK
<1>4. LockedProposals'
  BY DEF CreateParty, PartyInv, LockedProposals
<1>5. MergesAreConfirmed'
  <2>1. party'[p].into = NoParty
    BY <1>2 DEF NewParty
  <2>2. \A q \in DOMAIN party' : party'[q].into # NoParty =>
            q \in DOMAIN party /\ party'[q] = party[q]
    BY <1>2, <2>1
  <2>3. UNCHANGED proposals
    BY DEF CreateParty
  <2>4. QED
    BY <2>2, <2>3 DEF PartyInv, MergesAreConfirmed
<1>6. QED
  BY <1>3, <1>4, <1>5 DEF PartyInv

LEMMA ReadCandidatesInv ==
    ASSUME PartyInv, NEW q \in Proposers, NEW pair \in Pairs, ReadCandidates(q, pair)
    PROVE  PartyInv'
<1>1. DOMAIN draft' \subseteq Proposers /\ draft' \in [DOMAIN draft' -> Pairs]
  BY DEF Put, ReadCandidates, PartyInv, PartyTypeOK
<1>2. QED
  BY <1>1 DEF ReadCandidates, PartyInv, PartyTypeOK, LockedProposals, MergesAreConfirmed

LEMMA InsertInv ==
    ASSUME PartyInv, NEW q \in Proposers, InsertProposal(q)
    PROVE  PartyInv'
<1> DEFINE row == [pair |-> draft[q], status |-> "pending"]
<1>1. PICK i \in ProposalIds \ DOMAIN proposals : proposals' = Put(proposals, i, row)
  BY DEF InsertProposal
<1>2. row \in ProposalRows
  BY DEF InsertProposal, PartyInv, PartyTypeOK, ProposalRows
<1>3. /\ DOMAIN proposals' = DOMAIN proposals \cup {i}
      /\ DOMAIN proposals' \subseteq ProposalIds
      /\ proposals' \in [DOMAIN proposals' -> ProposalRows]
      /\ \A j \in DOMAIN proposals : proposals'[j] = proposals[j]
  BY <1>1, <1>2 DEF Put, PartyInv, PartyTypeOK
<1>4. DOMAIN draft' \subseteq Proposers /\ draft' \in [DOMAIN draft' -> Pairs]
  BY DEF Drop, InsertProposal, PartyInv, PartyTypeOK
<1>5. tx' \in [DOMAIN tx' -> TxRows']
  BY <1>3 DEF InsertProposal, PartyInv, PartyTypeOK, TxRows
<1>6. PartyTypeOK'
  BY <1>3, <1>4, <1>5 DEF InsertProposal, PartyInv, PartyTypeOK, TxRows
<1>7. LockedProposals'
  BY <1>3 DEF InsertProposal, PartyInv, PartyTypeOK, LockedProposals
<1>8. MergesAreConfirmed'
  BY <1>3 DEF InsertProposal, PartyInv, MergesAreConfirmed
<1>9. QED
  BY <1>6, <1>7, <1>8 DEF PartyInv

LEMMA InsertFailsInv ==
    ASSUME PartyInv, NEW q \in Proposers, InsertFails(q)
    PROVE  PartyInv'
<1>1. DOMAIN draft' \subseteq Proposers /\ draft' \in [DOMAIN draft' -> Pairs]
  BY DEF Drop, InsertFails, PartyInv, PartyTypeOK
<1>2. QED
  BY <1>1 DEF InsertFails, PartyInv, PartyTypeOK, LockedProposals, MergesAreConfirmed

LEMMA LockInv ==
    ASSUME PartyInv, NEW o \in Confirmers, LockProposal(o)
    PROVE  PartyInv'
<1>1. PICK i \in DOMAIN proposals, survivor \in DOMAIN party, merged \in DOMAIN party :
          /\ ~ProposalLocked(i) /\ Open(i) /\ ItsPair(i, survivor, merged)
          /\ tx' = Put(tx, o, [proposal |-> i, step |-> "locked",
                               survivor |-> survivor, merged |-> merged,
                               aliases |-> {}])
  BY DEF LockProposal
<1> DEFINE row == [proposal |-> i, step |-> "locked", survivor |-> survivor,
                   merged |-> merged, aliases |-> {}]
<1>2. row \in TxRows
  BY DEF TxRows, Steps
<1>3. /\ DOMAIN tx' = DOMAIN tx \cup {o} /\ DOMAIN tx' \subseteq Confirmers
      /\ tx' \in [DOMAIN tx' -> TxRows] /\ tx'[o] = row
      /\ \A v \in DOMAIN tx : v # o => tx'[v] = tx[v]
  BY <1>1, <1>2 DEF Put, PartyInv, PartyTypeOK, TxRows
<1>4. PartyTypeOK'
  BY <1>3 DEF LockProposal, PartyInv, PartyTypeOK, TxRows
<1>5. LockedProposals'
  <2>1. \A v \in DOMAIN tx : tx[v].proposal # i
    BY <1>1 DEF ProposalLocked
  <2>2. o \notin DOMAIN tx /\ UNCHANGED proposals
    BY DEF LockProposal
  <2>3. \A v \in DOMAIN tx' : v # o => v \in DOMAIN tx /\ tx'[v] = tx[v]
    BY <1>3
  <2>4. /\ tx'[o].proposal = i /\ tx'[o].survivor = survivor
        /\ tx'[o].merged = merged
    BY <1>3
  <2>5. ASSUME NEW v \in DOMAIN tx', NEW other \in DOMAIN tx',
               tx'[other].proposal = tx'[v].proposal
        PROVE  other = v
    BY <2>1, <2>3, <2>4, <2>5 DEF PartyInv, LockedProposals
  <2>6. ASSUME NEW v \in DOMAIN tx'
        PROVE  /\ proposals'[tx'[v].proposal].status = "pending"
               /\ proposals'[tx'[v].proposal].pair = {tx'[v].survivor, tx'[v].merged}
               /\ tx'[v].survivor # tx'[v].merged
    <3>1. CASE v = o
      BY <1>1, <2>2, <2>4, <3>1 DEF Open, ItsPair
    <3>2. CASE v # o
      BY <2>2, <2>3, <3>2 DEF PartyInv, LockedProposals
    <3>3. QED
      BY <3>1, <3>2
  <2>7. QED
    BY <2>5, <2>6 DEF LockedProposals
<1>6. MergesAreConfirmed'
  BY DEF LockProposal, PartyInv, MergesAreConfirmed
<1>7. QED
  BY <1>4, <1>5, <1>6 DEF PartyInv

(***************************************************************************)
(* The steps between the lock and the commit change nothing but step and   *)
(* aliases of their own transaction.                                       *)
(***************************************************************************)
LEMMA StepInv ==
    ASSUME PartyInv, NEW o \in DOMAIN tx, NEW step \in Steps,
           NEW aliases \in SUBSET Parties,
           tx' = [tx EXCEPT ![o].step = step, ![o].aliases = aliases],
           UNCHANGED <<party, proposals, draft, load>>
    PROVE  PartyInv'
<1>1. /\ DOMAIN tx' = DOMAIN tx
      /\ tx' \in [DOMAIN tx -> TxRows]
      /\ \A v \in DOMAIN tx : /\ tx'[v].proposal = tx[v].proposal
                              /\ tx'[v].survivor = tx[v].survivor
                              /\ tx'[v].merged = tx[v].merged
  BY DEF PartyInv, PartyTypeOK, TxRows
<1>2. PartyTypeOK'
  BY <1>1 DEF PartyInv, PartyTypeOK, TxRows
<1>3. LockedProposals'
  <2>1. LockedProposals /\ proposals' = proposals
    BY DEF PartyInv
  <2>2. \A v \in DOMAIN tx' : /\ v \in DOMAIN tx
                              /\ tx'[v].proposal = tx[v].proposal
                              /\ tx'[v].survivor = tx[v].survivor
                              /\ tx'[v].merged = tx[v].merged
    BY <1>1
  <2>3. ASSUME NEW v \in DOMAIN tx', NEW other \in DOMAIN tx',
               tx'[other].proposal = tx'[v].proposal
        PROVE  other = v
    BY <2>1, <2>2, <2>3 DEF LockedProposals
  <2>4. ASSUME NEW v \in DOMAIN tx'
        PROVE  /\ proposals'[tx'[v].proposal].status = "pending"
               /\ proposals'[tx'[v].proposal].pair = {tx'[v].survivor, tx'[v].merged}
               /\ tx'[v].survivor # tx'[v].merged
               /\ \A other \in DOMAIN tx' :
                     tx'[other].proposal = tx'[v].proposal => other = v
    <3>1. \A other \in DOMAIN tx' : tx'[other].proposal = tx'[v].proposal => other = v
      BY <2>3
    <3>2. /\ proposals'[tx'[v].proposal].status = "pending"
          /\ proposals'[tx'[v].proposal].pair = {tx'[v].survivor, tx'[v].merged}
          /\ tx'[v].survivor # tx'[v].merged
      BY <2>1, <2>2 DEF LockedProposals
    <3> QED
      BY <3>1, <3>2
  <2> QED
    BY <2>4 DEF LockedProposals
<1>4. MergesAreConfirmed'
  BY DEF PartyInv, MergesAreConfirmed
<1>5. QED
  BY <1>2, <1>3, <1>4 DEF PartyInv

LEMMA ReadPairInv ==
    ASSUME PartyInv, NEW o \in Confirmers, ReadPair(o)
    PROVE  PartyInv'
<1>1. o \in DOMAIN tx /\ tx[o].survivor \in DOMAIN party /\ tx[o].merged \in DOMAIN party
  BY DEF ReadPair, PartyInv, PartyTypeOK
<1>2. JoinedAliases(tx[o].survivor, tx[o].merged) \in SUBSET Parties
  BY <1>1 DEF JoinedAliases, PartyInv, PartyTypeOK, PartyRows
<1>3. "read" \in Steps
  BY DEF Steps
<1>4. QED
  BY <1>1, <1>2, <1>3, StepInv DEF ReadPair

LEMMA UpdateInv ==
    ASSUME PartyInv, NEW o \in Confirmers, UpdateSurvivor(o) \/ UpdateMerged(o)
    PROVE  PartyInv'
<1>1. o \in DOMAIN tx
  BY DEF UpdateSurvivor, UpdateMerged
<1>2. tx[o] \in TxRows /\ tx[o].aliases \in SUBSET Parties
  BY <1>1 DEF PartyInv, PartyTypeOK, TxRows
<1>3. PICK step \in Steps : tx' = [tx EXCEPT ![o].step = step]
  BY DEF UpdateSurvivor, UpdateMerged, Steps
<1>4. tx' = [tx EXCEPT ![o].step = step, ![o].aliases = tx[o].aliases]
  BY <1>1, <1>2, <1>3 DEF PartyInv, PartyTypeOK, TxRows
<1>5. UNCHANGED <<party, proposals, draft, load>>
  BY DEF UpdateSurvivor, UpdateMerged
<1>6. QED
  BY <1>1, <1>2, <1>4, <1>5, StepInv

LEMMA EndOfTx ==
    ASSUME PartyTypeOK, NEW o \in DOMAIN tx, tx' = Drop(tx, o)
    PROVE  /\ DOMAIN tx' = DOMAIN tx \ {o} /\ DOMAIN tx' \subseteq Confirmers
           /\ tx' \in [DOMAIN tx' -> TxRows]
           /\ \A v \in DOMAIN tx' : tx'[v] = tx[v]
BY DEF Drop, PartyTypeOK, TxRows

LEMMA ConfirmInv ==
    ASSUME PartyInv, NEW o \in Confirmers, Confirm(o)
    PROVE  PartyInv'
<1> DEFINE t == tx[o]
<1>1. o \in DOMAIN tx /\ t \in TxRows
  BY DEF Confirm, PartyInv, PartyTypeOK, TxRows
<1>2. /\ t.proposal \in DOMAIN proposals /\ t.survivor \in DOMAIN party
      /\ t.merged \in DOMAIN party /\ t.aliases \in SUBSET Parties
  BY <1>1 DEF TxRows
<1>3. /\ proposals[t.proposal].pair = {t.survivor, t.merged}
      /\ t.survivor # t.merged
  BY <1>1 DEF PartyInv, LockedProposals
<1>4. /\ DOMAIN party' = DOMAIN party
      /\ party'[t.merged].into = t.survivor
      /\ \A p \in DOMAIN party : p # t.merged => party'[p].into = party[p].into
      /\ party' \in [DOMAIN party -> PartyRows]
  <2>1. party' = [party EXCEPT ![t.survivor].aliases = t.aliases,
                               ![t.merged].into = t.survivor]
    BY DEF Confirm
  <2>2. /\ DOMAIN party \subseteq Parties /\ party \in [DOMAIN party -> PartyRows]
    BY DEF PartyInv, PartyTypeOK
  <2>3. ASSUME NEW p \in DOMAIN party
        PROVE  /\ party'[p] \in PartyRows
               /\ party'[p].into = IF p = t.merged THEN t.survivor ELSE party[p].into
    BY <1>2, <1>3, <2>1, <2>2 DEF PartyRows
  <2>4. QED
    BY <1>2, <2>1, <2>2, <2>3
<1>5. /\ DOMAIN proposals' = DOMAIN proposals
      /\ proposals'[t.proposal].status = "confirmed"
      /\ \A i \in DOMAIN proposals : proposals'[i].pair = proposals[i].pair
      /\ \A i \in DOMAIN proposals : i # t.proposal => proposals'[i] = proposals[i]
      /\ proposals' \in [DOMAIN proposals -> ProposalRows]
  BY <1>1, <1>2 DEF Confirm, PartyInv, PartyTypeOK, ProposalRows
<1>6. /\ DOMAIN tx' = DOMAIN tx \ {o} /\ DOMAIN tx' \subseteq Confirmers
      /\ tx' \in [DOMAIN tx' -> TxRows]
      /\ \A v \in DOMAIN tx' : tx'[v] = tx[v]
  BY <1>1, EndOfTx DEF Confirm, PartyInv
<1>7. UNCHANGED <<draft, load>>
  BY DEF Confirm
<1>8. PartyTypeOK'
  BY <1>4, <1>5, <1>6, <1>7 DEF PartyInv, PartyTypeOK, TxRows
<1>9. LockedProposals'
  <2>1. \A v \in DOMAIN tx' : /\ v \in DOMAIN tx /\ tx[v].proposal # t.proposal
                              /\ tx[v].proposal \in DOMAIN proposals
    BY <1>1, <1>6 DEF PartyInv, PartyTypeOK, LockedProposals
  <2>2. QED
    BY <1>5, <1>6, <2>1 DEF PartyInv, LockedProposals
<1>10. MergesAreConfirmed'
  <2>1. ASSUME NEW p \in DOMAIN party', party'[p].into # NoParty
        PROVE  \E i \in DOMAIN proposals' : /\ proposals'[i].status = "confirmed"
                                            /\ proposals'[i].pair = {p, party'[p].into}
    <3>1. CASE p = t.merged
      BY <1>2, <1>3, <1>4, <1>5, <3>1
    <3>2. CASE p # t.merged
      <4>1. party'[p].into = party[p].into /\ p \in DOMAIN party
        BY <1>4, <3>2
      <4>2. PICK i \in DOMAIN proposals : /\ proposals[i].status = "confirmed"
                                          /\ proposals[i].pair = {p, party[p].into}
        BY <2>1, <4>1 DEF PartyInv, MergesAreConfirmed
      <4>3. proposals'[i].status = "confirmed" /\ proposals'[i].pair = proposals[i].pair
        BY <1>5, <4>2
      <4>4. QED
        BY <1>5, <4>1, <4>2, <4>3
    <3>3. QED
      BY <3>1, <3>2
  <2>2. QED
    BY <2>1 DEF MergesAreConfirmed
<1>11. QED
  BY <1>8, <1>9, <1>10 DEF PartyInv

LEMMA AbortInv ==
    ASSUME PartyInv, NEW o \in Confirmers, AbortConfirm(o)
    PROVE  PartyInv'
<1>1. /\ DOMAIN tx' = DOMAIN tx \ {o} /\ DOMAIN tx' \subseteq Confirmers
      /\ tx' \in [DOMAIN tx' -> TxRows]
      /\ \A v \in DOMAIN tx' : tx'[v] = tx[v]
  BY EndOfTx DEF AbortConfirm, PartyInv
<1>2. UNCHANGED <<party, proposals, draft, load>>
  BY DEF AbortConfirm
<1>3. PartyTypeOK'
  BY <1>1, <1>2 DEF PartyInv, PartyTypeOK, TxRows
<1>4. LockedProposals'
  BY <1>1, <1>2 DEF PartyInv, LockedProposals
<1>5. MergesAreConfirmed'
  BY <1>2 DEF PartyInv, MergesAreConfirmed
<1>6. QED
  BY <1>3, <1>4, <1>5 DEF PartyInv

LEMMA RejectInv ==
    ASSUME PartyInv, NEW i \in ProposalIds, RejectProposal(i)
    PROVE  PartyInv'
<1>1. /\ i \in DOMAIN proposals /\ ~ProposalLocked(i) /\ Open(i)
      /\ UNCHANGED <<party, draft, tx, load>>
  BY DEF RejectProposal
<1>2. /\ DOMAIN proposals' = DOMAIN proposals
      /\ \A j \in DOMAIN proposals : j # i => proposals'[j] = proposals[j]
      /\ proposals' \in [DOMAIN proposals -> ProposalRows]
  BY <1>1 DEF RejectProposal, PartyInv, PartyTypeOK, ProposalRows
<1>3. PartyTypeOK'
  BY <1>1, <1>2 DEF PartyInv, PartyTypeOK
<1>4. LockedProposals'
  <2>1. \A o \in DOMAIN tx : tx[o].proposal # i /\ tx[o].proposal \in DOMAIN proposals
    BY <1>1 DEF ProposalLocked, PartyInv, PartyTypeOK
  <2>2. QED
    BY <1>1, <1>2, <2>1 DEF PartyInv, LockedProposals
<1>5. MergesAreConfirmed'
  BY <1>1, <1>2 DEF PartyInv, MergesAreConfirmed, Open
<1>6. QED
  BY <1>3, <1>4, <1>5 DEF PartyInv

LEMMA LoadInv ==
    ASSUME PartyInv, NEW l \in Loaders,
           \/ \E p \in Parties : LoadReads(l, p)
           \/ LoadWrites(l) \/ LoadCommits(l) \/ LoadAborts(l)
    PROVE  PartyInv'
<1> DEFINE LoadRows == [party : DOMAIN party, aliases : SUBSET Parties,
                        written : BOOLEAN]
<1>1. UNCHANGED <<proposals, draft, tx>>
  BY DEF LoadReads, LoadWrites, LoadCommits, LoadAborts
<1>2. /\ DOMAIN party' = DOMAIN party
      /\ party' \in [DOMAIN party -> PartyRows]
      /\ \A p \in DOMAIN party : party'[p].into = party[p].into
  <2>1. CASE LoadCommits(l)
    <3>1. load[l] \in LoadRows
      BY <2>1 DEF LoadCommits, PartyInv, PartyTypeOK
    <3>2. QED
      BY <2>1, <3>1 DEF LoadCommits, PartyInv, PartyTypeOK, PartyRows
  <2>2. CASE UNCHANGED party
    BY <2>2 DEF PartyInv, PartyTypeOK
  <2>3. QED
    BY <2>1, <2>2 DEF LoadReads, LoadWrites, LoadAborts
<1>3. DOMAIN load' \subseteq Loaders /\ load' \in [DOMAIN load' -> LoadRows]
  <2>1. ASSUME NEW p \in Parties, LoadReads(l, p)
        PROVE  DOMAIN load' \subseteq Loaders /\ load' \in [DOMAIN load' -> LoadRows]
    <3>1. [party |-> p, aliases |-> party[p].aliases, written |-> FALSE] \in LoadRows
      BY <2>1 DEF LoadReads, PartyInv, PartyTypeOK, PartyRows
    <3>2. QED
      BY <2>1, <3>1 DEF Put, LoadReads, PartyInv, PartyTypeOK
  <2>2. CASE LoadWrites(l)
    BY <2>2 DEF LoadWrites, PartyInv, PartyTypeOK
  <2>3. CASE LoadCommits(l) \/ LoadAborts(l)
    BY <2>3 DEF Drop, LoadCommits, LoadAborts, PartyInv, PartyTypeOK
  <2>4. QED
    BY <2>1, <2>2, <2>3
<1>4. PartyTypeOK'
  BY <1>1, <1>2, <1>3 DEF PartyInv, PartyTypeOK
<1>5. LockedProposals'
  BY <1>1 DEF PartyInv, LockedProposals
<1>6. MergesAreConfirmed'
  BY <1>1, <1>2 DEF PartyInv, MergesAreConfirmed
<1>7. QED
  BY <1>4, <1>5, <1>6 DEF PartyInv

LEMMA NextInv == PartyInv /\ [PartyNext]_partyVars => PartyInv'
<1> SUFFICES ASSUME PartyInv, [PartyNext]_partyVars PROVE PartyInv'
  OBVIOUS
<1>1. CASE UNCHANGED partyVars
  BY <1>1 DEF partyVars, PartyInv, PartyTypeOK, LockedProposals, MergesAreConfirmed
<1>2. CASE PartyNext
  BY <1>2, CreateInv, ReadCandidatesInv, InsertInv, InsertFailsInv, LockInv,
     ReadPairInv, UpdateInv, ConfirmInv, AbortInv, RejectInv, LoadInv DEF PartyNext
<1>3. QED
  BY <1>1, <1>2

\* Type correctness, locks on proposals included, for every instance.
THEOREM PartyInvariant == PartySpec => []PartyInv
BY InitInv, NextInv, PTL DEF PartySpec

LEMMA ResolvedStays ==
    ASSUME PartyInv, PartyNext
    PROVE  \A i \in DOMAIN proposals : proposals[i].status # "pending" =>
              i \in DOMAIN proposals' /\ proposals'[i] = proposals[i]
<1> DEFINE Final == \A i \in DOMAIN proposals : proposals[i].status # "pending" =>
                       i \in DOMAIN proposals' /\ proposals'[i] = proposals[i]
<1>1. ASSUME NEW q \in Proposers, InsertProposal(q) PROVE Final
  <2>1. PICK i \in ProposalIds \ DOMAIN proposals :
            proposals' = Put(proposals, i, [pair |-> draft[q], status |-> "pending"])
    BY <1>1 DEF InsertProposal
  <2>2. QED
    BY <2>1 DEF Put
<1>2. ASSUME NEW o \in Confirmers, Confirm(o) PROVE Final
  <2>1. o \in DOMAIN tx /\ proposals[tx[o].proposal].status = "pending"
    BY <1>2 DEF Confirm, PartyInv, LockedProposals
  <2>2. proposals' = [proposals EXCEPT ![tx[o].proposal].status = "confirmed"]
    BY <1>2 DEF Confirm
  <2>3. QED
    BY <2>1, <2>2
<1>3. ASSUME NEW i \in ProposalIds, RejectProposal(i) PROVE Final
  <2>1. proposals[i].status = "pending"
    BY <1>3 DEF RejectProposal, Open
  <2>2. proposals' = [proposals EXCEPT ![i].status = "rejected"]
    BY <1>3 DEF RejectProposal
  <2>3. QED
    BY <2>1, <2>2
<1>4. CASE UNCHANGED proposals
  BY <1>4
<1>5. QED
  BY <1>1, <1>2, <1>3, <1>4
  DEF PartyNext, CreateParty, ReadCandidates, InsertFails, LockProposal, ReadPair,
      UpdateSurvivor, UpdateMerged, AbortConfirm, LoadReads, LoadWrites,
      LoadCommits, LoadAborts

\* A resolved proposal never changes again: confirming and rejecting it at the
\* same time resolves it once (get_match_proposal FOR UPDATE).
THEOREM ProposalsResolveOnce == PartySpec => ResolvedIsFinal
<1> DEFINE Final == \A i \in DOMAIN proposals : proposals[i].status # "pending" =>
                       i \in DOMAIN proposals' /\ proposals'[i] = proposals[i]
<1>1. PartyInv /\ [PartyNext]_partyVars => [Final]_partyVars
  BY ResolvedStays DEF partyVars
<1>2. QED
  BY <1>1, PartyInvariant, PTL DEF PartySpec, ResolvedIsFinal

(***************************************************************************)
(* Two parties are confirmed to be one at most once.  The unique index     *)
(* keeps two proposals of one pair from being pending at a time, and the   *)
(* next one finds a merged party in the pair.  A confirmation past that    *)
(* check can rely on it to its end: nobody else can confirm this pair.     *)
(***************************************************************************)
Confirmed(i) == i \in DOMAIN proposals /\ proposals[i].status = "confirmed"
Pending(i) == i \in DOMAIN proposals /\ proposals[i].status = "pending"

PendingOnce ==
    \A i, j : Pending(i) /\ Pending(j) /\ proposals[i].pair = proposals[j].pair => j = i

ConfirmedIsMerged ==
    \A i : Confirmed(i) =>
        \E p \in proposals[i].pair : p \in DOMAIN party /\ party[p].into # NoParty

CheckedPairsAreNew ==
    \A o \in DOMAIN tx, i \in DOMAIN proposals : tx[o].step # "locked" /\ Confirmed(i) =>
        proposals[i].pair # {tx[o].survivor, tx[o].merged}

PairsInv == PendingOnce /\ ConfirmedIsMerged /\ CheckedPairsAreNew /\ PairsAreConfirmedOnce

\* A merge may be moved, but no party is ever unmerged.
LEMMA MergedForGood ==
    ASSUME PartyInv, PartyNext
    PROVE  \A p \in DOMAIN party : /\ p \in DOMAIN party'
                                   /\ party[p].into # NoParty => party'[p].into # NoParty
<1> DEFINE ForGood ==
      \A p \in DOMAIN party : /\ p \in DOMAIN party'
                              /\ party[p].into # NoParty => party'[p].into # NoParty
<1>1. ASSUME NEW p \in Parties, CreateParty(p) PROVE ForGood
  BY <1>1 DEF CreateParty, Put
<1>2. ASSUME NEW o \in Confirmers, Confirm(o) PROVE ForGood
  <2>1. tx[o].survivor # NoParty
    BY <1>2, PartyMergeAssumption DEF Confirm, PartyInv, PartyTypeOK
  <2>2. party' = [party EXCEPT ![tx[o].survivor].aliases = tx[o].aliases,
                               ![tx[o].merged].into = tx[o].survivor]
    BY <1>2 DEF Confirm
  <2>3. party \in [DOMAIN party -> PartyRows]
    BY DEF PartyInv, PartyTypeOK
  <2> QED
    BY <2>1, <2>2, <2>3 DEF PartyRows
<1>3. ASSUME NEW l \in Loaders, LoadCommits(l) PROVE ForGood
  BY <1>3 DEF LoadCommits, PartyInv, PartyTypeOK, PartyRows
<1>4. CASE UNCHANGED party
  BY <1>4
<1> QED
  BY <1>1, <1>2, <1>3, <1>4
  DEF PartyNext, ReadCandidates, InsertProposal, InsertFails, LockProposal,
      ReadPair, UpdateSurvivor, UpdateMerged, AbortConfirm, RejectProposal,
      LoadReads, LoadWrites, LoadAborts

LEMMA PairsInit == PartyInit => PairsInv
BY DEF PartyInit, PairsInv, PendingOnce, ConfirmedIsMerged, CheckedPairsAreNew,
       PairsAreConfirmedOnce, Confirmed, Pending

\* Steps after which no proposal is pending or confirmed that was not.
LEMMA PairsKept ==
    ASSUME PartyInv, PairsInv, PartyNext,
           \A i : Pending(i)' => Pending(i),
           \A i : Confirmed(i)' => Confirmed(i),
           \A i \in DOMAIN proposals : proposals'[i].pair = proposals[i].pair
    PROVE  PendingOnce' /\ ConfirmedIsMerged' /\ PairsAreConfirmedOnce'
<1>1. PendingOnce'
  BY DEF PairsInv, PendingOnce, Pending
<1>2. ConfirmedIsMerged'
  BY MergedForGood DEF PairsInv, ConfirmedIsMerged, Confirmed
<1>3. PairsAreConfirmedOnce'
  BY DEF PairsInv, PairsAreConfirmedOnce, Confirmed
<1> QED
  BY <1>1, <1>2, <1>3

LEMMA PairsInsert ==
    ASSUME PartyInv, PairsInv, PartyNext, NEW q \in Proposers, InsertProposal(q)
    PROVE  PairsInv'
<1>1. PICK i \in ProposalIds \ DOMAIN proposals :
         proposals' = Put(proposals, i, [pair |-> draft[q], status |-> "pending"])
  BY DEF InsertProposal
<1>2. /\ DOMAIN proposals' = DOMAIN proposals \cup {i}
      /\ proposals'[i] = [pair |-> draft[q], status |-> "pending"]
      /\ \A j \in DOMAIN proposals : proposals'[j] = proposals[j]
      /\ UNCHANGED tx
  BY <1>1 DEF Put, InsertProposal
<1>3. \A j : Pending(j) => proposals[j].pair # draft[q]
  BY DEF InsertProposal, PendingPairs, Pending
<1>4. /\ \A j : Pending(j)' <=> Pending(j) \/ j = i
      /\ \A j : Confirmed(j)' <=> Confirmed(j)
  BY <1>2 DEF Pending, Confirmed
<1>5. PendingOnce'
  BY <1>2, <1>3, <1>4 DEF PairsInv, PendingOnce, Pending
<1>6. ConfirmedIsMerged'
  BY <1>2, <1>4, MergedForGood DEF PairsInv, ConfirmedIsMerged, Confirmed
<1>7. CheckedPairsAreNew'
  BY <1>2, <1>4 DEF PairsInv, CheckedPairsAreNew, Confirmed
<1>8. PairsAreConfirmedOnce'
  BY <1>2, <1>4 DEF PairsInv, PairsAreConfirmedOnce, Confirmed
<1> QED
  BY <1>5, <1>6, <1>7, <1>8 DEF PairsInv

LEMMA PairsConfirm ==
    ASSUME PartyInv, PairsInv, PartyNext, NEW o \in Confirmers, Confirm(o)
    PROVE  PairsInv'
<1> DEFINE k == tx[o].proposal
           m == tx[o].merged
<1>1. /\ o \in DOMAIN tx /\ tx[o] \in TxRows /\ tx[o].step = "merged"
      /\ Pending(k) /\ proposals[k].pair = {tx[o].survivor, m} /\ m \in DOMAIN party
  BY DEF Confirm, PartyInv, PartyTypeOK, LockedProposals, TxRows, Pending
<1>2. /\ DOMAIN proposals' = DOMAIN proposals
      /\ \A i \in DOMAIN proposals : proposals'[i].pair = proposals[i].pair
      /\ proposals'[k].status = "confirmed"
      /\ \A i \in DOMAIN proposals \ {k} : proposals'[i] = proposals[i]
  BY <1>1 DEF Confirm, PartyInv, PartyTypeOK, ProposalRows, Pending
<1>3. DOMAIN tx' = DOMAIN tx \ {o} /\ \A v \in DOMAIN tx' : tx'[v] = tx[v]
  BY DEF Confirm, Drop
<1>4. /\ \A i : Pending(i)' <=> Pending(i) /\ i # k
      /\ \A i : Confirmed(i)' <=> Confirmed(i) \/ i = k
  BY <1>1, <1>2 DEF Pending, Confirmed
<1>5. m \in DOMAIN party' /\ party'[m].into # NoParty
  <2>1. tx[o].survivor # NoParty
    BY <1>1, PartyMergeAssumption DEF TxRows, PartyInv, PartyTypeOK
  <2> QED
    BY <1>1, <2>1 DEF Confirm, PartyInv, PartyTypeOK, PartyRows
<1>6. PendingOnce'
  BY <1>2, <1>4 DEF PairsInv, PendingOnce, Pending
<1>7. ConfirmedIsMerged'
  <2>1. ASSUME NEW i, Confirmed(i)
        PROVE  \E p \in proposals'[i].pair : p \in DOMAIN party' /\ party'[p].into # NoParty
    BY <1>2, <2>1, MergedForGood DEF PairsInv, ConfirmedIsMerged, Confirmed
  <2>2. m \in proposals'[k].pair
    BY <1>1, <1>2 DEF Pending
  <2> QED
    BY <1>4, <1>5, <2>1, <2>2 DEF ConfirmedIsMerged
<1>8. CheckedPairsAreNew'
  <2>1. ASSUME NEW v \in DOMAIN tx', proposals[k].pair = {tx[v].survivor, tx[v].merged}
        PROVE  FALSE
    <3>1. /\ v \in DOMAIN tx /\ v # o /\ tx[v].proposal \in DOMAIN proposals
          /\ Pending(tx[v].proposal)
          /\ proposals[tx[v].proposal].pair = {tx[v].survivor, tx[v].merged}
          /\ tx[v].proposal = k => v = o
      BY <1>1, <1>3, <2>1 DEF PartyInv, PartyTypeOK, LockedProposals, Pending
    <3>2. tx[v].proposal = k
      BY <1>1, <2>1, <3>1 DEF PairsInv, PendingOnce
    <3> QED
      BY <3>1, <3>2
  <2> QED
    BY <1>1, <1>2, <1>3, <1>4, <2>1 DEF PairsInv, CheckedPairsAreNew, Confirmed, Pending
<1>9. PairsAreConfirmedOnce'
  <2>1. \A i : Confirmed(i) => proposals[i].pair # proposals[k].pair
    BY <1>1 DEF PairsInv, CheckedPairsAreNew, Confirmed, Pending
  <2> QED
    BY <1>1, <1>2, <1>4, <2>1 DEF PairsInv, PairsAreConfirmedOnce, Confirmed, Pending
<1> QED
  BY <1>6, <1>7, <1>8, <1>9 DEF PairsInv

LEMMA PairsNext == PartyInv /\ PairsInv /\ [PartyNext]_partyVars => PairsInv'
<1> SUFFICES ASSUME PartyInv, PairsInv, [PartyNext]_partyVars PROVE PairsInv'
  OBVIOUS
<1>1. CASE UNCHANGED partyVars
  BY <1>1 DEF partyVars, PairsInv, PendingOnce, ConfirmedIsMerged, CheckedPairsAreNew,
              PairsAreConfirmedOnce, Confirmed, Pending
<1>2. ASSUME PartyNext,
             UNCHANGED proposals,
             \A o \in DOMAIN tx' : tx'[o].step # "locked" =>
                /\ o \in DOMAIN tx /\ tx[o].step # "locked"
                /\ tx'[o].survivor = tx[o].survivor /\ tx'[o].merged = tx[o].merged
      PROVE  PairsInv'
  <2>1. PendingOnce' /\ ConfirmedIsMerged' /\ PairsAreConfirmedOnce'
    BY <1>2, PairsKept DEF Pending, Confirmed
  <2>2. CheckedPairsAreNew'
    BY <1>2 DEF PairsInv, CheckedPairsAreNew, Confirmed
  <2> QED
    BY <2>1, <2>2 DEF PairsInv
<1>3. ASSUME PartyNext, NEW o \in Confirmers, ReadPair(o) PROVE PairsInv'
  <2>1. /\ o \in DOMAIN tx /\ tx[o] \in TxRows /\ DOMAIN tx' = DOMAIN tx
        /\ UNCHANGED <<party, proposals>>
        /\ Unmerged(tx[o].survivor) /\ Unmerged(tx[o].merged)
    BY <1>3 DEF ReadPair, MayMerge, PartyInv, PartyTypeOK, TxRows
  <2>2. /\ \A v \in DOMAIN tx \ {o} : tx'[v] = tx[v]
        /\ tx'[o].survivor = tx[o].survivor /\ tx'[o].merged = tx[o].merged
    BY <1>3, <2>1 DEF ReadPair, TxRows
  <2>3. PendingOnce' /\ ConfirmedIsMerged' /\ PairsAreConfirmedOnce'
    BY <1>3, <2>1, PairsKept DEF Pending, Confirmed
  <2>4. \A i : Confirmed(i) => proposals[i].pair # {tx[o].survivor, tx[o].merged}
    BY <2>1 DEF PairsInv, ConfirmedIsMerged, Unmerged
  <2>5. CheckedPairsAreNew'
    BY <2>1, <2>2, <2>4 DEF PairsInv, CheckedPairsAreNew, Confirmed
  <2> QED
    BY <2>3, <2>5 DEF PairsInv
<1>4. ASSUME PartyNext, NEW i \in ProposalIds, RejectProposal(i) PROVE PairsInv'
  <2>1. /\ \A j : Pending(j)' => Pending(j)
        /\ \A j : Confirmed(j)' => Confirmed(j)
        /\ DOMAIN proposals' = DOMAIN proposals /\ UNCHANGED tx
        /\ \A j \in DOMAIN proposals : proposals'[j].pair = proposals[j].pair
    BY <1>4 DEF RejectProposal, PartyInv, PartyTypeOK, ProposalRows, Pending, Confirmed
  <2>2. PendingOnce' /\ ConfirmedIsMerged' /\ PairsAreConfirmedOnce'
    BY <1>4, <2>1, PairsKept
  <2>3. CheckedPairsAreNew'
    BY <2>1 DEF PairsInv, CheckedPairsAreNew, Confirmed
  <2> QED
    BY <2>2, <2>3 DEF PairsInv
<1>5. ASSUME PartyNext, NEW o \in Confirmers, LockProposal(o) PROVE PairsInv'
  <2>1. /\ UNCHANGED proposals /\ tx'[o].step = "locked"
        /\ DOMAIN tx' = DOMAIN tx \cup {o}
        /\ \A v \in DOMAIN tx \ {o} : tx'[v] = tx[v]
    BY <1>5 DEF LockProposal, Put
  <2> QED
    BY <1>2, <1>5, <2>1
<1>6. ASSUME PartyNext, NEW o \in Confirmers, UpdateSurvivor(o) \/ UpdateMerged(o)
      PROVE  PairsInv'
  <2>1. /\ UNCHANGED proposals /\ DOMAIN tx' = DOMAIN tx
        /\ o \in DOMAIN tx /\ tx[o].step # "locked" /\ tx[o] \in TxRows
    BY <1>6 DEF UpdateSurvivor, UpdateMerged, PartyInv, PartyTypeOK, TxRows
  <2>2. /\ \A v \in DOMAIN tx \ {o} : tx'[v] = tx[v]
        /\ tx'[o].survivor = tx[o].survivor /\ tx'[o].merged = tx[o].merged
    BY <1>6, <2>1 DEF UpdateSurvivor, UpdateMerged, TxRows
  <2> QED
    BY <1>2, <1>6, <2>1, <2>2
<1>7. ASSUME PartyNext, NEW o \in Confirmers, AbortConfirm(o) PROVE PairsInv'
  <2>1. UNCHANGED proposals /\ \A v \in DOMAIN tx' : v \in DOMAIN tx /\ tx'[v] = tx[v]
    BY <1>7 DEF AbortConfirm, Drop
  <2> QED
    BY <1>2, <1>7, <2>1
<1>8. CASE PartyNext /\ UNCHANGED <<proposals, tx>>
  BY <1>2, <1>8
<1> QED
  BY <1>1, <1>3, <1>4, <1>5, <1>6, <1>7, <1>8, PairsInsert, PairsConfirm
  DEF PartyNext, CreateParty, ReadCandidates, InsertFails, LoadReads, LoadWrites,
      LoadCommits, LoadAborts

\* However many confirm, reject and load at a time, a merged party has a
\* confirmed proposal of just it and its survivor, two parties are confirmed to
\* be one at most once, in whichever direction, and what was resolved is not
\* resolved again (create_match_proposal, confirm_match_proposal,
\* get_match_proposal FOR UPDATE).
THEOREM MergesAreDecidedByOneHuman == PartySpec => MergesAreDecidedOnce
<1>1. PartyInv /\ PairsInv => MergesAreConfirmed /\ PairsAreConfirmedOnce
  BY DEF PartyInv, PairsInv
<1> QED
  BY <1>1, PairsInit, PairsNext, PartyInvariant, ProposalsResolveOnce, PTL
     DEF PartySpec, MergesAreDecidedOnce
-----------------------------------------------------------------------------
(***************************************************************************)
(* Induction: every set of naturals that is not empty has a least member.  *)
(***************************************************************************)
LEMMA LeastNatural ==
    ASSUME NEW S \in SUBSET Nat, S # {}
    PROVE  \E n \in S : \A m \in S : n <= m
<1> DEFINE R == OpToRel(<, Nat)
<1>1. IsWellFoundedOn(R, Nat)
  BY NatLessThanWellFounded
<1>2. \A m, n \in Nat : m < n => <<m, n>> \in R
  BY DEF OpToRel
<1> HIDE DEF R
<1>3. PICK n \in S : \A m \in S : ~(<<m, n>> \in R)
  BY <1>1, WFMin
<1>4. \A m \in S : m \in Nat /\ n \in Nat /\ ~(m < n)
  BY <1>2, <1>3
<1>5. \A m \in S : n <= m
  BY <1>4
<1> QED
  BY <1>5

LEMMA Induction ==
    ASSUME NEW S \in SUBSET Nat, 0 \in S, \A n \in S : n + 1 \in S
    PROVE  S = Nat
<1> DEFINE T == Nat \ S
<1>1. ASSUME T # {}
      PROVE  FALSE
  <2>1. T \in SUBSET Nat
    OBVIOUS
  <2> HIDE DEF T
  <2>2. PICK n \in T : \A m \in T : n <= m
    BY <1>1, <2>1, LeastNatural
  <2> USE DEF T
  <2>3. n \in Nat \ {0}
    BY <2>2
  <2>4. n - 1 \in Nat /\ ~(n <= n - 1) /\ (n - 1) + 1 = n
    BY <2>3
  <2>5. n - 1 \in S
    BY <2>2, <2>4
  <2> QED
    BY <2>2, <2>4, <2>5
<1> QED
  BY <1>1

\* The iterates of a function.
LEMMA Iterates ==
    ASSUME NEW D, NEW f \in [D -> D], NEW k \in Nat
    PROVE  \E g \in [0..k -> [D -> D]] :
              /\ \A p \in D : g[0][p] = p
              /\ \A n \in 1..k, p \in D : g[n][p] = f[g[n - 1][p]]
<1> DEFINE Good(n, g) == /\ g \in [0..n -> [D -> D]]
                         /\ \A p \in D : g[0][p] = p
                         /\ \A m \in 1..n, p \in D : g[m][p] = f[g[m - 1][p]]
           S == {n \in Nat : \E g : Good(n, g)}
<1>1. 0 \in S
  <2> DEFINE g == [n \in 0..0 |-> [p \in D |-> p]]
  <2>1. Good(0, g)
    OBVIOUS
  <2> HIDE DEF Good
  <2> QED
    BY <2>1
<1>2. ASSUME NEW n \in S
      PROVE  n + 1 \in S
  <2>1. n \in Nat /\ \E g : Good(n, g)
    OBVIOUS
  <2>2. PICK g : Good(n, g)
    BY <2>1
  <2> DEFINE next == [p \in D |-> f[g[n][p]]]
             h == [m \in 0..(n + 1) |-> IF m = n + 1 THEN next ELSE g[m]]
  <2>3. next \in [D -> D]
    BY <2>1, <2>2
  <2>4. h \in [0..(n + 1) -> [D -> D]]
    BY <2>1, <2>2, <2>3
  <2>5. /\ h[0] = g[0] /\ h[n + 1] = next
        /\ \A m \in 1..n : h[m] = g[m] /\ h[m - 1] = g[m - 1]
        /\ h[(n + 1) - 1] = g[n]
    BY <2>1
  <2> HIDE DEF h
  <2>6. ASSUME NEW m \in 1..(n + 1), NEW p \in D
        PROVE  h[m][p] = f[h[m - 1][p]]
    <3>1. CASE m = n + 1
      BY <2>1, <2>5, <3>1
    <3>2. CASE m # n + 1
      <4>1. m \in 1..n
        BY <2>1, <3>2
      <4> QED
        BY <2>2, <2>5, <4>1
    <3> QED
      BY <3>1, <3>2
  <2>7. Good(n + 1, h)
    BY <2>2, <2>4, <2>5, <2>6
  <2> HIDE DEF Good
  <2> QED
    BY <2>1, <2>7
<1>3. S = Nat
  <2>1. S \in SUBSET Nat
    OBVIOUS
  <2> HIDE DEF S
  <2> QED
    BY <1>1, <1>2, <2>1, Induction
<1> QED
  BY <1>3

(***************************************************************************)
(* The forest of merges.  As long as nobody merges a party that was merged *)
(* since it was read, every party has a root, to which its merges lead in  *)
(* as many steps as its depth says.                                        *)
(***************************************************************************)
StaleMerge(o) == Confirm(o) /\ ~MayMerge(tx[o].survivor, tx[o].merged)

Merged == {p \in DOMAIN party : party[p].into # NoParty}

Rooted(root, depth) ==
    /\ root \in [DOMAIN party -> DOMAIN party] /\ depth \in [DOMAIN party -> Nat]
    /\ \A p \in DOMAIN party :
          /\ Unmerged(root[p])
          /\ depth[p] <= Cardinality(Merged)
          /\ Unmerged(p) => root[p] = p /\ depth[p] = 0
          /\ ~Unmerged(p) => /\ party[p].into \in DOMAIN party
                             /\ root[p] = root[party[p].into]
                             /\ depth[p] = depth[party[p].into] + 1

\* Proposals are of parties there are, and a confirmed pair has one root.
PairsJoined(root) ==
    \A i \in DOMAIN proposals :
        /\ proposals[i].pair \subseteq DOMAIN party
        /\ proposals[i].status = "confirmed" =>
              \A p, q \in proposals[i].pair : root[p] = root[q]

ForestInv ==
    /\ \A q \in DOMAIN draft : draft[q] \subseteq DOMAIN party
    /\ \E root, depth : Rooted(root, depth) /\ PairsJoined(root)

LEMMA MergedIsFinite ==
    ASSUME PartyTypeOK
    PROVE  /\ IsFiniteSet(Merged) /\ Cardinality(Merged) \in Nat
           /\ Cardinality(Merged) <= Cardinality(Parties)
  BY PartyMergeAssumption, FS_Subset, FS_CardinalityType DEF PartyTypeOK, Merged

LEMMA ForestInit == PartyInit => ForestInv
<1> SUFFICES ASSUME PartyInit PROVE ForestInv
  OBVIOUS
<1> DEFINE none == [p \in {} |-> p]
<1>1. DOMAIN party = {} /\ DOMAIN proposals = {} /\ DOMAIN draft = {}
  BY DEF PartyInit
<1>2. Rooted(none, none) /\ PairsJoined(none)
  BY <1>1 DEF Rooted, PairsJoined
<1> QED
  BY <1>1, <1>2 DEF ForestInv

LEMMA ForestCreate ==
    ASSUME PartyInv, ForestInv, NEW p \in Parties, CreateParty(p)
    PROVE  ForestInv'
<1>1. PICK root, depth : Rooted(root, depth) /\ PairsJoined(root)
  BY DEF ForestInv
<1> DEFINE newRoot == Put(root, p, p)
           newDepth == Put(depth, p, 0)
<1>2. /\ p \notin DOMAIN party /\ DOMAIN party' = DOMAIN party \cup {p}
      /\ party'[p].into = NoParty
      /\ \A q \in DOMAIN party : party'[q] = party[q]
      /\ UNCHANGED <<proposals, draft>>
  BY DEF CreateParty, Put, NewParty
<1>3. Merged' = Merged
  BY <1>2 DEF Merged
<1>4. Cardinality(Merged) \in Nat
  BY MergedIsFinite DEF PartyInv
<1>5. /\ newRoot[p] = p /\ newDepth[p] = 0
      /\ \A q \in DOMAIN party : newRoot[q] = root[q] /\ newDepth[q] = depth[q]
      /\ newRoot \in [DOMAIN party' -> DOMAIN party']
      /\ newDepth \in [DOMAIN party' -> Nat]
  BY <1>1, <1>2 DEF Put, Rooted
<1> HIDE DEF newRoot, newDepth
<1>6. \A q \in DOMAIN party' : Unmerged(q)' <=> q = p \/ Unmerged(q)
  BY <1>2 DEF Unmerged
<1>7. Rooted(newRoot, newDepth)'
  BY <1>1, <1>2, <1>3, <1>4, <1>5, <1>6 DEF Rooted
<1>8. PairsJoined(newRoot)'
  BY <1>1, <1>2, <1>5 DEF PairsJoined
<1> QED
  BY <1>2, <1>7, <1>8 DEF ForestInv

\* A merge of two roots hangs the tree of one below the other.
LEMMA ForestConfirm ==
    ASSUME PartyInv, ForestInv, NEW o \in Confirmers, Confirm(o), ~StaleMerge(o)
    PROVE  ForestInv'
<1>1. PICK root, depth : Rooted(root, depth) /\ PairsJoined(root)
  BY DEF ForestInv
<1> DEFINE t == tx[o]
           s == tx[o].survivor
           m == tx[o].merged
<1>2. /\ o \in DOMAIN tx /\ t \in TxRows /\ s \in DOMAIN party /\ m \in DOMAIN party
      /\ Unmerged(s) /\ Unmerged(m) /\ s # m /\ s # NoParty
      /\ t.proposal \in DOMAIN proposals /\ proposals[t.proposal].pair = {s, m}
  BY PartyMergeAssumption
     DEF Confirm, StaleMerge, MayMerge, PartyInv, PartyTypeOK, LockedProposals, TxRows
<1>3. /\ DOMAIN party' = DOMAIN party /\ party'[m].into = s
      /\ \A p \in DOMAIN party \ {m} : party'[p].into = party[p].into
  BY <1>2 DEF Confirm, PartyInv, PartyTypeOK, PartyRows
<1>4. /\ DOMAIN proposals' = DOMAIN proposals
      /\ \A i \in DOMAIN proposals : proposals'[i].pair = proposals[i].pair
      /\ \A i \in DOMAIN proposals \ {t.proposal} : proposals'[i] = proposals[i]
      /\ UNCHANGED draft
  BY <1>2 DEF Confirm, PartyInv, PartyTypeOK, ProposalRows
<1>5. \A p \in DOMAIN party : Unmerged(p)' <=> Unmerged(p) /\ p # m
  BY <1>2, <1>3 DEF Unmerged
<1>6. Cardinality(Merged') = Cardinality(Merged) + 1 /\ Cardinality(Merged) \in Nat
  <2>1. Merged' = Merged \cup {m} /\ m \notin Merged
    BY <1>2, <1>3 DEF Merged, Unmerged
  <2> QED
    BY <2>1, MergedIsFinite, FS_AddElement DEF PartyInv
<1>7. PICK newRoot \in [DOMAIN party' -> DOMAIN party'], newDepth \in [DOMAIN party' -> Nat] :
         /\ \A p \in DOMAIN party : newRoot[p] = IF root[p] = m THEN s ELSE root[p]
         /\ \A p \in DOMAIN party : newDepth[p] = IF root[p] = m THEN depth[p] + 1 ELSE depth[p]
  <2> DEFINE r == [p \in DOMAIN party |-> IF root[p] = m THEN s ELSE root[p]]
             d == [p \in DOMAIN party |-> IF root[p] = m THEN depth[p] + 1 ELSE depth[p]]
  <2>1. r \in [DOMAIN party' -> DOMAIN party'] /\ d \in [DOMAIN party' -> Nat]
    BY <1>1, <1>2, <1>3 DEF Rooted
  <2> QED
    BY <2>1
<1>8. Rooted(newRoot, newDepth)'
  <2>1. root[s] = s /\ depth[s] = 0 /\ root[m] = m /\ depth[m] = 0
    BY <1>1, <1>2 DEF Rooted
  <2>2. ASSUME NEW p \in DOMAIN party
        PROVE  /\ Unmerged(newRoot[p])'
               /\ newDepth[p] <= Cardinality(Merged')
               /\ Unmerged(p)' => newRoot[p] = p /\ newDepth[p] = 0
    BY <1>1, <1>2, <1>5, <1>6, <1>7, <2>1 DEF Rooted
  <2>3. ASSUME NEW p \in DOMAIN party, ~Unmerged(p)'
        PROVE  /\ party'[p].into \in DOMAIN party
               /\ newRoot[p] = newRoot[party'[p].into]
               /\ newDepth[p] = newDepth[party'[p].into] + 1
    <3>1. CASE p = m
      BY <1>2, <1>3, <1>7, <2>1, <3>1
    <3>2. CASE p # m
      <4>1. ~Unmerged(p) /\ party'[p].into = party[p].into
        BY <1>3, <1>5, <2>3, <3>2
      <4> QED
        BY <1>1, <1>7, <4>1 DEF Rooted
    <3> QED
      BY <3>1, <3>2
  <2> QED
    BY <1>3, <1>7, <2>2, <2>3 DEF Rooted
<1>9. PairsJoined(newRoot)'
  <2>1. newRoot[s] = s /\ newRoot[m] = s
    BY <1>1, <1>2, <1>7 DEF Rooted
  <2>2. ASSUME NEW i \in DOMAIN proposals, proposals'[i].status = "confirmed",
               NEW p \in proposals[i].pair, NEW q \in proposals[i].pair
        PROVE  newRoot[p] = newRoot[q]
    <3>1. CASE i = t.proposal
      BY <1>2, <2>1, <3>1
    <3>2. CASE i # t.proposal
      BY <1>1, <1>4, <1>7, <2>2, <3>2 DEF PairsJoined
    <3> QED
      BY <3>1, <3>2
  <2> QED
    BY <1>1, <1>3, <1>4, <2>2 DEF PairsJoined
<1> QED
  BY <1>3, <1>4, <1>8, <1>9 DEF ForestInv

\* Steps that merge nothing: what they add is pending or of parties there are.
LEMMA ForestStays ==
    ASSUME ForestInv, DOMAIN party' = DOMAIN party,
           \A p \in DOMAIN party : party'[p].into = party[p].into,
           \A q \in DOMAIN draft' : draft'[q] \subseteq DOMAIN party,
           \A i \in DOMAIN proposals' :
              /\ proposals'[i].pair \subseteq DOMAIN party
              /\ proposals'[i].status = "confirmed" =>
                    i \in DOMAIN proposals /\ proposals'[i] = proposals[i]
    PROVE  ForestInv'
<1>1. PICK root, depth : Rooted(root, depth) /\ PairsJoined(root)
  BY DEF ForestInv
<1>2. Merged' = Merged /\ \A p \in DOMAIN party : Unmerged(p)' <=> Unmerged(p)
  BY DEF Merged, Unmerged
<1>3. Rooted(root, depth)'
  BY <1>1, <1>2 DEF Rooted
<1>4. PairsJoined(root)'
  BY <1>1 DEF PairsJoined
<1> QED
  BY <1>3, <1>4 DEF ForestInv

LEMMA ForestNext ==
    ASSUME PartyInv, ForestInv, PartyNext, \A o \in Confirmers : ~StaleMerge(o)
    PROVE  ForestInv'
<1> DEFINE SameMerges == /\ DOMAIN party' = DOMAIN party
                         /\ \A p \in DOMAIN party : party'[p].into = party[p].into
<1>1. PICK root, depth : Rooted(root, depth) /\ PairsJoined(root)
  BY DEF ForestInv
<1>2. /\ \A i \in DOMAIN proposals : proposals[i].pair \subseteq DOMAIN party
      /\ \A q \in DOMAIN draft : draft[q] \subseteq DOMAIN party
  BY <1>1 DEF ForestInv, PairsJoined
<1>3. ASSUME NEW q \in Proposers, NEW pair \in Pairs, ReadCandidates(q, pair)
      PROVE  ForestInv'
  <2>1. UNCHANGED <<party, proposals>>
        /\ \A r \in DOMAIN draft' : draft'[r] \subseteq DOMAIN party
    BY <1>2, <1>3 DEF ReadCandidates, Put, Unmerged
  <2> QED
    BY <1>2, <2>1, ForestStays
<1>4. ASSUME NEW q \in Proposers, InsertProposal(q)
      PROVE  ForestInv'
  <2>1. PICK i \in ProposalIds \ DOMAIN proposals :
           proposals' = Put(proposals, i, [pair |-> draft[q], status |-> "pending"])
    BY <1>4 DEF InsertProposal
  <2>2. /\ UNCHANGED party /\ draft[q] \subseteq DOMAIN party
        /\ \A r \in DOMAIN draft' : draft'[r] \subseteq DOMAIN party
    BY <1>2, <1>4 DEF InsertProposal, Drop
  <2>3. \A j \in DOMAIN proposals' :
           /\ proposals'[j].pair \subseteq DOMAIN party
           /\ proposals'[j].status = "confirmed" =>
                 j \in DOMAIN proposals /\ proposals'[j] = proposals[j]
    BY <1>2, <2>1, <2>2 DEF Put
  <2> QED
    BY <2>2, <2>3, ForestStays
<1>5. ASSUME NEW q \in Proposers, InsertFails(q)
      PROVE  ForestInv'
  <2>1. UNCHANGED <<party, proposals>>
        /\ \A r \in DOMAIN draft' : draft'[r] \subseteq DOMAIN party
    BY <1>2, <1>5 DEF InsertFails, Drop
  <2> QED
    BY <1>2, <2>1, ForestStays
<1>6. ASSUME NEW i \in ProposalIds, RejectProposal(i)
      PROVE  ForestInv'
  <2>1. UNCHANGED <<party, draft>>
    BY <1>6 DEF RejectProposal
  <2>2. \A j \in DOMAIN proposals' :
           /\ proposals'[j].pair \subseteq DOMAIN party
           /\ proposals'[j].status = "confirmed" =>
                 j \in DOMAIN proposals /\ proposals'[j] = proposals[j]
    BY <1>2, <1>6 DEF RejectProposal, PartyInv, PartyTypeOK, ProposalRows
  <2> QED
    BY <1>2, <2>1, <2>2, ForestStays
<1>7. ASSUME NEW l \in Loaders, LoadCommits(l)
      PROVE  ForestInv'
  <2>1. SameMerges /\ UNCHANGED <<proposals, draft>>
    BY <1>7 DEF LoadCommits, PartyInv, PartyTypeOK, PartyRows
  <2> QED
    BY <1>2, <2>1, ForestStays
<1>8. CASE UNCHANGED <<party, proposals, draft>>
  BY <1>2, <1>8, ForestStays
<1> QED
  BY <1>3, <1>4, <1>5, <1>6, <1>7, <1>8, ForestCreate, ForestConfirm
  DEF PartyNext, LockProposal, ReadPair, UpdateSurvivor, UpdateMerged,
      AbortConfirm, LoadReads, LoadWrites, LoadAborts

(***************************************************************************)
(* Ancestor climbs from merge to merge: its recurrence, and the root that  *)
(* it reaches in as many steps as a party's depth.                         *)
(***************************************************************************)
Above(p) == IF party[p].into = NoParty THEN p ELSE party[p].into

MergesLead ==
    \A p \in DOMAIN party : party[p].into # NoParty => party[p].into \in DOMAIN party

LEMMA Climb ==
    ASSUME MergesLead
    PROVE  /\ \A p \in DOMAIN party : Ancestor[0][p] = p
           /\ \A n \in 1..Cardinality(Parties), p \in DOMAIN party :
                 Ancestor[n][p] = Above(Ancestor[n - 1][p])
<1> DEFINE D == DOMAIN party
           k == Cardinality(Parties)
           up == [p \in D |-> Above(p)]
           Recurs(A) == A = [n \in 0..k |->
                               IF n = 0 THEN [p \in D |-> p]
                               ELSE [p \in D |->
                                       LET q == A[n - 1][p]
                                       IN  IF party[q].into = NoParty THEN q
                                           ELSE party[q].into]]
<1>1. k \in Nat
  BY PartyMergeAssumption, FS_CardinalityType
<1>2. up \in [D -> D]
  BY DEF Above, MergesLead
<1>3. PICK g \in [0..k -> [D -> D]] :
         /\ \A p \in D : g[0][p] = p
         /\ \A n \in 1..k, p \in D : g[n][p] = up[g[n - 1][p]]
  <2> HIDE DEF D, k, up
  <2> QED
    BY <1>1, <1>2, Iterates
<1>4. Recurs(g)
  <2>1. ASSUME NEW n \in 0..k
        PROVE  g[n] = IF n = 0 THEN [p \in D |-> p]
                      ELSE [p \in D |-> LET q == g[n - 1][p]
                                        IN  IF party[q].into = NoParty THEN q
                                            ELSE party[q].into]
    <3>1. CASE n = 0
      BY <1>3, <3>1
    <3>2. CASE n # 0
      <4>1. n \in 1..k /\ n - 1 \in 0..k
        BY <1>1, <3>2
      <4>2. \A p \in D : g[n - 1][p] \in D
        BY <1>3, <4>1
      <4>3. \A p \in D : g[n][p] = Above(g[n - 1][p])
        BY <1>3, <4>1, <4>2
      <4>4. g[n] \in [D -> D]
        BY <1>3
      <4>5. g[n] = [p \in D |-> Above(g[n - 1][p])]
        BY <4>3, <4>4
      <4> QED
        BY <3>2, <4>5 DEF Above
    <3> QED
      BY <3>1, <3>2
  <2> QED
    BY <1>3, <2>1
<1>5. Recurs(Ancestor)
  <2>1. Ancestor = CHOOSE A : Recurs(A)
    BY DEF Ancestor
  <2> HIDE DEF Recurs
  <2> QED
    BY <1>4, <2>1
<1>6. ASSUME NEW n \in 0..k, NEW p \in D
      PROVE  Ancestor[n][p] = IF n = 0 THEN p ELSE Above(Ancestor[n - 1][p])
  <2>1. Ancestor[n] = IF n = 0 THEN [r \in D |-> r]
                      ELSE [r \in D |-> LET q == Ancestor[n - 1][r]
                                        IN  IF party[q].into = NoParty THEN q
                                            ELSE party[q].into]
    BY <1>5
  <2>2. CASE n = 0
    BY <2>1, <2>2
  <2>3. CASE n # 0
    <3>1. Ancestor[n] = [r \in D |-> LET q == Ancestor[n - 1][r]
                                     IN  IF party[q].into = NoParty THEN q
                                         ELSE party[q].into]
      BY <2>1, <2>3
    <3> QED
      BY <2>3, <3>1 DEF Above
  <2> QED
    BY <2>2, <2>3
<1> HIDE DEF Recurs
<1> QED
  BY <1>1, <1>6

LEMMA SurvivorIsRoot ==
    ASSUME PartyInv, NEW root, NEW depth, Rooted(root, depth)
    PROVE  \A p \in DOMAIN party : Survivor(p) = root[p]
<1> DEFINE D == DOMAIN party
           k == Cardinality(Parties)
           Climbs(n, p) ==
               LET q == Ancestor[n][p]
               IN  /\ q \in D /\ root[q] = root[p]
                   /\ depth[q] = 0 \/ depth[q] + n <= depth[p]
           S == {n \in Nat : n <= k => \A p \in D : Climbs(n, p)}
<1>1. k \in Nat /\ Cardinality(Merged) <= k /\ Cardinality(Merged) \in Nat
  BY PartyMergeAssumption, FS_CardinalityType, MergedIsFinite DEF PartyInv
<1>7. MergesLead
  BY DEF MergesLead, Rooted, Unmerged
<1>2. 0 \in S
  BY Climb, <1>1, <1>7 DEF Rooted
<1>3. ASSUME NEW n \in S
      PROVE  n + 1 \in S
  <2>1. n \in Nat
    OBVIOUS
  <2>2. ASSUME n + 1 <= k, NEW p \in D
        PROVE  Climbs(n + 1, p)
    <3>1. n <= k /\ n + 1 \in 1..k /\ (n + 1) - 1 = n
      BY <1>1, <2>1, <2>2
    <3>2. Climbs(n, p)
      BY <3>1
    <3>3. PICK q \in D : /\ q = Ancestor[n][p] /\ root[q] = root[p]
                         /\ depth[q] = 0 \/ depth[q] + n <= depth[p]
      BY <3>2
    <3>4. Ancestor[n + 1][p] = Above(q)
      BY Climb, <1>7, <3>1, <3>3
    <3>5. CASE Unmerged(q)
      <4>1. Above(q) = q /\ depth[q] = 0
        BY <3>5 DEF Above, Unmerged, Rooted
      <4> QED
        BY <3>3, <3>4, <4>1
    <3>6. CASE ~Unmerged(q)
      <4>1. /\ Above(q) \in D /\ root[Above(q)] = root[q]
            /\ depth[q] = depth[Above(q)] + 1
            /\ depth[q] \in Nat /\ depth[Above(q)] \in Nat /\ depth[p] \in Nat
        BY <3>6 DEF Above, Unmerged, Rooted
      <4> QED
        BY <2>1, <3>3, <3>4, <4>1
    <3> QED
      BY <3>5, <3>6
  <2> HIDE DEF Climbs
  <2> QED
    BY <2>1, <2>2
<1>4. S = Nat
  <2>1. S \in SUBSET Nat
    OBVIOUS
  <2> HIDE DEF S
  <2> QED
    BY <1>2, <1>3, <2>1, Induction
<1>5. ASSUME NEW p \in D
      PROVE  Survivor(p) = root[p]
  <2>1. Climbs(k, p)
    BY <1>1, <1>4
  <2>2. PICK q \in D : /\ q = Survivor(p) /\ root[q] = root[p]
                       /\ depth[q] = 0 \/ depth[q] + k <= depth[p]
    BY <2>1 DEF Survivor
  <2>3. depth[p] <= k /\ depth[p] \in Nat /\ depth[q] \in Nat
    BY <1>1 DEF Rooted
  <2>4. depth[q] = 0
    BY <1>1, <2>2, <2>3
  <2>5. Unmerged(q)
    <3>1. ~Unmerged(q) => depth[q] = depth[party[q].into] + 1
                          /\ depth[party[q].into] \in Nat
      BY DEF Rooted
    <3> QED
      BY <2>4, <3>1
  <2> QED
    BY <2>2, <2>5 DEF Rooted
<1> QED
  BY <1>5

LEMMA PairsAreOne ==
    ASSUME PartyInv, ForestInv
    PROVE  ConfirmedPairsAreOne
<1>1. PICK root, depth : Rooted(root, depth) /\ PairsJoined(root)
  BY DEF ForestInv
<1>2. ASSUME NEW i \in DOMAIN proposals, proposals[i].status = "confirmed",
             NEW p \in proposals[i].pair, NEW q \in proposals[i].pair
      PROVE  Survivor(p) = Survivor(q) /\ Unmerged(Survivor(p))
  <2>1. p \in DOMAIN party /\ q \in DOMAIN party /\ root[p] = root[q]
    BY <1>1, <1>2 DEF PairsJoined
  <2>2. Survivor(p) = root[p] /\ Survivor(q) = root[q] /\ Unmerged(root[p])
    BY <1>1, <2>1, SurvivorIsRoot DEF Rooted
  <2> QED
    BY <2>1, <2>2
<1> QED
  BY <1>2 DEF ConfirmedPairsAreOne

(***************************************************************************)
(* And back: where the parties of each confirmed proposal have one         *)
(* unmerged survivor, merges are a forest.  The depth of a party is the    *)
(* number of merges after which the way up from it ends.                   *)
(***************************************************************************)
LEMMA WalkIsShort ==
    ASSUME NEW D, IsFiniteSet(D), NEW way \in Seq(D),
           \A m, n \in 1..Len(way) : way[m] = way[n] => m = n
    PROVE  Len(way) <= Cardinality(D)
<1>1. Len(way) \in Nat /\ way \in [1..Len(way) -> D]
  OBVIOUS
<1>2. way \in Injection(1..Len(way), D)
  BY <1>1 DEF Injection, IsInjective
<1>3. Cardinality(1..Len(way)) <= Cardinality(D)
  BY <1>2, FS_Injection
<1>4. Cardinality(1..Len(way)) = Len(way)
  <2>1. Cardinality(1..Len(way)) = IF 1 > Len(way) THEN 0 ELSE Len(way) - 1 + 1
    BY <1>1, FS_Interval
  <2> QED
    BY <1>1, <2>1
<1> QED
  BY <1>3, <1>4

\* Who is proposed is a party, and so is who a party was merged into.
KnownParties ==
    /\ \A q \in DOMAIN draft : draft[q] \subseteq DOMAIN party
    /\ \A i \in DOMAIN proposals : proposals[i].pair \subseteq DOMAIN party

LEMMA KnownLead ==
    ASSUME PartyInv, KnownParties PROVE MergesLead
BY DEF PartyInv, MergesAreConfirmed, KnownParties, MergesLead

LEMMA KnownNext ==
    ASSUME PartyInv, KnownParties, [PartyNext]_partyVars
    PROVE  KnownParties'
<1>1. DOMAIN party \subseteq DOMAIN party'
  BY DEF PartyInv, PartyTypeOK, PartyNext, partyVars, CreateParty, ReadCandidates,
     InsertProposal, InsertFails, LockProposal, ReadPair, UpdateSurvivor, UpdateMerged,
     Confirm, AbortConfirm, RejectProposal, LoadReads, LoadWrites, LoadCommits, LoadAborts, Put
<1>2. \A q \in DOMAIN draft' : draft'[q] \subseteq DOMAIN party
  <2>1. ASSUME NEW r \in Proposers, NEW pair \in Pairs, ReadCandidates(r, pair)
        PROVE  \A q \in DOMAIN draft' : draft'[q] \subseteq DOMAIN party
    BY <2>1 DEF ReadCandidates, Put, Unmerged, KnownParties
  <2>2. ASSUME NEW r \in Proposers, InsertProposal(r) \/ InsertFails(r)
        PROVE  \A q \in DOMAIN draft' : draft'[q] \subseteq DOMAIN party
    BY <2>2 DEF InsertProposal, InsertFails, Drop, KnownParties
  <2>3. CASE UNCHANGED draft
    BY <2>3 DEF KnownParties
  <2> QED
    BY <2>1, <2>2, <2>3 DEF PartyNext, partyVars, CreateParty, LockProposal, ReadPair,
       UpdateSurvivor, UpdateMerged, Confirm, AbortConfirm, RejectProposal, LoadReads,
       LoadWrites, LoadCommits, LoadAborts
<1>3. \A i \in DOMAIN proposals' : proposals'[i].pair \subseteq DOMAIN party
  <2>1. ASSUME NEW q \in Proposers, InsertProposal(q)
        PROVE  \A i \in DOMAIN proposals' : proposals'[i].pair \subseteq DOMAIN party
    BY <2>1 DEF InsertProposal, Put, KnownParties
  <2>2. ASSUME NEW i, NEW status,
               proposals' = [proposals EXCEPT ![i].status = status]
        PROVE  \A j \in DOMAIN proposals' : proposals'[j].pair \subseteq DOMAIN party
    BY <2>2 DEF PartyInv, PartyTypeOK, ProposalRows, KnownParties
  <2>3. CASE UNCHANGED proposals
    BY <2>3 DEF KnownParties
  <2> QED
    BY <2>1, <2>2, <2>3 DEF PartyNext, partyVars, CreateParty, ReadCandidates, InsertFails,
       LockProposal, ReadPair, UpdateSurvivor, UpdateMerged, Confirm, AbortConfirm,
       RejectProposal, LoadReads, LoadWrites, LoadCommits, LoadAborts
<1> QED
  BY <1>1, <1>2, <1>3 DEF KnownParties

\* The way up from a party is a step to the party above it and the way up from there.
LEMMA ClimbFromAbove ==
    ASSUME PartyInv, MergesLead
    PROVE  /\ \A n \in 0..Cardinality(Parties), p \in DOMAIN party :
                 Ancestor[n][p] \in DOMAIN party /\ (Unmerged(p) => Ancestor[n][p] = p)
           /\ \A n \in 1..Cardinality(Parties), p \in DOMAIN party :
                 Ancestor[n][p] = Ancestor[n - 1][Above(p)]
<1> DEFINE D == DOMAIN party
           k == Cardinality(Parties)
           Shifts(n, p) ==
              /\ Ancestor[n][p] \in D /\ (Unmerged(p) => Ancestor[n][p] = p)
              /\ n > 0 => Ancestor[n][p] = Ancestor[n - 1][Above(p)]
           S == {n \in Nat : n <= k => \A p \in D : Shifts(n, p)}
<1>1. k \in Nat
  BY PartyMergeAssumption, FS_CardinalityType
<1>2. \A p \in D : Above(p) \in D /\ (Unmerged(p) => Above(p) = p)
  BY DEF Above, Unmerged, MergesLead
<1>3. 0 \in S
  BY Climb
<1>4. ASSUME NEW n \in S
      PROVE  n + 1 \in S
  <2>1. ASSUME n + 1 <= k, NEW p \in D
        PROVE  Shifts(n + 1, p)
    <3>1. n <= k /\ n + 1 \in 1..k /\ (n + 1) - 1 = n /\ n + 1 > 0
      BY <1>1, <2>1
    <3>2. Shifts(n, p)
      BY <3>1
    <3>3. Ancestor[n + 1][p] = Above(Ancestor[n][p])
      BY Climb, <3>1
    <3>4. Ancestor[n + 1][p] = Ancestor[n][Above(p)]
      <4>1. CASE n = 0
        BY Climb, <1>2, <3>3, <4>1
      <4>2. CASE n > 0
        <5>1. n \in 1..k /\ Above(p) \in D
          BY <1>1, <1>2, <3>1, <4>2
        <5>2. Ancestor[n][Above(p)] = Above(Ancestor[n - 1][Above(p)])
          BY Climb, <5>1
        <5> QED
          BY <3>2, <3>3, <4>2, <5>2
      <4> QED
        BY <4>1, <4>2
    <3> QED
      BY <1>2, <3>1, <3>2, <3>3, <3>4
  <2> HIDE DEF Shifts
  <2> QED
    BY <2>1
<1>5. S = Nat
  <2>1. S \in SUBSET Nat
    OBVIOUS
  <2> HIDE DEF S
  <2> QED
    BY <1>3, <1>4, <2>1, Induction
<1>6. ASSUME NEW n \in 0..k, NEW p \in D
      PROVE  Shifts(n, p)
  <2> HIDE DEF Shifts
  <2>1. n \in Nat /\ n <= k
    BY <1>1
  <2>2. n \in S
    BY <1>5, <2>1
  <2> QED
    BY <2>1, <2>2
<1> QED
  BY <1>1, <1>6

LEMMA ForestOfPairs ==
    ASSUME PartyInv, KnownParties, ConfirmedPairsAreOne
    PROVE  ForestInv
<1> DEFINE D == DOMAIN party
           k == Cardinality(Parties)
           root == [p \in D |-> Survivor(p)]
           Ends(p) == {n \in 0..k : Unmerged(Ancestor[n][p])}
           Depth(p) == CHOOSE n \in Ends(p) : \A m \in Ends(p) : n <= m
           depth == [p \in D |-> Depth(p)]
<1>1. k \in Nat /\ k \in 0..k /\ MergesLead
  BY PartyMergeAssumption, FS_CardinalityType, KnownLead
<1>2. ASSUME NEW p \in D
      PROVE  /\ root[p] \in D /\ Unmerged(root[p])
             /\ Unmerged(p) => root[p] = p
             /\ ~Unmerged(p) => party[p].into \in D /\ root[p] = root[party[p].into]
  <2>1. Survivor(p) \in D /\ (Unmerged(p) => Survivor(p) = p)
    BY <1>1, ClimbFromAbove DEF Survivor
  <2>2. CASE Unmerged(p)
    BY <2>1, <2>2
  <2>3. CASE ~Unmerged(p)
    <3>1. party[p].into # NoParty /\ party[p].into \in D
      BY <1>1, <2>3 DEF Unmerged, MergesLead
    <3>2. PICK i \in DOMAIN proposals :
             proposals[i].status = "confirmed" /\ proposals[i].pair = {p, party[p].into}
      BY <3>1 DEF PartyInv, MergesAreConfirmed
    <3>3. Survivor(p) = Survivor(party[p].into) /\ Unmerged(Survivor(p))
      BY <3>2 DEF ConfirmedPairsAreOne
    <3> QED
      BY <2>1, <2>3, <3>1, <3>3
  <2> QED
    BY <2>2, <2>3
<1>3. ASSUME NEW p \in D
      PROVE  /\ depth[p] \in 0..k /\ Unmerged(Ancestor[depth[p]][p])
             /\ \A n \in 0..k : Unmerged(Ancestor[n][p]) => depth[p] <= n
  <2>1. Ends(p) \in SUBSET Nat /\ k \in Ends(p)
    <3>1. Ancestor[k][p] = root[p]
      BY DEF Survivor
    <3>2. Unmerged(Ancestor[k][p])
      BY <1>2, <3>1
    <3> HIDE DEF root
    <3> QED
      BY <1>1, <3>2
  <2> HIDE DEF Ends
  <2>2. \E n \in Ends(p) : \A m \in Ends(p) : n <= m
    BY <2>1, LeastNatural
  <2>3. Depth(p) \in Ends(p) /\ \A m \in Ends(p) : Depth(p) <= m
    BY <2>2
  <2> HIDE DEF Depth
  <2>4. depth[p] = Depth(p)
    OBVIOUS
  <2> HIDE DEF depth
  <2> QED
    BY <2>3, <2>4 DEF Ends
<1> HIDE DEF depth, root
<1>4. ASSUME NEW p \in D, Unmerged(p)
      PROVE  depth[p] = 0
  <2>1. 0 \in 0..k /\ Ancestor[0][p] = p
    BY <1>1, Climb
  <2> QED
    BY <1>1, <1>3, <1>4, <2>1
<1>5. ASSUME NEW p \in D, ~Unmerged(p)
      PROVE  depth[p] = depth[party[p].into] + 1
  <2> DEFINE q == party[p].into
             d == depth[p]
             e == depth[q]
  <2>1. q \in D /\ Above(p) = q
    BY <1>2, <1>5 DEF Above, Unmerged
  <2>2. /\ d \in 0..k /\ e \in 0..k
        /\ Unmerged(Ancestor[d][p]) /\ Unmerged(Ancestor[e][q])
    BY <1>3, <2>1
  <2>3. d # 0
    BY <1>1, <1>5, <2>2, Climb
  <2>4. d \in 1..k /\ d - 1 \in 0..k
    BY <1>1, <2>2, <2>3
  <2>5. Ancestor[d][p] = Ancestor[d - 1][q]
    BY <1>1, <2>1, <2>4, ClimbFromAbove
  <2>6. e <= d - 1
    BY <1>3, <2>1, <2>2, <2>4, <2>5
  <2>7. e + 1 \in 1..k /\ e + 1 \in 0..k /\ (e + 1) - 1 = e
    BY <1>1, <2>2, <2>4, <2>6
  <2>8. Ancestor[e + 1][p] = Ancestor[e][q]
    BY <1>1, <2>1, <2>7, ClimbFromAbove
  <2>9. d <= e + 1
    BY <1>3, <2>2, <2>7, <2>8
  <2> QED
    BY <2>2, <2>6, <2>9
<1>6. ASSUME NEW p \in D
      PROVE  depth[p] <= Cardinality(Merged)
  <2> DEFINE d == depth[p]
             Down(n) == Ancestor[n][p] \in D /\ depth[Ancestor[n][p]] = d - n
             S == {n \in Nat : n <= d => Down(n)}
             way == [n \in 1..d |-> Ancestor[n - 1][p]]
  <2>1. d \in 0..k /\ d \in Nat
    BY <1>1, <1>3
  <2>2. 0 \in S
    BY <1>1, <2>1, Climb
  <2>3. ASSUME NEW n \in S
        PROVE  n + 1 \in S
    <3>1. ASSUME n + 1 <= d
          PROVE  Down(n + 1)
      <4>1. Down(n) /\ n \in 0..k /\ n + 1 \in 1..k /\ (n + 1) - 1 = n /\ d - n # 0
        BY <1>1, <2>1, <3>1
      <4>2. ~Unmerged(Ancestor[n][p])
        BY <1>4, <4>1
      <4>3. Ancestor[n + 1][p] = party[Ancestor[n][p]].into
        BY <1>1, <4>1, <4>2, Climb DEF Above, Unmerged
      <4>4. Ancestor[n + 1][p] \in D
        BY <1>2, <4>1, <4>2, <4>3
      <4>5. depth[Ancestor[n][p]] = depth[Ancestor[n + 1][p]] + 1
        BY <1>5, <4>1, <4>2, <4>3
      <4>6. depth[Ancestor[n + 1][p]] \in Nat
        BY <1>1, <1>3, <4>4
      <4> QED
        BY <2>1, <4>1, <4>4, <4>5, <4>6
    <3> HIDE DEF Down
    <3> QED
      BY <3>1
  <2>4. S = Nat
    <3>1. S \in SUBSET Nat
      OBVIOUS
    <3> HIDE DEF S
    <3> QED
      BY <2>2, <2>3, <3>1, Induction
  <2>5. ASSUME NEW n \in 1..d
        PROVE  way[n] \in Merged /\ depth[way[n]] = d - (n - 1)
    <3>1. n - 1 \in S /\ n - 1 <= d /\ d - (n - 1) # 0
      BY <2>1, <2>4
    <3>2. Down(n - 1)
      BY <3>1
    <3>3. ~Unmerged(Ancestor[n - 1][p])
      BY <1>4, <3>1, <3>2
    <3> QED
      BY <3>2, <3>3 DEF Merged, Unmerged
  <2>6. way \in Seq(Merged) /\ Len(way) = d
    <3> HIDE DEF d
    <3> QED
      BY <2>1, <2>5
  <2> HIDE DEF way
  <2> HIDE DEF d
  <2>7. ASSUME NEW m \in 1..Len(way), NEW n \in 1..Len(way), way[m] = way[n]
        PROVE  m = n
    <3>1. m \in 1..d /\ n \in 1..d
      BY <2>6
    <3>2. d - (m - 1) = d - (n - 1)
      BY <2>5, <2>7, <3>1
    <3> QED
      BY <2>1, <3>1, <3>2
  <2>8. Len(way) <= Cardinality(Merged)
    BY <2>6, <2>7, MergedIsFinite, WalkIsShort DEF PartyInv
  <2> QED
    BY <2>6, <2>8 DEF d
<1>7. Rooted(root, depth)
  <2>1. root \in [D -> D]
    BY <1>2 DEF root
  <2>2. depth \in [D -> Nat]
    BY <1>1, <1>3 DEF depth
  <2> QED
    BY <1>2, <1>4, <1>5, <1>6, <2>1, <2>2 DEF Rooted
<1>8. PairsJoined(root)
  BY DEF PairsJoined, KnownParties, ConfirmedPairsAreOne, root
<1> QED
  BY <1>7, <1>8 DEF ForestInv, KnownParties

(***************************************************************************)
(* What divides a confirmed pair: with any number of people who confirm at *)
(* a time, nothing but a confirmation of a party that was merged after it  *)
(* had read it (apply_party_merge, the two SELECTs without a lock).        *)
(***************************************************************************)
\* Every confirmed pair leads to one unmerged survivor at first, and whoever
\* confirms, rejects and loads at a time, only one kind of step can end that: the
\* commit of a confirmation that passed its checks on parties one of which
\* was merged since (spec 0014, apply_party_merge).
THEOREM OnlyStaleMergesDivide ==
    PartySpec => /\ ConfirmedPairsAreOne
                 /\ [][ConfirmedPairsAreOne =>
                          \/ ConfirmedPairsAreOne'
                          \/ \E o \in Confirmers : StaleMerge(o)]_partyVars
<1> DEFINE Divides == ConfirmedPairsAreOne =>
                         \/ ConfirmedPairsAreOne'
                         \/ \E o \in Confirmers : StaleMerge(o)
<1>1. PartyInit => ConfirmedPairsAreOne /\ KnownParties
  BY DEF PartyInit, ConfirmedPairsAreOne, KnownParties
<1>2. PartyInv /\ PartyInv' /\ KnownParties /\ [PartyNext]_partyVars => [Divides]_partyVars
  <2> SUFFICES ASSUME PartyInv, PartyInv', KnownParties, PartyNext, ConfirmedPairsAreOne,
                      \A o \in Confirmers : ~StaleMerge(o)
               PROVE  ConfirmedPairsAreOne'
    OBVIOUS
  <2>1. ForestInv
    BY ForestOfPairs
  <2>2. ForestInv'
    BY <2>1, ForestNext
  <2>3. (PartyInv /\ ForestInv => ConfirmedPairsAreOne)'
    BY PairsAreOne, PTL
  <2> QED
    BY <2>2, <2>3
<1>3. PartyInv /\ KnownParties /\ [PartyNext]_partyVars => KnownParties'
  BY KnownNext
<1> HIDE DEF Divides
<1>4. PartySpec => ConfirmedPairsAreOne /\ [][Divides]_partyVars
  BY <1>1, <1>2, <1>3, PartyInvariant, PTL DEF PartySpec
<1> QED
  BY <1>4 DEF Divides

(***************************************************************************)
(* The graph.  A rebuild is a client of the parties: whatever holds of     *)
(* them alone holds beside it.                                             *)
(***************************************************************************)
LEMMA PartyStep == [Next]_vars => [PartyNext]_partyVars
BY DEF Next, vars, partyVars, InsertAward, LoadParties, LoadAwards, Walk, ApplyPlan,
       RebuildFails

\* The graph's specification implements the parties' own.
THEOREM GraphKeepsParties == Spec => PartySpec
<1>1. Init => PartyInit
  BY DEF Init
<1> QED
  BY <1>1, PartyStep, PTL DEF Spec, PartySpec

(***************************************************************************)
(* What the SELECTs so far have seen, whatever other rebuilds do.  Parties *)
(* may have been made and merged since, and no party that was listed as    *)
(* merged is unmerged again.                                               *)
(***************************************************************************)
PartialTo(A, B) == UNION {[S -> B] : S \in SUBSET A}

PlanRows == [phase : {"parties", "walks"},
             listed : PartialTo(Parties, Parties \cup {NoParty}),
             supplier : PartialTo(Awards, Parties),
             survivor : PartialTo(Parties, Parties),
             path : Seq(DOMAIN party), overtaken : BOOLEAN]

ListedParties(row) ==
    /\ DOMAIN row.listed \subseteq DOMAIN party
    /\ \A p \in DOMAIN row.listed : row.listed[p] # NoParty =>
          /\ party[p].into # NoParty
          /\ \E i : Confirmed(i) /\ proposals[i].pair = {p, row.listed[p]}

ResolvedParties(row) ==
    /\ DOMAIN row.survivor \subseteq DOMAIN row.listed
    /\ \A p \in DOMAIN row.survivor :
          row.survivor[p] \in DOMAIN row.listed => row.listed[row.survivor[p]] = NoParty
    /\ row.path # <<>> => row.path[1] \in DOMAIN row.listed
    /\ DOMAIN row.supplier \subseteq DOMAIN supplier
    /\ \A a \in DOMAIN row.supplier : row.supplier[a] = supplier[a]

\* A plan that no other one overtook has read all that is in the graph.
ReadTheGraph(row) ==
    ~row.overtaken =>
        /\ graph.nodes \subseteq DOMAIN row.listed
        /\ row.phase = "walks" => graph.awards \subseteq DOMAIN row.supplier

(***************************************************************************)
(* A walk through the merges of a listing, and one that has come to its    *)
(* end.  A plan whose listing still is what the parties are has walked     *)
(* through nothing else.                                                   *)
(***************************************************************************)
Leads(into, way) ==
    /\ way \in Seq(DOMAIN into) /\ way # <<>>
    /\ \A n \in 1..(Len(way) - 1) : into[way[n]] = way[n + 1]
    /\ \A m, n \in 1..Len(way) : way[m] = way[n] => m = n

Resolves(into, p, q) ==
    \E way : /\ Leads(into, way) /\ way[1] = p /\ way[Len(way)] = q
             /\ into[q] = NoParty

WalkedTheListing(row) ==
    row.listed = Listing =>
        /\ \A p \in DOMAIN row.survivor : Resolves(row.listed, p, row.survivor[p])
        /\ row.path # <<>> => Leads(row.listed, row.path)

RowOK(row) == /\ row \in PlanRows /\ ListedParties(row) /\ ResolvedParties(row)
              /\ ReadTheGraph(row) /\ WalkedTheListing(row)

PlansOK == \A row \in {plan[r] : r \in DOMAIN plan} : RowOK(row)

Tables ==
    /\ supplier \in PartialTo(Awards, Parties)
    /\ MergesLead
    /\ graph.awards \subseteq DOMAIN supplier
    /\ graph.nodes \subseteq DOMAIN party

GraphInv == PartyInv /\ PairsInv /\ Tables /\ PlansOK /\ EdgesAreLostToNewPartiesOnly

LEMMA EmptyIsPartial ==
    ASSUME NEW A, NEW B PROVE Empty \in PartialTo(A, B)
<1>1. Empty \in [{} -> B]
  BY DEF Empty
<1> QED
  BY <1>1 DEF PartialTo

LEMMA PutIsPartial ==
    ASSUME NEW A, NEW B, NEW f \in PartialTo(A, B), NEW x \in A, NEW v \in B
    PROVE  /\ Put(f, x, v) \in PartialTo(A, B)
           /\ DOMAIN Put(f, x, v) = DOMAIN f \cup {x} /\ Put(f, x, v)[x] = v
           /\ \A y \in DOMAIN f \ {x} : Put(f, x, v)[y] = f[y]
<1>1. PICK S \in SUBSET A : f \in [S -> B]
  BY DEF PartialTo
<1>2. Put(f, x, v) \in [S \cup {x} -> B]
  BY <1>1 DEF Put
<1> QED
  BY <1>1, <1>2 DEF PartialTo, Put

LEMMA GraphInit == Init => GraphInv
<1> SUFFICES ASSUME Init PROVE GraphInv
  OBVIOUS
<1>1. PartyInv /\ PairsInv
  BY InitInv, PairsInit DEF Init
<1>2. /\ DOMAIN plan = {} /\ DOMAIN party = {}
      /\ graph.awards = {} /\ graph.nodes = {}
  BY DEF Init, Empty, NoGraph, PartyInit
<1>3. supplier \in PartialTo(Awards, Parties)
  BY EmptyIsPartial DEF Init
<1> QED
  BY <1>1, <1>2, <1>3
  DEF GraphInv, PlansOK, Tables, MergesLead, EdgesAreLostToNewPartiesOnly

\* Every merge leads to a party there is.
LEMMA MergesLeadOn ==
    ASSUME PartyInv, MergesLead, PartyNext
    PROVE  MergesLead'
<1>1. ASSUME NEW p \in Parties, CreateParty(p) PROVE MergesLead'
  BY <1>1 DEF CreateParty, Put, NewParty, MergesLead
<1>2. ASSUME NEW o \in Confirmers, Confirm(o) PROVE MergesLead'
  <2>1. tx[o].survivor \in DOMAIN party /\ tx[o].merged \in DOMAIN party
    BY <1>2 DEF Confirm, PartyInv, PartyTypeOK
  <2>2. /\ DOMAIN party' = DOMAIN party
        /\ party'[tx[o].merged].into = tx[o].survivor
        /\ \A p \in DOMAIN party \ {tx[o].merged} : party'[p].into = party[p].into
    BY <1>2, <2>1 DEF Confirm, PartyInv, PartyTypeOK, PartyRows
  <2> QED
    BY <2>1, <2>2 DEF MergesLead
<1>3. ASSUME NEW l \in Loaders, LoadCommits(l) PROVE MergesLead'
  <2>1. /\ DOMAIN party' = DOMAIN party
        /\ \A p \in DOMAIN party : party'[p].into = party[p].into
    BY <1>3 DEF LoadCommits, PartyInv, PartyTypeOK, PartyRows
  <2> QED
    BY <2>1 DEF MergesLead
<1>4. CASE UNCHANGED party
  BY <1>4 DEF MergesLead
<1> QED
  BY <1>1, <1>2, <1>3, <1>4
  DEF PartyNext, ReadCandidates, InsertProposal, InsertFails, LockProposal, ReadPair,
      UpdateSurvivor, UpdateMerged, AbortConfirm, RejectProposal, LoadReads,
      LoadWrites, LoadAborts

\* Once the merges are not what a plan has listed they never are again: to list a
\* party as merged takes a confirmed proposal, and a pair is confirmed once.
LEMMA DisturbedForGood ==
    ASSUME PartyInv, PairsInv, PartyNext, NEW row, ListedParties(row),
           row.listed = Listing'
    PROVE  Listing' = Listing
<1>1. DOMAIN party' = DOMAIN row.listed /\ DOMAIN party' \subseteq DOMAIN party
      /\ \A p \in DOMAIN party' : row.listed[p] = party'[p].into
  BY DEF Listing, ListedParties
<1>2. ASSUME NEW p \in Parties, CreateParty(p) PROVE FALSE
  BY <1>1, <1>2 DEF CreateParty, Put
<1>3. ASSUME NEW o \in Confirmers, Confirm(o) PROVE FALSE
  <2>1. /\ o \in DOMAIN tx /\ tx[o].step = "merged"
        /\ tx[o].merged \in DOMAIN party /\ tx[o].survivor \in Parties
    BY <1>3 DEF Confirm, PartyInv, PartyTypeOK
  <2>2. DOMAIN party' = DOMAIN party /\ party'[tx[o].merged].into = tx[o].survivor
    BY <1>3, <2>1 DEF Confirm, PartyInv, PartyTypeOK, PartyRows
  <2>3. PICK i : Confirmed(i) /\ proposals[i].pair = {tx[o].merged, tx[o].survivor}
    BY <1>1, <2>1, <2>2, PartyMergeAssumption DEF ListedParties
  <2> QED
    BY <2>1, <2>3 DEF PairsInv, CheckedPairsAreNew, Confirmed
<1>4. ASSUME NEW l \in Loaders, LoadCommits(l) PROVE Listing' = Listing
  BY <1>4 DEF LoadCommits, PartyInv, PartyTypeOK, PartyRows, Listing
<1>5. CASE UNCHANGED party
  BY <1>5 DEF Listing
<1> QED
  BY <1>2, <1>3, <1>4, <1>5
  DEF PartyNext, ReadCandidates, InsertProposal, InsertFails, LockProposal, ReadPair,
      UpdateSurvivor, UpdateMerged, AbortConfirm, RejectProposal, LoadReads,
      LoadWrites, LoadAborts

\* A step of the parties leaves a plan as it is.
LEMMA RowBesideParties ==
    ASSUME PartyInv, PairsInv, PartyNext, UNCHANGED <<supplier, graph>>,
           NEW row, RowOK(row)
    PROVE  RowOK(row)'
<1>1. \A p \in DOMAIN party : /\ p \in DOMAIN party'
                              /\ party[p].into # NoParty => party'[p].into # NoParty
  BY MergedForGood
<1>2. \A i : Confirmed(i) => Confirmed(i)' /\ proposals'[i].pair = proposals[i].pair
  BY ResolvedStays DEF Confirmed
<1>3. (row \in PlanRows)'
  BY <1>1 DEF RowOK, PlanRows
<1>4. ListedParties(row)'
  BY <1>1, <1>2 DEF RowOK, ListedParties
<1>5. ResolvedParties(row)' /\ ReadTheGraph(row)'
  BY DEF RowOK, ResolvedParties, ReadTheGraph
<1>6. WalkedTheListing(row)'
  BY DisturbedForGood DEF RowOK, WalkedTheListing
<1> QED
  BY <1>3, <1>4, <1>5, <1>6 DEF RowOK

\* Steps that leave the parties, and the graph, as they are.
LEMMA RowStays ==
    ASSUME UNCHANGED <<party, proposals, graph>>, NEW row, RowOK(row),
           DOMAIN supplier \subseteq DOMAIN supplier',
           \A a \in DOMAIN supplier : supplier'[a] = supplier[a]
    PROVE  RowOK(row)'
<1>1. (row \in PlanRows)' /\ ListedParties(row)' /\ ReadTheGraph(row)'
  BY DEF RowOK, PlanRows, ListedParties, ReadTheGraph, Confirmed
<1>2. ResolvedParties(row)'
  BY DEF RowOK, ResolvedParties
<1>3. WalkedTheListing(row)'
  BY DEF RowOK, WalkedTheListing, Listing
<1> QED
  BY <1>1, <1>2, <1>3 DEF RowOK

LEMMA GraphBesideParties ==
    ASSUME GraphInv, PartyNext, UNCHANGED graphVars
    PROVE  GraphInv'
<1>1. UNCHANGED <<supplier, plan, graph>>
  BY DEF graphVars
<1>2. PartyInv' /\ PairsInv'
  BY NextInv, PairsNext DEF GraphInv
<1>3. Tables'
  <2>1. DOMAIN party \subseteq DOMAIN party'
    BY MergedForGood DEF GraphInv
  <2> QED
    BY <1>1, <2>1, MergesLeadOn DEF GraphInv, Tables
<1>4. PlansOK'
  BY <1>1, RowBesideParties DEF GraphInv, PlansOK
<1>5. EdgesAreLostToNewPartiesOnly'
  BY <1>1 DEF GraphInv, EdgesAreLostToNewPartiesOnly
<1> QED
  BY <1>2, <1>3, <1>4, <1>5 DEF GraphInv

\* The parts of the invariant that a step without the parties leaves alone.
LEMMA PartiesUnmoved ==
    ASSUME PartyInv, PairsInv, UNCHANGED partyVars
    PROVE  PartyInv' /\ PairsInv'
<1>1. PartyInv'
  BY DEF partyVars, PartyInv, PartyTypeOK, LockedProposals, MergesAreConfirmed
<1>2. PairsInv'
  BY DEF partyVars, PairsInv, PendingOnce, ConfirmedIsMerged, CheckedPairsAreNew,
         PairsAreConfirmedOnce, Confirmed, Pending
<1> QED
  BY <1>1, <1>2

LEMMA InsertAwardInv ==
    ASSUME GraphInv, NEW a \in Awards, NEW p \in Parties, InsertAward(a, p)
    PROVE  GraphInv'
<1>1. /\ UNCHANGED <<party, proposals, plan, graph>>
      /\ DOMAIN supplier' = DOMAIN supplier \cup {a}
      /\ \A b \in DOMAIN supplier : supplier'[b] = supplier[b]
  BY DEF InsertAward, Put, partyVars
<1>2. PartyInv' /\ PairsInv'
  BY PartiesUnmoved DEF InsertAward, GraphInv
<1>3. Tables'
  <2>1. supplier' \in PartialTo(Awards, Parties)
    BY PutIsPartial DEF InsertAward, GraphInv, Tables
  <2> QED
    BY <1>1, <2>1 DEF GraphInv, Tables, MergesLead
<1>4. PlansOK'
  BY <1>1, RowStays DEF GraphInv, PlansOK
<1>5. EdgesAreLostToNewPartiesOnly'
  BY <1>1 DEF GraphInv, EdgesAreLostToNewPartiesOnly, Tables
<1> QED
  BY <1>2, <1>3, <1>4, <1>5 DEF GraphInv

(***************************************************************************)
(* The steps of a rebuild before it is applied: they change its own plan   *)
(* and nothing else.                                                       *)
(***************************************************************************)
LEMMA ReadingInv ==
    ASSUME GraphInv, UNCHANGED <<partyVars, supplier, graph>>,
           \A row \in {plan'[r] : r \in DOMAIN plan'} :
              row \in {plan[r] : r \in DOMAIN plan} \/ RowOK(row)
    PROVE  GraphInv'
<1>1. PartyInv' /\ PairsInv'
  BY PartiesUnmoved DEF GraphInv
<1>2. Tables' /\ EdgesAreLostToNewPartiesOnly'
  BY DEF partyVars, GraphInv, Tables, MergesLead, EdgesAreLostToNewPartiesOnly
<1>3. PlansOK'
  <2>1. \A row \in {plan'[r] : r \in DOMAIN plan'} : RowOK(row)
    BY DEF GraphInv, PlansOK
  <2>2. \A row : RowOK(row) => RowOK(row)'
    BY RowStays DEF partyVars
  <2> QED
    BY <2>1, <2>2 DEF PlansOK
<1> QED
  BY <1>1, <1>2, <1>3 DEF GraphInv

LEMMA LoadPartiesInv ==
    ASSUME GraphInv, NEW r \in Rebuilds, LoadParties(r)
    PROVE  GraphInv'
<1> DEFINE row == [phase |-> "parties", listed |-> Listing, supplier |-> Empty,
                   survivor |-> Empty, path |-> <<>>, overtaken |-> FALSE]
<1>1. plan' = Put(plan, r, row)
  BY DEF LoadParties
<1>2. row \in PlanRows
  <2>1. Listing \in PartialTo(Parties, Parties \cup {NoParty})
    BY DEF Listing, PartialTo, GraphInv, PartyInv, PartyTypeOK, PartyRows
  <2> QED
    BY <2>1, EmptyIsPartial DEF PlanRows
<1>3. ListedParties(row)
  BY DEF ListedParties, Listing, GraphInv, PartyInv, MergesAreConfirmed, Confirmed
<1>4. ResolvedParties(row) /\ ReadTheGraph(row) /\ WalkedTheListing(row)
  BY DEF ResolvedParties, ReadTheGraph, WalkedTheListing, Listing, Empty, GraphInv, Tables
<1>5. RowOK(row)
  BY <1>2, <1>3, <1>4 DEF RowOK
<1> HIDE DEF row
<1>6. \A other \in {plan'[q] : q \in DOMAIN plan'} :
         other \in {plan[q] : q \in DOMAIN plan} \/ other = row
  BY <1>1 DEF Put
<1> QED
  BY <1>5, <1>6, ReadingInv DEF LoadParties

LEMMA LoadAwardsInv ==
    ASSUME GraphInv, NEW r \in Rebuilds, LoadAwards(r)
    PROVE  GraphInv'
<1>1. PICK old : old = plan[r] /\ r \in DOMAIN plan
  BY DEF LoadAwards, Reads
<1>2. RowOK(old) /\ old \in PlanRows
  BY <1>1 DEF GraphInv, PlansOK, RowOK
<1> DEFINE row == [old EXCEPT !.phase = "walks", !.supplier = supplier]
<1>3. plan' = [plan EXCEPT ![r] = row]
  BY <1>1 DEF LoadAwards
<1>4. /\ row.phase = "walks" /\ row.supplier = supplier /\ row.listed = old.listed
      /\ row.survivor = old.survivor /\ row.path = old.path
      /\ row.overtaken = old.overtaken /\ row \in PlanRows
  BY <1>2 DEF PlanRows, GraphInv, Tables
<1> HIDE DEF row
<1>5. ListedParties(row) /\ ResolvedParties(row) /\ WalkedTheListing(row)
  BY <1>2, <1>4 DEF RowOK, ListedParties, ResolvedParties, WalkedTheListing
<1>6. ReadTheGraph(row)
  BY <1>2, <1>4 DEF RowOK, ReadTheGraph, GraphInv, Tables
<1>7. RowOK(row)
  BY <1>4, <1>5, <1>6 DEF RowOK
<1>8. \A other \in {plan'[q] : q \in DOMAIN plan'} :
         other \in {plan[q] : q \in DOMAIN plan} \/ other = row
  BY <1>1, <1>3
<1> QED
  BY <1>7, <1>8, ReadingInv DEF LoadAwards

LEMMA FailsInv ==
    ASSUME GraphInv, NEW r \in Rebuilds, RebuildFails(r)
    PROVE  GraphInv'
<1>1. \A row \in {plan'[q] : q \in DOMAIN plan'} : row \in {plan[q] : q \in DOMAIN plan}
  BY DEF RebuildFails, Drop
<1> QED
  BY <1>1, ReadingInv DEF RebuildFails

\* The walk that a SELECT of canonical_party_id goes on with.
LEMMA WayFacts ==
    ASSUME NEW r \in DOMAIN plan, RowOK(plan[r]), NEW way \in Ways(r)
    PROVE  /\ way \in Seq(DOMAIN party) /\ way # <<>> /\ Len(way) \in Nat \ {0}
           /\ way[1] \in DOMAIN plan[r].listed
           /\ plan[r].listed = Listing => Leads(plan[r].listed, way)
<1>1. DOMAIN plan[r].listed \subseteq DOMAIN party /\ plan[r].path \in Seq(DOMAIN party)
  BY DEF RowOK, PlanRows, ListedParties
<1>2. CASE plan[r].path = <<>>
  <2>1. PICK p \in DOMAIN plan[r].listed : way = <<p>>
    BY <1>2 DEF Ways, Unresolved
  <2>5. Len(way) = 1 /\ way[1] = p /\ way # <<>>
    BY <2>1
  <2>6. \A D : p \in D => way \in Seq(D)
    BY <2>1
  <2>2. /\ Len(way) = 1 /\ way[1] = p /\ way # <<>>
        /\ way \in Seq(DOMAIN party) /\ way \in Seq(DOMAIN plan[r].listed)
    BY <1>1, <2>5, <2>6
  <2>3. \A m, n \in 1..Len(way) : m = n
    BY <2>2
  <2>4. 1..(Len(way) - 1) = {}
    BY <2>2
  <2> QED
    BY <2>2, <2>3, <2>4 DEF Leads
<1>3. CASE plan[r].path # <<>>
  BY <1>1, <1>3 DEF Ways, RowOK, ResolvedParties, WalkedTheListing
<1> QED
  BY <1>2, <1>3

LEMMA WalkEndsInv ==
    ASSUME GraphInv, NEW r \in Rebuilds, r \in DOMAIN plan, NEW way \in Ways(r),
           WalkEnds(r, way), UNCHANGED <<partyVars, supplier, graph>>
    PROVE  GraphInv'
<1>1. PICK old, p, s : old = plan[r] /\ p = way[1] /\ s = At(way)
  OBVIOUS
<1>2. RowOK(old) /\ old \in PlanRows
  BY <1>1 DEF GraphInv, PlansOK, RowOK
<1>3. /\ way \in Seq(DOMAIN party) /\ Len(way) \in Nat \ {0} /\ p \in DOMAIN old.listed
      /\ old.listed = Listing => Leads(old.listed, way)
  BY <1>1, <1>2, WayFacts
<1>4. Unmerged(s) /\ s = way[Len(way)] /\ s \in DOMAIN party /\ party[s].into = NoParty
  BY <1>1 DEF WalkEnds, EndsHere, At, Unmerged
<1>5. DOMAIN old.listed \subseteq DOMAIN party /\ DOMAIN party \subseteq Parties
  BY <1>2 DEF RowOK, ListedParties, GraphInv, PartyInv, PartyTypeOK
<1> DEFINE found == Put(old.survivor, p, s)
           row == [old EXCEPT !.survivor = found, !.path = <<>>]
<1>6. plan' = [plan EXCEPT ![r] = row]
  BY <1>1 DEF WalkEnds
<1>7. /\ found \in PartialTo(Parties, Parties)
      /\ DOMAIN found = DOMAIN old.survivor \cup {p} /\ found[p] = s
      /\ \A q \in DOMAIN old.survivor \ {p} : found[q] = old.survivor[q]
  <2>1. p \in Parties /\ s \in Parties /\ old.survivor \in PartialTo(Parties, Parties)
    BY <1>2, <1>3, <1>4, <1>5 DEF PlanRows
  <2>2. PICK f \in PartialTo(Parties, Parties) : f = old.survivor
    BY <2>1
  <2>3. Put(f, p, s) \in PartialTo(Parties, Parties)
    BY <2>1, PutIsPartial
  <2>4. /\ DOMAIN Put(f, p, s) = DOMAIN f \cup {p} /\ Put(f, p, s)[p] = s
        /\ \A q \in DOMAIN f \ {p} : Put(f, p, s)[q] = f[q]
    BY DEF Put
  <2> QED
    BY <2>2, <2>3, <2>4
<1> HIDE DEF found
<1>8. /\ row.phase = old.phase /\ row.supplier = old.supplier /\ row.listed = old.listed
      /\ row.survivor = found /\ row.path = <<>>
      /\ row.overtaken = old.overtaken /\ row \in PlanRows
  <2>1. <<>> \in Seq(DOMAIN party) /\ found \in PartialTo(Parties, Parties)
    BY <1>7
  <2> QED
    BY <1>2, <2>1 DEF PlanRows
<1> HIDE DEF row
<1>9. ListedParties(row) /\ ReadTheGraph(row)
  BY <1>2, <1>8 DEF RowOK, ListedParties, ReadTheGraph
<1>10. ResolvedParties(row)
  <2>1. s \in DOMAIN old.listed => old.listed[s] = NoParty
    BY <1>2, <1>4 DEF RowOK, ListedParties
  <2> QED
    BY <1>2, <1>3, <1>7, <1>8, <2>1 DEF RowOK, ResolvedParties
<1>11. WalkedTheListing(row)
  <2>1. ASSUME old.listed = Listing
        PROVE  Resolves(old.listed, p, s)
    BY <1>1, <1>3, <1>4, <2>1 DEF Resolves, Listing
  <2> QED
    BY <1>2, <1>7, <1>8, <2>1 DEF RowOK, WalkedTheListing
<1>12. RowOK(row)
  BY <1>8, <1>9, <1>10, <1>11 DEF RowOK
<1>13. \A other \in {plan'[q] : q \in DOMAIN plan'} :
          other \in {plan[q] : q \in DOMAIN plan} \/ other = row
  BY <1>6
<1> QED
  BY <1>12, <1>13, ReadingInv

LEMMA LeadsOn ==
    ASSUME NEW into, NEW way, Leads(into, way), NEW next, next \in DOMAIN into,
           into[way[Len(way)]] = next, \A n \in 1..Len(way) : way[n] # next
    PROVE  Leads(into, Append(way, next))
<1> DEFINE on == Append(way, next)
<1>1. /\ way \in Seq(DOMAIN into) /\ Len(way) \in Nat \ {0}
      /\ on \in Seq(DOMAIN into) /\ on # <<>> /\ Len(on) = Len(way) + 1
      /\ \A n \in 1..Len(way) : on[n] = way[n]
      /\ on[Len(way) + 1] = next
  BY DEF Leads
<1> HIDE DEF on
<1>2. ASSUME NEW n \in 1..(Len(on) - 1) PROVE into[on[n]] = on[n + 1]
  <2>1. CASE n = Len(way)
    BY <1>1, <2>1
  <2>2. CASE n # Len(way)
    <3>1. n \in 1..(Len(way) - 1) /\ n \in 1..Len(way) /\ n + 1 \in 1..Len(way)
      BY <1>1, <2>2
    <3> QED
      BY <1>1, <3>1 DEF Leads
  <2> QED
    BY <2>1, <2>2
<1>3. ASSUME NEW m \in 1..Len(on), NEW n \in 1..Len(on), on[m] = on[n] PROVE m = n
  <2>1. /\ m = Len(way) + 1 \/ m \in 1..Len(way)
        /\ n = Len(way) + 1 \/ n \in 1..Len(way)
    BY <1>1
  <2> QED
    BY <1>1, <1>3, <2>1 DEF Leads
<1>4. Leads(into, on)
  BY <1>1, <1>2, <1>3 DEF Leads
<1> QED
  BY <1>4 DEF on

LEMMA WalkOnInv ==
    ASSUME GraphInv, NEW r \in Rebuilds, r \in DOMAIN plan, NEW way \in Ways(r),
           WalkOn(r, way), UNCHANGED <<partyVars, supplier, graph>>
    PROVE  GraphInv'
<1>1. PICK old, s, next : old = plan[r] /\ s = At(way) /\ next = party[At(way)].into
  OBVIOUS
<1>2. RowOK(old) /\ old \in PlanRows
  BY <1>1 DEF GraphInv, PlansOK, RowOK
<1>3. /\ way \in Seq(DOMAIN party) /\ Len(way) \in Nat \ {0}
      /\ way[1] \in DOMAIN old.listed
      /\ old.listed = Listing => Leads(old.listed, way)
  BY <1>1, <1>2, WayFacts
<1>4. s = way[Len(way)] /\ s \in DOMAIN party /\ next = party[s].into
      /\ next \in DOMAIN party
  BY <1>1, <1>3 DEF WalkOn, EndsHere, At, Unmerged, GraphInv, Tables, MergesLead
<1>5. CASE plan' = Drop(plan, r)
  <2>1. \A row \in {plan'[q] : q \in DOMAIN plan'} : row \in {plan[q] : q \in DOMAIN plan}
    BY <1>5 DEF Drop
  <2> QED
    BY <2>1, ReadingInv
<1>6. CASE ~Visited(way, next) /\ plan' = [plan EXCEPT ![r].path = Append(way, next)]
  <2> DEFINE on == Append(way, next)
             row == [old EXCEPT !.path = on]
  <2>1. plan' = [plan EXCEPT ![r] = row]
    BY <1>1, <1>6
  <2>2. on \in Seq(DOMAIN party) /\ on[1] = way[1]
    BY <1>3, <1>4
  <2>3. old.listed = Listing => Leads(old.listed, on)
    <3>1. \A n \in 1..Len(way) : way[n] # next
      BY <1>6 DEF Visited
    <3>2. old.listed = Listing => next \in DOMAIN old.listed /\ old.listed[s] = next
      BY <1>4 DEF Listing
    <3> QED
      BY <1>3, <1>4, <3>1, <3>2, LeadsOn
  <2> HIDE DEF on
  <2>4. /\ row.phase = old.phase /\ row.supplier = old.supplier
        /\ row.listed = old.listed /\ row.survivor = old.survivor /\ row.path = on
        /\ row.overtaken = old.overtaken /\ row \in PlanRows
    BY <1>2, <2>2 DEF PlanRows
  <2> HIDE DEF row
  <2>5. ListedParties(row) /\ ReadTheGraph(row)
    BY <1>2, <2>4 DEF RowOK, ListedParties, ReadTheGraph
  <2>6. ResolvedParties(row)
    BY <1>2, <1>3, <2>2, <2>4 DEF RowOK, ResolvedParties
  <2>7. WalkedTheListing(row)
    BY <1>2, <2>3, <2>4 DEF RowOK, WalkedTheListing
  <2>8. RowOK(row)
    BY <2>4, <2>5, <2>6, <2>7 DEF RowOK
  <2>9. \A other \in {plan'[q] : q \in DOMAIN plan'} :
           other \in {plan[q] : q \in DOMAIN plan} \/ other = row
    BY <2>1
  <2> QED
    BY <2>8, <2>9, ReadingInv
<1> QED
  BY <1>1, <1>5, <1>6 DEF WalkOn

LEMMA WalkInv ==
    ASSUME GraphInv, NEW r \in Rebuilds, Walk(r)
    PROVE  GraphInv'
BY WalkEndsInv, WalkOnInv DEF Walk, Reads

\* What is applied of a complete plan.
LEMMA CompletePlan ==
    ASSUME GraphInv, NEW r \in Rebuilds, Complete(r)
    PROVE  /\ r \in DOMAIN plan /\ RowOK(plan[r]) /\ plan[r].phase = "walks"
           /\ DOMAIN plan[r].survivor = DOMAIN plan[r].listed
           /\ \A a \in DOMAIN plan[r].supplier :
                 plan[r].supplier[a] = supplier[a] /\ supplier[a] \in DOMAIN plan[r].listed
           /\ Planned(r).nodes = Nodes(r) /\ Planned(r).awards = DOMAIN plan[r].supplier
           /\ Planned(r).edges = PlannedEdges(r)
           /\ Planned(r).survivor = plan[r].survivor
<1>1. r \in DOMAIN plan /\ plan[r].phase = "walks"
  BY DEF Complete, Reads
<1>2. RowOK(plan[r])
  BY <1>1 DEF GraphInv, PlansOK
<1> QED
  BY <1>1, <1>2 DEF Complete, Unresolved, RowOK, ResolvedParties, Planned

LEMMA ApplyInv ==
    ASSUME GraphInv, NEW r \in Rebuilds, ApplyPlan(r)
    PROVE  GraphInv'
<1>1. /\ UNCHANGED <<partyVars, party, proposals, supplier>>
      /\ plan' = Overtaken(r) /\ graph' = Planned(r) /\ Complete(r)
  BY DEF ApplyPlan, partyVars
<1>2. PartyInv' /\ PairsInv'
  BY <1>1, PartiesUnmoved DEF GraphInv
<1>3. /\ RowOK(plan[r]) /\ DOMAIN plan[r].survivor = DOMAIN plan[r].listed
      /\ DOMAIN plan[r].listed \subseteq DOMAIN party
      /\ DOMAIN plan[r].supplier \subseteq DOMAIN supplier
  BY <1>1, CompletePlan DEF RowOK, ListedParties, ResolvedParties
<1>4. Tables'
  BY <1>1, <1>3, CompletePlan DEF GraphInv, Tables, MergesLead, Nodes
<1>5. PlansOK'
  <2>1. ASSUME NEW old, RowOK(old)
        PROVE  RowOK([old EXCEPT !.overtaken = TRUE])'
    <3> DEFINE row == [old EXCEPT !.overtaken = TRUE]
    <3>1. /\ row.phase = old.phase /\ row.supplier = old.supplier
          /\ row.listed = old.listed /\ row.survivor = old.survivor
          /\ row.path = old.path /\ row.overtaken = TRUE /\ row \in PlanRows
      BY <2>1 DEF RowOK, PlanRows
    <3> HIDE DEF row
    <3>5. (row \in PlanRows)'
      BY <1>1, <3>1 DEF PlanRows
    <3>6. ListedParties(row)'
      BY <1>1, <2>1, <3>1 DEF RowOK, ListedParties, Confirmed
    <3>2. (row \in PlanRows)' /\ ListedParties(row)' /\ ReadTheGraph(row)'
      BY <3>1, <3>5, <3>6 DEF ReadTheGraph
    <3>3. ResolvedParties(row)' /\ WalkedTheListing(row)'
      BY <1>1, <2>1, <3>1 DEF RowOK, ResolvedParties, WalkedTheListing, Listing
    <3>4. RowOK(row)'
      BY <3>2, <3>3 DEF RowOK
    <3> QED
      BY <3>4 DEF row
  <2>2. \A row \in {plan'[q] : q \in DOMAIN plan'} :
           \E old \in {plan[q] : q \in DOMAIN plan} : row = [old EXCEPT !.overtaken = TRUE]
    BY <1>1 DEF Overtaken
  <2>3. \A old \in {plan[q] : q \in DOMAIN plan} : RowOK(old)
    BY DEF GraphInv, PlansOK
  <2> QED
    BY <2>1, <2>2, <2>3 DEF PlansOK
<1>6. EdgesAreLostToNewPartiesOnly'
  <2>1. ASSUME NEW a \in DOMAIN plan[r].supplier,
               plan[r].survivor[supplier[a]] \in DOMAIN plan[r].survivor
        PROVE  /\ plan[r].survivor[supplier[a]] \in Nodes(r)
               /\ <<a, plan[r].survivor[supplier[a]]>> \in PlannedEdges(r)
    <3>1. supplier[a] \in DOMAIN plan[r].survivor /\ plan[r].supplier[a] = supplier[a]
      BY <1>1, <1>3, CompletePlan
    <3>2. plan[r].survivor[supplier[a]] \in Nodes(r)
      BY <1>3, <2>1, <3>1 DEF RowOK, ResolvedParties, Nodes
    <3> QED
      BY <3>1, <3>2 DEF PlannedEdges
  <2>2. /\ graph'.awards = DOMAIN plan[r].supplier /\ graph'.nodes = Nodes(r)
        /\ graph'.edges = PlannedEdges(r) /\ graph'.survivor = plan[r].survivor
    BY <1>1, CompletePlan
  <2> QED
    BY <1>1, <2>1, <2>2 DEF EdgesAreLostToNewPartiesOnly
<1> QED
  BY <1>2, <1>4, <1>5, <1>6 DEF GraphInv

LEMMA GraphNext == GraphInv /\ [Next]_vars => GraphInv'
<1> SUFFICES ASSUME GraphInv, [Next]_vars PROVE GraphInv'
  OBVIOUS
<1>1. CASE UNCHANGED vars
  <2>1. UNCHANGED <<partyVars, supplier, plan, graph>>
    BY <1>1 DEF vars, graphVars
  <2> QED
    BY <2>1, ReadingInv
<1>2. CASE Next
  BY <1>2, GraphBesideParties, InsertAwardInv, LoadPartiesInv, LoadAwardsInv, WalkInv,
     ApplyInv, FailsInv
  DEF Next
<1> QED
  BY <1>1, <1>2

LEMMA GraphInvariant == Spec => []GraphInv
BY GraphInit, GraphNext, PTL DEF Spec

\* Merges that commit while a rebuild reads, one party at a time, lose no edge:
\* an award without its supplier has one that leads to a party younger than the
\* list (load_finance_graph_inputs, rebuild_from_plan).  This is so for any
\* number of people, loads and rebuilds at a time.
THEOREM MergesLoseNoEdge == Spec => []EdgesAreLostToNewPartiesOnly
<1>1. GraphInv => EdgesAreLostToNewPartiesOnly
  BY DEF GraphInv
<1> QED
  BY <1>1, GraphInvariant, PTL

\* However many rebuilds overlap, fail at any statement, or are applied in another
\* order than they read in: an award, or a party that was not merged since,
\* leaves the graph only with a plan that another rebuild overtook
\* (rebuild_finance_graph, rebuild_from_plan in one transaction).
THEOREM GraphForgetsByOvertaking == Spec => OnlyOvertakenPlansForget
<1> DEFINE Kept == \/ /\ graph.awards \subseteq graph'.awards
                      /\ \A p \in graph.nodes \ graph'.nodes : ~Unmerged(p)
                   \/ \E r \in Ending : plan[r].overtaken
<1>1. GraphInv /\ [Next]_vars => [Kept]_vars
  <2> SUFFICES ASSUME GraphInv, Next PROVE Kept
    BY DEF vars
  <2>1. CASE UNCHANGED graph
    BY <2>1
  <2>2. ASSUME NEW r \in Rebuilds, ApplyPlan(r) PROVE Kept
    <3>1. Complete(r) /\ graph' = Planned(r) /\ plan' = Overtaken(r)
      BY <2>2 DEF ApplyPlan
    <3>2. r \in Ending
      BY <3>1, CompletePlan DEF Ending, Overtaken
    <3>3. CASE plan[r].overtaken
      BY <3>2, <3>3
    <3>4. CASE ~plan[r].overtaken
      <4>1. graph.awards \subseteq graph'.awards /\ graph.nodes \subseteq DOMAIN plan[r].listed
        BY <3>1, <3>4, CompletePlan DEF RowOK, ReadTheGraph
      <4>2. \A p \in DOMAIN plan[r].listed \ graph'.nodes : ~Unmerged(p)
        BY <3>1, CompletePlan DEF RowOK, ListedParties, Nodes, Unmerged
      <4> QED
        BY <4>1, <4>2
    <3> QED
      BY <3>3, <3>4
  <2> QED
    BY <2>1, <2>2
    DEF Next, graphVars, InsertAward, LoadParties, LoadAwards, Walk, RebuildFails
<1> QED
  BY <1>1, GraphInvariant, PTL DEF Spec, OnlyOvertakenPlansForget

(***************************************************************************)
(* A walk through the merges there are, that visits no party twice and     *)
(* ends at one that is not merged, has found the survivor: Ancestor climbs *)
(* along it and stays there.                                               *)
(***************************************************************************)
LEMMA LeadsToSurvivor ==
    ASSUME PartyInv, MergesLead, NEW p, NEW q, Resolves(Listing, p, q)
    PROVE  Survivor(p) = q /\ q \in DOMAIN party
<1>1. PICK way : /\ Leads(Listing, way) /\ way[1] = p /\ way[Len(way)] = q
                 /\ Listing[q] = NoParty
  BY DEF Resolves
<1> DEFINE k == Cardinality(Parties)
           L == Len(way)
<1>2. /\ DOMAIN Listing = DOMAIN party /\ DOMAIN party \subseteq Parties
      /\ \A s \in DOMAIN party : Listing[s] = party[s].into
  BY DEF Listing, PartyInv, PartyTypeOK
<1>3. /\ way \in Seq(DOMAIN party) /\ L \in Nat \ {0}
      /\ \A n \in 1..L : way[n] \in DOMAIN party
  BY <1>1, <1>2 DEF Leads
<1>4. k \in Nat /\ L <= k
  <2>1. IsFiniteSet(Parties) /\ way \in Seq(Parties)
    BY <1>2, <1>3, PartyMergeAssumption
  <2>2. L <= k
    BY <1>1, <2>1, WalkIsShort DEF Leads
  <2> QED
    BY <2>1, <2>2, FS_CardinalityType
<1>5. \A n \in 1..(L - 1) : Above(way[n]) = way[n + 1]
  BY <1>1, <1>2, <1>3, PartyMergeAssumption DEF Leads, Above
<1>6. q \in DOMAIN party /\ Above(q) = q /\ p \in DOMAIN party
  BY <1>1, <1>2, <1>3 DEF Above
<1>7. Ancestor[0][p] = p /\ \A n \in 1..k : Ancestor[n][p] = Above(Ancestor[n - 1][p])
  BY <1>6, Climb
<1> DEFINE S == {n \in Nat : n <= k => Ancestor[n][p] = IF n < L THEN way[n + 1] ELSE q}
<1>8. 0 \in S
  BY <1>1, <1>3, <1>7
<1>9. ASSUME NEW n \in S
      PROVE  n + 1 \in S
  <2>1. n \in Nat /\ (n <= k => Ancestor[n][p] = IF n < L THEN way[n + 1] ELSE q)
    OBVIOUS
  <2>2. ASSUME n + 1 <= k
        PROVE  Ancestor[n + 1][p] = IF n + 1 < L THEN way[(n + 1) + 1] ELSE q
    <3>1. n <= k /\ n + 1 \in 1..k /\ (n + 1) - 1 = n
      BY <1>4, <2>1, <2>2
    <3>2. Ancestor[n + 1][p] = Above(Ancestor[n][p])
      BY <1>7, <3>1
    <3>3. CASE n + 1 < L
      <4>1. n < L /\ n + 1 \in 1..(L - 1)
        BY <1>3, <2>1, <3>3
      <4> QED
        BY <1>5, <2>1, <3>1, <3>2, <3>3, <4>1
    <3>4. CASE n + 1 = L
      <4>1. n < L
        BY <1>3, <2>1, <3>4
      <4>2. way[n + 1] = q
        BY <1>1, <3>4
      <4> QED
        BY <1>6, <2>1, <3>1, <3>2, <3>4, <4>1, <4>2
    <3>5. CASE n >= L
      <4>1. ~(n < L) /\ ~(n + 1 < L)
        BY <1>3, <2>1, <3>5
      <4> QED
        BY <1>6, <2>1, <3>1, <3>2, <4>1
    <3>6. n + 1 < L \/ n + 1 = L \/ n >= L
      BY <1>3, <2>1
    <3> QED
      BY <3>3, <3>4, <3>5, <3>6
  <2> QED
    BY <2>1, <2>2
<1>10. S = Nat
  <2>1. S \in SUBSET Nat
    OBVIOUS
  <2> HIDE DEF S
  <2> QED
    BY <1>8, <1>9, <2>1, Induction
<1>11. Ancestor[k][p] = q
  BY <1>4, <1>10
<1> QED
  BY <1>6, <1>11 DEF Survivor

\* The edges of a plan when the merges are what it has listed.
LEMMA ExactEdges ==
    ASSUME GraphInv, NEW r \in Rebuilds, Complete(r), plan[r].listed = Listing
    PROVE  PlannedEdges(r) =
              {<<a, Survivor(supplier[a])>> : a \in DOMAIN plan[r].supplier}
<1>1. /\ RowOK(plan[r]) /\ DOMAIN plan[r].survivor = DOMAIN plan[r].listed
      /\ \A a \in DOMAIN plan[r].supplier :
            plan[r].supplier[a] = supplier[a] /\ supplier[a] \in DOMAIN plan[r].listed
  BY CompletePlan
<1>2. PartyInv /\ MergesLead
  BY DEF GraphInv, Tables
<1>3. ASSUME NEW p \in DOMAIN plan[r].listed
      PROVE  plan[r].survivor[p] = Survivor(p) /\ plan[r].survivor[p] \in Nodes(r)
  <2>1. PICK q : q = plan[r].survivor[p]
    OBVIOUS
  <2>2. Resolves(Listing, p, q)
    BY <1>1, <1>3, <2>1 DEF RowOK, WalkedTheListing
  <2>3. Survivor(p) = q /\ q \in DOMAIN party
    BY <1>2, <2>2, LeadsToSurvivor
  <2>4. q \in DOMAIN plan[r].listed /\ plan[r].listed[q] = NoParty
    BY <2>2, <2>3 DEF Resolves, Listing
  <2> QED
    BY <2>1, <2>3, <2>4 DEF Nodes
<1>4. \A a \in DOMAIN plan[r].supplier :
         /\ plan[r].survivor[plan[r].supplier[a]] = Survivor(supplier[a])
         /\ plan[r].survivor[plan[r].supplier[a]] \in Nodes(r)
  BY <1>1, <1>3
<1> QED
  BY <1>4 DEF PlannedEdges

\* Spec 0016, section 3.3: whoever confirms, loads and rebuilds at the same time,
\* a rebuild that is applied while the parties and their merges are what it has
\* listed leads each award to what its supplier is by now, through however many
\* merges (canonical_party_id, _canonical_map, plan_finance_projection).
THEOREM UndisturbedRebuildIsExact == Spec => UndisturbedGraphIsExact
<1> DEFINE Exact == \A r \in Ending : graph' # graph /\ plan[r].listed = Listing =>
               graph'.edges = {<<a, Survivor(supplier[a])>> : a \in graph'.awards}
<1>1. GraphInv /\ [Next]_vars => [Exact]_vars
  <2> SUFFICES ASSUME GraphInv, Next PROVE Exact
    BY DEF vars
  <2>1. CASE UNCHANGED graph
    BY <2>1
  <2>2. ASSUME NEW r \in Rebuilds, ApplyPlan(r) PROVE Exact
    <3>1. Complete(r) /\ graph' = Planned(r) /\ plan' = Overtaken(r)
      BY <2>2 DEF ApplyPlan
    <3>2. Ending = {r}
      BY <3>1, CompletePlan DEF Ending, Overtaken
    <3>3. graph'.edges = PlannedEdges(r) /\ graph'.awards = DOMAIN plan[r].supplier
      BY <3>1, CompletePlan
    <3>4. ASSUME plan[r].listed = Listing
          PROVE  graph'.edges = {<<a, Survivor(supplier[a])>> : a \in graph'.awards}
      BY <3>1, <3>3, <3>4, ExactEdges
    <3> QED
      BY <3>2, <3>4
  <2> QED
    BY <2>1, <2>2
    DEF Next, graphVars, InsertAward, LoadParties, LoadAwards, Walk, RebuildFails
<1> QED
  BY <1>1, GraphInvariant, PTL DEF Spec, UndisturbedGraphIsExact
=============================================================================
