---------------------------- MODULE MCAnomalyRun ----------------------------
(* Small ledgers for AnomalyRun: many for one run alone, a few with loads,   *)
(* reviewers and two runs at a time.                                         *)
EXTENDS AnomalyRun, TLC

CONSTANTS Runner, OtherRunner, Reviewer, OtherReviewer

Nobody == [x \in {} |-> x]
Empty == [tenders |-> Nobody, awards |-> Nobody, contracts |-> Nobody,
          parties |-> Nobody, payments |-> Nobody, lines |-> Nobody]

Tender == [agency |-> 1, tenderers |-> Missing, method |-> Missing,
           opens |-> Missing, closes |-> Missing]
Award == [tender |-> 1, supplier |-> 1, amount |-> Missing, ngn |-> TRUE,
          date |-> Missing]
Contract == [agency |-> 1, amount |-> Missing, ngn |-> TRUE]
Party == [company |-> TRUE, address |-> 1, merged |-> FALSE]

\* Ledgers with something of each rule, at and on both sides of its bounds.
Bidders ==
    {[Empty EXCEPT !.tenders = 1 :> [Tender EXCEPT !.tenderers = t, !.method = m],
                   !.awards = [a \in 1..n |-> Award]] :
        t \in {Missing, 1, 2}, m \in {Missing, "open", "limited"}, n \in 0..2}
Windows ==
    {[Empty EXCEPT !.tenders = 1 :> [Tender EXCEPT !.opens = o, !.closes = c]] :
        o, c \in {Missing} \cup 0..3}
Prices ==
    {[Empty EXCEPT !.awards = 1 :> [Award EXCEPT !.amount = n, !.ngn = ngn]] :
        n \in {Missing} \cup 0..11, ngn \in BOOLEAN}
Winners ==
    {[Empty EXCEPT !.tenders = (1 :> Tender @@ 2 :> [Tender EXCEPT !.agency = 2]),
                   !.awards = [a \in 1..3 |-> [Award EXCEPT !.tender = t[a], !.date = d[a]]]] :
        t \in [1..3 -> 1..2], d \in [1..3 -> {Missing, 0, 2, 3}]}
Addresses ==
    {[Empty EXCEPT !.parties = p] :
        p \in [1..3 -> {Party, [Party EXCEPT !.address = 2], [Party EXCEPT !.address = Missing],
                        [Party EXCEPT !.company = FALSE], [Party EXCEPT !.merged = TRUE]}]}
Contracts ==
    {[Empty EXCEPT !.contracts = [k \in 1..4 |-> [Contract EXCEPT !.amount = n[k]]]] :
        n \in [1..4 -> {Missing, 1, 2, 3, 9}]}
Budgets ==
    {[Empty EXCEPT !.payments = p,
                   !.lines = 1 :> [agency |-> 1, year |-> 1, ngn |-> TRUE,
                                   utilised |-> u, allocated |-> a]] :
        p \in [1..2 -> [agency : {1}, year : {1, Missing}, ngn : BOOLEAN, amount : {3, 6}]],
        u \in {Missing, 0, 5, 11}, a \in {Missing, 5}}

Alone ==
    {[ledger |-> ledger, loads |-> {}, cast |-> {Runner}] :
        ledger \in Bidders \cup Windows \cup Prices \cup Winners \cup Addresses
                   \cup Contracts \cup Budgets}

\* A tender that two rules are about, or one.
Crowded ==
    {[ledger |-> [Empty EXCEPT !.tenders =
                    1 :> [Tender EXCEPT !.tenderers = 1, !.opens = 0, !.closes = closes]],
      loads |-> {},
      cast |-> {Runner, OtherRunner, Reviewer} \cup
               IF closes = 1 THEN {} ELSE {OtherReviewer}] : closes \in {1, 3}}

\* Awards come with the count of tenderers, a tender goes to another agency as it
\* is awarded, a party is merged, contracts are signed.
Moving ==
    {[ledger |-> [Empty EXCEPT
                    !.tenders = (1 :> [Tender EXCEPT !.method = "open"]
                                 @@ [t \in 2..3 |-> Tender]),
                    !.awards = 1 :> [Award EXCEPT !.tender = 2],
                    !.parties = [p \in 1..2 |-> Party],
                    !.contracts = [k \in 1..3 |-> [Contract EXCEPT !.amount = k]]],
      loads |-> {[tenders |-> 1 :> [Tender EXCEPT !.method = "open", !.tenderers = 3],
                  awards |-> 2 :> [Award EXCEPT !.supplier = 2]],
                 [tenders |-> 3 :> [Tender EXCEPT !.agency = 2],
                  awards |-> 3 :> [Award EXCEPT !.tender = 3],
                  parties |-> 3 :> Party, contracts |-> 4 :> [Contract EXCEPT !.amount = 9]],
                 [parties |-> 2 :> [Party EXCEPT !.merged = TRUE]]},
      cast |-> {Runner}]}

MCScenes == Alone \cup Crowded \cup Moving
MCIds == 1..4
MCKeys == RuleIds \X MCIds

RunSymmetry == Permutations(FlagIds)
=============================================================================
