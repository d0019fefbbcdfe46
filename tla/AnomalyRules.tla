---------------------------- MODULE AnomalyRules ----------------------------
(***************************************************************************)
(* The red-flag rules (engine/src/naijaledger/anomaly/rules.py) as         *)
(* operators over a context, and what spec 0018 says of them.              *)
(*                                                                         *)
(* A context has a table for each SELECT of load_rule_context: a function  *)
(* from the ids of rows to rows.  A value that is null or does not parse   *)
(* is Missing; ngn is what is_ngn says of a currency, address is           *)
(* address_key of an address.  Severity and the text of the evidence are   *)
(* left out.  Columns that are NOT NULL are never Missing.                 *)
(***************************************************************************)
EXTENDS Integers, FiniteSets, Sequences, FiniteSetsExt

CONSTANTS
    Missing,
    ShortWindowDays,      \* SHORT_WINDOW_DAYS
    ApprovalThresholds,   \* APPROVAL_THRESHOLDS_NGN, in kobo
    HugPercent,           \* THRESHOLD_HUG_RATIO
    RepeatMinAwards,      \* REPEAT_MIN_AWARDS
    RepeatWindowDays,     \* REPEAT_WINDOW_DAYS
    OutlierMinN,          \* OUTLIER_MIN_N
    OutlierMadK,          \* OUTLIER_MAD_K
    TolerancePercent      \* MISMATCH_TOLERANCE

ASSUME AnomalyRulesAssumption ==
    /\ {ShortWindowDays, HugPercent, RepeatWindowDays, OutlierMadK, TolerancePercent}
           \subseteq Nat
    /\ ApprovalThresholds \subseteq Nat
    /\ {RepeatMinAwards, OutlierMinN} \subseteq Nat \ {0}

\* sorted(values): fewer than n of them are below the nth, and n or more are
\* not above it.
Under(f, v) == {x \in DOMAIN f : f[x] < v}
UpTo(f, v) == {x \in DOMAIN f : f[x] <= v}

IsNth(f, n, v) == Cardinality(Under(f, v)) < n /\ n <= Cardinality(UpTo(f, v))

Ordered(f) ==
    [n \in 1..Cardinality(DOMAIN f) |-> CHOOSE v \in {f[x] : x \in DOMAIN f} : IsNth(f, n, v)]

(***************************************************************************)
(* Tenders.                                                                *)
(***************************************************************************)
Competitive == {"open", "selective"}

AwardsOf(c, tender) == {a \in DOMAIN c.awards : c.awards[a].tender = tender}

SingleBidder(c) ==
    {t \in DOMAIN c.tenders :
        \/ c.tenders[t].tenderers = 1
        \/ /\ c.tenders[t].tenderers = Missing
           /\ c.tenders[t].method \in Competitive
           /\ Cardinality(AwardsOf(c, t)) = 1}

ShortWindow(c) ==
    {t \in DOMAIN c.tenders :
        LET opens == c.tenders[t].opens
            closes == c.tenders[t].closes
        IN  /\ Missing \notin {opens, closes}
            /\ closes > opens
            /\ closes - opens < ShortWindowDays}

(***************************************************************************)
(* Awards.                                                                 *)
(***************************************************************************)
HugBand(threshold) == (threshold * HugPercent) \div 100

ThresholdHugging(c) ==
    {a \in DOMAIN c.awards :
        /\ c.awards[a].ngn /\ c.awards[a].amount # Missing
        /\ \E threshold \in ApprovalThresholds :
              c.awards[a].amount \in threshold - HugBand(threshold) + 1 .. threshold}

\* grouped[(supplier_id, agency_id)]
Wins(c, supplier, agency) ==
    {a \in DOMAIN c.awards :
        /\ c.awards[a].supplier = supplier
        /\ c.awards[a].tender \in DOMAIN c.tenders
        /\ c.tenders[c.awards[a].tender].agency = agency}

\* Fault: awards a whole window apart count as one cluster less.
OutOfWindowAtEnd(first, last) == last - first >= RepeatWindowDays

OutOfWindow(first, last) == last - first > RepeatWindowDays

\* One step of the sliding window: left moves to the first date that is near.
Slide(ordered, window, right) ==
    LET left == Min({l \in window.left .. right : ~OutOfWindow(ordered[l], ordered[right])})
    IN  [left |-> left, best |-> Max({window.best, right - left + 1})]

MaxClusterSize(ordered) ==
    LET window[right \in 0..Len(ordered)] ==
            IF right = 0 THEN [left |-> 1, best |-> 0]
            ELSE Slide(ordered, window[right - 1], right)
    IN  window[Len(ordered)].best

ClusterSize(c, wins) ==
    LET dated == {a \in wins : c.awards[a].date # Missing}
    IN  IF dated = {} THEN Cardinality(wins)
        ELSE MaxClusterSize(Ordered([a \in dated |-> c.awards[a].date]))

Suppliers(c) == {c.awards[a].supplier : a \in DOMAIN c.awards}
Agencies(c) == {c.tenders[t].agency : t \in DOMAIN c.tenders}

RepeatWinner(c) ==
    {s \in Suppliers(c) : \E agency \in Agencies(c) :
        ClusterSize(c, Wins(c, s, agency)) >= RepeatMinAwards}

(***************************************************************************)
(* Parties: those that load_rule_context selects are not merged.           *)
(***************************************************************************)
Located(c) ==
    {p \in DOMAIN c.parties : c.parties[p].company /\ c.parties[p].address # Missing}

SharedAddress(c) ==
    {p \in Located(c) : \E q \in Located(c) \ {p} :
        c.parties[p].address = c.parties[q].address}

(***************************************************************************)
(* Contracts.  Twice the median is an integer; so is four times the MAD.   *)
(***************************************************************************)
Abs(n) == IF n < 0 THEN -n ELSE n

\* Fault: the upper of two middle values, instead of their mean.
TwiceUpperMedian(f) == 2 * Ordered(f)[Cardinality(DOMAIN f) \div 2 + 1]

TwiceMedian(f) ==
    LET n == Cardinality(DOMAIN f)
    IN  Ordered(f)[(n + 1) \div 2] + Ordered(f)[n \div 2 + 1]

Priced(c, agency) ==
    {k \in DOMAIN c.contracts :
        /\ c.contracts[k].agency = agency
        /\ c.contracts[k].ngn /\ c.contracts[k].amount # Missing}

Outliers(amounts) ==
    LET twiceMedian == TwiceMedian(amounts)
        twiceOff == [k \in DOMAIN amounts |-> Abs(2 * amounts[k] - twiceMedian)]
        fourMad == TwiceMedian(twiceOff)
    IN  {k \in DOMAIN amounts : fourMad # 0 /\ 2 * twiceOff[k] > OutlierMadK * fourMad}

PriceOutlier(c) ==
    UNION {LET priced == Priced(c, agency)
           IN  IF Cardinality(priced) < OutlierMinN THEN {}
               ELSE Outliers([k \in priced |-> c.contracts[k].amount]) :
              agency \in {c.contracts[k].agency : k \in DOMAIN c.contracts}}

(***************************************************************************)
(* Budget lines.                                                           *)
(***************************************************************************)
Paid(c, agency, year) ==
    MapThenSumSet(LAMBDA p : c.payments[p].amount,
        {p \in DOMAIN c.payments :
            /\ c.payments[p].agency = agency /\ c.payments[p].year = year
            /\ c.payments[p].ngn})

Cap(line) == IF line.utilised # Missing THEN line.utilised ELSE line.allocated

\* Fault: the tolerance is rounded up.
LimitUp(cap) == (cap * (100 + TolerancePercent) + 99) \div 100

\* int(cap * (1 + MISMATCH_TOLERANCE))
Limit(cap) == (cap * (100 + TolerancePercent)) \div 100

BudgetPaymentMismatch(c) ==
    {n \in DOMAIN c.lines :
        LET line == c.lines[n]
            paid == Paid(c, line.agency, line.year)
        IN  /\ line.ngn /\ Cap(line) # Missing
            /\ paid > 0 /\ paid > Limit(Cap(line))}

\* production_rules()
RuleIds == {"single_bidder", "short_window", "threshold_hugging", "repeat_winner",
            "shared_address", "price_outlier", "budget_payment_mismatch"}

\* What a run of all of them drafts, by rule and subject.
Drafts(c) ==
    UNION { {"single_bidder"} \X SingleBidder(c),
            {"short_window"} \X ShortWindow(c),
            {"threshold_hugging"} \X ThresholdHugging(c),
            {"repeat_winner"} \X RepeatWinner(c),
            {"shared_address"} \X SharedAddress(c),
            {"price_outlier"} \X PriceOutlier(c),
            {"budget_payment_mismatch"} \X BudgetPaymentMismatch(c) }
-----------------------------------------------------------------------------
(***************************************************************************)
(* The rules as spec 0018 (section 3.2) words them, where that is not word *)
(* for word what the code computes.                                        *)
(***************************************************************************)
\* "within REPEAT_WINDOW_DAYS of each other (max-min awarded_at, or all undated
\* count as one window)"
WithinOneWindow(c, wins) ==
    \/ \A a \in wins : c.awards[a].date = Missing
    \/ \A a, b \in wins : /\ Missing \notin {c.awards[a].date, c.awards[b].date}
                          /\ c.awards[a].date - c.awards[b].date <= RepeatWindowDays

WinsAgainAndAgain(c) ==
    {s \in Suppliers(c) : \E agency \in Agencies(c) :
        \E wins \in SUBSET Wins(c, s, agency) :
            /\ Cardinality(wins) >= RepeatMinAwards
            /\ WithinOneWindow(c, wins)
            /\ (\A a \in wins : c.awards[a].date = Missing) =>
                  \A a \in Wins(c, s, agency) : c.awards[a].date = Missing}

\* m/2 is a median: no more than half of the values are below or above it, and
\* it is in the middle of those that qualify.
Below(f, m) == Cardinality({k \in DOMAIN f : 2 * f[k] < m})
Above(f, m) == Cardinality({k \in DOMAIN f : 2 * f[k] > m})
Middle(f) ==
    LET half == {v \in {f[k] : k \in DOMAIN f} :
                   /\ 2 * Below(f, 2 * v) <= Cardinality(DOMAIN f)
                   /\ 2 * Above(f, 2 * v) <= Cardinality(DOMAIN f)}
    IN  Min(half) + Max(half)

\* "|x - median| / MAD > OUTLIER_MAD_K"; "if MAD == 0, emit no outliers"
FarFromMedian(c) ==
    {k \in DOMAIN c.contracts :
        LET peers == Priced(c, c.contracts[k].agency)
            amounts == [p \in peers |-> c.contracts[p].amount]
            off == [p \in peers |-> Abs(2 * amounts[p] - Middle(amounts))]
        IN  /\ k \in peers
            /\ Cardinality(peers) >= OutlierMinN
            /\ Middle(off) > 0 /\ 2 * off[k] > OutlierMadK * Middle(off)}

\* "sum(payments) > utilised_amount * (1 + MISMATCH_TOLERANCE) when utilised set;
\* else > allocated_amount * ..."
PaidBeyondBudget(c) ==
    {n \in DOMAIN c.lines :
        LET line == c.lines[n]
            excess(cap) == 100 * Paid(c, line.agency, line.year) > cap * (100 + TolerancePercent)
        IN  /\ line.ngn
            /\ Paid(c, line.agency, line.year) > 0
            /\ \/ line.utilised # Missing /\ excess(line.utilised)
               \/ line.utilised = Missing /\ line.allocated # Missing /\ excess(line.allocated)}

Warranted(c) ==
    UNION { {"single_bidder"} \X SingleBidder(c),
            {"short_window"} \X ShortWindow(c),
            {"threshold_hugging"} \X ThresholdHugging(c),
            {"repeat_winner"} \X WinsAgainAndAgain(c),
            {"shared_address"} \X SharedAddress(c),
            {"price_outlier"} \X FarFromMedian(c),
            {"budget_payment_mismatch"} \X PaidBeyondBudget(c) }
=============================================================================
