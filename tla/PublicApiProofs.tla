-------------------------- MODULE PublicApiProofs ---------------------------
(***************************************************************************)
(* What the public API promises to any number of addresses, partners and   *)
(* readers, for tables, budgets, windows and pages of any size.            *)
(***************************************************************************)
EXTENDS PublicApi, FiniteSetTheorems, WellFoundedInduction, TLAPS

\* Induction on a number: a set of them has a least one.
LEMMA LeastNatural ==
    ASSUME NEW S \in SUBSET Nat, S # {}
    PROVE  \E n \in S : \A m \in S : n <= m
<1> DEFINE R == OpToRel(<, Nat)
<1>1. IsWellFoundedOn(R, Nat)
  BY NatLessThanWellFounded
<1>2. \A m, n \in Nat : m < n => <<m, n>> \in R
  BY DEF OpToRel
<1> HIDE DEF R
<1>3. PICK n \in S : \A m \in S : ~(<<m, n>> \in R)
  BY <1>1, WFMin
<1>4. \A m \in S : m \in Nat /\ n \in Nat /\ ~(m < n)
  BY <1>2, <1>3
<1>5. \A m \in S : n <= m
  BY <1>4
<1> QED
  BY <1>5

LEMMA WindowIsPositive == Window \in Nat \ {0}
<1>1. WindowSeconds \in Nat \ {0} /\ TicksPerSecond \in Nat \ {0}
  BY PublicApiAssumption
<1>2. ASSUME NEW m \in Nat \ {0}, NEW n \in Nat \ {0} PROVE m * n \in Nat \ {0}
  OBVIOUS
<1> QED
  BY <1>1, <1>2 DEF Window

\* Whole seconds, one more than are left, end after what is left.
LEMMA SecondsCover ==
    ASSUME NEW a \in Nat, NEW b \in Nat \ {0}
    PROVE  (a \div b) \in Nat /\ (a \div b + 1) * b > a
BY Z3
-----------------------------------------------------------------------------
(***************************************************************************)
(* The fixed window: times q at which a caller was let through, and the    *)
(* entry e of its window, which the last e.count of them share.            *)
(***************************************************************************)
Entries == [count : 1..Limit, start : Nat]

Count(q, s) == Cardinality({n \in 1..Len(q) : q[n] >= s /\ q[n] < s + Window})

Old(q, e, s) == Cardinality({n \in 1..(Len(q) - e.count) : q[n] >= s})

EntryOk(q, e) ==
    /\ e.count <= Len(q)
    /\ q[Len(q) - e.count + 1] = e.start
    /\ \A n \in 1..Len(q) : IF n <= Len(q) - e.count THEN q[n] <= e.start
                            ELSE q[n] >= e.start /\ q[n] < e.start + Window

LEMMA SmallerSet ==
    ASSUME NEW a \in Nat, NEW b \in Nat, a <= b + 1, NEW S \in SUBSET (a..b)
    PROVE  IsFiniteSet(S) /\ Cardinality(S) \in Nat /\ Cardinality(S) <= b - a + 1
<1>1. IsFiniteSet(a..b) /\ Cardinality(a..b) = b - a + 1
  BY FS_Interval
<1> QED
  BY <1>1, FS_Subset, FS_CardinalityType

LEMMA IntervalSize ==
    ASSUME NEW a \in Nat, NEW b \in Nat, a <= b + 1
    PROVE  IsFiniteSet(a..b) /\ Cardinality(a..b) = b + 1 - a
BY FS_Interval

LEMMA SmallSet ==
    ASSUME NEW b \in Nat, NEW S \in SUBSET (1..b)
    PROVE  IsFiniteSet(S) /\ Cardinality(S) \in Nat /\ Cardinality(S) <= b
<1>1. IsFiniteSet(1..b) /\ Cardinality(1..b) = b
  BY FS_Interval
<1> QED
  BY <1>1, FS_Subset, FS_CardinalityType

\* An entry, in numbers.
Parts(q, e, l, k, st, w) ==
    /\ l = Len(q) /\ k = e.count /\ k \in 1..l /\ k <= Limit /\ st = e.start /\ w = Window
    /\ q[l - k + 1] = st
    /\ \A n \in 1..l : q[n] \in Nat
    /\ \A n \in 1..(l - k) : q[n] <= st
    /\ \A n \in (l - k + 1)..l : q[n] >= st /\ q[n] < st + w

LEMMA EntryParts ==
    ASSUME NEW q \in Seq(Nat), NEW e \in Entries, EntryOk(q, e)
    PROVE  \E l \in Nat, k \in Nat, st \in Nat, w \in Nat \ {0} : Parts(q, e, l, k, st, w)
<1>1. e.count \in 1..Limit /\ e.start \in Nat /\ Len(q) \in Nat /\ e.count <= Len(q)
      /\ Limit \in Nat
  BY PublicApiAssumption DEF Entries, EntryOk
<1>2. PICK l \in Nat, k \in Nat, st \in Nat, w \in Nat \ {0} :
         l = Len(q) /\ k = e.count /\ st = e.start /\ w = Window
  BY <1>1, WindowIsPositive
<1>3. k \in 1..l /\ k <= Limit
  BY <1>1, <1>2
<1>4. q[l - k + 1] = st
  BY <1>2 DEF EntryOk
<1>5. \A n \in 1..l : IF n <= l - k THEN q[n] <= st ELSE q[n] >= st /\ q[n] < st + w
  BY <1>2 DEF EntryOk
<1>6. \A n \in 1..l : q[n] \in Nat
  BY <1>2
<1>7. \A n \in 1..(l - k) : n \in 1..l /\ n <= l - k
  BY <1>3
<1>8. \A n \in (l - k + 1)..l : n \in 1..l /\ ~(n <= l - k)
  BY <1>3
<1>9. Parts(q, e, l, k, st, w)
  BY <1>2, <1>3, <1>4, <1>5, <1>6, <1>7, <1>8 DEF Parts
<1> QED
  BY <1>9

LEMMA PartsMakeEntry ==
    ASSUME NEW q, NEW e, NEW l \in Nat, NEW k \in Nat, NEW st \in Nat, NEW w \in Nat \ {0},
           Parts(q, e, l, k, st, w)
    PROVE  EntryOk(q, e)
<1>1. ASSUME NEW n \in 1..l
      PROVE  IF n <= l - k THEN q[n] <= st ELSE q[n] >= st /\ q[n] < st + w
  <2>1. CASE n <= l - k
    <3>1. n \in 1..(l - k)
      BY <2>1 DEF Parts
    <3> QED
      BY <2>1, <3>1 DEF Parts
  <2>2. CASE ~(n <= l - k)
    <3>1. n \in (l - k + 1)..l
      BY <2>2 DEF Parts
    <3> QED
      BY <2>2, <3>1 DEF Parts
  <2> QED
    BY <2>1, <2>2
<1>2. l = Len(q) /\ k = e.count /\ st = e.start /\ w = Window /\ k <= l /\ q[l - k + 1] = st
  BY DEF Parts
<1> QED
  BY <1>1, <1>2 DEF EntryOk

\* Whoever looks from a later time on does not see the first of a window.
LEMMA LateCount ==
    ASSUME NEW q \in Seq(Nat), NEW e \in Entries, EntryOk(q, e), NEW s \in Nat, e.start < s
    PROVE  Count(q, s) <= Limit - 1
<1>1. PICK l \in Nat, k \in Nat, st \in Nat, w \in Nat \ {0} : Parts(q, e, l, k, st, w)
  BY EntryParts
<1>2. PICK S : S = {n \in 1..l : q[n] >= s /\ q[n] < s + w}
  OBVIOUS
<1>3. k \in 1..l /\ st < s /\ k <= Limit /\ Limit \in Nat
  BY <1>1, PublicApiAssumption DEF Parts
<1>4. PICK a \in Nat : a = l - k + 2
  BY <1>3
<1>5. ASSUME NEW n \in S PROVE n \in a..l
  <2>1. n \in 1..l /\ q[n] > st
    BY <1>1, <1>2, <1>3 DEF Parts
  <2>2. n # l - k + 1
    BY <1>1, <2>1 DEF Parts
  <2>3. n \notin 1..(l - k)
    BY <1>1, <2>1 DEF Parts
  <2> QED
    BY <1>3, <1>4, <2>1, <2>2, <2>3
<1>6. S \in SUBSET (a..l) /\ a <= l + 1 /\ l - a + 1 = k - 1
  BY <1>3, <1>4, <1>5
<1>7. Cardinality(S) <= k - 1 /\ Cardinality(S) \in Nat
  BY <1>6, SmallerSet
<1>8. Count(q, s) = Cardinality(S)
  BY <1>1, <1>2 DEF Count, Parts
<1> QED
  BY <1>3, <1>7, <1>8

\* One more, at a time that the window from s on does not have.
LEMMA OutsideCount ==
    ASSUME NEW q \in Seq(Nat), NEW at \in Nat, NEW s \in Nat, ~(at >= s /\ at < s + Window)
    PROVE  Count(Append(q, at), s) = Count(q, s)
<1>1. PICK r : r = Append(q, at)
  OBVIOUS
<1>2. Len(r) = Len(q) + 1 /\ r[Len(q) + 1] = at /\ (\A n \in 1..Len(q) : r[n] = q[n])
      /\ Len(q) \in Nat
  BY <1>1
<1>3. {n \in 1..Len(r) : r[n] >= s /\ r[n] < s + Window}
          = {n \in 1..Len(q) : q[n] >= s /\ q[n] < s + Window}
  BY <1>2
<1> QED
  BY <1>1, <1>3 DEF Count

LEMMA InsideCount ==
    ASSUME NEW q \in Seq(Nat), NEW at \in Nat, NEW s \in Nat
    PROVE  /\ Count(q, s) \in Nat /\ Count(Append(q, at), s) \in Nat
           /\ Count(Append(q, at), s) <= Count(q, s) + 1
<1>1. PICK r : r = Append(q, at)
  OBVIOUS
<1>2. Len(r) = Len(q) + 1 /\ r[Len(q) + 1] = at /\ (\A n \in 1..Len(q) : r[n] = q[n])
      /\ Len(q) \in Nat
  BY <1>1
<1>3. PICK S, T : /\ S = {n \in 1..Len(q) : q[n] >= s /\ q[n] < s + Window}
                  /\ T = {n \in 1..Len(r) : r[n] >= s /\ r[n] < s + Window}
  OBVIOUS
<1>4. T \subseteq S \cup {Len(q) + 1}
  BY <1>2, <1>3
<1>5. S \in SUBSET (1..Len(q))
  BY <1>3
<1>6. IsFiniteSet(S) /\ Cardinality(S) \in Nat
  BY <1>2, <1>5, SmallSet
<1>7. /\ IsFiniteSet(S \cup {Len(q) + 1})
      /\ Cardinality(S \cup {Len(q) + 1}) <= Cardinality(S) + 1
      /\ Cardinality(S \cup {Len(q) + 1}) \in Nat
  <2>1. PICK x : x = Len(q) + 1
    OBVIOUS
  <2>2. /\ IsFiniteSet(S \cup {x})
        /\ Cardinality(S \cup {x}) = IF x \in S THEN Cardinality(S) ELSE Cardinality(S) + 1
    BY <1>6, FS_AddElement
  <2> QED
    BY <1>6, <2>1, <2>2
<1>8. /\ IsFiniteSet(T)
      /\ Cardinality(T) <= Cardinality(S \cup {Len(q) + 1})
  BY <1>4, <1>7, FS_Subset
<1>9. Cardinality(T) \in Nat
  BY <1>8, FS_CardinalityType
<1>10. Count(q, s) = Cardinality(S) /\ Count(r, s) = Cardinality(T)
  BY <1>3 DEF Count
<1> QED
  BY <1>1, <1>6, <1>7, <1>8, <1>9, <1>10

\* A window begins: all that was let through before is old.
LEMMA NewWindow ==
    ASSUME NEW q \in Seq(Nat), NEW at \in Nat, \A n \in 1..Len(q) : q[n] <= at,
           NEW e, e = [count |-> 1, start |-> at]
    PROVE  /\ EntryOk(Append(q, at), e)
           /\ \A s \in Nat : s <= at /\ at < s + Window => Old(Append(q, at), e, s) = Count(q, s)
<1>1. PICK r : r = Append(q, at)
  OBVIOUS
<1>2. Len(r) = Len(q) + 1 /\ r[Len(q) + 1] = at /\ (\A n \in 1..Len(q) : r[n] = q[n])
      /\ Len(q) \in Nat /\ \A n \in 1..Len(q) : q[n] \in Nat
  BY <1>1
<1>3. e.count = 1 /\ e.start = at /\ Window \in Nat \ {0}
  BY WindowIsPositive
<1>4. EntryOk(r, e)
  BY <1>2, <1>3 DEF EntryOk
<1>5. ASSUME NEW s \in Nat, s <= at, at < s + Window
      PROVE  Old(r, e, s) = Count(q, s)
  <2>1. {n \in 1..(Len(r) - e.count) : r[n] >= s}
            = {n \in 1..Len(q) : q[n] >= s /\ q[n] < s + Window}
    BY <1>2, <1>3, <1>5
  <2> QED
    BY <2>1 DEF Old, Count
<1> QED
  BY <1>1, <1>4, <1>5

More(e) == [e EXCEPT !.count = @ + 1]

\* The window goes on.
LEMMA SameWindow ==
    ASSUME NEW q \in Seq(Nat), NEW e \in Entries, EntryOk(q, e), e.count < Limit,
           NEW at \in Nat, e.start <= at, at < e.start + Window
    PROVE  /\ More(e) \in Entries /\ More(e).start = e.start
           /\ EntryOk(Append(q, at), More(e))
           /\ \A s \in Nat : Old(Append(q, at), More(e), s) = Old(q, e, s)
           /\ \A s \in Nat : Old(q, e, s) \in Nat
           /\ \A s \in Nat : s > e.start => Count(Append(q, at), s) <= Limit - 1
           /\ \A s \in Nat : Count(Append(q, at), s) <= Old(q, e, s) + Limit
<1>0. PICK e1 : e1 = More(e)
  OBVIOUS
<1>1. PICK l \in Nat, k \in Nat, st \in Nat, w \in Nat \ {0} : Parts(q, e, l, k, st, w)
  BY EntryParts
<1>2. PICK r : r = Append(q, at)
  OBVIOUS
<1>3. r \in Seq(Nat) /\ Len(r) = l + 1 /\ r[l + 1] = at /\ \A n \in 1..l : r[n] = q[n]
  BY <1>1, <1>2 DEF Parts
<1>4. k \in 1..l /\ k < Limit /\ Limit \in Nat /\ st <= at /\ at < st + w
  BY <1>1, PublicApiAssumption DEF Parts
<1>5. PICK l1 \in Nat, k1 \in Nat : l1 = l + 1 /\ k1 = k + 1
  OBVIOUS
<1>6. e1.count = k1 /\ e1.start = st /\ e1 \in Entries
  <2>1. e.count = k /\ e.start = st
    BY <1>1 DEF Parts
  <2>2. e1.count = k1 /\ e1.start = st
    BY <1>0, <1>5, <2>1 DEF Entries, More
  <2>3. e1 = [count |-> k1, start |-> st]
    BY <1>0, <1>5, <2>1 DEF Entries, More
  <2> QED
    BY <1>4, <1>5, <2>2, <2>3 DEF Entries
<1>7. k1 \in 1..l1 /\ k1 <= Limit /\ l1 - k1 = l - k /\ l - k + 1 \in 1..l
  BY <1>4, <1>5
<1>8. Parts(r, e1, l1, k1, st, w)
  <2>1. r[l1 - k1 + 1] = st
    BY <1>1, <1>3, <1>7 DEF Parts
  <2>2. \A n \in 1..l1 : r[n] \in Nat
    <3>1. r \in Seq(Nat) /\ Len(r) = l1
      BY <1>3, <1>5
    <3> QED
      BY <3>1
  <2>3. ASSUME NEW n \in 1..(l1 - k1) PROVE r[n] <= st
    <3>1. n \in 1..(l - k) /\ n \in 1..l
      BY <1>4, <1>7
    <3> QED
      BY <1>1, <1>3, <3>1 DEF Parts
  <2>4. ASSUME NEW n \in (l1 - k1 + 1)..l1 PROVE r[n] >= st /\ r[n] < st + w
    <3>1. CASE n = l + 1
      BY <1>3, <1>4, <3>1
    <3>2. CASE n # l + 1
      <4>1. n \in (l - k + 1)..l /\ n \in 1..l
        BY <1>4, <1>5, <1>7, <3>2
      <4> QED
        BY <1>1, <1>3, <4>1 DEF Parts
    <3> QED
      BY <3>1, <3>2
  <2>5. l1 = Len(r) /\ w = Window
    BY <1>1, <1>3, <1>5 DEF Parts
  <2> QED
    BY <1>6, <1>7, <2>1, <2>2, <2>3, <2>4, <2>5 DEF Parts
<1>9. EntryOk(r, e1)
  BY <1>8, PartsMakeEntry
<1>10. \A s \in Nat : s > e.start => Count(r, s) <= Limit - 1
  BY <1>1, <1>3, <1>6, <1>9, LateCount DEF Parts
<1>11. ASSUME NEW s \in Nat
       PROVE  /\ Old(r, e1, s) = Old(q, e, s) /\ Old(q, e, s) \in Nat
              /\ Count(r, s) <= Old(q, e, s) + Limit
  <2>16. PICK old \in Nat : old = l - k
    BY <1>4
  <2>17. PICK S, T : /\ S = {n \in 1..l1 : r[n] >= s /\ r[n] < s + w}
                    /\ T = {n \in 1..old : q[n] >= s}
    OBVIOUS
  <2>1. /\ old = l - k
        /\ S = {n \in 1..l1 : r[n] >= s /\ r[n] < s + w}
        /\ T = {n \in 1..old : q[n] >= s}
    BY <2>16, <2>17
  <2>2. PICK T1 : T1 = {n \in 1..old : r[n] >= s}
    OBVIOUS
  <2>3. \A n \in 1..old : r[n] = q[n]
    BY <1>3, <1>4, <2>1
  <2>4. T1 = T
    BY <2>1, <2>2, <2>3
  <2>5. Old(q, e, s) = Cardinality(T) /\ Old(r, e1, s) = Cardinality(T)
    <3>1. Len(q) - e.count = old /\ Len(r) - e1.count = old
      BY <1>1, <1>3, <1>5, <1>6, <1>7, <2>1 DEF Parts
    <3> QED
      BY <2>1, <2>2, <2>4, <3>1 DEF Old
  <2>6. T \in SUBSET (1..old)
    BY <2>1
  <2>7. IsFiniteSet(T) /\ Cardinality(T) \in Nat
    BY <2>6, SmallSet
  <2>8. PICK U : U = (old + 1)..l1
    OBVIOUS
  <2>9. IsFiniteSet(U) /\ Cardinality(U) = k1
    BY <1>5, <1>7, <2>1, <2>8, FS_Interval
  <2>10. IsFiniteSet(T \cup U) /\ Cardinality(T \cup U) <= Cardinality(T) + k1
    <3>1. IsFiniteSet(T \cap U) /\ Cardinality(T \cap U) \in Nat
      BY <2>7, FS_Intersection, FS_CardinalityType
    <3>2. /\ IsFiniteSet(T \cup U)
          /\ Cardinality(T \cup U) = Cardinality(T) + Cardinality(U) - Cardinality(T \cap U)
      BY <2>7, <2>9, FS_Union
    <3> QED
      BY <1>5, <2>7, <2>9, <3>1, <3>2
  <2>11. S \subseteq T \cup U
    BY <1>5, <2>1, <2>3, <2>8
  <2>12. IsFiniteSet(S) /\ Cardinality(S) <= Cardinality(T \cup U)
    BY <2>10, <2>11, FS_Subset
  <2>13. Cardinality(S) \in Nat /\ Cardinality(T \cup U) \in Nat
    BY <2>10, <2>12, FS_CardinalityType
  <2>14. Cardinality(S) <= Cardinality(T) + Limit
    BY <1>4, <1>7, <2>7, <2>10, <2>12, <2>13
  <2>15. Count(r, s) = Cardinality(S)
    BY <1>1, <1>3, <1>5, <2>1 DEF Parts, Count
  <2> QED
    BY <2>5, <2>7, <2>14, <2>15
<1> QED
  BY <1>0, <1>1, <1>2, <1>6, <1>9, <1>10, <1>11 DEF Parts
-----------------------------------------------------------------------------
(***************************************************************************)
(* The table of the middleware, when T is the time of the request that is  *)
(* handled, or the time if none is.  Of a caller who has no entry, or      *)
(* whose entry is in D and about to be deleted, no stretch of time that    *)
(* goes on after T has seen a whole budget, unless it has seen more        *)
(* callers than the table holds.                                           *)
(***************************************************************************)
Loop == req[EventLoop]
Clock == IF Loop.step = "idle" THEN now ELSE Loop.at
Doomed == IF Loop.step = "prune" THEN Loop.doomed ELSE {}

Many(s) == Cardinality(Seen(s)) > MaxKeys

Lost(c, T) == \A s \in Nat : s + Window > T => Many(s) \/ Count(served[c], s) <= Limit - 1

ServedOk(T) ==
    /\ served \in [Clients -> Seq(Nat)]
    /\ \A c \in Clients : \A n \in 1..Len(served[c]) : served[c][n] <= T

EntryInv(c, T) ==
    /\ windows[c] \in Entries /\ windows[c].start <= T
    /\ EntryOk(served[c], windows[c])
    /\ \A s \in Nat : s <= windows[c].start /\ windows[c].start < s + Window =>
           Many(s) \/ Old(served[c], windows[c], s) <= Limit - 1
    /\ told[c] # 0 => windows[c].start + Window < told[c]

TableOk(D, T) ==
    /\ ServedOk(T)
    /\ told \in [Clients -> Nat]
    /\ DOMAIN windows \subseteq Clients
    /\ \A c \in DOMAIN windows : EntryInv(c, T)
    /\ \A c \in Clients : c \notin DOMAIN windows \/ c \in D => Lost(c, T)
    /\ \A c \in Clients, s \in Nat : Many(s) \/ Count(served[c], s) < 2 * Limit

EntryOf(c) == IF c \in DOMAIN windows THEN windows[c] ELSE NoEntry

RequestOk ==
    /\ Loop \in [step : {"expire", "prune", "get", "put", "page"}, caller : Clients,
                 at : 0..now, doomed : SUBSET Clients, seen : {NoEntry} \cup Entries,
                 cursor : {Loop.cursor}]
    /\ Loop.step \in {"prune", "get", "put"} =>
           \A c \in DOMAIN windows : Ends(windows[c], Loop.at) => c \in Doomed
    /\ Doomed \subseteq DOMAIN windows
    /\ Loop.step = "put" => Loop.seen = EntryOf(Loop.caller)

LimiterOk ==
    /\ now \in Nat
    /\ EventLoop \in DOMAIN req
    /\ Loop = Idle \/ RequestOk
    /\ TableOk(Doomed, Clock)

LimiterInv == callers = Clients => LimiterOk

LEMMA ClockIsNat ==
    ASSUME LimiterOk
    PROVE  Clock \in Nat /\ Clock <= now
<1>1. CASE Loop = Idle
  BY <1>1 DEF LimiterOk, Clock, Idle
<1>2. CASE RequestOk
  <2>1. Loop.step # "idle" /\ Loop.at \in 0..now
    BY <1>2 DEF RequestOk
  <2> QED
    BY <2>1 DEF LimiterOk, Clock
<1> QED
  BY <1>1, <1>2 DEF LimiterOk

\* Nothing but time goes on.
LEMMA TableKeeps ==
    ASSUME NEW D, NEW T \in Nat, NEW D1, NEW T1 \in Nat, D1 \subseteq D, T <= T1,
           TableOk(D, T), UNCHANGED <<callers, windows, served, told>>
    PROVE  TableOk(D1, T1)'
<1>1. \A s : Many(s)' = Many(s)
  BY Zenon DEF Many, Seen
<1>2. ServedOk(T1)'
  <2>1. ASSUME NEW c \in Clients, NEW n \in 1..Len(served[c]) PROVE served[c][n] <= T1
    <3>1. served[c] \in Seq(Nat) /\ served[c][n] <= T
      BY DEF TableOk, ServedOk
    <3>2. served[c][n] \in Nat
      BY <3>1
    <3> QED
      BY <3>1, <3>2
  <2> QED
    BY <2>1 DEF TableOk, ServedOk
<1>3. ASSUME NEW c \in DOMAIN windows PROVE EntryInv(c, T1)'
  <2>1. EntryInv(c, T)
    BY DEF TableOk
  <2>2. windows[c].start <= T1
    BY <2>1 DEF EntryInv, Entries
  <2> QED
    BY <1>1, <2>1, <2>2 DEF EntryInv
<1>4. ASSUME NEW c \in Clients, c \notin DOMAIN windows \/ c \in D1 PROVE Lost(c, T1)'
  <2>1. Lost(c, T)
    BY <1>4 DEF TableOk
  <2>2. Window \in Nat
    BY WindowIsPositive
  <2>3. \A s \in Nat : s + Window > T1 => s + Window > T
    BY <2>2
  <2> QED
    BY <1>1, <2>1, <2>3 DEF Lost
<1> QED
  BY <1>1, <1>2, <1>3, <1>4 DEF TableOk

\* The request is over, or another step of it comes.
LEMMA LoopEnds ==
    ASSUME LimiterOk, Loop' = Idle, EventLoop \in DOMAIN req', UNCHANGED <<now, callers, windows, served, told>>
    PROVE  LimiterOk'
<1>0. PICK D : D = Doomed
  OBVIOUS
<1>1. PICK T \in Nat : D = Doomed /\ T = Clock /\ T <= now
  BY <1>0, ClockIsNat
<1>2. TableOk(D, T) /\ now \in Nat
  BY <1>1 DEF LimiterOk
<1>3. Doomed' = {} /\ Clock' = now
  BY DEF Doomed, Clock, Idle
<1>4. PICK T1 \in Nat : T1 = now
  BY <1>2
<1>5. TableOk({}, T1)'
  BY <1>1, <1>2, <1>4, TableKeeps
<1>6. TableOk(Doomed, Clock)'
  BY <1>3, <1>4, <1>5
<1> QED
  BY <1>2, <1>6 DEF LimiterOk

LEMMA TickLimits ==
    ASSUME LimiterOk, Tick
    PROVE  LimiterOk'
<1>0. PICK D : D = Doomed
  OBVIOUS
<1>1. PICK T \in Nat : D = Doomed /\ T = Clock /\ T <= now
  BY <1>0, ClockIsNat
<1>2. TableOk(D, T) /\ now \in Nat /\ now' = now + 1 /\ Loop' = Loop
      /\ UNCHANGED <<callers, windows, served, told, req>>
  BY <1>1 DEF LimiterOk, Tick, limiterVars, Loop
<1>3. Doomed' = D /\ Clock' \in Nat /\ T <= Clock'
  BY <1>1, <1>2 DEF Doomed, Clock
<1>4. PICK T1 \in Nat : T1 = Clock' /\ T <= T1
  BY <1>3
<1>5. TableOk(D, T1)'
  BY <1>2, <1>4, TableKeeps
<1>6. TableOk(Doomed, Clock)'
  BY <1>3, <1>4, <1>5
<1>7. RequestOk => RequestOk'
  <2>1. 0..now \subseteq 0..(now + 1)
    BY <1>2
  <2>2. EntryOf(Loop.caller)' = EntryOf(Loop.caller)
    BY <1>2 DEF EntryOf
  <2> QED
    BY <1>1, <1>2, <1>3, <2>1, <2>2 DEF RequestOk
<1> QED
  BY <1>2, <1>6, <1>7 DEF LimiterOk

LEMMA ArriveLimits ==
    ASSUME LimiterOk, NEW c \in Clients, Arrive(EventLoop, c)
    PROVE  LimiterOk'
<1>1. /\ Loop = Idle /\ EventLoop \in DOMAIN req /\ now \in Nat
      /\ UNCHANGED <<now, callers, windows, served, told>>
  BY DEF LimiterOk, Arrive, limiterVars, Loop
<1>2. PICK cursor : cursor = IF c \in Partners THEN walk[c].cursor ELSE Start
  OBVIOUS
<1>3. PICK r : r = [step |-> "expire", caller |-> c, at |-> now, doomed |-> {},
                    seen |-> NoEntry, cursor |-> cursor]
  OBVIOUS
<1>4. req' = [req EXCEPT ![EventLoop] = r]
  BY <1>2, <1>3 DEF Arrive
<1>5. Loop' = r /\ EventLoop \in DOMAIN req'
  BY <1>1, <1>4 DEF Loop
<1>6. r.step = "expire" /\ r.at = now
  BY <1>3
<1>7. Doomed = {} /\ Clock = now /\ Doomed' = {} /\ Clock' = now
  BY <1>1, <1>5, <1>6 DEF Doomed, Clock, Idle
<1>8. PICK T \in Nat : T = now
  BY <1>1
<1>9. TableOk({}, T)'
  BY <1>1, <1>7, <1>8, TableKeeps DEF LimiterOk
<1>10. TableOk(Doomed, Clock)'
  BY <1>7, <1>8, <1>9
<1>11. RequestOk'
  <2>1. r \in [step : {"expire", "prune", "get", "put", "page"}, caller : Clients,
               at : 0..now, doomed : SUBSET Clients, seen : {NoEntry} \cup Entries,
               cursor : {r.cursor}]
    BY <1>1, <1>3
  <2> QED
    BY <1>1, <1>5, <1>6, <1>7, <2>1 DEF RequestOk
<1> QED
  BY <1>1, <1>5, <1>10, <1>11 DEF LimiterOk

\* An entry that has ended, or that began before the time looked from.
LEMMA EndedIsLost ==
    ASSUME NEW D, NEW T \in Nat, TableOk(D, T), NEW c \in DOMAIN windows, Ends(windows[c], T)
    PROVE  Lost(c, T)
<1>1. /\ served[c] \in Seq(Nat) /\ windows[c] \in Entries
      /\ EntryOk(served[c], windows[c])
  BY DEF TableOk, ServedOk, EntryInv
<1>2. windows[c].start \in Nat /\ Window \in Nat
  BY <1>1, WindowIsPositive DEF Entries
<1>3. T - windows[c].start >= Window
  BY DEF Ends
<1>4. ASSUME NEW s \in Nat, s + Window > T PROVE windows[c].start < s
  BY <1>2, <1>3, <1>4
<1> QED
  BY <1>1, <1>4, LateCount DEF Lost

LEMMA OldestIsLost ==
    ASSUME NEW D, NEW T \in Nat, TableOk(D, T), NEW c \in Oldest, Overfull,
           \A d \in DOMAIN windows : ~Ends(windows[d], T), callers = Clients
    PROVE  Lost(c, T)
<1>1. ASSUME NEW d \in DOMAIN windows
      PROVE  /\ d \in Clients /\ served[d] \in Seq(Nat) /\ windows[d] \in Entries
             /\ EntryOk(served[d], windows[d])
             /\ windows[d].start \in Nat /\ windows[d].start <= T
             /\ windows[d].start + Window > T
  <2>1. d \in Clients /\ served[d] \in Seq(Nat) /\ EntryInv(d, T)
    BY DEF TableOk, ServedOk
  <2>2. windows[d].start \in Nat /\ Window \in Nat
    BY <2>1, WindowIsPositive DEF Entries, EntryInv
  <2>3. ~(T - windows[d].start >= Window)
    BY DEF Ends
  <2> QED
    BY <2>1, <2>2, <2>3 DEF EntryInv
<1>2. c \in DOMAIN windows /\ \A d \in DOMAIN windows : windows[c].start <= windows[d].start
  BY DEF Oldest
<1>3. ASSUME NEW s \in Nat, s + Window > T, s <= windows[c].start
      PROVE  Many(s)
  <2>1. ASSUME NEW d \in DOMAIN windows PROVE d \in Seen(s)
    <3>1. PICK l \in Nat, k \in Nat, st \in Nat, w \in Nat \ {0} :
             Parts(served[d], windows[d], l, k, st, w)
      BY <1>1, EntryParts
    <3>2. PICK n \in 1..l : n = l - k + 1
      BY <3>1 DEF Parts
    <3>3. n \in 1..Len(served[d]) /\ served[d][n] = windows[d].start
      BY <3>1, <3>2 DEF Parts
    <3>4. s <= windows[d].start /\ windows[d].start <= T /\ windows[d].start \in Nat
      BY <1>1, <1>2, <1>3
    <3>5. Window \in Nat \ {0}
      BY WindowIsPositive
    <3>6. windows[d].start > s - Window /\ windows[d].start < s + Window
      BY <1>3, <3>4, <3>5
    <3> QED
      BY <1>1, <3>3, <3>6 DEF Seen
  <2>2. DOMAIN windows \subseteq Seen(s) /\ Seen(s) \subseteq Clients
    BY <2>1 DEF Seen
  <2>3. IsFiniteSet(Seen(s))
    BY <2>2, FS_Subset, PublicApiAssumption
  <2>4. /\ Cardinality(DOMAIN windows) <= Cardinality(Seen(s))
        /\ Cardinality(DOMAIN windows) \in Nat /\ Cardinality(Seen(s)) \in Nat
    BY <2>2, <2>3, FS_Subset, FS_CardinalityType
  <2>5. Cardinality(DOMAIN windows) > MaxKeys /\ MaxKeys \in Nat
    BY PublicApiAssumption DEF Overfull
  <2> QED
    BY <2>4, <2>5 DEF Many
<1>4. ASSUME NEW s \in Nat, s + Window > T, ~(s <= windows[c].start)
      PROVE  Count(served[c], s) <= Limit - 1
  <2>1. windows[c].start < s
    BY <1>1, <1>2, <1>4
  <2> QED
    BY <1>1, <1>2, <2>1, LateCount
<1> QED
  BY <1>3, <1>4 DEF Lost

LEMMA RequestIsOk ==
    ASSUME LimiterOk, Loop.step # "idle"
    PROVE  RequestOk /\ now \in Nat /\ EventLoop \in DOMAIN req
<1>1. Loop # Idle
  BY DEF Idle
<1> QED
  BY <1>1 DEF LimiterOk

LEMMA ListExpiredLimits ==
    ASSUME LimiterOk, callers = Clients, ListExpired(EventLoop)
    PROVE  LimiterOk'
<1>1. /\ RequestOk /\ Loop.step = "expire" /\ EventLoop \in DOMAIN req /\ now \in Nat
      /\ UNCHANGED <<now, callers, windows, served, told>>
  <2>1. Loop.step = "expire" /\ UNCHANGED <<now, callers, windows, served, told>>
    BY DEF ListExpired, limiterVars, Loop
  <2> QED
    BY <2>1, RequestIsOk
<1>2. PICK D : D = {c \in DOMAIN windows : Ends(windows[c], Loop.at)}
  OBVIOUS
<1>3. PICK r : r = [Loop EXCEPT !.step = "prune", !.doomed = D]
  OBVIOUS
<1>4. Loop' = r /\ EventLoop \in DOMAIN req'
  BY <1>1, <1>2, <1>3 DEF ListExpired, Loop
<1>5. r.step = "prune" /\ r.doomed = D /\ r.at = Loop.at /\ r.cursor = Loop.cursor
  BY <1>1, <1>3 DEF RequestOk
<1>6. PICK T \in Nat : T = Loop.at
  BY <1>1 DEF RequestOk
<1>7. Doomed = {} /\ Clock = T /\ Doomed' = D /\ Clock' = T
  BY <1>1, <1>4, <1>5, <1>6 DEF Doomed, Clock
<1>8. TableOk({}, T)
  BY <1>7 DEF LimiterOk
<1>9. \A c \in D : Lost(c, T)
  BY <1>2, <1>6, <1>8, EndedIsLost
<1>10. TableOk(D, T)
  BY <1>8, <1>9 DEF TableOk
<1>11. TableOk(D, T)'
  BY <1>1, <1>10, TableKeeps
<1>12. TableOk(Doomed, Clock)'
  BY <1>7, <1>11
<1>13. RequestOk'
  <2>1. DOMAIN windows \subseteq Clients
    BY <1>8 DEF TableOk
  <2>2. D \subseteq DOMAIN windows
    BY <1>2
  <2>3. r \in [step : {"expire", "prune", "get", "put", "page"}, caller : Clients,
               at : 0..now, doomed : SUBSET Clients, seen : {NoEntry} \cup Entries,
               cursor : {r.cursor}]
    BY <1>1, <1>3, <1>5, <2>1, <2>2 DEF RequestOk
  <2>4. \A c \in DOMAIN windows : Ends(windows[c], r.at) => c \in D
    BY <1>2, <1>5
  <2> QED
    BY <1>1, <1>4, <1>5, <1>7, <2>2, <2>3, <2>4 DEF RequestOk, Ends
<1> QED
  BY <1>1, <1>4, <1>12, <1>13 DEF LimiterOk

LEMMA DeleteDoomedLimits ==
    ASSUME LimiterOk, callers = Clients, DeleteDoomed(EventLoop)
    PROVE  LimiterOk'
<1>1. Loop.step = "prune" /\ UNCHANGED <<now, callers, served, told>>
  BY DEF DeleteDoomed, Loop
<1>2. RequestOk /\ EventLoop \in DOMAIN req /\ now \in Nat
  BY <1>1, RequestIsOk
<1>3. PICK D : D = Loop.doomed
  OBVIOUS
<1>4. Doomed = D /\ D \subseteq DOMAIN windows
  BY <1>1, <1>2, <1>3 DEF Doomed, RequestOk
<1>5. PICK c \in D :
         /\ windows' = Drop(windows, c)
         /\ req' = [req EXCEPT ![EventLoop] = IF c \in DOMAIN windows
                                              THEN [Loop EXCEPT !.doomed = @ \ {c}] ELSE Idle]
  BY <1>3 DEF DeleteDoomed, Loop
<1>6. PICK r : r = [Loop EXCEPT !.doomed = @ \ {c}]
  OBVIOUS
<1>7. Loop' = r /\ EventLoop \in DOMAIN req'
  BY <1>2, <1>4, <1>5, <1>6 DEF Loop
<1>8. /\ r.step = "prune" /\ r.at = Loop.at /\ r.doomed = D \ {c} /\ r.cursor = Loop.cursor
      /\ r.caller = Loop.caller /\ r.seen = Loop.seen
  BY <1>1, <1>2, <1>3, <1>6 DEF RequestOk
<1>9. PICK T \in Nat : T = Loop.at
  BY <1>2 DEF RequestOk
<1>10. Clock = T /\ Doomed' = D \ {c} /\ Clock' = T
  BY <1>1, <1>7, <1>8, <1>9 DEF Doomed, Clock
<1>11. TableOk(D, T)
  BY <1>4, <1>10 DEF LimiterOk
<1>12. DOMAIN windows' = DOMAIN windows \ {c} /\ \A d \in DOMAIN windows' : windows'[d] = windows[d]
  BY <1>5 DEF Drop
<1>13. \A s : Many(s)' = Many(s)
  BY <1>1, Zenon DEF Many, Seen
<1>14. TableOk(D \ {c}, T)'
  <2>1. ServedOk(T)' /\ told' \in [Clients -> Nat] /\ DOMAIN windows' \subseteq Clients
    BY <1>1, <1>11, <1>12 DEF TableOk, ServedOk
  <2>2. ASSUME NEW d \in DOMAIN windows' PROVE EntryInv(d, T)'
    <3>1. EntryInv(d, T) /\ windows'[d] = windows[d]
      BY <1>11, <1>12 DEF TableOk
    <3> QED
      BY <1>1, <1>13, <3>1 DEF EntryInv
  <2>3. ASSUME NEW d \in Clients, d \notin DOMAIN windows' \/ d \in D \ {c} PROVE Lost(d, T)'
    <3>1. d \notin DOMAIN windows \/ d \in D
      BY <1>12, <2>3
    <3>2. Lost(d, T)
      BY <1>11, <3>1 DEF TableOk
    <3> QED
      BY <1>1, <1>13, <3>2 DEF Lost
  <2>4. \A d \in Clients, s \in Nat : Many(s) \/ Count(served[d], s) < 2 * Limit
    BY <1>11 DEF TableOk
  <2> QED
    BY <1>1, <1>13, <2>1, <2>2, <2>3, <2>4 DEF TableOk
<1>15. TableOk(Doomed, Clock)'
  BY <1>10, <1>14
<1>16. RequestOk'
  <2>1. r \in [step : {"expire", "prune", "get", "put", "page"}, caller : Clients,
               at : 0..now, doomed : SUBSET Clients, seen : {NoEntry} \cup Entries,
               cursor : {r.cursor}]
    BY <1>2, <1>3, <1>6, <1>8 DEF RequestOk
  <2>2. \A d \in DOMAIN windows : Ends(windows[d], r.at) => d \in D
    BY <1>1, <1>2, <1>4, <1>8 DEF RequestOk
  <2>3. \A d \in DOMAIN windows' : Ends(windows'[d], r.at) => d \in D \ {c}
    BY <1>12, <2>2
  <2>4. D \ {c} \subseteq DOMAIN windows'
    BY <1>4, <1>12
  <2> QED
    BY <1>1, <1>7, <1>8, <1>10, <2>1, <2>3, <2>4 DEF RequestOk, Ends
<1> QED
  BY <1>1, <1>2, <1>7, <1>15, <1>16 DEF LimiterOk

LEMMA CapTableLimits ==
    ASSUME LimiterOk, callers = Clients, CapTable(EventLoop)
    PROVE  LimiterOk'
<1>1. /\ Loop.step = "prune" /\ Loop.doomed = {}
      /\ UNCHANGED <<now, callers, windows, served, told>>
  BY DEF CapTable, Loop, limiterVars
<1>2. RequestOk /\ EventLoop \in DOMAIN req /\ now \in Nat
  BY <1>1, RequestIsOk
<1>3. PICK T \in Nat : T = Loop.at
  BY <1>2 DEF RequestOk
<1>4. Doomed = {} /\ Clock = T
  BY <1>1, <1>3 DEF Doomed, Clock
<1>5. TableOk({}, T)
  BY <1>4 DEF LimiterOk
<1>6. \A d \in DOMAIN windows : ~Ends(windows[d], T)
  BY <1>1, <1>2, <1>3, <1>4 DEF RequestOk
<1>7. CASE Overfull
  <2>1. PICK c \in Oldest : req' = [req EXCEPT ![EventLoop].doomed = {c}]
    BY <1>7 DEF CapTable
  <2>2. PICK r : r = [Loop EXCEPT !.doomed = {c}]
    OBVIOUS
  <2>3. Loop' = r /\ EventLoop \in DOMAIN req'
    BY <1>2, <2>1, <2>2 DEF Loop
  <2>4. /\ r.step = "prune" /\ r.at = Loop.at /\ r.doomed = {c} /\ r.cursor = Loop.cursor
        /\ r.caller = Loop.caller /\ r.seen = Loop.seen
    BY <1>1, <1>2, <2>2 DEF RequestOk
  <2>5. c \in DOMAIN windows /\ c \in Clients
    BY <1>5 DEF Oldest, TableOk
  <2>6. Lost(c, T)
    BY <1>5, <1>6, <1>7, OldestIsLost
  <2>7. TableOk({c}, T)
    BY <1>5, <2>6 DEF TableOk
  <2>8. TableOk({c}, T)'
    BY <1>1, <2>7, TableKeeps
  <2>9. Doomed' = {c} /\ Clock' = T
    BY <1>3, <2>3, <2>4 DEF Doomed, Clock
  <2>10. TableOk(Doomed, Clock)'
    BY <2>8, <2>9
  <2>11. r \in [step : {"expire", "prune", "get", "put", "page"}, caller : Clients,
                at : 0..now, doomed : SUBSET Clients, seen : {NoEntry} \cup Entries,
                cursor : {r.cursor}]
    BY <1>2, <2>2, <2>4, <2>5 DEF RequestOk
  <2>12. \A d \in DOMAIN windows : ~Ends(windows[d], r.at)
    BY <1>3, <1>6, <2>4
  <2>13. RequestOk'
    BY <1>1, <2>3, <2>4, <2>5, <2>9, <2>11, <2>12 DEF RequestOk, Ends
  <2> QED
    BY <1>1, <1>2, <2>3, <2>10, <2>13 DEF LimiterOk
<1>8. CASE ~Overfull
  <2>1. req' = [req EXCEPT ![EventLoop].step = "get"]
    BY <1>8 DEF CapTable
  <2>2. PICK r : r = [Loop EXCEPT !.step = "get"]
    OBVIOUS
  <2>3. Loop' = r /\ EventLoop \in DOMAIN req'
    BY <1>2, <2>1, <2>2 DEF Loop
  <2>4. /\ r.step = "get" /\ r.at = Loop.at /\ r.cursor = Loop.cursor
        /\ r.caller = Loop.caller /\ r.seen = Loop.seen
    BY <1>2, <2>2 DEF RequestOk
  <2>8. TableOk({}, T)'
    BY <1>1, <1>5, TableKeeps
  <2>9. Doomed' = {} /\ Clock' = T
    BY <1>3, <2>3, <2>4 DEF Doomed, Clock
  <2>10. TableOk(Doomed, Clock)'
    BY <2>8, <2>9
  <2>11. r \in [step : {"expire", "prune", "get", "put", "page"}, caller : Clients,
                at : 0..now, doomed : SUBSET Clients, seen : {NoEntry} \cup Entries,
                cursor : {r.cursor}]
    BY <1>2, <2>2, <2>4 DEF RequestOk
  <2>12. \A d \in DOMAIN windows : ~Ends(windows[d], r.at)
    BY <1>3, <1>6, <2>4
  <2>13. RequestOk'
    BY <1>1, <2>3, <2>4, <2>9, <2>11, <2>12 DEF RequestOk, Ends
  <2> QED
    BY <1>1, <1>2, <2>3, <2>10, <2>13 DEF LimiterOk
<1> QED
  BY <1>7, <1>8

LEMMA GetEntryLimits ==
    ASSUME LimiterOk, callers = Clients, GetEntry(EventLoop)
    PROVE  LimiterOk'
<1>1. Loop.step = "get" /\ UNCHANGED <<now, callers, windows, served, told>>
  BY DEF GetEntry, Loop, limiterVars
<1>2. RequestOk /\ EventLoop \in DOMAIN req /\ now \in Nat
  BY <1>1, RequestIsOk
<1>3. PICK e : e = EntryOf(Loop.caller)
  OBVIOUS
<1>4. req' = [req EXCEPT ![EventLoop].step = "put", ![EventLoop].seen = e]
  BY <1>3 DEF GetEntry, EntryOf, Loop
<1>5. PICK r : r = [Loop EXCEPT !.step = "put", !.seen = e]
  OBVIOUS
<1>6. Loop' = r /\ EventLoop \in DOMAIN req'
  BY <1>2, <1>4, <1>5 DEF Loop
<1>7. /\ r.step = "put" /\ r.at = Loop.at /\ r.cursor = Loop.cursor /\ r.seen = e
      /\ r.caller = Loop.caller /\ r.doomed = Loop.doomed
  BY <1>2, <1>5 DEF RequestOk
<1>8. PICK T \in Nat : T = Loop.at
  BY <1>2 DEF RequestOk
<1>9. Doomed = {} /\ Clock = T /\ Doomed' = {} /\ Clock' = T
  BY <1>1, <1>6, <1>7, <1>8 DEF Doomed, Clock
<1>10. TableOk({}, T)
  BY <1>9 DEF LimiterOk
<1>11. TableOk({}, T)'
  BY <1>1, <1>10, TableKeeps
<1>12. TableOk(Doomed, Clock)'
  BY <1>9, <1>11
<1>13. e \in {NoEntry} \cup Entries
  BY <1>3, <1>10 DEF EntryOf, TableOk, EntryInv
<1>14. r \in [step : {"expire", "prune", "get", "put", "page"}, caller : Clients,
              at : 0..now, doomed : SUBSET Clients, seen : {NoEntry} \cup Entries,
              cursor : {r.cursor}]
  BY <1>2, <1>5, <1>7, <1>13 DEF RequestOk
<1>15. \A d \in DOMAIN windows : Ends(windows[d], r.at) => d \in {}
  BY <1>1, <1>2, <1>7, <1>9 DEF RequestOk
<1>16. EntryOf(r.caller)' = e
  BY <1>1, <1>3, <1>7 DEF EntryOf
<1>17. RequestOk'
  BY <1>1, <1>6, <1>7, <1>9, <1>14, <1>15, <1>16 DEF RequestOk, Ends
<1> QED
  BY <1>1, <1>2, <1>6, <1>12, <1>17 DEF LimiterOk

\* What was seen stays seen.
LEMMA SeenGrows ==
    ASSUME NEW c \in Clients, NEW at \in Nat, NEW s, callers = Clients, callers' = callers,
           served \in [Clients -> Seq(Nat)], served' = [served EXCEPT ![c] = Append(@, at)],
           Many(s)
    PROVE  Many(s)'
<1>1. ASSUME NEW d \in Seen(s) PROVE d \in Seen(s)'
  <2>1. d \in Clients /\ served[d] \in Seq(Nat)
    BY DEF Seen
  <2>2. PICK n \in 1..Len(served[d]) : served[d][n] > s - Window /\ served[d][n] < s + Window
    BY DEF Seen
  <2>3. n \in 1..Len(served'[d]) /\ served'[d][n] = served[d][n]
    <3>1. CASE d = c
      BY <2>1, <2>2, <3>1
    <3>2. CASE d # c
      BY <2>1, <2>2, <3>2
    <3> QED
      BY <3>1, <3>2
  <2>4. served'[d][n] > s - Window /\ served'[d][n] < s + Window
    BY <2>2, <2>3
  <2> QED
    BY <2>1, <2>3, <2>4 DEF Seen
<1>2. Seen(s) \subseteq Seen(s)' /\ Seen(s)' \subseteq Clients
  BY <1>1 DEF Seen
<1>3. IsFiniteSet(Seen(s)')
  BY <1>2, FS_Subset, PublicApiAssumption
<1>4. /\ Cardinality(Seen(s)) <= Cardinality(Seen(s)')
      /\ Cardinality(Seen(s)) \in Nat /\ Cardinality(Seen(s)') \in Nat
  BY <1>2, <1>3, FS_Subset, FS_CardinalityType
<1>5. MaxKeys \in Nat
  BY PublicApiAssumption
<1> QED
  BY <1>4, <1>5 DEF Many

\* The entry e that a request at the time writes for c, and what has been seen since.
Written(c, at, e) ==
    /\ e \in Entries /\ e.start <= at
    /\ EntryOk(Append(served[c], at), e)
    /\ \A s \in Nat : s <= e.start /\ e.start < s + Window =>
           Many(s) \/ Old(Append(served[c], at), e, s) <= Limit - 1
    /\ \A s \in Nat : Many(s) \/ Count(Append(served[c], at), s) < 2 * Limit

LEMMA CurrentWritten ==
    ASSUME NEW T \in Nat, TableOk({}, T), NEW c \in DOMAIN windows,
           ~Ends(windows[c], T), windows[c].count < Limit
    PROVE  Written(c, T, More(windows[c]))
<1>1. c \in Clients /\ served[c] \in Seq(Nat) /\ EntryInv(c, T)
  BY DEF TableOk, ServedOk
<1>2. PICK q \in Seq(Nat) : q = served[c]
  BY <1>1
<1>3. PICK e \in Entries : e = windows[c]
  BY <1>1 DEF EntryInv
<1>4. PICK e1 : e1 = More(e)
  OBVIOUS
<1>5. /\ EntryOk(q, e) /\ e.start <= T /\ e.start \in Nat /\ Window \in Nat
      /\ Limit \in Nat \ {0}
  BY <1>1, <1>2, <1>3, WindowIsPositive, PublicApiAssumption DEF EntryInv, Entries
<1>6. T < e.start + Window /\ e.count < Limit
  BY <1>3, <1>5 DEF Ends
<1>7. /\ e1 \in Entries /\ e1.start = e.start
      /\ EntryOk(Append(q, T), e1)
      /\ \A s \in Nat : Old(Append(q, T), e1, s) = Old(q, e, s)
      /\ \A s \in Nat : Old(q, e, s) \in Nat
      /\ \A s \in Nat : s > e.start => Count(Append(q, T), s) <= Limit - 1
      /\ \A s \in Nat : Count(Append(q, T), s) <= Old(q, e, s) + Limit
  BY <1>4, <1>5, <1>6, SameWindow
<1>8. \A s \in Nat : s <= e.start /\ e.start < s + Window => Many(s) \/ Old(q, e, s) <= Limit - 1
  BY <1>1, <1>2, <1>3 DEF EntryInv
<1>9. ASSUME NEW s \in Nat PROVE Many(s) \/ Count(Append(q, T), s) < 2 * Limit
  <2>1. Count(q, s) \in Nat /\ Count(Append(q, T), s) \in Nat
    BY InsideCount
  <2>2. CASE s > e.start
    <3>1. Count(Append(q, T), s) <= Limit - 1
      BY <1>7, <2>2
    <3> QED
      BY <1>5, <2>1, <3>1
  <2>3. CASE s <= e.start /\ e.start < s + Window
    <3>1. Count(Append(q, T), s) <= Old(q, e, s) + Limit /\ Old(q, e, s) \in Nat
      BY <1>7
    <3>2. Many(s) \/ Old(q, e, s) <= Limit - 1
      BY <1>8, <2>3
    <3> QED
      BY <1>5, <2>1, <3>1, <3>2
  <2>4. CASE e.start >= s + Window
    <3>1. ~(T >= s /\ T < s + Window)
      BY <1>5, <2>4
    <3>2. Count(Append(q, T), s) = Count(q, s)
      BY <3>1, OutsideCount
    <3>3. Many(s) \/ Count(q, s) < 2 * Limit
      BY <1>1, <1>2 DEF TableOk
    <3> QED
      BY <3>2, <3>3
  <2> QED
    BY <1>5, <2>2, <2>3, <2>4
<1> QED
  BY <1>2, <1>3, <1>4, <1>5, <1>7, <1>8, <1>9 DEF Written

LEMMA NewWritten ==
    ASSUME NEW T \in Nat, TableOk({}, T), NEW c \in Clients, c \notin DOMAIN windows
    PROVE  Written(c, T, [count |-> 1, start |-> T])
<1>1. PICK q \in Seq(Nat) : q = served[c]
  BY DEF TableOk, ServedOk
<1>2. /\ \A n \in 1..Len(q) : q[n] <= T
      /\ \A s \in Nat : Many(s) \/ Count(q, s) < 2 * Limit
      /\ \A s \in Nat : s + Window > T => Many(s) \/ Count(q, s) <= Limit - 1
  BY <1>1 DEF TableOk, ServedOk, Lost
<1>3. Window \in Nat /\ Limit \in Nat \ {0}
  BY WindowIsPositive, PublicApiAssumption
<1>4. PICK e : e = [count |-> 1, start |-> T]
  OBVIOUS
<1>5. e \in Entries /\ e.start = T
  BY <1>3, <1>4 DEF Entries
<1>6. /\ EntryOk(Append(q, T), e)
      /\ \A s \in Nat : s <= T /\ T < s + Window => Old(Append(q, T), e, s) = Count(q, s)
  BY <1>2, <1>4, NewWindow
<1>7. \A s \in Nat : s <= T /\ T < s + Window => Many(s) \/ Old(Append(q, T), e, s) <= Limit - 1
  BY <1>2, <1>6
<1>8. ASSUME NEW s \in Nat PROVE Many(s) \/ Count(Append(q, T), s) < 2 * Limit
  <2>1. /\ Count(q, s) \in Nat /\ Count(Append(q, T), s) \in Nat
        /\ Count(Append(q, T), s) <= Count(q, s) + 1
    BY InsideCount
  <2>2. CASE T >= s /\ T < s + Window
    <3>1. Many(s) \/ Count(q, s) <= Limit - 1
      BY <1>2, <2>2
    <3> QED
      BY <1>3, <2>1, <3>1
  <2>3. CASE ~(T >= s /\ T < s + Window)
    <3>1. Count(Append(q, T), s) = Count(q, s)
      BY <2>3, OutsideCount
    <3> QED
      BY <1>2, <3>1
  <2> QED
    BY <2>2, <2>3
<1> QED
  BY <1>1, <1>4, <1>5, <1>6, <1>7, <1>8 DEF Written

LEMMA LetThroughTable ==
    ASSUME callers = Clients, callers' = callers,
           NEW T \in Nat, TableOk({}, T), NEW c \in Clients, NEW e, Written(c, T, e),
           windows' = Put(windows, c, e), served' = [served EXCEPT ![c] = Append(@, T)],
           told' = [told EXCEPT ![c] = 0], NEW T1 \in Nat, T <= T1
    PROVE  TableOk({}, T1)'
<1>1. /\ served \in [Clients -> Seq(Nat)] /\ told \in [Clients -> Nat]
      /\ DOMAIN windows \subseteq Clients /\ Window \in Nat
  BY WindowIsPositive DEF TableOk, ServedOk
<1>2. ASSUME NEW s, Many(s) PROVE Many(s)'
  BY <1>1, <1>2, SeenGrows
<1>3. /\ served' \in [Clients -> Seq(Nat)] /\ told' \in [Clients -> Nat]
      /\ served'[c] = Append(served[c], T) /\ told'[c] = 0
      /\ \A d \in Clients : d # c => served'[d] = served[d] /\ told'[d] = told[d]
  BY <1>1
<1>4. /\ DOMAIN windows' = DOMAIN windows \cup {c} /\ windows'[c] = e
      /\ \A d \in DOMAIN windows : d # c => windows'[d] = windows[d]
  BY DEF Put
<1>5. ServedOk(T1)'
  <2>1. ASSUME NEW d \in Clients, NEW n \in 1..Len(served'[d]) PROVE served'[d][n] <= T1
    <3>1. served[d] \in Seq(Nat) /\ \A m \in 1..Len(served[d]) : served[d][m] <= T
      BY DEF TableOk, ServedOk
    <3>2. \A m \in 1..Len(served[d]) : served[d][m] \in Nat
      BY <3>1
    <3>3. CASE d # c
      BY <1>3, <3>1, <3>2, <3>3
    <3>4. CASE d = c
      <4>1. n \in 1..Len(served[d]) => served'[d][n] = served[d][n]
        BY <1>3, <3>1, <3>4
      <4>2. n \notin 1..Len(served[d]) => served'[d][n] = T
        BY <1>3, <3>1, <3>4
      <4> QED
        BY <3>1, <3>2, <4>1, <4>2
    <3> QED
      BY <3>3, <3>4
  <2> QED
    BY <1>3, <2>1 DEF ServedOk
<1>6. ASSUME NEW d \in DOMAIN windows' PROVE EntryInv(d, T1)'
  <2>1. CASE d = c
    <3>1. /\ e \in Entries /\ e.start <= T1
          /\ EntryOk(Append(served[c], T), e)
          /\ \A s \in Nat : s <= e.start /\ e.start < s + Window =>
                 Many(s) \/ Old(Append(served[c], T), e, s) <= Limit - 1
      BY DEF Written, Entries
    <3> QED
      BY <1>2, <1>3, <1>4, <2>1, <3>1 DEF EntryInv
  <2>2. CASE d # c
    <3>1. d \in DOMAIN windows /\ d \in Clients /\ EntryInv(d, T)
      BY <1>1, <1>4, <2>2 DEF TableOk
    <3>2. windows'[d] = windows[d] /\ served'[d] = served[d] /\ told'[d] = told[d]
      BY <1>3, <1>4, <2>2, <3>1
    <3>3. windows[d].start <= T1
      BY <3>1 DEF EntryInv, Entries
    <3> QED
      BY <1>2, <3>1, <3>2, <3>3 DEF EntryInv
  <2> QED
    BY <2>1, <2>2
<1>7. ASSUME NEW d \in Clients, d \notin DOMAIN windows' PROVE Lost(d, T1)'
  <2>1. d # c /\ d \notin DOMAIN windows
    BY <1>4, <1>7
  <2>2. Lost(d, T) /\ served'[d] = served[d]
    BY <1>3, <2>1 DEF TableOk
  <2>3. \A s \in Nat : s + Window > T1 => s + Window > T
    BY <1>1
  <2> QED
    BY <1>2, <2>2, <2>3 DEF Lost
<1>8. ASSUME NEW d \in Clients, NEW s \in Nat PROVE Many(s)' \/ Count(served'[d], s) < 2 * Limit
  <2>1. CASE d = c
    BY <1>2, <1>3, <2>1 DEF Written
  <2>2. CASE d # c
    BY <1>2, <1>3, <2>2 DEF TableOk
  <2> QED
    BY <2>1, <2>2
<1> QED
  BY <1>1, <1>3, <1>4, <1>5, <1>6, <1>7, <1>8 DEF TableOk

LEMMA LetThroughLimits ==
    ASSUME LimiterOk, callers = Clients, LetThrough(EventLoop)
    PROVE  LimiterOk'
<1>1. Loop.step = "put" /\ ~Spent(Loop) /\ UNCHANGED <<now, callers>>
  BY DEF LetThrough, Loop
<1>2. RequestOk /\ EventLoop \in DOMAIN req /\ now \in Nat
  BY <1>1, RequestIsOk
<1>3. PICK c \in Clients : c = Loop.caller
  BY <1>2 DEF RequestOk
<1>4. PICK T \in Nat : T = Loop.at /\ T <= now
  BY <1>2 DEF RequestOk
<1>5. Doomed = {} /\ Clock = T
  BY <1>1, <1>4 DEF Doomed, Clock
<1>6. TableOk({}, T)
  BY <1>5 DEF LimiterOk
<1>7. PICK e : e = IF Current(Loop) THEN [Loop.seen EXCEPT !.count = @ + 1]
                   ELSE [count |-> 1, start |-> T]
  OBVIOUS
<1>8. Loop.seen = EntryOf(c) /\ \A d \in DOMAIN windows : ~Ends(windows[d], T)
  BY <1>1, <1>2, <1>3, <1>4, <1>5 DEF RequestOk
<1>9. /\ windows' = Put(windows, c, e)
      /\ served' = [served EXCEPT ![c] = Append(@, T)]
      /\ told' = [told EXCEPT ![c] = 0]
  BY <1>3, <1>4, <1>7 DEF LetThrough, Loop
<1>10. Written(c, T, e)
  <2>1. CASE c \in DOMAIN windows
    <3>1. windows[c] \in Entries /\ Loop.seen = windows[c]
      BY <1>6, <1>8, <2>1 DEF EntryOf, TableOk, EntryInv
    <3>2. windows[c].count \in Nat \ {0} /\ Limit \in Nat
      BY <3>1, PublicApiAssumption DEF Entries
    <3>3. windows[c] # NoEntry
      BY <3>2 DEF NoEntry
    <3>4. Current(Loop)
      BY <1>4, <1>8, <2>1, <3>1, <3>3 DEF Current
    <3>5. windows[c].count < Limit
      BY <1>1, <3>1, <3>2, <3>4 DEF Spent
    <3>6. e = More(windows[c])
      BY <1>7, <3>1, <3>4 DEF More
    <3> QED
      BY <1>6, <1>8, <2>1, <3>5, <3>6, CurrentWritten
  <2>2. CASE c \notin DOMAIN windows
    <3>1. ~Current(Loop)
      BY <1>8, <2>2 DEF EntryOf, Current
    <3> QED
      BY <1>6, <1>7, <2>2, <3>1, NewWritten
  <2> QED
    BY <2>1, <2>2
<1>11. \A T1 \in Nat : T <= T1 => TableOk({}, T1)'
  BY <1>1, <1>6, <1>9, <1>10, LetThroughTable
<1>12. CASE Loop.caller \in Partners
  <2>1. PICK r : r = [Loop EXCEPT !.step = "page"]
    OBVIOUS
  <2>2. req' = [req EXCEPT ![EventLoop] = r]
    BY <1>12, <2>1 DEF LetThrough, Loop
  <2>3. Loop' = r /\ EventLoop \in DOMAIN req'
    BY <1>2, <2>2 DEF Loop
  <2>4. r.step = "page" /\ r.at = Loop.at /\ r.cursor = Loop.cursor
    BY <1>2, <2>1 DEF RequestOk
  <2>5. Doomed' = {} /\ Clock' = T
    BY <1>4, <2>3, <2>4 DEF Doomed, Clock
  <2>6. TableOk(Doomed, Clock)'
    BY <1>11, <2>5
  <2>7. r \in [step : {"expire", "prune", "get", "put", "page"}, caller : Clients,
               at : 0..now, doomed : SUBSET Clients, seen : {NoEntry} \cup Entries,
               cursor : {r.cursor}]
    BY <1>2, <2>1, <2>4 DEF RequestOk
  <2>8. RequestOk'
    BY <1>1, <2>3, <2>4, <2>5, <2>7 DEF RequestOk
  <2> QED
    BY <1>1, <1>2, <2>3, <2>6, <2>8 DEF LimiterOk
<1>13. CASE Loop.caller \notin Partners
  <2>1. req' = [req EXCEPT ![EventLoop] = Idle]
    BY <1>13 DEF LetThrough, Loop
  <2>2. Loop' = Idle /\ EventLoop \in DOMAIN req'
    BY <1>2, <2>1 DEF Loop
  <2>3. Doomed' = {} /\ Clock' = now
    BY <1>1, <2>2 DEF Doomed, Clock, Idle
  <2>4. TableOk(Doomed, Clock)'
    BY <1>2, <1>4, <1>11, <2>3
  <2> QED
    BY <1>1, <1>2, <2>2, <2>4 DEF LimiterOk
<1> QED
  BY <1>12, <1>13

\* The seconds of the answer end after the window.
LEMMA RefusedIsTold ==
    ASSUME NEW T \in Nat, TableOk({}, T), NEW c \in DOMAIN windows, NEW r,
           r.at = T, r.seen = windows[c], ~Ends(windows[c], T)
    PROVE  /\ T + RetryAfter(r) * TicksPerSecond \in Nat
           /\ windows[c].start + Window < T + RetryAfter(r) * TicksPerSecond
<1>1. windows[c] \in Entries /\ windows[c].start <= T
  BY DEF TableOk, EntryInv
<1>2. PICK st \in Nat, w \in Nat, b \in Nat \ {0} :
         st = windows[c].start /\ w = Window /\ b = TicksPerSecond
  BY <1>1, WindowIsPositive, PublicApiAssumption DEF Entries
<1>3. st <= T /\ T < st + w
  BY <1>1, <1>2 DEF Ends
<1>4. PICK a \in Nat : a = w - (T - st)
  BY <1>3
<1>5. (a \div b) \in Nat /\ (a \div b + 1) * b > a
  BY SecondsCover
<1>6. PICK d \in Nat : d = a \div b
  BY <1>5
<1>7. RetryAfter(r) = d + 1
  <2>1. RetryAfter(r) = LET left == d + 1 IN IF left < 1 THEN 1 ELSE left
    BY <1>2, <1>4, <1>6 DEF RetryAfter
  <2> QED
    BY <2>1
<1>8. PICK m \in Nat : m = (d + 1) * b
  OBVIOUS
<1>9. m > a
  BY <1>5, <1>6, <1>8
<1>10. T + m \in Nat /\ st + w < T + m
  BY <1>3, <1>4, <1>9
<1> QED
  BY <1>2, <1>7, <1>8, <1>10

LEMMA RefuseLimits ==
    ASSUME LimiterOk, callers = Clients, Refuse(EventLoop)
    PROVE  LimiterOk' /\ (told[Loop.caller] # 0 => Loop.at < told[Loop.caller])
<1>1. Loop.step = "put" /\ Spent(Loop) /\ UNCHANGED <<now, callers, windows, served>>
  BY DEF Refuse, Loop
<1>2. RequestOk /\ EventLoop \in DOMAIN req /\ now \in Nat
  BY <1>1, RequestIsOk
<1>3. PICK c \in Clients : c = Loop.caller
  BY <1>2 DEF RequestOk
<1>4. PICK T \in Nat : T = Loop.at /\ T <= now
  BY <1>2 DEF RequestOk
<1>5. Doomed = {} /\ Clock = T
  BY <1>1, <1>4 DEF Doomed, Clock
<1>6. TableOk({}, T)
  BY <1>5 DEF LimiterOk
<1>7. c \in DOMAIN windows /\ Loop.seen = windows[c] /\ ~Ends(windows[c], T)
  BY <1>1, <1>2, <1>3, <1>4 DEF RequestOk, Spent, Current, EntryOf
<1>8. PICK back : back = T + RetryAfter(Loop) * TicksPerSecond
  OBVIOUS
<1>9. back \in Nat /\ windows[c].start + Window < back
  BY <1>4, <1>6, <1>7, <1>8, RefusedIsTold
<1>10. told' = [told EXCEPT ![c] = back] /\ req' = [req EXCEPT ![EventLoop] = Idle]
  BY <1>3, <1>4, <1>8 DEF Refuse, Loop
<1>11. Loop' = Idle /\ EventLoop \in DOMAIN req'
  BY <1>2, <1>10 DEF Loop
<1>12. Doomed' = {} /\ Clock' = now
  BY <1>1, <1>11 DEF Doomed, Clock, Idle
<1>13. EntryInv(c, T)
  BY <1>6, <1>7 DEF TableOk
<1>14. told[c] # 0 => T < told[c]
  <2>1. windows[c].start \in Nat /\ Window \in Nat /\ told[c] \in Nat
    BY <1>6, <1>13, WindowIsPositive DEF EntryInv, Entries, TableOk
  <2>2. T < windows[c].start + Window
    BY <1>7, <2>1 DEF Ends
  <2>3. told[c] # 0 => windows[c].start + Window < told[c]
    BY <1>13 DEF EntryInv
  <2> QED
    BY <2>1, <2>2, <2>3
<1>15. \A s : Many(s)' = Many(s)
  BY <1>1, Zenon DEF Many, Seen
<1>16. PICK T1 \in Nat : T1 = now
  BY <1>2
<1>17. TableOk({}, T1)'
  <2>1. told' \in [Clients -> Nat] /\ told'[c] = back
        /\ \A d \in Clients : d # c => told'[d] = told[d]
    BY <1>6, <1>9, <1>10 DEF TableOk
  <2>2. ServedOk(T1)'
    <3>1. ASSUME NEW d \in Clients, NEW n \in 1..Len(served[d]) PROVE served[d][n] <= T1
      <4>1. served[d] \in Seq(Nat) /\ served[d][n] <= T
        BY <1>6 DEF TableOk, ServedOk
      <4>2. served[d][n] \in Nat
        BY <4>1
      <4> QED
        BY <1>4, <1>16, <4>1, <4>2
    <3> QED
      BY <1>1, <1>6, <3>1 DEF TableOk, ServedOk
  <2>3. ASSUME NEW d \in DOMAIN windows PROVE EntryInv(d, T1)'
    <3>1. EntryInv(d, T) /\ d \in Clients
      BY <1>6 DEF TableOk
    <3>2. windows[d].start <= T1
      BY <1>4, <1>16, <3>1 DEF EntryInv, Entries
    <3>3. told'[d] # 0 => windows[d].start + Window < told'[d]
      BY <1>9, <2>1, <3>1 DEF EntryInv
    <3> QED
      BY <1>1, <1>15, <3>1, <3>2, <3>3 DEF EntryInv
  <2>4. ASSUME NEW d \in Clients, d \notin DOMAIN windows PROVE Lost(d, T1)'
    <3>1. Lost(d, T) /\ Window \in Nat
      BY <1>6, <2>4, WindowIsPositive DEF TableOk
    <3>2. \A s \in Nat : s + Window > T1 => s + Window > T
      BY <1>4, <1>16, <3>1
    <3> QED
      BY <1>1, <1>15, <3>1, <3>2 DEF Lost
  <2>5. /\ DOMAIN windows \subseteq Clients
        /\ \A d \in Clients, s \in Nat : Many(s) \/ Count(served[d], s) < 2 * Limit
    BY <1>6 DEF TableOk
  <2> QED
    BY <1>1, <1>15, <2>1, <2>2, <2>3, <2>4, <2>5 DEF TableOk
<1>18. TableOk(Doomed, Clock)'
  BY <1>12, <1>16, <1>17
<1> QED
  BY <1>1, <1>2, <1>3, <1>4, <1>11, <1>14, <1>18 DEF LimiterOk

LEMMA LimiterInit ==
    ASSUME Init
    PROVE  LimiterInv
<1>1. SUFFICES ASSUME callers = Clients PROVE LimiterOk
  BY DEF LimiterInv
<1>2. /\ now = 0 /\ windows = Nothing /\ req = [t \in Threads \cup {EventLoop} |-> Idle]
      /\ served = [c \in Clients |-> <<>>] /\ told = [c \in Clients |-> 0]
  BY <1>1 DEF Init
<1>3. EventLoop \in DOMAIN req /\ Loop = Idle
  BY <1>2 DEF Loop
<1>4. Doomed = {} /\ Clock = 0
  BY <1>2, <1>3 DEF Doomed, Clock, Idle
<1>5. DOMAIN windows = {}
  BY <1>2 DEF Nothing
<1>6. Limit \in Nat \ {0}
  BY PublicApiAssumption
<1>7. \A c \in Clients, s \in Nat : Count(served[c], s) = 0
  <2>1. \A c \in Clients : {n \in 1..Len(served[c]) : TRUE} = {}
    BY <1>2
  <2>2. \A c \in Clients, s \in Nat :
          {n \in 1..Len(served[c]) : served[c][n] >= s /\ served[c][n] < s + Window} = {}
    BY <2>1
  <2> QED
    BY <2>2, FS_EmptySet DEF Count
<1>8. \A c \in Clients, s \in Nat : Count(served[c], s) <= Limit - 1 /\ Count(served[c], s) < 2 * Limit
  BY <1>6, <1>7
<1>9. ServedOk(0)
  BY <1>2 DEF ServedOk
<1>10. TableOk({}, 0)
  BY <1>2, <1>5, <1>8, <1>9 DEF TableOk, Lost
<1> QED
  BY <1>2, <1>3, <1>4, <1>10 DEF LimiterOk

LEMMA LimiterKeeps ==
    ASSUME LimiterOk, UNCHANGED <<now, callers, windows, served, told, Loop>>,
           EventLoop \in DOMAIN req'
    PROVE  LimiterOk'
<1>1. \A s : Many(s)' = Many(s)
  BY Zenon DEF Many, Seen
<1>2. Doomed' = Doomed /\ Clock' = Clock
  BY DEF Doomed, Clock
<1>3. ASSUME NEW c \in DOMAIN windows, EntryInv(c, Clock) PROVE EntryInv(c, Clock)'
  BY <1>1, <1>2, <1>3 DEF EntryInv
<1>4. ASSUME NEW c \in Clients, Lost(c, Clock) PROVE Lost(c, Clock)'
  BY <1>1, <1>2, <1>4 DEF Lost
<1>5. TableOk(Doomed, Clock)'
  BY <1>1, <1>2, <1>3, <1>4 DEF LimiterOk, TableOk, ServedOk
<1>6. EntryOf(Loop.caller)' = EntryOf(Loop.caller)
  BY DEF EntryOf
<1>7. RequestOk => RequestOk'
  BY <1>2, <1>6 DEF RequestOk, Ends
<1> QED
  BY <1>5, <1>7 DEF LimiterOk

LEMMA LimiterNext ==
    ASSUME LimiterInv, [Next]_vars
    PROVE  LimiterInv'
<1>1. callers' = callers
  BY DEF Next, vars, Tick, Arrive, ListExpired, DeleteDoomed, CapTable, IterationFails, GetEntry,
         LetThrough, Refuse, ReadPage, LoseAnswer, BeginInsert, CommitInsert, ChangeStatus, ReadList
<1>2. SUFFICES ASSUME callers = Clients, LimiterOk PROVE LimiterOk'
  BY <1>1 DEF LimiterInv
<1>3. Workers = {EventLoop} /\ EventLoop \in DOMAIN req
  BY <1>2, PublicApiAssumption DEF Workers, LimiterOk
<1>4. CASE UNCHANGED vars
  BY <1>2, <1>3, <1>4, LimiterKeeps DEF vars, Loop
<1>5. CASE Tick
  BY <1>2, <1>5, TickLimits
<1>6. ASSUME NEW c \in Clients, Arrive(EventLoop, c) PROVE LimiterOk'
  BY <1>2, <1>6, ArriveLimits
<1>7. CASE ListExpired(EventLoop)
  BY <1>2, <1>7, ListExpiredLimits
<1>8. CASE DeleteDoomed(EventLoop)
  BY <1>2, <1>8, DeleteDoomedLimits
<1>9. CASE CapTable(EventLoop)
  BY <1>2, <1>9, CapTableLimits
<1>10. ~IterationFails(EventLoop)
  BY <1>3 DEF IterationFails
<1>11. CASE GetEntry(EventLoop)
  BY <1>2, <1>11, GetEntryLimits
<1>12. CASE LetThrough(EventLoop)
  BY <1>2, <1>12, LetThroughLimits
<1>13. CASE Refuse(EventLoop)
  BY <1>2, <1>13, RefuseLimits
<1>14. CASE ReadPage(EventLoop) \/ LoseAnswer(EventLoop)
  <2>1. /\ req' = [req EXCEPT ![EventLoop] = Idle]
        /\ UNCHANGED <<now, callers, windows, served, told>>
    BY <1>14 DEF ReadPage, LoseAnswer, limiterVars
  <2> QED
    BY <1>2, <1>3, <2>1, LoopEnds DEF Loop
<1>15. CASE \/ \E w \in Writers : \/ \E ids \in (SUBSET Ids) \ {{}} : BeginInsert(w, ids)
                                  \/ CommitInsert(w)
            \/ \E i \in DOMAIN rows : ChangeStatus(i)
            \/ \E r \in Readers : ReadList(r)
  <2>1. UNCHANGED <<now, callers, windows, served, told, req>>
    BY <1>15 DEF BeginInsert, CommitInsert, ChangeStatus, ReadList, limiterVars
  <2> QED
    BY <1>2, <1>3, <2>1, LimiterKeeps DEF Loop
<1> QED
  BY <1>2, <1>3, <1>4, <1>5, <1>6, <1>7, <1>8, <1>9, <1>10, <1>11, <1>12, <1>13, <1>14, <1>15 DEF Next

\* In no stretch of time as long as a window has an address been let through twice its
\* budget or more, whatever is deleted from the table meanwhile to keep it small, unless
\* more addresses than the table holds came about that time (_prune and take of
\* create_fixed_window_limiter).
THEOREM TwoWindowsAtMost == Spec => []BudgetHolds
<1>1. Init => LimiterInv
  BY LimiterInit
<1>2. LimiterInv /\ [Next]_vars => LimiterInv'
  BY LimiterNext
<1>3. LimiterInv => BudgetHolds
  <2>1. SUFFICES ASSUME LimiterInv, callers = Clients, NEW c \in Clients, NEW s \in 0..now,
                        Cardinality(Seen(s)) <= MaxKeys
                 PROVE  ServedFrom(c, s) < 2 * Limit
    BY DEF BudgetHolds
  <2>2. LimiterOk
    BY <2>1 DEF LimiterInv
  <2>3. s \in Nat /\ (Many(s) \/ Count(served[c], s) < 2 * Limit)
    BY <2>1, <2>2 DEF LimiterOk, TableOk
  <2>4. ~Many(s)
    <3>1. Seen(s) \subseteq Clients
      BY <2>1 DEF Seen
    <3>2. Cardinality(Seen(s)) \in Nat /\ MaxKeys \in Nat
      BY <3>1, FS_Subset, FS_CardinalityType, PublicApiAssumption
    <3> QED
      BY <2>1, <3>2 DEF Many
  <2> QED
    BY <2>3, <2>4 DEF Count, ServedFrom
<1> QED
  BY <1>1, <1>2, <1>3, PTL DEF Spec

\* An address that waits as long as Retry-After says is let through: the whole seconds it
\* is told end after its window, and nothing lengthens the window meanwhile.
THEOREM WaitingHelps == Spec => RetryAfterIsEnough
<1>1. Init => LimiterInv
  BY LimiterInit
<1>2. LimiterInv /\ [Next]_vars => LimiterInv'
  BY LimiterNext
<1>3. LimiterInv /\ [Next]_vars =>
          [\A t \in Workers :
             LET c == req[t].caller
             IN  callers = Clients /\ Refuse(t) /\ told[c] # 0 => req[t].at < told[c]]_vars
  <2>1. SUFFICES ASSUME LimiterInv, NEW t \in Workers, callers = Clients, Refuse(t),
                        told[req[t].caller] # 0
                 PROVE  req[t].at < told[req[t].caller]
    OBVIOUS
  <2>2. LimiterOk /\ t = EventLoop
    BY <2>1, PublicApiAssumption DEF LimiterInv, Workers
  <2> QED
    BY <2>1, <2>2, RefuseLimits DEF Loop
<1> QED
  BY <1>1, <1>2, <1>3, PTL DEF Spec, RetryAfterIsEnough
-----------------------------------------------------------------------------
(***************************************************************************)
(* Lists of a finite set, and the order of the export.                     *)
(***************************************************************************)
LEMMA ListsAll ==
    ASSUME NEW S, IsFiniteSet(S), NEW list \in SetToSeqs(S)
    PROVE  /\ list \in Seq(S) /\ Len(list) = Cardinality(S) /\ Len(list) \in Nat
           /\ \A m, n \in 1..Len(list) : m # n => list[m] # list[n]
           /\ \A x \in S : \E n \in 1..Len(list) : list[n] = x
<1>1. PICK k \in Nat : k = Cardinality(S)
  BY FS_CardinalityType
<1>2. list \in [1..k -> S] /\ \A m, n \in 1..k : m # n => list[m] # list[n]
  BY <1>1 DEF SetToSeqs
<1>3. list \in Seq(S) /\ Len(list) = k
  BY <1>2
<1>4. list \in Injection(1..k, S)
  BY <1>2 DEF Injection, IsInjective
<1>5. IsFiniteSet(1..k) /\ Cardinality(1..k) = k
  BY FS_Interval
<1>6. list \in Surjection(1..k, S)
  BY <1>1, <1>4, <1>5, FS_Injection
<1>7. \A x \in S : \E n \in 1..k : list[n] = x
  BY <1>6 DEF Surjection
<1> QED
  BY <1>1, <1>2, <1>3, <1>7

Rec == [created : Nat, id : Nat]

LEMMA AfterLaws ==
    ASSUME NEW a \in Rec, NEW b \in Rec
    PROVE  /\ a # Start /\ ~AfterCursor(a, a)
           /\ a # b => AfterCursor(a, b) \/ AfterCursor(b, a)
           /\ AfterCursor(a, b) => ~AfterCursor(b, a)
           /\ \A c \in Rec : AfterCursor(a, b) /\ AfterCursor(b, c) => AfterCursor(a, c)
<1>1. \A c \in Rec : c # Start /\ c.created \in Nat /\ c.id \in Nat
  BY PublicApiAssumption DEF Rec
<1>2. a = [created |-> a.created, id |-> a.id] /\ b = [created |-> b.created, id |-> b.id]
  BY DEF Rec
<1>3. a # b => a.created # b.created \/ a.id # b.id
  BY <1>2
<1> QED
  BY <1>1, <1>3 DEF AfterCursor

LEMMA FirstRecord ==
    ASSUME NEW S \in SUBSET Rec, S # {}
    PROVE  \E m \in S : \A x \in S : ~AfterCursor(m, x)
<1>1. PICK T : T = {x.created : x \in S}
  OBVIOUS
<1>2. T \in SUBSET Nat /\ T # {}
  BY <1>1 DEF Rec
<1>3. PICK c \in T : \A d \in T : c <= d
  BY <1>2, LeastNatural
<1>4. PICK U : U = {x.id : x \in {y \in S : y.created = c}}
  OBVIOUS
<1>5. U \in SUBSET Nat /\ U # {}
  BY <1>1, <1>3, <1>4 DEF Rec
<1>6. PICK i \in U : \A j \in U : i <= j
  BY <1>5, LeastNatural
<1>7. PICK m \in S : m.created = c /\ m.id = i
  BY <1>4, <1>6
<1>8. ASSUME NEW x \in S PROVE ~AfterCursor(m, x)
  <2>1. c <= x.created /\ (x.created = c => i <= x.id)
    BY <1>1, <1>3, <1>4, <1>6
  <2>2. c \in Nat /\ i \in Nat /\ x.created \in Nat /\ x.id \in Nat /\ x # Start
    BY <1>2, <1>5, AfterLaws DEF Rec
  <2> QED
    BY <1>7, <2>1, <2>2 DEF AfterCursor
<1> QED
  BY <1>8

CanBeOrdered(S) == \E list \in SetToSeqs(S) : Ordered(list)

LEMMA FirstThenRest ==
    ASSUME NEW S \in SUBSET Rec, IsFiniteSet(S), NEW m \in S, \A x \in S : ~AfterCursor(m, x),
           CanBeOrdered(S \ {m})
    PROVE  CanBeOrdered(S)
<1>1. PICK k \in Nat : k = Cardinality(S \ {m})
  BY FS_RemoveElement, FS_CardinalityType
<1>2. Cardinality(S) = k + 1
  <2>1. Cardinality(S) \in Nat
    BY FS_CardinalityType
  <2>2. Cardinality(S \ {m}) = Cardinality(S) - 1
    BY FS_RemoveElement
  <2> QED
    BY <1>1, <2>1, <2>2
<1>3. PICK rest \in SetToSeqs(S \ {m}) : Ordered(rest)
  BY DEF CanBeOrdered
<1>4. rest \in [1..k -> S \ {m}] /\ \A i, j \in 1..k : i # j => rest[i] # rest[j]
  BY <1>1, <1>3 DEF SetToSeqs
<1>5. PICK list : list = [i \in 1..(k + 1) |-> IF i = 1 THEN m ELSE rest[i - 1]]
  OBVIOUS
<1>6. \A i \in 1..(k + 1) : i # 1 => i - 1 \in 1..k
  OBVIOUS
<1>7. list \in [1..(k + 1) -> S]
  BY <1>4, <1>5, <1>6
<1>8. list[1] = m /\ \A i \in 1..(k + 1) : i # 1 => list[i] = rest[i - 1] /\ list[i] # m
  BY <1>4, <1>5, <1>6
<1>9. \A i, j \in 1..(k + 1) : i # j => list[i] # list[j]
  <2>1. ASSUME NEW i \in 1..(k + 1), NEW j \in 1..(k + 1), i # j, i # 1, j # 1
        PROVE  list[i] # list[j]
    <3>1. i - 1 \in 1..k /\ j - 1 \in 1..k /\ i - 1 # j - 1
      BY <2>1
    <3> QED
      BY <1>4, <1>8, <2>1, <3>1
  <2> QED
    BY <1>8, <2>1
<1>10. Ordered(list)
  <2>1. ASSUME NEW i \in 1..(k + 1), NEW j \in 1..(k + 1), i < j
        PROVE  ~AfterCursor(list[i], list[j])
    <3>1. CASE i = 1
      BY <1>7, <1>8, <3>1
    <3>2. CASE i # 1
      <4>1. i - 1 \in 1..k /\ j - 1 \in 1..k /\ i - 1 < j - 1 /\ j # 1
        BY <2>1, <3>2
      <4>2. ~AfterCursor(rest[i - 1], rest[j - 1])
        BY <1>3, <1>4, <4>1 DEF Ordered
      <4> QED
        BY <1>8, <3>2, <4>1, <4>2
    <3> QED
      BY <3>1, <3>2
  <2> QED
    BY <1>7, <2>1 DEF Ordered
<1>11. list \in SetToSeqs(S)
  BY <1>2, <1>7, <1>9 DEF SetToSeqs
<1> QED
  BY <1>10, <1>11 DEF CanBeOrdered

\* ORDER BY always has an answer.
LEMMA RecordsCanBeOrdered ==
    ASSUME NEW S \in SUBSET Rec, IsFiniteSet(S)
    PROVE  CanBeOrdered(S)
<1> DEFINE Bad == {n \in Nat : \E T \in SUBSET Rec :
                       IsFiniteSet(T) /\ Cardinality(T) = n /\ ~CanBeOrdered(T)}
<1>1. SUFFICES ASSUME ~CanBeOrdered(S) PROVE FALSE
  OBVIOUS
<1>2. Bad # {} /\ Bad \in SUBSET Nat
  BY <1>1, FS_CardinalityType
<1>3. PICK n \in Bad : \A k \in Bad : n <= k
  BY <1>2, LeastNatural
<1>4. PICK T \in SUBSET Rec : IsFiniteSet(T) /\ Cardinality(T) = n /\ ~CanBeOrdered(T)
  BY <1>3
<1>5. CASE T = {}
  <2>1. PICK list : list = [i \in 1..0 |-> i]
    OBVIOUS
  <2>2. Cardinality(T) = 0 /\ list \in [1..0 -> T] /\ \A i \in 1..0 : FALSE
    BY <1>5, <2>1, FS_EmptySet
  <2>3. list \in SetToSeqs(T)
    BY <2>2 DEF SetToSeqs
  <2>4. Ordered(list)
    BY <2>2 DEF Ordered
  <2> QED
    BY <1>4, <2>3, <2>4 DEF CanBeOrdered
<1>6. CASE T # {}
  <2>1. PICK m \in T : \A x \in T : ~AfterCursor(m, x)
    BY <1>6, FirstRecord
  <2>2. PICK U : U = T \ {m}
    OBVIOUS
  <2>3. IsFiniteSet(U) /\ Cardinality(U) = n - 1 /\ Cardinality(U) \in Nat
    BY <1>4, <2>2, FS_RemoveElement, FS_CardinalityType
  <2>4. n - 1 \notin Bad
    BY <1>2, <1>3
  <2>5. U \in SUBSET Rec
    BY <2>2
  <2>6. CanBeOrdered(U)
    BY <2>3, <2>4, <2>5
  <2> QED
    BY <1>4, <2>1, <2>2, <2>6, FirstThenRest
<1> QED
  BY <1>5, <1>6
-----------------------------------------------------------------------------
(***************************************************************************)
(* The rows, and the walk of a partner through them.                       *)
(***************************************************************************)
AllIds == RowIds \cup ListedIds

Row == [created : Nat, shown : BOOLEAN]

RowsOk ==
    /\ DOMAIN rows \subseteq AllIds
    /\ \A i \in DOMAIN rows : rows[i] \in Row
    /\ \A w \in DOMAIN writing :
          /\ DOMAIN writing[w] \subseteq AllIds
          /\ DOMAIN writing[w] \cap DOMAIN rows = {}
          /\ \A i \in DOMAIN writing[w] : writing[w][i] \in Row
    /\ \A v, w \in DOMAIN writing : v # w => DOMAIN writing[v] \cap DOMAIN writing[w] = {}

LEMMA IdsAreFinite == AllIds \subseteq Nat /\ IsFiniteSet(AllIds)
<1>1. RowIds \subseteq Nat /\ ListedIds \subseteq Nat /\ IsFiniteSet(RowIds) /\ IsFiniteSet(ListedIds)
  BY PublicApiAssumption
<1> QED
  BY <1>1, FS_Union DEF AllIds

LEMMA PublicIsFinite ==
    ASSUME RowsOk
    PROVE  Public \in SUBSET Rec /\ IsFiniteSet(Public)
<1>1. PICK ids : ids = {j \in DOMAIN rows : rows[j].shown}
  OBVIOUS
<1>2. ids \subseteq AllIds /\ \A i \in ids : i \in Nat /\ rows[i].created \in Nat
  BY <1>1, IdsAreFinite DEF RowsOk, Row
<1>3. IsFiniteSet(ids)
  BY <1>2, IdsAreFinite, FS_Subset
<1>4. PICK f : f = [i \in ids |-> [created |-> rows[i].created, id |-> i]]
  OBVIOUS
<1>5. Public = {f[i] : i \in ids}
  BY <1>1, <1>4 DEF Public
<1>6. f \in Surjection(ids, Public)
  BY <1>4, <1>5 DEF Surjection
<1>7. IsFiniteSet(Public)
  BY <1>3, <1>6, FS_Surjection
<1>8. Public \subseteq Rec
  BY <1>2, <1>4, <1>5 DEF Rec
<1> QED
  BY <1>7, <1>8

Ahead(cursor) == {r \in Public : AfterCursor(r, cursor)}

LEMMA FollowingIsAhead ==
    ASSUME RowsOk, NEW cursor
    PROVE  /\ Following(cursor) \in Seq(Ahead(cursor)) /\ Len(Following(cursor)) \in Nat
           /\ \A m, n \in 1..Len(Following(cursor)) :
                 m # n => Following(cursor)[m] # Following(cursor)[n]
           /\ \A m, n \in 1..Len(Following(cursor)) :
                 m < n => ~AfterCursor(Following(cursor)[m], Following(cursor)[n])
           /\ \A x \in Ahead(cursor) :
                 \E n \in 1..Len(Following(cursor)) : Following(cursor)[n] = x
<1>1. PICK S : S = Ahead(cursor)
  OBVIOUS
<1>2. S \in SUBSET Rec /\ IsFiniteSet(S)
  BY <1>1, PublicIsFinite, FS_Subset DEF Ahead
<1>3. \E list \in SetToSeqs(S) : Ordered(list)
  BY <1>2, RecordsCanBeOrdered DEF CanBeOrdered
<1>4. Following(cursor) = CHOOSE list \in SetToSeqs(S) : Ordered(list)
  BY <1>1 DEF Following, Ahead
<1>5. PICK list : list = Following(cursor)
  OBVIOUS
<1>6. list \in SetToSeqs(S) /\ Ordered(list)
  BY <1>3, <1>4, <1>5, Zenon
<1>7. /\ list \in Seq(S) /\ Len(list) \in Nat
      /\ \A m, n \in 1..Len(list) : m # n => list[m] # list[n]
      /\ \A x \in S : \E n \in 1..Len(list) : list[n] = x
  BY <1>2, <1>6, ListsAll
<1>8. \A m, n \in 1..Len(list) : m < n => ~AfterCursor(list[m], list[n])
  BY <1>6, <1>7 DEF Ordered
<1> QED
  BY <1>1, <1>5, <1>7, <1>8

\* What a page has, and what it leaves to the next.
LEMMA PageSplits ==
    ASSUME RowsOk, NEW cursor
    PROVE  /\ Page(cursor) \in Seq(Ahead(cursor))
           /\ \A m, n \in 1..Len(Page(cursor)) : m # n => Page(cursor)[m] # Page(cursor)[n]
           /\ NextCursor(cursor) # Start =>
                 /\ NextCursor(cursor) \in Ahead(cursor)
                 /\ \A n \in 1..Len(Page(cursor)) : ~AfterCursor(Page(cursor)[n], NextCursor(cursor))
           /\ \A x \in Ahead(cursor) :
                 \/ \E n \in 1..Len(Page(cursor)) : Page(cursor)[n] = x
                 \/ NextCursor(cursor) # Start /\ AfterCursor(x, NextCursor(cursor))
<1>1. PICK S : S = Ahead(cursor)
  OBVIOUS
<1>2. PICK list \in Seq(S) : list = Following(cursor)
  BY <1>1, FollowingIsAhead
<1>3. PICK l \in Nat, p \in Nat \ {0} : l = Len(list) /\ p = PageSize
  BY <1>2, PublicApiAssumption
<1>4. /\ \A m, n \in 1..l : m # n => list[m] # list[n]
      /\ \A m, n \in 1..l : m < n => ~AfterCursor(list[m], list[n])
      /\ \A x \in S : \E n \in 1..l : list[n] = x
  BY <1>1, <1>2, <1>3, FollowingIsAhead
<1>5. S \subseteq Rec /\ \A n \in 1..l : list[n] \in S
  BY <1>1, <1>2, <1>3, PublicIsFinite DEF Ahead
<1>6. HasMore(cursor) <=> l > p
  BY <1>2, <1>3 DEF HasMore
<1>7. CASE l > p
  <2>1. PICK page : page = SubSeq(list, 1, p)
    OBVIOUS
  <2>2. Page(cursor) = page
    BY <1>2, <1>3, <1>6, <1>7, <2>1 DEF Page
  <2>3. page \in Seq(S) /\ Len(page) = p /\ \A n \in 1..p : page[n] = list[n]
    BY <1>2, <1>3, <1>7, <2>1
  <2>4. PICK next : next = list[p]
    OBVIOUS
  <2>5. NextCursor(cursor) = next
    BY <1>3, <1>6, <1>7, <2>2, <2>3, <2>4 DEF NextCursor, Last
  <2>6. next \in S /\ next # Start
    BY <1>3, <1>5, <1>7, <2>4, AfterLaws
  <2>7. \A m, n \in 1..p : m # n => page[m] # page[n]
    BY <1>3, <1>4, <1>7, <2>3
  <2>8. \A n \in 1..p : ~AfterCursor(page[n], next)
    <3>1. ASSUME NEW n \in 1..p PROVE ~AfterCursor(list[n], list[p])
      <4>1. CASE n < p
        BY <1>3, <1>4, <1>7, <4>1
      <4>2. CASE n = p
        <5>1. list[p] \in Rec
          BY <1>3, <1>5, <1>7
        <5> QED
          BY <4>2, <5>1, AfterLaws
      <4> QED
        BY <4>1, <4>2
    <3> QED
      BY <2>3, <2>4, <3>1
  <2>9. ASSUME NEW x \in S, \A n \in 1..p : page[n] # x PROVE AfterCursor(x, next)
    <3>1. PICK n \in 1..l : list[n] = x
      BY <1>4
    <3>2. n > p
      BY <1>3, <2>3, <2>9, <3>1
    <3>3. ~AfterCursor(next, x) /\ next # x
      BY <1>3, <1>4, <1>7, <2>4, <3>1, <3>2
    <3> QED
      BY <1>5, <2>6, <3>3, AfterLaws
  <2> QED
    BY <1>1, <2>2, <2>3, <2>5, <2>6, <2>7, <2>8, <2>9
<1>8. CASE ~(l > p)
  <2>1. Page(cursor) = list /\ NextCursor(cursor) = Start
    BY <1>2, <1>6, <1>8 DEF Page, NextCursor
  <2> QED
    BY <1>1, <1>2, <1>3, <1>4, <2>1
<1> QED
  BY <1>7, <1>8

LEMMA StartsAreFinite ==
    ASSUME RowsOk
    PROVE  IsFiniteSet(Starts) /\ Cardinality(Starts) \in Nat
<1>1. Made \subseteq AllIds
  BY DEF RowsOk, Made
<1>2. IsFiniteSet(Made)
  BY <1>1, IdsAreFinite, FS_Subset
<1> DEFINE Writer(i) == CHOOSE w \in DOMAIN writing : i \in DOMAIN writing[w]
<1>3. ASSUME NEW w \in DOMAIN writing, NEW i \in DOMAIN writing[w]
      PROVE  Writer(i) = w /\ i \notin DOMAIN rows
  <2>1. Writer(i) \in DOMAIN writing /\ i \in DOMAIN writing[Writer(i)]
    BY Zenon
  <2> HIDE DEF Writer
  <2> QED
    BY <2>1 DEF RowsOk
<1> HIDE DEF Writer
<1>4. PICK f : f = [i \in Made |-> IF i \in DOMAIN rows THEN rows[i].created
                                   ELSE writing[Writer(i)][i].created]
  OBVIOUS
<1>5. \A i \in DOMAIN rows : i \in Made /\ f[i] = rows[i].created
  BY <1>4 DEF Made
<1>6. \A w \in DOMAIN writing : \A i \in DOMAIN writing[w] :
          i \in Made /\ f[i] = writing[w][i].created
  BY <1>3, <1>4 DEF Made
<1>7. \A i \in Made : i \in DOMAIN rows \/ \E w \in DOMAIN writing : i \in DOMAIN writing[w]
  BY DEF Made
<1>8. ASSUME NEW i \in Made PROVE f[i] \in Starts
  <2>1. CASE i \in DOMAIN rows
    BY <1>5, <2>1 DEF Starts
  <2>2. CASE i \notin DOMAIN rows
    <3>1. PICK w \in DOMAIN writing : i \in DOMAIN writing[w]
      BY <1>7, <2>2
    <3> QED
      BY <1>6, <3>1 DEF Starts
  <2> QED
    BY <2>1, <2>2
<1>9. ASSUME NEW c \in Starts PROVE \E i \in Made : f[i] = c
  <2>1. CASE c \in {rows[i].created : i \in DOMAIN rows}
    BY <1>5, <2>1
  <2>2. CASE \E w \in DOMAIN writing : c \in {writing[w][i].created : i \in DOMAIN writing[w]}
    BY <1>6, <2>2
  <2> QED
    BY <2>1, <2>2 DEF Starts
<1>10. f \in Surjection(Made, Starts)
  <2>1. f \in [Made -> Starts]
    BY <1>4, <1>8
  <2> QED
    BY <1>9, <2>1 DEF Surjection
<1>11. IsFiniteSet(Starts)
  BY <1>2, <1>10, FS_Surjection
<1> QED
  BY <1>11, FS_CardinalityType

LEMMA RowsNext ==
    ASSUME RowsOk, [Next]_vars
    PROVE  RowsOk'
<1>1. CASE UNCHANGED <<rows, writing>>
  BY <1>1 DEF RowsOk
<1>2. ASSUME NEW w \in Writers, NEW ids \in (SUBSET Ids) \ {{}}, BeginInsert(w, ids)
      PROVE  RowsOk'
  <2>1. PICK new : new = [i \in ids |-> [created |-> Cardinality(Starts), shown |-> TRUE]]
    OBVIOUS
  <2>2. writing' = Put(writing, w, new) /\ rows' = rows /\ w \notin DOMAIN writing
        /\ ids \cap Made = {}
    BY <1>2, <2>1 DEF BeginInsert
  <2>3. DOMAIN new = ids /\ ids \subseteq AllIds /\ \A i \in ids : new[i] \in Row
    BY <2>1, StartsAreFinite DEF Ids, AllIds, Row
  <2>4. ids \cap DOMAIN rows = {} /\ \A v \in DOMAIN writing : ids \cap DOMAIN writing[v] = {}
    BY <2>2 DEF Made
  <2>5. /\ DOMAIN writing' = DOMAIN writing \cup {w} /\ writing'[w] = new
        /\ \A v \in DOMAIN writing : v # w /\ writing'[v] = writing[v]
    BY <2>2 DEF Put
  <2>6. ASSUME NEW v \in DOMAIN writing'
        PROVE  /\ DOMAIN writing'[v] \subseteq AllIds
               /\ DOMAIN writing'[v] \cap DOMAIN rows = {}
               /\ \A i \in DOMAIN writing'[v] : writing'[v][i] \in Row
    BY <2>3, <2>4, <2>5 DEF RowsOk
  <2>7. ASSUME NEW u \in DOMAIN writing', NEW v \in DOMAIN writing', u # v
        PROVE  DOMAIN writing'[u] \cap DOMAIN writing'[v] = {}
    <3>1. CASE u = w
      BY <2>3, <2>4, <2>5, <2>7, <3>1
    <3>2. CASE v = w
      BY <2>3, <2>4, <2>5, <2>7, <3>2
    <3>3. CASE u # w /\ v # w
      BY <2>5, <2>7, <3>3 DEF RowsOk
    <3> QED
      BY <3>1, <3>2, <3>3
  <2> QED
    BY <2>2, <2>6, <2>7 DEF RowsOk
<1>3. ASSUME NEW w \in Writers, CommitInsert(w) PROVE RowsOk'
  <2>1. /\ w \in DOMAIN writing /\ writing' = Drop(writing, w)
        /\ DOMAIN rows' = DOMAIN rows \cup DOMAIN writing[w]
        /\ \A i \in DOMAIN rows' : rows'[i] = IF i \in DOMAIN rows THEN rows[i] ELSE writing[w][i]
    BY <1>3 DEF CommitInsert
  <2>2. /\ DOMAIN writing' = DOMAIN writing \ {w}
        /\ \A v \in DOMAIN writing' : v # w /\ writing'[v] = writing[v]
    BY <2>1 DEF Drop
  <2>3. DOMAIN rows' \subseteq AllIds /\ \A i \in DOMAIN rows' : rows'[i] \in Row
    BY <2>1 DEF RowsOk
  <2>4. ASSUME NEW v \in DOMAIN writing'
        PROVE  /\ DOMAIN writing'[v] \subseteq AllIds
               /\ DOMAIN writing'[v] \cap DOMAIN rows' = {}
               /\ \A i \in DOMAIN writing'[v] : writing'[v][i] \in Row
    BY <2>1, <2>2 DEF RowsOk
  <2>5. ASSUME NEW u \in DOMAIN writing', NEW v \in DOMAIN writing', u # v
        PROVE  DOMAIN writing'[u] \cap DOMAIN writing'[v] = {}
    BY <2>2, <2>5 DEF RowsOk
  <2> QED
    BY <2>3, <2>4, <2>5 DEF RowsOk
<1>4. ASSUME NEW i \in DOMAIN rows, ChangeStatus(i) PROVE RowsOk'
  <2>1. rows' = [rows EXCEPT ![i].shown = ~@] /\ writing' = writing
    BY <1>4 DEF ChangeStatus
  <2>2. DOMAIN rows' = DOMAIN rows /\ \A j \in DOMAIN rows : rows'[j] \in Row
    BY <2>1 DEF RowsOk, Row
  <2> QED
    BY <2>1, <2>2 DEF RowsOk
<1> QED
  BY <1>1, <1>2, <1>3, <1>4
  DEF Next, vars, Tick, Arrive, ListExpired, DeleteDoomed, CapTable, IterationFails, GetEntry,
      LetThrough, Refuse, ReadPage, LoseAnswer, ReadList, exportVars

\* Only a status change hides a row, and none changes its place in the order.
LEMMA PublicStays ==
    ASSUME RowsOk, [Next]_vars
    PROVE  \A r \in Public : r \in Public' \/ \E i \in DOMAIN rows : r.id = i /\ ChangeStatus(i)
<1>1. ASSUME NEW r \in Public, NEW i \in DOMAIN rows, rows[i].shown,
             r = [created |-> rows[i].created, id |-> i],
             i \in DOMAIN rows', rows'[i] = rows[i]
      PROVE  r \in Public'
  BY <1>1 DEF Public
<1>2. SUFFICES ASSUME NEW r \in Public
      PROVE  r \in Public' \/ \E i \in DOMAIN rows : r.id = i /\ ChangeStatus(i)
  OBVIOUS
<1>3. PICK i \in DOMAIN rows : rows[i].shown /\ r = [created |-> rows[i].created, id |-> i]
  BY DEF Public
<1>4. CASE UNCHANGED rows
  BY <1>1, <1>3, <1>4
<1>5. ASSUME NEW w \in Writers, CommitInsert(w) PROVE r \in Public'
  <2>1. i \in DOMAIN rows' /\ rows'[i] = rows[i]
    BY <1>3, <1>5 DEF CommitInsert
  <2> QED
    BY <1>1, <1>3, <2>1
<1>6. ASSUME NEW j \in DOMAIN rows, ChangeStatus(j)
      PROVE  r \in Public' \/ \E k \in DOMAIN rows : r.id = k /\ ChangeStatus(k)
  <2>1. CASE j = i
    BY <1>3, <1>6, <2>1
  <2>2. CASE j # i
    <3>1. i \in DOMAIN rows' /\ rows'[i] = rows[i]
      BY <1>3, <1>6, <2>2 DEF ChangeStatus
    <3> QED
      BY <1>1, <1>3, <3>1
  <2> QED
    BY <2>1, <2>2
<1> QED
  BY <1>4, <1>5, <1>6
  DEF Next, vars, Tick, Arrive, ListExpired, DeleteDoomed, CapTable, IterationFails, GetEntry,
      LetThrough, Refuse, ReadPage, LoseAnswer, ReadList, exportVars, BeginInsert

\* The walk w of a partner: what it has got lies before its cursor, and what was there
\* all the time is got or lies behind it.
Walk == [begun : BOOLEAN, ended : BOOLEAN, cursor : {Start} \cup Rec, got : Seq(Rec),
         there : SUBSET Rec]

Distinct(f) == \A m, n \in 1..Len(f) : m # n => f[m] # f[n]

Got(w, x) == \E n \in 1..Len(w.got) : w.got[n] = x

WalkOk(w) ==
    /\ w \in Walk
    /\ Distinct(w.got)
    /\ w.there \subseteq Public
    /\ ~w.begun => Len(w.got) = 0 /\ w.cursor = Start /\ w.there = {}
    /\ w.begun /\ ~w.ended => w.cursor # Start
    /\ w.cursor # Start => \A n \in 1..Len(w.got) : ~AfterCursor(w.got[n], w.cursor)
    /\ \A x \in w.there : \/ Got(w, x)
                          \/ ~w.ended /\ w.cursor # Start /\ AfterCursor(x, w.cursor)

\* Only a partner's request reads a page.
AsksAsPartner(r) ==
    r = Idle \/ ({"step", "caller"} \subseteq DOMAIN r /\ (r.step = "page" => r.caller \in Partners))

WalkInv ==
    /\ RowsOk
    /\ DOMAIN req = Threads \cup {EventLoop}
    /\ \A t \in DOMAIN req : AsksAsPartner(req[t])
    /\ DOMAIN walk = Partners \cup Readers
    /\ \A p \in Partners : WalkOk(walk[p])

LEMMA RequestsNext ==
    ASSUME DOMAIN req = Threads \cup {EventLoop}, \A t \in DOMAIN req : AsksAsPartner(req[t]),
           [Next]_vars
    PROVE  DOMAIN req' = DOMAIN req /\ \A t \in DOMAIN req : AsksAsPartner(req'[t])
<1>1. CASE UNCHANGED req
  BY <1>1
<1>2. ASSUME NEW t \in DOMAIN req, NEW r, AsksAsPartner(r), req' = [req EXCEPT ![t] = r]
      PROVE  DOMAIN req' = DOMAIN req /\ \A u \in DOMAIN req : AsksAsPartner(req'[u])
  BY <1>2
<1>3. Workers \subseteq DOMAIN req
  BY DEF Workers
<1>4. AsksAsPartner(Idle)
  BY DEF AsksAsPartner
<1>5. ASSUME NEW t \in Workers, NEW c \in callers, Arrive(t, c)
      PROVE  \E r : AsksAsPartner(r) /\ req' = [req EXCEPT ![t] = r]
  <2>1. PICK r : r = [step |-> "expire", caller |-> c, at |-> now, doomed |-> {},
                      seen |-> NoEntry,
                      cursor |-> IF c \in Partners THEN walk[c].cursor ELSE Start]
    OBVIOUS
  <2>2. AsksAsPartner(r)
    BY <2>1 DEF AsksAsPartner
  <2>3. req' = [req EXCEPT ![t] = r]
    BY <1>5, <2>1 DEF Arrive
  <2> QED
    BY <2>2, <2>3
<1>6. ASSUME NEW t \in Workers, ListExpired(t)
      PROVE  \E r : AsksAsPartner(r) /\ req' = [req EXCEPT ![t] = r]
  <2>1. PICK r : r = [req[t] EXCEPT !.step = "prune",
                        !.doomed = {c \in DOMAIN windows : Ends(windows[c], req[t].at)}]
    OBVIOUS
  <2>2. req[t].step = "expire" /\ AsksAsPartner(req[t]) /\ req[t] # Idle
    BY <1>3, <1>6 DEF ListExpired, Idle
  <2>3. AsksAsPartner(r)
    BY <2>1, <2>2 DEF AsksAsPartner
  <2>4. req' = [req EXCEPT ![t] = r]
    BY <1>6, <2>1 DEF ListExpired
  <2> QED
    BY <2>3, <2>4
<1>7. ASSUME NEW t \in Workers, DeleteDoomed(t)
      PROVE  \E r : AsksAsPartner(r) /\ req' = [req EXCEPT ![t] = r]
  <2>1. PICK c : req' = [req EXCEPT ![t] = IF c \in DOMAIN windows
                                           THEN [req[t] EXCEPT !.doomed = @ \ {c}] ELSE Idle]
    BY <1>7 DEF DeleteDoomed
  <2>2. PICK r : r = [req[t] EXCEPT !.doomed = @ \ {c}]
    OBVIOUS
  <2>3. req[t].step = "prune" /\ AsksAsPartner(req[t]) /\ req[t] # Idle
    BY <1>3, <1>7 DEF DeleteDoomed, Idle
  <2>4. AsksAsPartner(r)
    BY <2>2, <2>3 DEF AsksAsPartner
  <2> QED
    BY <1>4, <2>1, <2>2, <2>4
<1>8. ASSUME NEW t \in Workers, CapTable(t)
      PROVE  \E r : AsksAsPartner(r) /\ req' = [req EXCEPT ![t] = r]
  <2>1. req[t].step = "prune" /\ AsksAsPartner(req[t]) /\ req[t] # Idle
    BY <1>3, <1>8 DEF CapTable, Idle
  <2>2. CASE Overfull
    <3>1. PICK c : req' = [req EXCEPT ![t].doomed = {c}]
      BY <1>8, <2>2 DEF CapTable
    <3>2. PICK r : r = [req[t] EXCEPT !.doomed = {c}]
      OBVIOUS
    <3>3. AsksAsPartner(r)
      BY <2>1, <3>2 DEF AsksAsPartner
    <3> QED
      BY <3>1, <3>2, <3>3
  <2>3. CASE ~Overfull
    <3>1. PICK r : r = [req[t] EXCEPT !.step = "get"]
      OBVIOUS
    <3>2. AsksAsPartner(r)
      BY <2>1, <3>1 DEF AsksAsPartner
    <3> QED
      BY <1>8, <2>3, <3>1, <3>2 DEF CapTable
  <2> QED
    BY <2>2, <2>3
<1>9. ASSUME NEW t \in Workers, GetEntry(t)
      PROVE  \E r : AsksAsPartner(r) /\ req' = [req EXCEPT ![t] = r]
  <2>1. PICK r : r = [req[t] EXCEPT !.step = "put",
                        !.seen = IF req[t].caller \in DOMAIN windows
                                 THEN windows[req[t].caller] ELSE NoEntry]
    OBVIOUS
  <2>2. req[t].step = "get" /\ AsksAsPartner(req[t]) /\ req[t] # Idle
    BY <1>3, <1>9 DEF GetEntry, Idle
  <2>3. AsksAsPartner(r)
    BY <2>1, <2>2 DEF AsksAsPartner
  <2>4. req' = [req EXCEPT ![t] = r]
    BY <1>9, <2>1 DEF GetEntry
  <2> QED
    BY <2>3, <2>4
<1>10. ASSUME NEW t \in Workers, LetThrough(t)
       PROVE  \E r : AsksAsPartner(r) /\ req' = [req EXCEPT ![t] = r]
  <2>1. req[t].step = "put" /\ AsksAsPartner(req[t]) /\ req[t] # Idle
    BY <1>3, <1>10 DEF LetThrough, Idle
  <2>2. CASE req[t].caller \in Partners
    <3>1. PICK r : r = [req[t] EXCEPT !.step = "page"]
      OBVIOUS
    <3>2. AsksAsPartner(r)
      BY <2>1, <2>2, <3>1 DEF AsksAsPartner
    <3>3. req' = [req EXCEPT ![t] = r]
      BY <1>10, <2>2, <3>1 DEF LetThrough
    <3> QED
      BY <3>2, <3>3
  <2>3. CASE req[t].caller \notin Partners
    BY <1>4, <1>10, <2>3 DEF LetThrough
  <2> QED
    BY <2>2, <2>3
<1>11. ASSUME NEW t \in Workers, IterationFails(t) \/ Refuse(t) \/ ReadPage(t) \/ LoseAnswer(t)
       PROVE  \E r : AsksAsPartner(r) /\ req' = [req EXCEPT ![t] = r]
  BY <1>4, <1>11 DEF IterationFails, Refuse, ReadPage, LoseAnswer
<1>12. CASE \E t \in Workers : \E r : AsksAsPartner(r) /\ req' = [req EXCEPT ![t] = r]
  BY <1>2, <1>3, <1>12
<1> QED
  BY <1>1, <1>5, <1>6, <1>7, <1>8, <1>9, <1>10, <1>11, <1>12
  DEF Next, vars, Tick, BeginInsert, CommitInsert, ChangeStatus, ReadList

\* The walk goes on for a page.
LEMMA PageOk ==
    ASSUME RowsOk, NEW w, WalkOk(w), ~w.ended, Public' = Public, NEW w1,
           w1 = [begun |-> TRUE, ended |-> NextCursor(w.cursor) = Start,
                 cursor |-> NextCursor(w.cursor), got |-> w.got \o Page(w.cursor),
                 there |-> IF w.begun THEN w.there ELSE Public]
    PROVE  WalkOk(w1)'
<1>1. PICK c : c = w.cursor
  OBVIOUS
<1>2. PICK S : S = Ahead(c)
  OBVIOUS
<1>3. Public \in SUBSET Rec /\ S \subseteq Public /\ S \subseteq Rec
  BY <1>2, PublicIsFinite DEF Ahead
<1>4. PICK got \in Seq(Rec) : got = w.got
  BY DEF WalkOk, Walk
<1>5. PICK page \in Seq(S) : page = Page(c)
  BY <1>2, PageSplits
<1>6. PICK next : next = NextCursor(c)
  OBVIOUS
<1>7. /\ \A m, n \in 1..Len(page) : m # n => page[m] # page[n]
      /\ next # Start => next \in S /\ \A n \in 1..Len(page) : ~AfterCursor(page[n], next)
      /\ \A x \in S : \/ \E n \in 1..Len(page) : page[n] = x
                      \/ next # Start /\ AfterCursor(x, next)
  BY <1>2, <1>5, <1>6, PageSplits
<1>8. PICK l \in Nat, k \in Nat : l = Len(got) /\ k = Len(page)
  BY <1>4, <1>5
<1>9. PICK all : all = got \o page
  OBVIOUS
<1>10. /\ all \in Seq(Rec) /\ Len(all) = l + k
       /\ \A n \in 1..l : all[n] = got[n]
       /\ \A n \in 1..(l + k) : n > l => all[n] = page[n - l] /\ n - l \in 1..k
  <2>1. page \in Seq(Rec)
    BY <1>3, <1>5
  <2> QED
    BY <1>4, <1>8, <1>9, <2>1
<1>11. /\ w1.begun = TRUE /\ w1.ended = (next = Start) /\ w1.cursor = next /\ w1.got = all
       /\ w1.there = IF w.begun THEN w.there ELSE Public
  BY <1>1, <1>4, <1>5, <1>6, <1>9
<1>12. /\ \A m, n \in 1..l : m # n => got[m] # got[n]
       /\ ~w.begun => l = 0 /\ c = Start
       /\ w.begun => c # Start
       /\ c # Start => \A n \in 1..l : ~AfterCursor(got[n], c)
       /\ w.there \subseteq Public
       /\ \A x \in w.there : (\E n \in 1..l : got[n] = x) \/ (c # Start /\ AfterCursor(x, c))
  BY <1>1, <1>4, <1>8 DEF WalkOk, Got, Distinct
<1>13. c # Start => c \in Rec
  BY <1>1 DEF WalkOk, Walk
<1>14. \A n \in 1..l : got[n] \in Rec /\ c # Start
  BY <1>4, <1>8, <1>12
<1>15. \A n \in 1..k : page[n] \in S /\ page[n] \in Rec /\ AfterCursor(page[n], c)
  BY <1>2, <1>3, <1>5, <1>8 DEF Ahead
<1>16. w1 \in Walk
  <2>1. next \in {Start} \cup Rec
    BY <1>3, <1>7
  <2>2. w1.there \in SUBSET Rec
    BY <1>3, <1>11, <1>12
  <2>3. w1 = [begun |-> TRUE, ended |-> (next = Start), cursor |-> next, got |-> all,
              there |-> w1.there]
    BY <1>1, <1>4, <1>5, <1>6, <1>9, <1>11
  <2> QED
    BY <1>10, <2>1, <2>2, <2>3 DEF Walk
<1>17. ASSUME NEW m \in 1..(l + k), NEW n \in 1..(l + k), m < n PROVE all[m] # all[n]
  <2>1. CASE n <= l
    <3>1. m \in 1..l /\ n \in 1..l
      BY <1>17, <2>1
    <3> QED
      BY <1>10, <1>12, <1>17, <3>1
  <2>2. CASE m > l
    <3>1. n > l
      BY <1>17, <2>2
    <3>2. m - l \in 1..k /\ n - l \in 1..k /\ m - l # n - l
      BY <1>10, <1>17, <2>2, <3>1
    <3>3. page[m - l] # page[n - l]
      BY <1>7, <1>8, <3>2
    <3> QED
      BY <1>10, <2>2, <3>1, <3>3
  <2>3. CASE m <= l /\ n > l
    <3>1. m \in 1..l /\ n - l \in 1..k /\ all[m] = got[m] /\ all[n] = page[n - l]
      BY <1>10, <2>3
    <3>2. ~AfterCursor(got[m], c) /\ AfterCursor(page[n - l], c)
      BY <1>12, <1>14, <1>15, <3>1
    <3> QED
      BY <3>1, <3>2
  <2> QED
    BY <2>1, <2>2, <2>3
<1>18. \A m, n \in 1..(l + k) : m # n => all[m] # all[n]
  BY <1>17
<1>19. w1.there \subseteq Public
  BY <1>11, <1>12
<1>20. ASSUME next # Start, NEW n \in 1..(l + k) PROVE ~AfterCursor(all[n], next)
  <2>1. next \in S /\ next \in Rec
    BY <1>3, <1>7, <1>20
  <2>2. CASE n <= l
    <3>1. n \in 1..l /\ all[n] = got[n] /\ got[n] \in Rec /\ c # Start /\ c \in Rec
      BY <1>10, <1>13, <1>14, <2>2
    <3>2. AfterCursor(next, c) /\ ~AfterCursor(got[n], c)
      BY <1>2, <1>12, <2>1, <3>1 DEF Ahead
    <3> QED
      BY <2>1, <3>1, <3>2, AfterLaws
  <2>3. CASE n > l
    <3>1. n - l \in 1..k /\ all[n] = page[n - l]
      BY <1>10, <2>3
    <3> QED
      BY <1>7, <1>8, <1>20, <3>1
  <2> QED
    BY <2>2, <2>3
<1>21. ASSUME NEW x \in w1.there
       PROVE  (\E n \in 1..(l + k) : all[n] = x) \/ (next # Start /\ AfterCursor(x, next))
  <2>1. (\E n \in 1..l : got[n] = x) \/ x \in S
    <3>1. CASE w.begun
      BY <1>2, <1>11, <1>12, <3>1 DEF Ahead
    <3>2. CASE ~w.begun
      <4>1. AfterCursor(x, c)
        BY <1>12, <3>2 DEF AfterCursor
      <4> QED
        BY <1>2, <1>11, <3>2, <4>1 DEF Ahead
    <3> QED
      BY <3>1, <3>2
  <2>2. CASE \E n \in 1..l : got[n] = x
    BY <1>10, <2>2
  <2>3. CASE \E n \in 1..k : page[n] = x
    <3>1. PICK n \in 1..k : page[n] = x
      BY <2>3
    <3>2. n + l \in 1..(l + k) /\ n + l > l /\ (n + l) - l = n
      OBVIOUS
    <3>3. all[n + l] = x
      BY <1>10, <3>1, <3>2
    <3> QED
      BY <3>2, <3>3
  <2> QED
    BY <1>7, <1>8, <2>1, <2>2, <2>3
<1> QED
  <2>1. Len(all) = l + k
    BY <1>10
  <2> HIDE DEF Walk
  <2>3. w1.ended <=> next = Start
    BY <1>11
  <2>4. \A x \in w1.there : Got(w1, x) \/ (~w1.ended /\ w1.cursor # Start /\ AfterCursor(x, w1.cursor))
    BY <1>11, <1>21, <2>1, <2>3 DEF Got
  <2>5. w1.cursor # Start => \A n \in 1..Len(w1.got) : ~AfterCursor(w1.got[n], w1.cursor)
    BY <1>11, <1>20, <2>1
  <2>2. WalkOk(w1)
    <3>3. w1.got = all
      BY <1>11
    <3>4. Distinct(all)
      BY <1>18, <2>1 DEF Distinct
    <3>1. Distinct(w1.got)
      BY <3>3, <3>4
    <3>2. w1.begun /\ (w1.begun /\ ~w1.ended => w1.cursor # Start)
      BY <1>11, <2>3
    <3> QED
      BY <1>16, <1>19, <2>4, <2>5, <3>1, <3>2 DEF WalkOk
  <2> QED
    BY <2>2 DEF WalkOk

\* A row that is hidden meanwhile was not there all the time.
LEMMA HiddenOk ==
    ASSUME RowsOk, [Next]_vars, NEW i \in DOMAIN rows, ChangeStatus(i), NEW w, WalkOk(w),
           NEW w1, w1 = [w EXCEPT !.there = {r \in @ : r.id # i}]
    PROVE  WalkOk(w1)'
<1>1. /\ w1 \in Walk /\ w1.begun = w.begun /\ w1.ended = w.ended /\ w1.cursor = w.cursor
      /\ w1.got = w.got /\ w1.there = {r \in w.there : r.id # i}
  BY DEF WalkOk, Walk
<1>2. ASSUME NEW r \in w1.there PROVE r \in Public'
  <2>1. r \in Public /\ r.id # i
    BY <1>1 DEF WalkOk
  <2>2. PICK j \in DOMAIN rows : rows[j].shown /\ r = [created |-> rows[j].created, id |-> j]
    BY <2>1 DEF Public
  <2>3. j # i
    BY <2>1, <2>2
  <2>4. j \in DOMAIN rows' /\ rows'[j] = rows[j]
    BY <2>2, <2>3 DEF ChangeStatus
  <2> QED
    BY <2>2, <2>4 DEF Public
<1>3. \A x \in w1.there : Got(w1, x) <=> Got(w, x)
  BY <1>1 DEF Got
<1> HIDE DEF Walk, Public
<1>4. ~w1.begun => Len(w1.got) = 0 /\ w1.cursor = Start /\ w1.there = {}
  BY <1>1 DEF WalkOk
<1>5. \A x \in w1.there : \/ Got(w1, x)
                          \/ ~w1.ended /\ w1.cursor # Start /\ AfterCursor(x, w1.cursor)
  BY <1>1, <1>3 DEF WalkOk
<1> QED
  BY <1>1, <1>2, <1>4, <1>5 DEF WalkOk, Got

LEMMA WalkStays ==
    ASSUME NEW w, WalkOk(w), w.there \subseteq Public'
    PROVE  WalkOk(w)'
BY DEF WalkOk, Got

LEMMA WalkInit ==
    ASSUME Init
    PROVE  WalkInv
<1>1. RowsOk
  BY DEF Init, RowsOk, Nothing
<1>2. DOMAIN req = Threads \cup {EventLoop} /\ \A t \in DOMAIN req : AsksAsPartner(req[t])
  BY DEF Init, AsksAsPartner
<1>3. WalkOk(NotBegun)
  <2>1. NotBegun \in Walk /\ NotBegun.got = <<>>
    BY DEF NotBegun, Walk
  <2> QED
    BY <2>1 DEF WalkOk, NotBegun, Distinct
<1> QED
  BY <1>1, <1>2, <1>3 DEF Init, WalkInv

LEMMA WalkNext ==
    ASSUME WalkInv, [Next]_vars
    PROVE  WalkInv'
<1>1. RowsOk /\ RowsOk' /\ DOMAIN walk = Partners \cup Readers
      /\ \A p \in Partners : WalkOk(walk[p])
  BY RowsNext DEF WalkInv
<1>2. DOMAIN req' = Threads \cup {EventLoop} /\ \A t \in DOMAIN req' : AsksAsPartner(req'[t])
  BY RequestsNext DEF WalkInv
<1>3. SUFFICES DOMAIN walk' = Partners \cup Readers /\ \A p \in Partners : WalkOk(walk[p])'
  BY <1>1, <1>2 DEF WalkInv
<1>4. ASSUME \A i \in DOMAIN rows : ~ChangeStatus(i), NEW p \in Partners
      PROVE  WalkOk(walk[p]) /\ walk[p].there \subseteq Public'
  BY <1>1, <1>4, PublicStays DEF WalkOk
<1>5. ASSUME UNCHANGED walk, \A i \in DOMAIN rows : ~ChangeStatus(i)
      PROVE  DOMAIN walk' = Partners \cup Readers /\ \A p \in Partners : WalkOk(walk[p])'
  <2>1. ASSUME NEW p \in Partners PROVE WalkOk(walk[p])'
    <3>1. PICK w : w = walk[p]
      OBVIOUS
    <3>2. WalkOk(w)'
      BY <1>4, <1>5, <3>1, WalkStays
    <3> QED
      BY <1>5, <3>1, <3>2
  <2> QED
    BY <1>1, <1>5, <2>1
<1>6. ASSUME NEW i \in DOMAIN rows, ChangeStatus(i)
      PROVE  DOMAIN walk' = Partners \cup Readers /\ \A p \in Partners : WalkOk(walk[p])'
  <2>1. DOMAIN walk' = Partners \cup Readers
        /\ \A p \in Partners : walk'[p] = [walk[p] EXCEPT !.there = {r \in @ : r.id # i}]
    BY <1>1, <1>6 DEF ChangeStatus
  <2> QED
    BY <1>1, <1>6, <2>1, HiddenOk
<1>7. ASSUME NEW t \in Workers, ReadPage(t), ~UNCHANGED walk
      PROVE  DOMAIN walk' = Partners \cup Readers /\ \A p \in Partners : WalkOk(walk[p])'
  <2>1. PICK p : p = req[t].caller
    OBVIOUS
  <2>2. p \in Partners
    <3>1. t \in DOMAIN req /\ req[t].step = "page"
      BY <1>7 DEF Workers, WalkInv, ReadPage
    <3> QED
      BY <2>1, <3>1 DEF WalkInv, AsksAsPartner, Idle
  <2>3. PICK w : w = walk[p]
    OBVIOUS
  <2>4. ~w.ended /\ w.cursor = req[t].cursor
    BY <1>7, <2>1, <2>3 DEF ReadPage
  <2>5. PICK w1 : w1 = [begun |-> TRUE, ended |-> NextCursor(w.cursor) = Start,
                        cursor |-> NextCursor(w.cursor), got |-> w.got \o Page(w.cursor),
                        there |-> IF w.begun THEN w.there ELSE Public]
    OBVIOUS
  <2>6. walk' = [walk EXCEPT ![p] = w1] /\ Public' = Public
    BY <1>7, <2>1, <2>3, <2>4, <2>5 DEF ReadPage, Public
  <2>7. WalkOk(w) /\ WalkOk(w1)'
    BY <1>1, <2>2, <2>3, <2>4, <2>5, <2>6, PageOk
  <2>8. ASSUME NEW q \in Partners PROVE WalkOk(walk[q])'
    <3>1. CASE q = p
      BY <1>1, <2>2, <2>6, <2>7, <3>1
    <3>2. CASE q # p
      <4>1. PICK v : v = walk[q]
        OBVIOUS
      <4>2. WalkOk(v) /\ walk'[q] = v
        BY <1>1, <2>6, <3>2, <4>1
      <4>3. v.there \subseteq Public'
        BY <2>6, <4>2 DEF WalkOk
      <4>4. WalkOk(v)'
        BY <4>2, <4>3, WalkStays
      <4> QED
        BY <4>2, <4>4
    <3> QED
      BY <3>1, <3>2
  <2> QED
    BY <1>1, <2>6, <2>8
<1>8. ASSUME NEW r \in Readers, ReadList(r)
      PROVE  DOMAIN walk' = Partners \cup Readers /\ \A p \in Partners : WalkOk(walk[p])'
  <2>1. Partners \cap Readers = {}
    BY PublicApiAssumption
  <2>2. /\ DOMAIN walk' = Partners \cup Readers /\ rows' = rows
        /\ \A p \in Partners : walk'[p] = walk[p]
    BY <1>1, <1>8, <2>1 DEF ReadList
  <2>3. Public' = Public
    BY <2>2 DEF Public
  <2>4. ASSUME NEW q \in Partners PROVE WalkOk(walk[q])'
    <3>1. PICK v : v = walk[q]
      OBVIOUS
    <3>2. WalkOk(v) /\ walk'[q] = v
      BY <1>1, <2>2, <3>1
    <3>3. v.there \subseteq Public'
      BY <2>3, <3>2 DEF WalkOk
    <3>4. WalkOk(v)'
      BY <3>2, <3>3, WalkStays
    <3> QED
      BY <3>2, <3>4
  <2> QED
    BY <2>2, <2>4
<1> QED
  BY <1>5, <1>6, <1>7, <1>8
  DEF Next, vars, Tick, Arrive, ListExpired, DeleteDoomed, CapTable, IterationFails, GetEntry,
      LetThrough, Refuse, LoseAnswer, BeginInsert, CommitInsert, exportVars

\* A partner that follows the cursor to its end has got each row once, and none of those is
\* missing that were public from its first page on, whatever is committed and hidden between
\* its pages and whichever answers are lost (_keyset_clause and _page of the export).
THEOREM CursorMissesNothing == Spec => []WalkIsExact
<1>1. Init => WalkInv
  BY WalkInit
<1>2. WalkInv /\ [Next]_vars => WalkInv'
  BY WalkNext
<1>3. WalkInv => WalkIsExact
  <2>1. SUFFICES ASSUME NEW p \in Partners, WalkOk(walk[p])
                 PROVE  /\ walk[p].ended => walk[p].there \subseteq ToSet(walk[p].got)
                        /\ IsInjective(walk[p].got)
    BY DEF WalkInv, WalkIsExact
  <2>2. PICK w : w = walk[p]
    OBVIOUS
  <2>3. PICK got \in Seq(Rec) : got = w.got
    BY <2>1, <2>2 DEF WalkOk, Walk
  <2>4. DOMAIN got = 1..Len(got)
    BY <2>3
  <2>5. IsInjective(got)
    BY <2>1, <2>2, <2>3, <2>4 DEF WalkOk, IsInjective, Distinct
  <2>6. w.ended => \A x \in w.there : x \in ToSet(got)
    BY <2>1, <2>2, <2>3, <2>4 DEF WalkOk, Got, ToSet
  <2> QED
    BY <2>2, <2>3, <2>5, <2>6
<1> QED
  BY <1>1, <1>2, <1>3, PTL DEF Spec
-----------------------------------------------------------------------------
(***************************************************************************)
(* The lists: rows of one creation time lie side by side in any of them.   *)
(***************************************************************************)
LEMMA DownClosed ==
    ASSUME NEW N \in Nat, NEW D \in SUBSET (1..N), \A m, n \in 1..N : m < n /\ n \in D => m \in D
    PROVE  Cardinality(D) \in 0..N /\ D = 1..Cardinality(D)
<1>1. PICK U : U = {n \in Nat : n >= 1 /\ n \notin D}
  OBVIOUS
<1>2. U \in SUBSET Nat /\ N + 1 \in U
  BY <1>1
<1>3. PICK a \in U : \A m \in U : a <= m
  BY <1>2, LeastNatural
<1>4. PICK d \in Nat : a = d + 1 /\ d <= N
  BY <1>1, <1>2, <1>3
<1>5. \A n \in 1..d : n \in D
  BY <1>1, <1>3, <1>4
<1>6. ASSUME NEW n \in D PROVE n \in 1..d
  <2>1. a \notin D /\ n \in 1..N
    BY <1>1, <1>3
  <2>2. n # a
    BY <2>1
  <2>3. ~(a < n)
    <3>1. a < n => a \in 1..N
      BY <1>4, <2>1
    <3> QED
      BY <2>1, <3>1
  <2> QED
    BY <1>4, <2>1, <2>2, <2>3
<1>7. D = 1..d
  BY <1>5, <1>6
<1>8. Cardinality(1..d) = d
  BY FS_Interval
<1> QED
  BY <1>4, <1>7, <1>8

\* Where the rows up to a time stand.
LEMMA InOrderPrefix ==
    ASSUME NEW S \in SUBSET Rec, IsFiniteSet(S), NEW list \in SetToSeqs(S), InOrder(list),
           NEW T \in SUBSET S, \A x, y \in S : y \in T /\ x.created <= y.created => x \in T
    PROVE  /\ Cardinality(T) \in 0..Len(list)
           /\ \A n \in 1..Len(list) : list[n] \in T <=> n <= Cardinality(T)
<1>1. /\ list \in Seq(S) /\ Len(list) \in Nat
      /\ \A m, n \in 1..Len(list) : m # n => list[m] # list[n]
      /\ \A x \in S : \E n \in 1..Len(list) : list[n] = x
  BY ListsAll
<1>2. PICK N \in Nat : N = Len(list)
  BY <1>1
<1>3. PICK D : D = {n \in 1..N : list[n] \in T}
  OBVIOUS
<1>4. \A m, n \in 1..N : m < n /\ n \in D => m \in D
  <2>1. \A m \in 1..N : list[m] \in S
    BY <1>1, <1>2
  <2> QED
    BY <1>2, <1>3, <2>1 DEF InOrder
<1>5. Cardinality(D) \in 0..N /\ D = 1..Cardinality(D)
  BY <1>3, <1>4, DownClosed
<1>6. PICK f : f = [n \in D |-> list[n]]
  OBVIOUS
<1>7. f \in Bijection(D, T)
  <2>1. f \in [D -> T] /\ \A m, n \in D : f[m] = f[n] => m = n
    BY <1>1, <1>2, <1>3, <1>6
  <2>2. \A x \in T : \E n \in D : f[n] = x
    BY <1>1, <1>2, <1>3, <1>6
  <2> QED
    BY <2>1, <2>2 DEF Bijection, Injection, Surjection, IsInjective
<1>8. IsFiniteSet(D)
  BY <1>3, SmallSet
<1>9. Cardinality(T) = Cardinality(D)
  BY <1>7, <1>8, FS_Bijection DEF ExistsBijection
<1>10. \A n \in 1..N : list[n] \in T <=> n \in 1..Cardinality(D)
  BY <1>3, <1>5
<1> QED
  BY <1>2, <1>5, <1>9, <1>10

Class(S, c) == {x \in S : x.created = c}
Sooner(S, c) == {x \in S : x.created < c}

LEMMA ClassPlaces ==
    ASSUME NEW S \in SUBSET Rec, IsFiniteSet(S), NEW list \in SetToSeqs(S), InOrder(list),
           NEW c \in Nat
    PROVE  /\ Cardinality(Sooner(S, c)) \in Nat /\ Cardinality(Class(S, c)) \in Nat
           /\ Cardinality(Sooner(S, c)) + Cardinality(Class(S, c)) <= Len(list)
           /\ \A n \in 1..Len(list) :
                 list[n].created = c <=>
                     /\ n > Cardinality(Sooner(S, c))
                     /\ n <= Cardinality(Sooner(S, c)) + Cardinality(Class(S, c))
<1>1. PICK A, B : A = Sooner(S, c) /\ B = Class(S, c)
  OBVIOUS
<1>2. A \in SUBSET S /\ B \in SUBSET S /\ A \cap B = {} /\ \A x \in S : x.created \in Nat
  BY <1>1 DEF Sooner, Class, Rec
<1>3. IsFiniteSet(A) /\ IsFiniteSet(B) /\ IsFiniteSet(A \cap B)
      /\ Cardinality(A) \in Nat /\ Cardinality(B) \in Nat /\ Cardinality(A \cap B) = 0
  BY <1>2, FS_Subset, FS_CardinalityType, FS_EmptySet
<1>4. Cardinality(A \cup B) = Cardinality(A) + Cardinality(B)
  <2>1. Cardinality(A \cup B) = Cardinality(A) + Cardinality(B) - Cardinality(A \cap B)
    BY <1>3, FS_Union
  <2> QED
    BY <1>3, <2>1
<1>5. \A x, y \in S : y \in A /\ x.created <= y.created => x \in A
  BY <1>1, <1>2 DEF Sooner
<1>6. \A x, y \in S : y \in A \cup B /\ x.created <= y.created => x \in A \cup B
  BY <1>1, <1>2 DEF Sooner, Class
<1>7. /\ Cardinality(A) \in 0..Len(list)
      /\ \A n \in 1..Len(list) : list[n] \in A <=> n <= Cardinality(A)
  BY <1>2, <1>5, InOrderPrefix
<1>8. PICK AB : AB = A \cup B
  OBVIOUS
<1>9. AB \in SUBSET S
  BY <1>2, <1>8
<1>10. /\ Cardinality(AB) \in 0..Len(list)
       /\ \A n \in 1..Len(list) : list[n] \in AB <=> n <= Cardinality(AB)
  BY <1>6, <1>8, <1>9, InOrderPrefix
<1>11. \A n \in 1..Len(list) : list[n].created = c <=> list[n] \in AB /\ list[n] \notin A
  <2>1. \A n \in 1..Len(list) : list[n] \in S
    BY ListsAll
  <2> QED
    BY <1>1, <1>2, <1>8, <2>1 DEF Sooner, Class
<1>12. Len(list) \in Nat
  BY ListsAll
<1>13. PICK a \in Nat, b \in Nat : a = Cardinality(A) /\ b = Cardinality(B)
  BY <1>3
<1>14. a + b <= Len(list)
  BY <1>4, <1>8, <1>10, <1>12, <1>13
<1>15. \A n \in 1..Len(list) : list[n].created = c <=> n > a /\ n <= a + b
  <2>1. \A n \in 1..Len(list) : ~(n <= a) <=> n > a
    BY <1>12, <1>13
  <2> QED
    BY <1>4, <1>7, <1>8, <1>10, <1>11, <1>13, <2>1
<1> QED
  BY <1>1, <1>13, <1>14, <1>15

\* Two of the same are among more places than there are values.
LEMMA SomeTwice ==
    ASSUME NEW N, NEW f, NEW V, IsFiniteSet(N), IsFiniteSet(V), NEW r \in V,
           Cardinality(N) >= Cardinality(V), \A n \in N : f[n] \in V /\ f[n] # r
    PROVE  \E m, n \in N : m # n /\ f[m] = f[n]
<1>1. PICK W : W = V \ {r}
  OBVIOUS
<1>2. IsFiniteSet(W) /\ Cardinality(W) = Cardinality(V) - 1
      /\ Cardinality(V) \in Nat /\ Cardinality(W) \in Nat /\ Cardinality(N) \in Nat
  BY <1>1, FS_RemoveElement, FS_CardinalityType
<1>3. Cardinality(W) < Cardinality(N)
  BY <1>2
<1>4. PICK g : g = [n \in N |-> f[n]]
  OBVIOUS
<1>5. g \in [N -> W]
  BY <1>1, <1>4
<1>6. \E m, n \in N : m # n /\ g[m] = g[n]
  BY <1>2, <1>3, <1>5, FS_PigeonHole
<1> QED
  BY <1>4, <1>6

\* Each transaction has a time of its own, which all its rows have and no other.
TimesOk ==
    /\ \E n \in Nat : Starts = 0..(n - 1)
    /\ \A w \in DOMAIN writing : \A i \in DOMAIN writing[w], j \in DOMAIN rows :
          writing[w][i].created # rows[j].created
    /\ \A v, w \in DOMAIN writing : v # w =>
          \A i \in DOMAIN writing[v], j \in DOMAIN writing[w] :
              writing[v][i].created # writing[w][j].created

LEMMA TimesNext ==
    ASSUME RowsOk, TimesOk, [Next]_vars, \A i \in DOMAIN rows : ~ChangeStatus(i)
    PROVE  TimesOk'
<1>1. CASE UNCHANGED <<rows, writing>>
  <2>1. Starts' = Starts
    BY <1>1 DEF Starts
  <2> QED
    BY <1>1, <2>1 DEF TimesOk
<1>2. ASSUME NEW w \in Writers, NEW ids \in (SUBSET Ids) \ {{}}, BeginInsert(w, ids)
      PROVE  TimesOk'
  <2>1. PICK n \in Nat : Starts = 0..(n - 1)
    BY DEF TimesOk
  <2>2. Cardinality(Starts) = n
    <3>1. Cardinality(0..(n - 1)) = n
      BY FS_Interval
    <3> QED
      BY <2>1, <3>1
  <2>3. PICK new : new = [i \in ids |-> [created |-> n, shown |-> TRUE]]
    OBVIOUS
  <2>4. writing' = Put(writing, w, new) /\ rows' = rows /\ w \notin DOMAIN writing
    BY <1>2, <2>2, <2>3 DEF BeginInsert
  <2>5. DOMAIN new = ids /\ ids # {} /\ \A i \in ids : new[i].created = n
    BY <2>3
  <2>6. /\ DOMAIN writing' = DOMAIN writing \cup {w} /\ writing'[w] = new
        /\ \A v \in DOMAIN writing : v # w /\ writing'[v] = writing[v]
    BY <2>4 DEF Put
  <2>7. n \notin Starts
    BY <2>1
  <2>8. \A j \in DOMAIN rows : rows[j].created # n
    BY <2>7 DEF Starts
  <2>9. \A v \in DOMAIN writing : \A i \in DOMAIN writing[v] : writing[v][i].created # n
    <3>1. \A v \in DOMAIN writing : \A i \in DOMAIN writing[v] : writing[v][i].created \in Starts
      BY DEF Starts
    <3> QED
      BY <2>7, <3>1
  <2>10. Starts' = Starts \cup {n}
    <3>1. ASSUME NEW c \in Starts' PROVE c \in Starts \cup {n}
      <4>1. CASE c \in {rows'[i].created : i \in DOMAIN rows'}
        BY <2>4, <4>1 DEF Starts
      <4>2. ASSUME NEW v \in DOMAIN writing', NEW i \in DOMAIN writing'[v],
                   c = writing'[v][i].created
            PROVE  c \in Starts \cup {n}
        BY <2>5, <2>6, <4>2 DEF Starts
      <4> QED
        BY <4>1, <4>2 DEF Starts
    <3>2. ASSUME NEW c \in Starts PROVE c \in Starts'
      <4>1. CASE c \in {rows[i].created : i \in DOMAIN rows}
        BY <2>4, <4>1 DEF Starts
      <4>2. ASSUME NEW v \in DOMAIN writing, NEW i \in DOMAIN writing[v],
                   c = writing[v][i].created
            PROVE  c \in Starts'
        BY <2>6, <4>2 DEF Starts
      <4> QED
        BY <4>1, <4>2 DEF Starts
    <3>3. n \in Starts'
      <4>1. PICK i \in ids : TRUE
        BY <2>5
      <4>2. w \in DOMAIN writing' /\ i \in DOMAIN writing'[w] /\ writing'[w][i].created = n
        BY <2>5, <2>6
      <4> QED
        BY <4>2 DEF Starts
    <3> QED
      BY <3>1, <3>2, <3>3
  <2>11. Starts' = 0..((n + 1) - 1)
    BY <2>1, <2>10
  <2>12. \A v \in DOMAIN writing' : \A i \in DOMAIN writing'[v], j \in DOMAIN rows' :
             writing'[v][i].created # rows'[j].created
    BY <2>4, <2>5, <2>6, <2>8 DEF TimesOk
  <2>13. ASSUME NEW u \in DOMAIN writing', NEW v \in DOMAIN writing', u # v,
                NEW i \in DOMAIN writing'[u], NEW j \in DOMAIN writing'[v]
         PROVE  writing'[u][i].created # writing'[v][j].created
    <3>1. CASE u = w
      BY <2>5, <2>6, <2>9, <2>13, <3>1
    <3>2. CASE v = w
      BY <2>5, <2>6, <2>9, <2>13, <3>2
    <3>3. CASE u # w /\ v # w
      BY <2>6, <2>13, <3>3 DEF TimesOk
    <3> QED
      BY <3>1, <3>2, <3>3
  <2>14. \E k \in Nat : Starts' = 0..(k - 1)
    BY <2>11
  <2> QED
    BY <2>12, <2>13, <2>14 DEF TimesOk
<1>3. ASSUME NEW w \in Writers, CommitInsert(w) PROVE TimesOk'
  <2>1. /\ w \in DOMAIN writing /\ writing' = Drop(writing, w)
        /\ DOMAIN rows' = DOMAIN rows \cup DOMAIN writing[w]
        /\ \A i \in DOMAIN rows' : rows'[i] = IF i \in DOMAIN rows THEN rows[i] ELSE writing[w][i]
        /\ DOMAIN writing[w] \cap DOMAIN rows = {}
    BY <1>3 DEF CommitInsert, RowsOk
  <2>2. /\ DOMAIN writing' = DOMAIN writing \ {w}
        /\ \A v \in DOMAIN writing' : v # w /\ writing'[v] = writing[v]
    BY <2>1 DEF Drop
  <2>3. \A i \in DOMAIN rows : i \in DOMAIN rows' /\ rows'[i] = rows[i]
    BY <2>1
  <2>4. \A i \in DOMAIN writing[w] : i \in DOMAIN rows' /\ rows'[i] = writing[w][i]
    BY <2>1
  <2>5. Starts' = Starts
    <3>1. ASSUME NEW c \in Starts' PROVE c \in Starts
      <4>1. ASSUME NEW i \in DOMAIN rows', c = rows'[i].created PROVE c \in Starts
        <5>1. CASE i \in DOMAIN rows
          BY <2>3, <4>1, <5>1 DEF Starts
        <5>2. CASE i \in DOMAIN writing[w]
          BY <2>1, <2>4, <4>1, <5>2 DEF Starts
        <5> QED
          BY <2>1, <5>1, <5>2
      <4>2. ASSUME NEW v \in DOMAIN writing', NEW i \in DOMAIN writing'[v],
                   c = writing'[v][i].created
            PROVE  c \in Starts
        BY <2>2, <4>2 DEF Starts
      <4> QED
        BY <4>1, <4>2 DEF Starts
    <3>2. ASSUME NEW c \in Starts PROVE c \in Starts'
      <4>1. ASSUME NEW i \in DOMAIN rows, c = rows[i].created PROVE c \in Starts'
        BY <2>3, <4>1 DEF Starts
      <4>2. ASSUME NEW v \in DOMAIN writing, NEW i \in DOMAIN writing[v],
                   c = writing[v][i].created
            PROVE  c \in Starts'
        <5>1. CASE v = w
          BY <2>4, <4>2, <5>1 DEF Starts
        <5>2. CASE v # w
          BY <2>2, <4>2, <5>2 DEF Starts
        <5> QED
          BY <5>1, <5>2
      <4> QED
        BY <4>1, <4>2 DEF Starts
    <3> QED
      BY <3>1, <3>2
  <2>6. ASSUME NEW v \in DOMAIN writing', NEW i \in DOMAIN writing'[v], NEW j \in DOMAIN rows'
        PROVE  writing'[v][i].created # rows'[j].created
    <3>1. CASE j \in DOMAIN rows
      BY <2>2, <2>3, <3>1 DEF TimesOk
    <3>2. CASE j \in DOMAIN writing[w]
      BY <2>1, <2>2, <2>4, <3>2 DEF TimesOk
    <3> QED
      BY <2>1, <3>1, <3>2
  <2>7. ASSUME NEW u \in DOMAIN writing', NEW v \in DOMAIN writing', u # v
        PROVE  \A i \in DOMAIN writing'[u], j \in DOMAIN writing'[v] :
                   writing'[u][i].created # writing'[v][j].created
    BY <2>2, <2>7 DEF TimesOk
  <2> QED
    BY <2>5, <2>6, <2>7 DEF TimesOk
<1> QED
  BY <1>1, <1>2, <1>3
  DEF Next, vars, Tick, Arrive, ListExpired, DeleteDoomed, CapTable, IterationFails, GetEntry,
      LetThrough, Refuse, ReadPage, LoseAnswer, ReadList, exportVars

\* The rows of a load come all at once.
LEMMA ClassesStay ==
    ASSUME RowsOk, TimesOk, [Next]_vars, \A i \in DOMAIN rows : ~ChangeStatus(i)
    PROVE  /\ Public \subseteq Public'
           /\ \A x \in Public', r \in Public : x.created = r.created => x \in Public
<1>1. Public \subseteq Public'
  BY PublicStays
<1>2. CASE UNCHANGED rows
  BY <1>2 DEF Public
<1>3. ASSUME NEW w \in Writers, CommitInsert(w), NEW x \in Public', NEW r \in Public,
             x.created = r.created
      PROVE  x \in Public
  <2>1. PICK i \in DOMAIN rows' : rows'[i].shown /\ x = [created |-> rows'[i].created, id |-> i]
    BY DEF Public
  <2>2. PICK j \in DOMAIN rows : r = [created |-> rows[j].created, id |-> j]
    BY DEF Public
  <2>3. w \in DOMAIN writing /\ (i \in DOMAIN rows \/ i \in DOMAIN writing[w])
        /\ rows'[i] = IF i \in DOMAIN rows THEN rows[i] ELSE writing[w][i]
    BY <1>3 DEF CommitInsert
  <2>4. CASE i \in DOMAIN rows
    BY <2>1, <2>3, <2>4 DEF Public
  <2>5. CASE i \notin DOMAIN rows
    BY <1>3, <2>1, <2>2, <2>3, <2>5 DEF TimesOk
  <2> QED
    BY <2>4, <2>5
<1> QED
  BY <1>1, <1>2, <1>3
  DEF Next, vars, Tick, Arrive, ListExpired, DeleteDoomed, CapTable, IterationFails, GetEntry,
      LetThrough, Refuse, ReadPage, LoseAnswer, ReadList, exportVars, BeginInsert

GotAt(got, c) == {n \in 1..Len(got) : got[n].created = c}

\* Of the rows of one time that were there all the time, as many were got as there are, or
\* as many as the places read reach into theirs.
Enough(w, c) ==
    \/ Cardinality(GotAt(w.got, c)) >= Cardinality(Class(Public, c))
    \/ /\ ~w.ended
       /\ Cardinality(GotAt(w.got, c)) + Cardinality(Sooner(Public, c)) >= Len(w.got)

ListOk(w) ==
    /\ w.got \in Seq(Rec) /\ Len(w.got) <= Cardinality(Public)
    /\ ~w.begun => Len(w.got) = 0 /\ w.there = {} /\ ~w.ended
    /\ w.there \subseteq Public
    /\ \A x \in Public, r \in w.there : x.created = r.created => x \in w.there
    /\ \A n \in 1..Len(w.got), r \in w.there :
          w.got[n].created = r.created => w.got[n] \in w.there
    /\ \A r \in w.there : Enough(w, r.created)

ListInv ==
    /\ RowsOk
    /\ callers = Readers =>
          /\ TimesOk
          /\ DOMAIN walk = Partners \cup Readers
          /\ \A p \in Readers : ListOk(walk[p])

LEMMA GotAtIsFinite ==
    ASSUME NEW got \in Seq(Rec), NEW c
    PROVE  GotAt(got, c) \subseteq 1..Len(got) /\ IsFiniteSet(GotAt(got, c))
           /\ Cardinality(GotAt(got, c)) \in Nat
<1>1. Len(got) \in Nat /\ GotAt(got, c) \in SUBSET (1..Len(got))
  BY DEF GotAt
<1> QED
  BY <1>1, SmallSet

\* More rows, none of them of a time that had some.
LEMMA ListStays ==
    ASSUME RowsOk, RowsOk', Public \subseteq Public',
           \A x \in Public', r \in Public : x.created = r.created => x \in Public,
           NEW w, ListOk(w)
    PROVE  ListOk(w)'
<1>1. PICK S, S1 : S = Public /\ S1 = Public'
  OBVIOUS
<1>2. S \in SUBSET Rec /\ IsFiniteSet(S)
  BY <1>1, PublicIsFinite
<1>3. S1 \in SUBSET Rec /\ IsFiniteSet(S1)
  <2>1. (RowsOk => Public \in SUBSET Rec /\ IsFiniteSet(Public))'
    BY PublicIsFinite, PTL
  <2> QED
    BY <1>1, <2>1
<1>4. Cardinality(S) <= Cardinality(S1) /\ Cardinality(S) \in Nat /\ Cardinality(S1) \in Nat
  BY <1>1, <1>2, <1>3, FS_Subset, FS_CardinalityType
<1>5. w.got \in Seq(Rec) /\ Len(w.got) <= Cardinality(S) /\ Len(w.got) \in Nat
  BY <1>1 DEF ListOk
<1>6. Len(w.got) <= Cardinality(S1)
  BY <1>4, <1>5
<1>7. ASSUME NEW r \in w.there PROVE Enough(w, r.created)'
  <2>1. PICK c : c = r.created
    OBVIOUS
  <2>2. r \in S /\ Enough(w, c)
    BY <1>1, <2>1 DEF ListOk
  <2>3. Class(S1, c) = Class(S, c)
    BY <1>1, <2>1, <2>2 DEF Class
  <2>4. Sooner(S, c) \subseteq Sooner(S1, c) /\ Sooner(S1, c) \subseteq S1
    BY <1>1 DEF Sooner
  <2>5. IsFiniteSet(Sooner(S1, c))
    BY <1>3, <2>4, FS_Subset
  <2>6. /\ Cardinality(Sooner(S, c)) <= Cardinality(Sooner(S1, c))
        /\ Cardinality(Sooner(S, c)) \in Nat /\ Cardinality(Sooner(S1, c)) \in Nat
    BY <2>4, <2>5, FS_Subset, FS_CardinalityType
  <2>7. Cardinality(GotAt(w.got, c)) \in Nat
    BY <1>5, GotAtIsFinite
  <2>8. \/ Cardinality(GotAt(w.got, c)) >= Cardinality(Class(S1, c))
        \/ /\ ~w.ended
           /\ Cardinality(GotAt(w.got, c)) + Cardinality(Sooner(S1, c)) >= Len(w.got)
    <3>1. CASE Cardinality(GotAt(w.got, c)) >= Cardinality(Class(S, c))
      BY <2>3, <3>1
    <3>2. CASE ~w.ended /\ Cardinality(GotAt(w.got, c)) + Cardinality(Sooner(S, c)) >= Len(w.got)
      BY <1>5, <2>6, <2>7, <3>2
    <3> QED
      BY <1>1, <2>2, <3>1, <3>2 DEF Enough
  <2> QED
    BY <1>1, <2>1, <2>8 DEF Enough
<1>8. w.there \subseteq S1 /\ \A x \in S1, r \in w.there : x.created = r.created => x \in w.there
  BY <1>1 DEF ListOk
<1>9. /\ ~w.begun => Len(w.got) = 0 /\ w.there = {} /\ ~w.ended
      /\ \A n \in 1..Len(w.got), r \in w.there :
            w.got[n].created = r.created => w.got[n] \in w.there
  BY DEF ListOk
<1> QED
  BY <1>1, <1>5, <1>6, <1>7, <1>8, <1>9 DEF ListOk

\* The places from l + 1 to e are read: of the b rows that stand behind a others, t were got.
LEMMA PlacesRead ==
    ASSUME NEW l \in Nat, NEW e \in Nat, l <= e, NEW a \in Nat, NEW b \in Nat,
           NEW t \in Nat, NEW t1 \in Nat, t >= b \/ t + a >= l, t1 >= t,
           \A lo, hi \in Nat : lo > l /\ lo > a /\ lo <= hi + 1 /\ hi <= e /\ hi <= a + b =>
               t1 >= t + hi + 1 - lo
    PROVE  t1 >= b \/ t1 + a >= e
<1>1. CASE t >= b
  BY <1>1
<1>2. CASE a >= e
  BY <1>2
<1>3. CASE t < b /\ a < e
  <2>1. t + a >= l
    BY <1>3
  <2>2. PICK hi \in Nat : hi = IF e <= a + b THEN e ELSE a + b
    OBVIOUS
  <2>3. PICK lo \in Nat : lo = IF l >= a THEN l + 1 ELSE a + 1
    OBVIOUS
  <2>4. lo > l /\ lo > a /\ lo <= hi + 1 /\ hi <= e /\ hi <= a + b
    BY <1>3, <2>1, <2>2, <2>3
  <2>5. t1 >= t + hi + 1 - lo
    BY <2>4
  <2>6. t1 + a >= hi
    <3>1. CASE l >= a
      BY <2>1, <2>3, <2>5, <3>1
    <3>2. CASE l < a
      BY <2>3, <2>5, <3>2
    <3> QED
      BY <3>1, <3>2
  <2> QED
    BY <2>2, <2>6
<1> QED
  BY <1>1, <1>2, <1>3

LEMMA OneAfterTheOther ==
    ASSUME NEW S, NEW f \in Seq(S), NEW g \in Seq(S)
    PROVE  f \o g \in Seq(S) /\ Len(f \o g) = Len(f) + Len(g)
  OBVIOUS

LEMMA ListPage ==
    ASSUME RowsOk, NEW w, ListOk(w), ~w.ended, Public' = Public,
           NEW list \in SetToSeqs(Public), InOrder(list), NEW e \in Nat, NEW k \in Nat,
           e = Len(w.got) + k, e <= Len(list), k < PageSize => e = Len(list),
           NEW page \in Seq(Public), Len(page) = k,
           \A i \in 1..k : page[i] = list[Len(w.got) + i], NEW w1,
           w1.begun = TRUE, w1.ended <=> k < PageSize, w1.got = w.got \o page,
           w1.there = IF w.begun THEN w.there ELSE Public
    PROVE  ListOk(w1)'
<1>1. PICK S : S = Public
  OBVIOUS
<1>2. S \in SUBSET Rec /\ IsFiniteSet(S) /\ list \in SetToSeqs(S)
  BY <1>1, PublicIsFinite
<1>3. list \in Seq(S) /\ Len(list) = Cardinality(S) /\ Len(list) \in Nat
  BY <1>2, ListsAll
<1>4. PICK got \in Seq(Rec) : got = w.got
  BY DEF ListOk
<1>5. PICK l \in Nat, N \in Nat, p \in Nat \ {0} : l = Len(got) /\ N = Len(list) /\ p = PageSize
  BY <1>3, <1>4, PublicApiAssumption
<1>6. l <= N /\ N = Cardinality(S)
  BY <1>1, <1>3, <1>4, <1>5 DEF ListOk
<1>7. e = l + k /\ l <= e /\ e <= N /\ (k < p => e = N)
  BY <1>4, <1>5
<1>8. page \in Seq(S) /\ Len(page) = k /\ \A i \in 1..k : page[i] = list[l + i]
  BY <1>1, <1>4, <1>5
<1>9. PICK all : all = got \o page
  OBVIOUS
<1>10. /\ all \in Seq(Rec) /\ Len(all) = e
       /\ \A n \in 1..l : all[n] = got[n]
       /\ \A n \in 1..e : n > l => all[n] = list[n]
  <2>1. page \in Seq(Rec) /\ Len(page) = k
    <3>1. page \in Seq(S) /\ S \subseteq Rec
      BY <1>2, <1>8
    <3> QED
      BY <1>8, <3>1
  <2>4. all \in Seq(Rec) /\ Len(all) = l + k /\ l + k = e
    <3>1. Len(got) = l /\ l + k = e
      BY <1>5, <1>7
    <3>2. got \o page \in Seq(Rec) /\ Len(got \o page) = Len(got) + Len(page)
      BY <2>1, OneAfterTheOther
    <3> QED
      BY <1>9, <2>1, <3>1, <3>2
  <2>5. \A n \in 1..l : all[n] = got[n]
    BY <1>5, <1>9, <2>1
  <2>6. \A n \in 1..(l + k) : n > l => all[n] = page[n - l]
    BY <1>5, <1>9, <2>1
  <2>2. /\ all \in Seq(Rec) /\ Len(all) = e
        /\ \A n \in 1..l : all[n] = got[n]
        /\ \A n \in 1..e : n > l => all[n] = page[n - l]
    BY <2>4, <2>5, <2>6
  <2>3. ASSUME NEW n \in 1..e, n > l PROVE all[n] = list[n]
    <3>1. n - l \in 1..k /\ l + (n - l) = n
      BY <1>7, <2>3
    <3>2. all[n] = page[n - l]
      BY <2>2, <2>3
    <3> QED
      BY <1>8, <3>1, <3>2
  <2> QED
    BY <2>2, <2>3
<1>11. PICK there : there = w1.there
  OBVIOUS
<1>12. there \subseteq S /\ \A x \in S, r \in there : x.created = r.created => x \in there
  BY <1>1, <1>11 DEF ListOk
<1>13. w1.got = all /\ (w1.ended <=> k < p)
  BY <1>4, <1>5, <1>8, <1>9
<1>14. ASSUME NEW n \in 1..e, NEW r \in there, all[n].created = r.created PROVE all[n] \in there
  <2>1. CASE n <= l
    <3>1. w.begun
      BY <1>4, <1>5, <2>1 DEF ListOk
    <3>2. n \in 1..Len(w.got) /\ w.got[n] = all[n] /\ r \in w.there /\ w1.there = w.there
      BY <1>4, <1>5, <1>10, <1>11, <2>1, <3>1
    <3> QED
      BY <1>11, <1>14, <3>2 DEF ListOk
  <2>2. CASE n > l
    <3>1. all[n] \in S
      BY <1>3, <1>5, <1>7, <1>10, <2>2
    <3> QED
      BY <1>12, <1>14, <3>1
  <2> QED
    BY <1>5, <2>1, <2>2
<1>15. ASSUME NEW r \in there
       PROVE  \/ Cardinality(GotAt(all, r.created)) >= Cardinality(Class(S, r.created))
              \/ /\ ~(k < p)
                 /\ Cardinality(GotAt(all, r.created)) + Cardinality(Sooner(S, r.created)) >= e
  <2>1. PICK c \in Nat : c = r.created
    BY <1>2, <1>12 DEF Rec
  <2>2. /\ Cardinality(Sooner(S, c)) \in Nat /\ Cardinality(Class(S, c)) \in Nat
        /\ Cardinality(Sooner(S, c)) + Cardinality(Class(S, c)) <= Len(list)
        /\ \A n \in 1..Len(list) :
              list[n].created = c <=>
                  /\ n > Cardinality(Sooner(S, c))
                  /\ n <= Cardinality(Sooner(S, c)) + Cardinality(Class(S, c))
    BY <1>2, ClassPlaces
  <2>3. PICK a \in Nat, b \in Nat : a = Cardinality(Sooner(S, c)) /\ b = Cardinality(Class(S, c))
    BY <2>2
  <2>4. a + b <= N /\ \A n \in 1..N : list[n].created = c <=> n > a /\ n <= a + b
    BY <1>5, <2>2, <2>3
  <2>5. PICK G, G1 : G = GotAt(got, c) /\ G1 = GotAt(all, c)
    OBVIOUS
  <2>6. /\ G \subseteq 1..l /\ IsFiniteSet(G) /\ Cardinality(G) \in Nat
        /\ IsFiniteSet(G1) /\ Cardinality(G1) \in Nat
    BY <1>5, <1>10, <2>5, GotAtIsFinite
  <2>7. PICK t \in Nat, t1 \in Nat : t = Cardinality(G) /\ t1 = Cardinality(G1)
    BY <2>6
  <2>8. G \subseteq G1
    BY <1>5, <1>7, <1>10, <2>5 DEF GotAt
  <2>9. t1 >= t
    BY <2>6, <2>7, <2>8, FS_Subset
  <2>10. t >= b \/ t + a >= l
    <3>1. CASE w.begun
      <4>1. Enough(w, c)
        BY <1>11, <2>1, <3>1 DEF ListOk
      <4> QED
        BY <1>1, <1>4, <1>5, <2>3, <2>5, <2>7, <4>1 DEF Enough
    <3>2. CASE ~w.begun
      <4>1. l = 0
        BY <1>4, <1>5, <3>2 DEF ListOk
      <4> QED
        BY <4>1
    <3> QED
      BY <3>1, <3>2
  <2>11. ASSUME NEW lo \in Nat, NEW hi \in Nat, lo > l, lo > a, lo <= hi + 1, hi <= e,
                hi <= a + b
         PROVE  t1 >= t + hi + 1 - lo
    <3>1. PICK I : I = lo..hi
      OBVIOUS
    <3>2. IsFiniteSet(I) /\ Cardinality(I) = hi + 1 - lo
      BY <2>11, <3>1, IntervalSize
    <3>3. I \subseteq G1
      <4>1. ASSUME NEW n \in I PROVE n \in 1..e /\ n \in 1..N /\ n > l /\ n > a /\ n <= a + b
        BY <1>7, <2>11, <3>1
      <4>2. \A n \in I : n \in 1..Len(all) /\ all[n].created = c
        BY <1>10, <2>4, <4>1
      <4> QED
        BY <2>5, <4>2 DEF GotAt
    <3>4. G \cap I = {}
      BY <2>6, <2>11, <3>1
    <3>5. IsFiniteSet(G \cup I) /\ Cardinality(G \cup I) = t + hi + 1 - lo
      <4>1. /\ IsFiniteSet(G \cup I)
            /\ Cardinality(G \cup I) = Cardinality(G) + Cardinality(I) - Cardinality(G \cap I)
        BY <2>6, <3>2, FS_Union
      <4>2. Cardinality(G \cap I) = 0
        BY <3>4, FS_EmptySet
      <4> QED
        BY <2>7, <3>2, <4>1, <4>2
    <3>6. Cardinality(G \cup I) <= Cardinality(G1)
      BY <2>6, <2>8, <3>3, FS_Subset
    <3> QED
      BY <2>7, <3>5, <3>6
  <2>12. t1 >= b \/ t1 + a >= e
    BY <1>7, <2>9, <2>10, <2>11, PlacesRead
  <2>13. t1 >= b \/ (~(k < p) /\ t1 + a >= e)
    <3>1. k < p => e = N
      BY <1>7
    <3> QED
      BY <1>7, <2>4, <2>12, <3>1
  <2> QED
    BY <2>1, <2>3, <2>5, <2>7, <2>13
<1>16. \A r \in w1.there : Enough(w1, r.created)
  BY <1>1, <1>10, <1>11, <1>13, <1>15 DEF Enough
<1>17. w1.got \in Seq(Rec) /\ Len(w1.got) <= Cardinality(Public)
  BY <1>1, <1>6, <1>7, <1>10, <1>13
<1>18. \A n \in 1..Len(w1.got), r \in w1.there :
           w1.got[n].created = r.created => w1.got[n] \in w1.there
  <2>1. Len(w1.got) = e
    BY <1>10, <1>13
  <2> QED
    BY <1>11, <1>13, <1>14, <2>1
<1>19. ListOk(w1)
  BY <1>1, <1>11, <1>12, <1>16, <1>17, <1>18 DEF ListOk
<1> QED
  BY <1>19 DEF ListOk, Enough

\* LIMIT and OFFSET: the k places after the first l.
Shape(S, list, l, p, e, page) ==
    /\ e \in Nat /\ e <= Len(list) /\ page \in Seq(S)
    /\ \E k \in Nat : /\ e = l + k /\ (k < p => e = Len(list))
                      /\ Len(page) = k /\ \A i \in 1..k : page[i] = list[l + i]

LEMMA PageShape ==
    ASSUME NEW S, NEW list \in Seq(S), NEW l \in Nat, NEW p \in Nat \ {0}, l <= Len(list), NEW e,
           e = IF Len(list) < l + p THEN Len(list) ELSE l + p,
           NEW page, page = SubSeq(list, l + 1, e)
    PROVE  Shape(S, list, l, p, e, page)
<1>1. PICK N \in Nat : N = Len(list)
  OBVIOUS
<1>2. PICK d \in Nat : d = e /\ l <= d /\ d <= N /\ (d - l < p => d = N)
  <2>1. l <= N /\ e = IF N < l + p THEN N ELSE l + p
    BY <1>1
  <2>2. CASE N < l + p
    BY <2>1, <2>2
  <2>3. CASE ~(N < l + p)
    BY <2>1, <2>3
  <2> QED
    BY <2>2, <2>3
<1>3. PICK k \in Nat : k = d - l
  <2>1. d - l \in Nat
    BY <1>2
  <2> QED
    BY <2>1
<1>4. /\ SubSeq(list, l + 1, d) \in Seq(S) /\ Len(SubSeq(list, l + 1, d)) = k
      /\ \A i \in 1..k : SubSeq(list, l + 1, d)[i] = list[l + i]
  BY <1>1, <1>2, <1>3
<1>5. /\ d = l + k /\ (k < p => d = Len(list)) /\ d <= Len(list)
  BY <1>1, <1>2, <1>3
<1>6. page = SubSeq(list, l + 1, d) /\ e = d
  BY <1>2
<1>7. page \in Seq(S) /\ Len(page) = k /\ \A i \in 1..k : page[i] = list[l + i]
  BY <1>4, <1>6
<1>8. Shape(S, list, l, p, d, page)
  BY <1>5, <1>7 DEF Shape
<1> QED
  BY <1>6, <1>8

LEMMA ListInit ==
    ASSUME Init
    PROVE  ListInv
<1>1. RowsOk
  BY DEF Init, RowsOk, Nothing
<1>2. DOMAIN rows = {} /\ DOMAIN writing = {}
  BY DEF Init, Nothing
<1>3. Starts = {} /\ Public = {}
  BY <1>2 DEF Starts, Public
<1>4. {} = 0..(0 - 1)
  OBVIOUS
<1>5. TimesOk
  BY <1>2, <1>3, <1>4 DEF TimesOk
<1>6. NotBegun.got = <<>> /\ NotBegun.there = {} /\ NotBegun.begun = FALSE /\ NotBegun.ended = FALSE
  BY DEF NotBegun
<1>7. NotBegun.got \in Seq(Rec) /\ Len(NotBegun.got) = 0
  BY <1>6
<1>8. ListOk(NotBegun)
  BY <1>3, <1>6, <1>7, FS_EmptySet DEF ListOk
<1> QED
  BY <1>1, <1>5, <1>8 DEF Init, ListInv

LEMMA ListNext ==
    ASSUME ListInv, [Next]_vars
    PROVE  ListInv'
<1>1. RowsOk /\ RowsOk'
  BY RowsNext DEF ListInv
<1>2. callers' = callers
  BY DEF Next, vars, Tick, Arrive, ListExpired, DeleteDoomed, CapTable, IterationFails, GetEntry,
         LetThrough, Refuse, ReadPage, LoseAnswer, BeginInsert, CommitInsert, ChangeStatus, ReadList
<1>3. SUFFICES ASSUME callers = Readers
               PROVE  /\ TimesOk' /\ DOMAIN walk' = Partners \cup Readers
                      /\ \A p \in Readers : ListOk(walk[p])'
  BY <1>1, <1>2 DEF ListInv
<1>4. TimesOk /\ DOMAIN walk = Partners \cup Readers /\ \A p \in Readers : ListOk(walk[p])
  BY <1>3 DEF ListInv
<1>5. Readers # Partners /\ Readers # Clients
  BY PublicApiAssumption
<1>6. Workers = {} /\ \A i \in DOMAIN rows : ~ChangeStatus(i)
  BY <1>3, <1>5 DEF Workers, ChangeStatus
<1>7. TimesOk'
  BY <1>1, <1>4, <1>6, TimesNext
<1>8. /\ Public \subseteq Public'
      /\ \A x \in Public', r \in Public : x.created = r.created => x \in Public
  BY <1>1, <1>4, <1>6, ClassesStay
<1>9. ASSUME NEW w, ListOk(w) PROVE ListOk(w)'
  BY <1>1, <1>8, <1>9, ListStays
<1>10. CASE UNCHANGED walk
  <2>1. ASSUME NEW p \in Readers PROVE ListOk(walk[p])'
    <3>1. PICK w : w = walk[p]
      OBVIOUS
    <3>2. ListOk(w)'
      BY <1>4, <1>9, <3>1
    <3> QED
      BY <1>10, <3>1, <3>2
  <2> QED
    BY <1>4, <1>7, <1>10, <2>1
<1>11. ASSUME NEW r \in Readers, ReadList(r)
       PROVE  DOMAIN walk' = Partners \cup Readers /\ \A p \in Readers : ListOk(walk[p])'
  <2>1. PICK w : w = walk[r]
    OBVIOUS
  <2>2. ListOk(w) /\ ~w.ended /\ rows' = rows
    BY <1>4, <1>11, <2>1 DEF ReadList
  <2>3. Public' = Public
    BY <2>2 DEF Public
  <2>4. PICK list \in SetToSeqs(Public) :
           /\ InOrder(list)
           /\ LET got == walk[r].got
                  end == IF Len(list) < Len(got) + PageSize THEN Len(list)
                         ELSE Len(got) + PageSize
                  page == SubSeq(list, Len(got) + 1, end)
              IN  walk' = [walk EXCEPT ![r] =
                    [begun |-> TRUE, ended |-> Len(page) < PageSize, cursor |-> Start,
                     got |-> got \o page,
                     there |-> IF walk[r].begun THEN walk[r].there ELSE Public]]
    BY <1>11 DEF ReadList
  <2>5. PICK l \in Nat, p \in Nat \ {0} : l = Len(w.got) /\ p = PageSize
    BY <2>2, PublicApiAssumption DEF ListOk
  <2>6. PICK e : e = IF Len(list) < l + p THEN Len(list) ELSE l + p
    OBVIOUS
  <2>7. PICK page : page = SubSeq(list, l + 1, e)
    OBVIOUS
  <2>8. PICK w1 : w1 = [begun |-> TRUE, ended |-> Len(page) < p, cursor |-> Start,
                        got |-> w.got \o page, there |-> IF w.begun THEN w.there ELSE Public]
    OBVIOUS
  <2>9. walk' = [walk EXCEPT ![r] = w1]
    BY <2>1, <2>4, <2>5, <2>6, <2>7, <2>8
  <2>10. list \in Seq(Public) /\ Len(list) = Cardinality(Public)
    BY <1>1, PublicIsFinite, ListsAll
  <2>11. l <= Len(list)
    BY <2>2, <2>5, <2>10 DEF ListOk
  <2>12. /\ e \in Nat /\ e <= Len(list) /\ page \in Seq(Public)
         /\ \E k \in Nat : /\ e = l + k /\ (k < p => e = Len(list))
                           /\ Len(page) = k /\ \A i \in 1..k : page[i] = list[l + i]
    <3>1. Shape(Public, list, l, p, e, page)
      BY <2>6, <2>7, <2>10, <2>11, PageShape
    <3> QED
      BY <3>1 DEF Shape
  <2>13. PICK k \in Nat : /\ e = l + k /\ (k < p => e = Len(list))
                          /\ Len(page) = k /\ \A i \in 1..k : page[i] = list[l + i]
    BY <2>12
  <2>14. /\ w1.begun = TRUE /\ (w1.ended <=> k < PageSize) /\ w1.got = w.got \o page
         /\ w1.there = IF w.begun THEN w.there ELSE Public
    BY <2>5, <2>8, <2>13
  <2>15. ListOk(w1)'
    BY <1>1, <2>2, <2>3, <2>4, <2>5, <2>12, <2>13, <2>14, ListPage
  <2>16. ASSUME NEW q \in Readers PROVE ListOk(walk[q])'
    <3>1. CASE q = r
      BY <1>4, <2>9, <2>15, <3>1
    <3>2. CASE q # r
      <4>1. PICK v : v = walk[q]
        OBVIOUS
      <4>2. ListOk(v) /\ walk'[q] = v
        BY <1>4, <2>9, <3>2, <4>1
      <4>3. ListOk(v)'
        BY <1>9, <4>2
      <4> QED
        BY <4>2, <4>3
    <3> QED
      BY <3>1, <3>2
  <2> QED
    BY <1>4, <2>9, <2>16
<1> QED
  BY <1>6, <1>7, <1>10, <1>11 DEF Next, vars, exportVars, Tick, BeginInsert, CommitInsert

\* Who reads no list has none read.
NobodyReads == callers # Readers => \A p \in Readers : walk[p] = NotBegun

LEMMA NobodyReadsNext ==
    ASSUME WalkInv, NobodyReads, [Next]_vars
    PROVE  NobodyReads'
<1>1. callers' = callers
  BY DEF Next, vars, Tick, Arrive, ListExpired, DeleteDoomed, CapTable, IterationFails, GetEntry,
         LetThrough, Refuse, ReadPage, LoseAnswer, BeginInsert, CommitInsert, ChangeStatus, ReadList
<1>2. SUFFICES ASSUME callers # Readers, NEW p \in Readers PROVE walk'[p] = NotBegun
  BY <1>1 DEF NobodyReads
<1>3. walk[p] = NotBegun /\ p \in DOMAIN walk
  BY <1>2 DEF NobodyReads, WalkInv
<1>4. CASE UNCHANGED walk
  BY <1>3, <1>4
<1>5. ASSUME NEW i \in DOMAIN rows, ChangeStatus(i) PROVE walk'[p] = NotBegun
  <2>1. walk'[p] = [NotBegun EXCEPT !.there = {r \in @ : r.id # i}]
    BY <1>3, <1>5 DEF ChangeStatus
  <2> QED
    BY <2>1 DEF NotBegun
<1>6. ASSUME NEW t \in Workers, ReadPage(t) PROVE walk'[p] = NotBegun
  <2>1. t \in DOMAIN req /\ req[t].step = "page"
    BY <1>6 DEF Workers, WalkInv, ReadPage
  <2>2. req[t].caller \in Partners
    BY <2>1 DEF WalkInv, AsksAsPartner, Idle
  <2>3. req[t].caller # p
    BY <2>2, PublicApiAssumption
  <2> QED
    BY <1>3, <1>6, <2>3 DEF ReadPage
<1> QED
  BY <1>2, <1>4, <1>5, <1>6
  DEF Next, vars, Tick, Arrive, ListExpired, DeleteDoomed, CapTable, IterationFails, GetEntry,
      LetThrough, Refuse, LoseAnswer, BeginInsert, CommitInsert, ReadList, exportVars

\* Who reads a list to its end misses a row that was there at the first page only if it got
\* another of the same load twice: rows that are loaded meanwhile, wherever they come in the
\* order, push others further back but never out of reach (LIMIT and OFFSET of
\* list_public_parties and list_public_tenders).
THEOREM OffsetHidesOnlyTwins == Spec => []MissedOnesHaveDoubles
<1> DEFINE Inv == WalkInv /\ ListInv /\ NobodyReads
<1>1. Init => Inv
  BY WalkInit, ListInit DEF Init, NobodyReads
<1>2. Inv /\ [Next]_vars => Inv'
  BY WalkNext, ListNext, NobodyReadsNext
<1>3. Inv => MissedOnesHaveDoubles
  <2>1. SUFFICES ASSUME ListInv, NobodyReads, NEW p \in Readers, walk[p].ended,
                        NEW r \in walk[p].there
                 PROVE  \/ Times(r, p) > 0
                        \/ \E d \in walk[p].there : d.created = r.created /\ Times(d, p) > 1
    BY DEF MissedOnesHaveDoubles
  <2>2. ListOk(walk[p]) /\ RowsOk
    BY <2>1 DEF ListInv, NobodyReads, NotBegun
  <2>3. PICK w : w = walk[p]
    OBVIOUS
  <2>4. PICK got \in Seq(Rec) : got = w.got
    BY <2>2, <2>3 DEF ListOk
  <2>5. PICK c : c = r.created
    OBVIOUS
  <2>6. PICK N, V : N = GotAt(got, c) /\ V = Class(Public, c)
    OBVIOUS
  <2>7. N \subseteq 1..Len(got) /\ IsFiniteSet(N) /\ Cardinality(N) \in Nat
    BY <2>4, <2>6, GotAtIsFinite
  <2>8. IsFiniteSet(V) /\ V \subseteq w.there /\ r \in V
    BY <2>1, <2>2, <2>3, <2>5, <2>6, PublicIsFinite, FS_Subset DEF Class, ListOk
  <2>9. Cardinality(N) >= Cardinality(V)
    <3>1. Enough(w, c)
      BY <2>1, <2>2, <2>3, <2>5 DEF ListOk
    <3> QED
      BY <2>1, <2>3, <2>4, <2>6, <3>1 DEF Enough
  <2>10. \A n \in N : got[n] \in V
    <3>1. \A n \in N : n \in 1..Len(got) /\ got[n].created = c
      BY <2>6 DEF GotAt
    <3>2. \A n \in N : got[n] \in w.there
      BY <2>1, <2>2, <2>3, <2>4, <2>5, <3>1 DEF ListOk
    <3> QED
      BY <2>2, <2>3, <2>6, <3>1, <3>2 DEF ListOk, Class
  <2>11. ASSUME NEW d PROVE /\ Times(d, p) = Cardinality({n \in 1..Len(got) : got[n] = d})
                            /\ IsFiniteSet({n \in 1..Len(got) : got[n] = d}) /\ Times(d, p) \in Nat
    <3>1. Len(got) \in Nat /\ {n \in 1..Len(got) : got[n] = d} \in SUBSET (1..Len(got))
      BY <2>4
    <3>2. Times(d, p) = Cardinality({n \in 1..Len(got) : got[n] = d})
      BY <2>3, <2>4 DEF Times
    <3> QED
      BY <3>1, <3>2, SmallSet
  <2>12. CASE \E n \in N : got[n] = r
    <3>1. {n \in 1..Len(got) : got[n] = r} # {}
      BY <2>7, <2>12
    <3>2. Times(r, p) # 0
      BY <2>11, <3>1, FS_EmptySet
    <3>3. Times(r, p) \in Nat
      BY <2>11
    <3> QED
      BY <3>2, <3>3
  <2>13. CASE \A n \in N : got[n] # r
    <3>1. PICK m \in N, n \in N : m # n /\ got[m] = got[n]
      <4>1. \A n \in N : got[n] \in V /\ got[n] # r
        BY <2>10, <2>13
      <4>2. \E m, n \in N : m # n /\ got[m] = got[n]
        <5>1. IsFiniteSet(N) /\ IsFiniteSet(V) /\ r \in V
          BY <2>7, <2>8
        <5> QED
          BY <2>9, <4>1, <5>1, SomeTwice
      <4> QED
        BY <4>2
    <3>2. PICK d : d = got[m]
      OBVIOUS
    <3>3. d \in w.there /\ d.created = c
      BY <2>6, <2>8, <2>10, <3>2 DEF Class
    <3>4. {m, n} \subseteq {k \in 1..Len(got) : got[k] = d}
      BY <2>7, <3>1, <3>2
    <3>5. IsFiniteSet({m, n}) /\ Cardinality({m, n}) = 2
      <4>1. PICK A : A = {m}
        OBVIOUS
      <4>2. IsFiniteSet(A) /\ Cardinality(A) = 1
        BY <4>1, FS_Singleton
      <4>3. n \notin A /\ {m, n} = A \cup {n}
        BY <3>1, <4>1
      <4>4. PICK B : B = A \cup {n}
        OBVIOUS
      <4>5. IsFiniteSet(B) /\ Cardinality(B) = Cardinality(A) + 1
        BY <4>2, <4>3, <4>4, FS_AddElement
      <4>6. Cardinality(B) = 2
        BY <4>2, <4>5
      <4>7. {m, n} = B
        BY <4>3, <4>4, Zenon
      <4> QED
        BY <4>5, <4>6, <4>7, Zenon
    <3>6. PICK M : M = {k \in 1..Len(got) : got[k] = d}
      OBVIOUS
    <3>8. Times(d, p) = Cardinality(M) /\ IsFiniteSet(M) /\ Times(d, p) \in Nat
      BY <2>11, <3>6
    <3>9. Cardinality({m, n}) <= Cardinality(M)
      BY <3>4, <3>6, <3>8, FS_Subset
    <3>7. Times(d, p) > 1
      BY <3>5, <3>8, <3>9
    <3> QED
      BY <2>3, <2>5, <3>3, <3>7
  <2> QED
    BY <2>12, <2>13
<1> QED
  BY <1>1, <1>2, <1>3, PTL DEF Spec
=============================================================================
