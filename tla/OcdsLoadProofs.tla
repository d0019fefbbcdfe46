--------------------------- MODULE OcdsLoadProofs ---------------------------
(***************************************************************************)
(* What overlapping loads of releases and budgets leave in the tables: no  *)
(* award and no contract is counted twice, what a load has counted is      *)
(* there, amounts are neither erased nor overruled by the archive, and the *)
(* lines of a year are of one document.                                    *)
(*                                                                         *)
(* No index keeps awards and contracts unique.  The argument is that a     *)
(* load which looks up an award has written its tender before, and one     *)
(* that looks up a contract its agency: it holds the lock on that row, so  *)
(* that nobody else commits an award of the tender between the look-up and *)
(* the insert.                                                             *)
(***************************************************************************)
EXTENDS OcdsLoad, FiniteSetTheorems, SequenceTheorems, WellFoundedInduction, TLAPS

(***************************************************************************)
(* Rows, and the layers that transactions put over the committed ones.     *)
(***************************************************************************)
RowIds == Nat \ {0}
LoadKinds == Kinds \cup {"budget"}
Everything == UNION {AllAsked(kind) : kind \in LoadKinds}

LegacyIds == {<<item.table, item.key>> : item \in AllAsked("legacy")}

\* Which identity an award or a contract is loaded under.
KindFits(kind, item) ==
    Counted(item) => (kind = "legacy" <=> <<item.table, item.key>> \in LegacyIds)

Rows ==
    {r \in [table : {i.table : i \in Everything}, key : {i.key : i \in Everything},
            supplier : {i.supplier : i \in Everything},
            amount : {i.amount : i \in Everything}, kind : LoadKinds] :
        KindFits(r.kind, r)}

Layers == UNION {[S -> Rows] : S \in SUBSET RowIds}

Same(x, y) == x.table = y.table /\ x.key = y.key

Held(layer, item) == \E p \in DOMAIN layer : IsParent(layer[p], item)

OnceEach(table) ==
    \A a, b \in DOMAIN table :
        a # b /\ Same(table[a], table[b]) =>
            /\ ~Unique(table[a])
            /\ Counted(table[a]) => /\ table[a].kind = "legacy" /\ table[b].kind = "legacy"
                                    /\ table[a].supplier # table[b].supplier

\* A transaction's layer over the committed rows: it could be committed as it is.
Fits(layer, table) ==
    /\ layer \in Layers
    /\ \A id \in DOMAIN layer \cap DOMAIN table : Same(layer[id], table[id])
    /\ \A id \in DOMAIN layer : Counted(layer[id]) => Held(layer, layer[id])
    /\ OnceEach(Over(layer, table))

\* What the locks on rows and on the keys of unique indexes do for two of them.
Apart(y, z) ==
    /\ DOMAIN y \cap DOMAIN z = {}
    /\ \A a \in DOMAIN y, b \in DOMAIN z : Unique(y[a]) => ~Same(y[a], z[b])

LEMMA ApartIsSymmetric ==
    ASSUME NEW y, NEW z, Apart(y, z)
    PROVE  Apart(z, y)
  BY DEF Apart, Same, Unique

LEMMA NothingIsALayer == Nothing \in Layers /\ DOMAIN Nothing = {}
<1>1. Nothing = [n \in {} |-> n] /\ Nothing \in [{} -> Rows]
  BY DEF Nothing
<1> QED
  BY <1>1 DEF Layers

LEMMA LayerRows ==
    ASSUME NEW y \in Layers, NEW id \in DOMAIN y
    PROVE  y[id] \in Rows /\ id \in RowIds
  BY DEF Layers

LEMMA OverIsEither ==
    ASSUME NEW y, NEW z
    PROVE  /\ DOMAIN Over(y, z) = DOMAIN y \cup DOMAIN z
           /\ \A id \in DOMAIN y : Over(y, z)[id] = y[id]
           /\ \A id \in DOMAIN z \ DOMAIN y : Over(y, z)[id] = z[id]
  BY DEF Over

LEMMA OverIsALayer ==
    ASSUME NEW y \in Layers, NEW z \in Layers
    PROVE  Over(y, z) \in Layers
<1> DEFINE S == DOMAIN y \cup DOMAIN z
<1>1. S \in SUBSET RowIds /\ \A id \in S : (IF id \in DOMAIN y THEN y[id] ELSE z[id]) \in Rows
  BY LayerRows
<1>2. Over(y, z) \in [S -> Rows]
  BY <1>1 DEF Over
<1> QED
  BY <1>1, <1>2 DEF Layers

LEMMA PutIsALayer ==
    ASSUME NEW y \in Layers, NEW id \in RowIds, NEW row \in Rows
    PROVE  Put(y, id, row) \in Layers
<1> DEFINE S == DOMAIN y \cup {id}
<1>1. S \in SUBSET RowIds /\ \A n \in S : (IF n = id THEN row ELSE y[n]) \in Rows
  BY LayerRows
<1>2. Put(y, id, row) \in [S -> Rows]
  BY <1>1 DEF Put
<1> QED
  BY <1>1, <1>2 DEF Layers

\* Two transactions have no award or contract in common: their parents would
\* be one row.
LEMMA NamesakesApart ==
    ASSUME NEW y \in Layers, NEW z \in Layers, Apart(y, z),
           \A id \in DOMAIN y : Counted(y[id]) => Held(y, y[id]),
           NEW a \in DOMAIN y, NEW item, Same(y[a], item), Counted(y[a]),
           Held(z, item)
    PROVE  FALSE
<1>1. PICK p \in DOMAIN y : IsParent(y[p], y[a])
  BY DEF Held
<1>2. PICK q \in DOMAIN z : IsParent(z[q], item)
  BY DEF Held
<1>3. Same(y[p], z[q]) /\ Unique(y[p])
  BY <1>1, <1>2 DEF Same, IsParent, Unique
<1> QED
  BY <1>3 DEF Apart

\* A commit of one leaves the other as good as it was.
LEMMA CommitKeepsFits ==
    ASSUME NEW table \in Layers, NEW y, NEW z,
           Fits(y, table), Fits(z, table), Apart(y, z)
    PROVE  Fits(y, Over(z, table))
<1> DEFINE new == Over(z, table)
<1> USE DEF Fits
<1>1. ASSUME NEW id \in DOMAIN y \cap DOMAIN new
      PROVE  Same(y[id], new[id])
  BY DEF Apart, Over
<1>2. ASSUME NEW a \in DOMAIN y, NEW b \in DOMAIN z, Same(y[a], z[b])
      PROVE  ~Unique(y[a]) /\ ~Counted(y[a])
  <2>1. Counted(y[a]) => Counted(z[b])
    BY <1>2 DEF Same, Counted, Nameless
  <2>2. ~Counted(y[a])
    BY <1>2, <2>1, NamesakesApart DEF Same
  <2> QED
    BY <1>2, <2>2 DEF Apart
<1>3. ASSUME NEW a \in DOMAIN Over(y, new), NEW b \in DOMAIN Over(y, new), a # b,
             Same(Over(y, new)[a], Over(y, new)[b])
      PROVE  LET T == Over(y, new)
             IN  /\ ~Unique(T[a])
                 /\ Counted(T[a]) => /\ T[a].kind = "legacy" /\ T[b].kind = "legacy"
                                     /\ T[a].supplier # T[b].supplier
  <2> DEFINE T == Over(y, new)
  <2>1. /\ DOMAIN T = DOMAIN y \cup DOMAIN z \cup DOMAIN table
        /\ \A id \in DOMAIN y : T[id] = y[id]
        /\ \A id \in DOMAIN z : T[id] = z[id]
        /\ \A id \in DOMAIN table \ (DOMAIN y \cup DOMAIN z) : T[id] = table[id]
    BY DEF Apart, Over
  <2>2. CASE a \in DOMAIN y /\ b \in DOMAIN z
    BY <1>2, <1>3, <2>1, <2>2
  <2>3. CASE a \in DOMAIN z /\ b \in DOMAIN y
    <3>1. Same(y[b], z[a]) /\ ~Unique(y[b]) /\ ~Counted(y[b])
      BY <1>2, <1>3, <2>1, <2>3 DEF Same
    <3> QED
      BY <1>3, <2>1, <2>3, <3>1 DEF Same, Unique, Counted, Nameless
  <2>4. CASE a \notin DOMAIN z /\ b \notin DOMAIN z
    <3>1. /\ a \in DOMAIN Over(y, table) /\ b \in DOMAIN Over(y, table)
          /\ T[a] = Over(y, table)[a] /\ T[b] = Over(y, table)[b]
      BY <2>1, <2>4 DEF Over
    <3> QED
      BY <1>3, <3>1 DEF OnceEach
  <2>5. CASE a \notin DOMAIN y /\ b \notin DOMAIN y
    <3>1. /\ a \in DOMAIN Over(z, table) /\ b \in DOMAIN Over(z, table)
          /\ T[a] = Over(z, table)[a] /\ T[b] = Over(z, table)[b]
      BY <2>1, <2>5 DEF Over
    <3> QED
      BY <1>3, <3>1 DEF OnceEach
  <2> QED
    BY <2>1, <2>2, <2>3, <2>4, <2>5, OverIsEither DEF Apart
<1>4. OnceEach(Over(y, new))
  BY <1>3 DEF OnceEach
<1> QED
  BY <1>1, <1>4

\* What a written row must not be for the layer to stay good.
Welcome(layer, table, id, row) ==
    LET seen == Over(layer, table)
    IN  /\ id \in DOMAIN seen => Same(seen[id], row)
        /\ Counted(row) => Held(layer, row)
        /\ \A b \in DOMAIN seen \ {id} :
              Same(seen[b], row) =>
                  /\ ~Unique(row)
                  /\ Counted(row) => /\ seen[b].kind = "legacy" /\ row.kind = "legacy"
                                     /\ seen[b].supplier # row.supplier

LEMMA PutKeepsFits ==
    ASSUME NEW table \in Layers, NEW y, Fits(y, table),
           NEW id \in RowIds, NEW row \in Rows, Welcome(y, table, id, row)
    PROVE  Fits(Put(y, id, row), table)
<1> DEFINE new == Put(y, id, row)
           seen == Over(y, table)
           T == Over(new, table)
<1> USE DEF Fits
<1>1. /\ DOMAIN new = DOMAIN y \cup {id}
      /\ new[id] = row /\ \A n \in DOMAIN y \ {id} : new[n] = y[n]
  BY DEF Put
<1>2. new \in Layers
  BY PutIsALayer
<1>3. ASSUME NEW n \in DOMAIN new \cap DOMAIN table
      PROVE  Same(new[n], table[n])
  BY <1>1 DEF Welcome, Same, Over
<1>4. ASSUME NEW p \in DOMAIN y
      PROVE  Same(y[p], new[p])
  BY <1>1 DEF Welcome, Same, Over
<1>5. ASSUME NEW item, Held(y, item)
      PROVE  Held(new, item)
  BY <1>1, <1>4, <1>5 DEF Held, IsParent, Same
<1>6. ASSUME NEW n \in DOMAIN new, Counted(new[n])
      PROVE  Held(new, new[n])
  BY <1>1, <1>5, <1>6 DEF Welcome
<1>7. /\ DOMAIN T = DOMAIN seen \cup {id} /\ T[id] = row
      /\ \A n \in DOMAIN seen \ {id} : T[n] = seen[n]
  BY <1>1 DEF Over
<1>8. ASSUME NEW a \in DOMAIN T, NEW b \in DOMAIN T, a # b, Same(T[a], T[b])
      PROVE  /\ ~Unique(T[a])
             /\ Counted(T[a]) => /\ T[a].kind = "legacy" /\ T[b].kind = "legacy"
                                 /\ T[a].supplier # T[b].supplier
  <2>1. CASE a # id /\ b # id
    BY <1>7, <1>8, <2>1 DEF OnceEach
  <2>2. CASE a = id
    BY <1>7, <1>8, <2>2 DEF Welcome, Same
  <2>3. CASE b = id
    <3>1. a \in DOMAIN seen \ {id} /\ Same(seen[a], row) /\ T[a] = seen[a] /\ T[b] = row
      BY <1>7, <1>8, <2>3
    <3> QED
      BY <3>1 DEF Welcome, Same, Unique, Counted, Nameless
  <2> QED
    BY <1>8, <2>1, <2>2, <2>3
<1>9. OnceEach(T)
  BY <1>8 DEF OnceEach
<1> QED
  BY <1>2, <1>3, <1>6, <1>9

(***************************************************************************)
(* Transactions.                                                           *)
(***************************************************************************)
Loaded == UNION {Releases(kind) : kind \in LoadKinds}

Seens == {Unread, NoRow} \cup [read : {TRUE}, id : RowIds, row : Rows]

Shaped(t) ==
    /\ t \in [kind : LoadKinds, file : Seq(Loaded), todo : Seq(Everything), seen : Seens,
              own : Layers, base : Layers, done : SUBSET Loaded, ok : BOOLEAN]
    /\ t.file \in Seq(Releases(t.kind))
    /\ t.todo \in Seq(AllAsked(t.kind))

\* The parent of an award or a contract to come is written, or to come before.
Ordered(todo, own, kind) ==
    \A n \in 1..Len(todo) :
        Counted(todo[n]) => /\ kind # "budget"
                            /\ \/ Held(own, todo[n])
                               \/ \E m \in 1..(n - 1) : IsParent(todo[m], todo[n])

Within(base, own) ==
    /\ DOMAIN base \subseteq DOMAIN own
    /\ \A id \in DOMAIN base : Same(base[id], own[id])

\* What the SELECT saw is so still, wherever the row is counted.
LookedUp(t, table) ==
    LET item == Head(t.todo)
        all == Over(t.own, table)
    IN  t.todo # <<>> /\ t.seen # Unread =>
            /\ t.seen = NoRow =>
                  /\ Counted(item) => Matches(t.kind, item, all) = {}
                  /\ Unique(item) => \A id \in DOMAIN t.own : ~Same(t.own[id], item)
            /\ t.seen # NoRow =>
                  /\ t.seen.id \in DOMAIN all /\ Same(all[t.seen.id], item)
                  /\ Same(t.seen.row, item)
                  /\ Counted(item) => /\ t.seen.row = all[t.seen.id]
                                      /\ SameSupplier(t.kind, item, t.seen.row)

TxFits(t, table) ==
    /\ Shaped(t)
    /\ Ordered(t.todo, t.own, t.kind)
    /\ Fits(t.own, table)
    /\ t.file # <<>> => Within(t.base, t.own) /\ Fits(t.base, table)
    /\ LookedUp(t, table)

LoadInv ==
    /\ rows \in Layers /\ OnceEach(rows)
    /\ IsFiniteSet(UsedIds)
    /\ \A l \in DOMAIN tx : TxFits(tx[l], rows)
    /\ \A l, o \in DOMAIN tx : l # o => Apart(tx[l].own, tx[o].own)

LEMMA AskedItems ==
    ASSUME NEW kind \in LoadKinds, NEW item \in AllAsked(kind)
    PROVE  item \in Everything /\ KindFits(kind, item) /\ (kind = "budget" => ~Counted(item))
<1>1. PICK r \in {q \in Releases(kind) : Readable(kind, q)} : item \in Range(Asked(kind, r))
  BY DEF AllAsked
<1>2. Asked(kind, r) \in Seq(AllAsked(kind))
  BY <1>1, ParentsComeFirst DEF LoadKinds
<1>3. PICK n \in 1..Len(Asked(kind, r)) : item = Asked(kind, r)[n]
  BY <1>1, <1>2 DEF Range
<1>4. kind = "budget" => ~Counted(item)
  BY <1>1, <1>3, ParentsComeFirst DEF LoadKinds
<1>5. ASSUME Counted(item), kind # "legacy", <<item.table, item.key>> \in LegacyIds
      PROVE  FALSE
  BY <1>4, <1>5, OneIdentity DEF LegacyIds, LoadKinds, Kinds
<1>6. kind = "legacy" => <<item.table, item.key>> \in LegacyIds
  BY DEF LegacyIds
<1> QED
  BY <1>4, <1>5, <1>6 DEF KindFits, Everything

LEMMA TodoFits ==
    ASSUME NEW kind \in LoadKinds, NEW file \in Seq(Releases(kind)), NEW own
    PROVE  /\ Todo(kind, file) \in Seq(AllAsked(kind))
           /\ Ordered(Todo(kind, file), own, kind)
<1>1. CASE file # <<>> /\ Readable(kind, Head(file))
  <2>1. Head(file) \in {q \in Releases(kind) : Readable(kind, q)}
    BY <1>1
  <2> QED
    BY <1>1, <2>1, ParentsComeFirst DEF Todo, Ordered, LoadKinds
<1>2. CASE ~(file # <<>> /\ Readable(kind, Head(file)))
  BY <1>2 DEF Todo, Ordered
<1> QED
  BY <1>1, <1>2

LEMMA SeqsAreOfAll ==
    ASSUME NEW kind \in LoadKinds
    PROVE  /\ \A s \in Seq(AllAsked(kind)) : s \in Seq(Everything)
           /\ \A s \in Seq(Releases(kind)) : s \in Seq(Loaded)
<1>1. AllAsked(kind) \subseteq Everything /\ Releases(kind) \subseteq Loaded
  BY DEF Everything, Loaded
<1> QED
  BY <1>1

LEMMA BegunFits ==
    ASSUME NEW kind \in LoadKinds, NEW file \in Files(kind), rows \in Layers, OnceEach(rows)
    PROVE  TxFits(Begun(kind, file), rows) /\ Begun(kind, file).own = Nothing
<1>1. file \in Seq(Releases(kind))
  BY ParentsComeFirst DEF LoadKinds
<1>2. /\ Todo(kind, file) \in Seq(AllAsked(kind))
      /\ Ordered(Todo(kind, file), Nothing, kind)
  BY <1>1, TodoFits
<1>3. Over(Nothing, rows) = rows
  <2>1. rows = [id \in DOMAIN rows |-> rows[id]]
    BY DEF Layers, LoadInv
  <2> QED
    BY <2>1, NothingIsALayer DEF Over
<1>4. Fits(Nothing, rows)
  BY <1>3, NothingIsALayer DEF Fits
<1>5. Shaped(Begun(kind, file))
  BY <1>1, <1>2, SeqsAreOfAll, NothingIsALayer DEF Begun, Shaped, Seens
<1> QED
  BY <1>2, <1>4, <1>5, NothingIsALayer DEF TxFits, Begun, Within, LookedUp

LEMMA NextIdIsNew ==
    ASSUME IsFiniteSet(UsedIds)
    PROVE  NextId \in RowIds /\ NextId \notin UsedIds
<1> DEFINE c == Cardinality(UsedIds)
<1>1. c \in Nat
  BY FS_CardinalityType
<1>2. \E n \in 1..(c + 1) : n \notin UsedIds
  <2>1. SUFFICES ASSUME 1..(c + 1) \subseteq UsedIds
                 PROVE  FALSE
    OBVIOUS
  <2>2. Cardinality(1..(c + 1)) = c + 1
    BY <1>1, FS_Interval
  <2>3. Cardinality(1..(c + 1)) <= c
    BY <2>1, FS_Subset
  <2> QED
    BY <1>1, <2>2, <2>3
<1>3. NextId \in 1..(c + 1) /\ NextId \notin UsedIds
  BY <1>2 DEF NextId
<1> QED
  BY <1>1, <1>3 DEF RowIds

(***************************************************************************)
(* A commit beside a transaction.                                          *)
(***************************************************************************)
LEMMA CommitKeepsLookUp ==
    ASSUME NEW table \in Layers, NEW t, TxFits(t, table),
           NEW z, Fits(z, table), Apart(t.own, z)
    PROVE  LookedUp(t, Over(z, table))
<1> DEFINE item == Head(t.todo)
           all == Over(t.own, table)
           new == Over(t.own, Over(z, table))
<1>1. SUFFICES ASSUME t.todo # <<>>, t.seen # Unread
               PROVE  /\ t.seen = NoRow =>
                            (Counted(item) => Matches(t.kind, item, new) = {})
                      /\ t.seen # NoRow =>
                            /\ t.seen.id \in DOMAIN new /\ Same(new[t.seen.id], item)
                            /\ Counted(item) => new[t.seen.id] = all[t.seen.id]
  BY DEF LookedUp, TxFits
<1>2. Counted(item) => Held(t.own, item)
  <2>1. Len(t.todo) \in Nat \ {0} /\ item = t.todo[1]
    BY <1>1 DEF TxFits, Shaped
  <2> QED
    BY <2>1 DEF TxFits, Ordered
<1>3. ASSUME NEW id \in DOMAIN z, Same(z[id], item)
      PROVE  ~Counted(item)
  <2>1. Counted(item) => Counted(z[id])
    BY <1>3 DEF Same, Counted, Nameless
  <2>2. t.own \in Layers /\ z \in Layers /\ Apart(z, t.own)
    BY ApartIsSymmetric DEF TxFits, Fits
  <2> QED
    BY <1>2, <1>3, <2>1, <2>2, NamesakesApart DEF Fits
<1>4. /\ DOMAIN new = DOMAIN t.own \cup DOMAIN z \cup DOMAIN table
      /\ DOMAIN all = DOMAIN t.own \cup DOMAIN table
      /\ \A id \in DOMAIN t.own : new[id] = t.own[id] /\ all[id] = t.own[id]
      /\ \A id \in DOMAIN z : new[id] = z[id]
      /\ \A id \in DOMAIN all \ DOMAIN z : new[id] = all[id]
      /\ \A id \in DOMAIN all \cap DOMAIN z : all[id] = table[id] /\ Same(z[id], table[id])
  BY DEF Over, Apart, TxFits, Fits
<1>5. ASSUME t.seen = NoRow, Counted(item), NEW id \in Matches(t.kind, item, new)
      PROVE  FALSE
  <2>1. id \in DOMAIN new /\ Same(new[id], item)
    BY <1>5 DEF Matches, Same
  <2>2. id \notin DOMAIN z
    BY <1>3, <1>4, <1>5, <2>1
  <2>3. id \in DOMAIN all /\ new[id] = all[id]
    BY <1>4, <2>1, <2>2
  <2>4. id \in Matches(t.kind, item, all)
    BY <1>5, <2>3 DEF Matches
  <2> QED
    BY <1>1, <1>5, <2>4 DEF TxFits, LookedUp
<1>6. ASSUME t.seen # NoRow
      PROVE  /\ t.seen.id \in DOMAIN new /\ Same(new[t.seen.id], item)
             /\ Counted(item) => new[t.seen.id] = all[t.seen.id]
  <2>1. t.seen.id \in DOMAIN all /\ Same(all[t.seen.id], item)
    BY <1>1, <1>6 DEF TxFits, LookedUp
  <2>2. t.seen.id \in DOMAIN z => Same(z[t.seen.id], item)
    BY <1>4, <2>1 DEF Same
  <2> QED
    BY <1>3, <1>4, <2>1, <2>2
<1> QED
  BY <1>5, <1>6

LEMMA CommitKeepsTx ==
    ASSUME NEW table \in Layers, NEW t, TxFits(t, table),
           NEW z, Fits(z, table), Apart(t.own, z)
    PROVE  TxFits(t, Over(z, table))
<1>1. Fits(t.own, Over(z, table))
  BY CommitKeepsFits DEF TxFits
<1>2. ASSUME t.file # <<>>
      PROVE  Fits(t.base, Over(z, table))
  <2>1. Apart(t.base, z)
    BY <1>2 DEF TxFits, Within, Apart, Same, Unique
  <2> QED
    BY <1>2, <2>1, CommitKeepsFits DEF TxFits
<1> QED
  BY <1>1, <1>2, CommitKeepsLookUp DEF TxFits

(***************************************************************************)
(* Steps: a transaction begins or goes on, or it ends.                     *)
(***************************************************************************)
LEMMA GoesOn ==
    ASSUME LoadInv, rows' = rows, NEW l, NEW t, TxFits(t, rows),
           DOMAIN t.own \subseteq UsedIds \cup {NextId},
           \A o \in DOMAIN tx \ {l} : Apart(t.own, tx[o].own),
           DOMAIN tx' = DOMAIN tx \cup {l}, tx'[l] = t,
           \A o \in DOMAIN tx \ {l} : tx'[o] = tx[o]
    PROVE  LoadInv'
<1>1. rows' \in Layers /\ OnceEach(rows')
  BY DEF LoadInv
<1>2. IsFiniteSet(UsedIds')
  <2>1. UsedIds' \subseteq UsedIds \cup {NextId}
    BY DEF UsedIds
  <2>2. IsFiniteSet(UsedIds \cup {NextId})
    BY FS_AddElement DEF LoadInv
  <2> QED
    BY <2>1, <2>2, FS_Subset
<1>3. \A o \in DOMAIN tx' : TxFits(tx'[o], rows')
  BY DEF LoadInv
<1>4. ASSUME NEW o \in DOMAIN tx', NEW p \in DOMAIN tx', o # p
      PROVE  Apart(tx'[o].own, tx'[p].own)
  <2>1. CASE o # l /\ p # l
    BY <1>4, <2>1 DEF LoadInv
  <2>2. CASE o = l
    BY <1>4, <2>2
  <2>3. CASE p = l
    BY <1>4, <2>3, ApartIsSymmetric
  <2> QED
    BY <2>1, <2>2, <2>3
<1> QED
  BY <1>1, <1>2, <1>3, <1>4 DEF LoadInv

LEMMA Ends ==
    ASSUME LoadInv, NEW l \in DOMAIN tx, tx' = Drop(tx, l),
           rows' = rows \/ rows' = Over(tx[l].own, rows)
    PROVE  LoadInv'
<1>1. DOMAIN tx' = DOMAIN tx \ {l} /\ \A o \in DOMAIN tx' : tx'[o] = tx[o]
  BY DEF Drop
<1>2. Fits(tx[l].own, rows)
  BY DEF LoadInv, TxFits
<1>3. rows' \in Layers /\ OnceEach(rows')
  <2>1. CASE rows' = rows
    BY <2>1 DEF LoadInv
  <2>2. CASE rows' = Over(tx[l].own, rows)
    BY <1>2, <2>2, OverIsALayer DEF LoadInv, Fits
  <2> QED
    BY <2>1, <2>2
<1>4. IsFiniteSet(UsedIds')
  <2>1. UsedIds' \subseteq UsedIds
    BY <1>1 DEF UsedIds, Over
  <2> QED
    BY <2>1, FS_Subset DEF LoadInv
<1>5. ASSUME NEW o \in DOMAIN tx'
      PROVE  TxFits(tx'[o], rows')
  <2>1. TxFits(tx[o], rows) /\ Apart(tx[o].own, tx[l].own) /\ tx'[o] = tx[o]
    BY <1>1, <1>5 DEF LoadInv
  <2> QED
    BY <1>2, <2>1, CommitKeepsTx DEF LoadInv
<1> QED
  BY <1>1, <1>3, <1>4, <1>5 DEF LoadInv

LEMMA BeginKeeps ==
    ASSUME LoadInv, NEW l, l \notin DOMAIN tx, NEW kind \in LoadKinds,
           NEW file \in Files(kind), rows' = rows, tx' = Put(tx, l, Begun(kind, file))
    PROVE  LoadInv'
<1> DEFINE t == Begun(kind, file)
<1>1. TxFits(t, rows) /\ t.own = Nothing
  BY BegunFits DEF LoadInv
<1>2. DOMAIN t.own \subseteq UsedIds \cup {NextId} /\ \A o \in DOMAIN tx : Apart(t.own, tx[o].own)
  BY <1>1, NothingIsALayer DEF Apart
<1>3. DOMAIN tx' = DOMAIN tx \cup {l} /\ tx'[l] = t /\ \A o \in DOMAIN tx \ {l} : tx'[o] = tx[o]
  BY DEF Put
<1> QED
  BY <1>1, <1>2, <1>3, GoesOn

LEMMA OwnStays ==
    ASSUME LoadInv, NEW l \in DOMAIN tx, NEW t, TxFits(t, rows),
           t.own = tx[l].own \/ Within(t.own, tx[l].own),
           rows' = rows, tx' = [tx EXCEPT ![l] = t]
    PROVE  LoadInv'
<1>1. DOMAIN t.own \subseteq UsedIds \cup {NextId}
  BY DEF UsedIds, Within
<1>2. \A o \in DOMAIN tx \ {l} : Apart(t.own, tx[o].own)
  BY DEF LoadInv, Apart, Within, Same, Unique
<1> QED
  BY <1>1, <1>2, GoesOn

(***************************************************************************)
(* A row is written.                                                       *)
(***************************************************************************)
LEMMA CurrentItem ==
    ASSUME LoadInv, NEW l \in DOMAIN tx, tx[l].todo # <<>>
    PROVE  LET t == tx[l]
               item == Head(t.todo)
           IN  /\ t.todo[1] = item /\ Len(t.todo) \in Nat \ {0}
               /\ item \in AllAsked(t.kind) /\ item \in Everything
               /\ KindFits(t.kind, item)
               /\ Counted(item) => Held(t.own, item) /\ t.kind # "budget"
<1> DEFINE t == tx[l]
           item == Head(t.todo)
<1>1. t.todo \in Seq(AllAsked(t.kind)) /\ t.kind \in LoadKinds /\ Ordered(t.todo, t.own, t.kind)
  BY DEF LoadInv, TxFits, Shaped
<1>2. t.todo[1] = item /\ Len(t.todo) \in Nat \ {0} /\ item \in AllAsked(t.kind)
  BY <1>1
<1>3. Counted(item) => Held(t.own, item) /\ t.kind # "budget"
  BY <1>1, <1>2 DEF Ordered
<1> QED
  BY <1>1, <1>2, <1>3, AskedItems

LEMMA TailIsOrdered ==
    ASSUME NEW kind \in LoadKinds, NEW todo \in Seq(AllAsked(kind)), todo # <<>>,
           NEW own, NEW new, Ordered(todo, own, kind),
           \A item : Held(own, item) => Held(new, item),
           \A item : IsParent(Head(todo), item) => Held(new, item)
    PROVE  Ordered(Tail(todo), new, kind)
<1>1. SUFFICES ASSUME NEW n \in 1..Len(Tail(todo)), Counted(Tail(todo)[n])
               PROVE  /\ kind # "budget"
                      /\ \/ Held(new, Tail(todo)[n])
                         \/ \E m \in 1..(n - 1) : IsParent(Tail(todo)[m], Tail(todo)[n])
  BY DEF Ordered
<1>2. n + 1 \in 1..Len(todo) /\ Tail(todo)[n] = todo[n + 1] /\ todo[1] = Head(todo)
  OBVIOUS
<1>3. CASE Held(own, todo[n + 1])
  BY <1>1, <1>2, <1>3 DEF Ordered
<1>4. ASSUME NEW m \in 1..n, IsParent(todo[m], todo[n + 1])
      PROVE  Held(new, Tail(todo)[n]) \/ \E k \in 1..(n - 1) : IsParent(Tail(todo)[k], Tail(todo)[n])
  <2>1. CASE m = 1
    BY <1>2, <1>4, <2>1
  <2>2. CASE m # 1
    <3>1. m - 1 \in 1..(n - 1) /\ Tail(todo)[m - 1] = todo[m]
      BY <2>2
    <3> QED
      BY <1>2, <1>4, <3>1
  <2> QED
    BY <2>1, <2>2
<1> QED
  BY <1>1, <1>2, <1>3, <1>4 DEF Ordered

LEMMA WriteKeeps ==
    ASSUME LoadInv, NEW l \in DOMAIN tx, tx[l].todo # <<>>,
           NEW id \in RowIds, id \in UsedIds \cup {NextId},
           NEW row \in Rows, Same(row, Head(tx[l].todo)),
           Welcome(tx[l].own, rows, id, row),
           \A o \in DOMAIN tx \ {l} :
               /\ id \notin DOMAIN tx[o].own
               /\ Unique(row) => \A b \in DOMAIN tx[o].own : ~Same(tx[o].own[b], row),
           rows' = rows, tx' = [tx EXCEPT ![l] = After(l, id, row)]
    PROVE  LoadInv'
<1> DEFINE t == tx[l]
           new == Put(t.own, id, row)
           u == After(l, id, row)
<1>1. TxFits(t, rows) /\ rows \in Layers
  BY DEF LoadInv
<1>2. /\ u.own = new /\ u.todo = Tail(t.todo) /\ u.seen = Unread /\ u.kind = t.kind
      /\ u.file = t.file /\ u.base = t.base
  BY <1>1 DEF After, TxFits, Shaped
<1>3. /\ DOMAIN new = DOMAIN t.own \cup {id} /\ new[id] = row
      /\ \A n \in DOMAIN t.own \ {id} : new[n] = t.own[n]
      /\ \A n \in DOMAIN t.own : Same(new[n], t.own[n])
  BY DEF Put, Welcome, Over, Same
<1>4. Fits(new, rows) /\ new \in Layers
  BY <1>1, PutKeepsFits DEF TxFits, Fits
<1>5. Tail(t.todo) \in Seq(AllAsked(t.kind)) /\ Tail(t.todo) \in Seq(Everything)
  BY <1>1, SeqsAreOfAll DEF TxFits, Shaped
<1>6. Shaped(u)
  BY <1>1, <1>2, <1>4, <1>5 DEF TxFits, Shaped, After, Seens
<1>7. Ordered(Tail(t.todo), new, t.kind)
  <2>1. \A item : Held(t.own, item) => Held(new, item)
    BY <1>3 DEF Held, IsParent, Same
  <2>2. \A item : IsParent(Head(t.todo), item) => Held(new, item)
    BY <1>3 DEF Held, IsParent, Same
  <2> QED
    BY <1>1, <2>1, <2>2, TailIsOrdered DEF TxFits, Shaped
<1>8. t.file # <<>> => Within(t.base, new)
  BY <1>1, <1>3 DEF TxFits, Within, Same
<1>9. TxFits(u, rows)
  BY <1>1, <1>2, <1>4, <1>6, <1>7, <1>8 DEF TxFits, LookedUp
<1>10. DOMAIN new \subseteq UsedIds \cup {NextId}
  BY <1>3 DEF UsedIds
<1>11. ASSUME NEW o \in DOMAIN tx \ {l}
       PROVE  Apart(new, tx[o].own)
  <2>1. Apart(t.own, tx[o].own)
    BY DEF LoadInv
  <2> QED
    BY <1>3, <2>1 DEF Apart, Same, Unique
<1>12. DOMAIN tx' = DOMAIN tx \cup {l} /\ tx'[l] = u /\ \A o \in DOMAIN tx \ {l} : tx'[o] = tx[o]
  OBVIOUS
<1> QED
  BY <1>2, <1>9, <1>10, <1>11, <1>12, GoesOn

LEMMA InsertedIsARow ==
    ASSUME NEW kind \in LoadKinds, NEW item \in Everything, KindFits(kind, item)
    PROVE  Inserted(kind, item) \in Rows /\ Same(Inserted(kind, item), item)
  BY DEF Inserted, Rows, KindFits, Same, Counted, Nameless

LEMMA UpdatedIsARow ==
    ASSUME NEW kind \in LoadKinds, NEW row \in Rows, NEW item \in Everything,
           KindFits(kind, item), Same(row, item)
    PROVE  Updated(kind, row, item) \in Rows /\ Same(Updated(kind, row, item), item)
<1> DEFINE new == Updated(kind, row, item)
<1>1. CASE kind \in {"legacy", "budget"}
  BY <1>1 DEF Updated, Rows, KindFits, Same, Counted, Nameless
<1>2. CASE kind \notin {"legacy", "budget"}
  <2>1. ShallowMergeKind(row, kind) \in {"archive", "live"}
    BY <1>2 DEF ShallowMergeKind, LoadKinds, Kinds
  <2>2. PickValue(row.amount, item.amount, ProtectLiveFromArchive(row, kind))
            \in {i.amount : i \in Everything}
    BY DEF PickValue, Rows
  <2>3. new = [row EXCEPT
                  !.supplier = item.supplier,
                  !.amount = PickValue(row.amount, item.amount,
                                       ProtectLiveFromArchive(row, kind)),
                  !.kind = ShallowMergeKind(row, kind)]
    BY <1>2 DEF Updated
  <2>4. /\ new.table = row.table /\ new.key = row.key /\ new.kind \in {"archive", "live"}
        /\ new \in [table : {i.table : i \in Everything}, key : {i.key : i \in Everything},
                    supplier : {i.supplier : i \in Everything},
                    amount : {i.amount : i \in Everything}, kind : LoadKinds]
    BY <2>1, <2>2, <2>3 DEF Rows, LoadKinds, Kinds
  <2>5. KindFits(new.kind, new)
    BY <1>2, <2>4 DEF KindFits, Same, Counted, Nameless
  <2> QED
    BY <2>4, <2>5 DEF Rows, Same
<1> QED
  BY <1>1, <1>2

LEMMA SelectKeeps ==
    ASSUME LoadInv, NEW l \in Loaders, Select(l)
    PROVE  LoadInv'
<1> DEFINE t == tx[l]
           item == Head(t.todo)
           all == Over(t.own, rows)
<1>1. l \in DOMAIN tx /\ t.todo # <<>> /\ TxFits(t, rows) /\ rows \in Layers
  BY DEF Select, AtItem, LoadInv
<1>2. all \in Layers /\ DOMAIN t.own \subseteq DOMAIN all
      /\ \A id \in DOMAIN t.own : all[id] = t.own[id]
  BY <1>1, OverIsALayer DEF TxFits, Fits, Over
<1>3. PICK seen \in Seens :
          /\ tx' = [tx EXCEPT ![l].seen = seen]
          /\ \/ seen = NoRow /\ Matches(t.kind, item, all) = {}
             \/ \E id \in Matches(t.kind, item, all) :
                   seen = [read |-> TRUE, id |-> id, row |-> all[id]]
  <2>1. CASE Matches(t.kind, item, all) = {} /\ tx' = [tx EXCEPT ![l].seen = NoRow]
    BY <2>1 DEF Seens
  <2>2. ASSUME NEW id \in Matches(t.kind, item, all),
               tx' = [tx EXCEPT ![l].seen = [read |-> TRUE, id |-> id, row |-> all[id]]]
        PROVE  [read |-> TRUE, id |-> id, row |-> all[id]] \in Seens
    <3>1. id \in RowIds /\ all[id] \in Rows
      BY <1>2, LayerRows DEF Matches
    <3> QED
      BY <3>1 DEF Seens
  <2> QED
    BY <2>1, <2>2 DEF Select, Seen, Current
<1> DEFINE u == [t EXCEPT !.seen = seen]
<1>4. /\ u.kind = t.kind /\ u.file = t.file /\ u.todo = t.todo /\ u.own = t.own
      /\ u.base = t.base /\ u.seen = seen /\ Shaped(u)
  BY <1>1 DEF TxFits, Shaped
<1>5. LookedUp(u, rows)
  <2>1. CASE seen = NoRow /\ Matches(t.kind, item, all) = {}
    <3>1. ASSUME Unique(item), NEW id \in DOMAIN t.own
          PROVE  ~Same(t.own[id], item)
      BY <1>2, <2>1, <3>1 DEF Matches, Unique, SameSupplier, Same, Nameless
    <3> QED
      BY <1>4, <2>1, <3>1 DEF LookedUp
  <2>2. ASSUME NEW id \in Matches(t.kind, item, all),
               seen = [read |-> TRUE, id |-> id, row |-> all[id]]
        PROVE  LookedUp(u, rows)
    <3>1. /\ id \in DOMAIN all /\ Same(all[id], item) /\ SameSupplier(t.kind, item, all[id])
          /\ id \in RowIds
      BY <1>2, LayerRows DEF Matches, Same
    <3>2. seen.id = id /\ seen.row = all[id] /\ seen # NoRow
      BY <2>2, <3>1 DEF NoRow, RowIds
    <3> QED
      BY <1>4, <3>1, <3>2 DEF LookedUp
  <2> QED
    BY <1>3, <2>1, <2>2
<1>6. TxFits(u, rows)
  BY <1>1, <1>4, <1>5 DEF TxFits
<1>7. tx' = [tx EXCEPT ![l] = u] /\ rows' = rows
  BY <1>3 DEF Select
<1> QED
  BY <1>1, <1>4, <1>6, <1>7, OwnStays

LEMMA InsertRowKeeps ==
    ASSUME LoadInv, NEW l \in Loaders, InsertRow(l)
    PROVE  LoadInv'
<1> DEFINE t == tx[l]
           item == Head(t.todo)
           row == Inserted(t.kind, item)
           all == Over(t.own, rows)
<1>1. /\ l \in DOMAIN tx /\ t.todo # <<>> /\ t.seen = NoRow /\ TxFits(t, rows)
      /\ rows \in Layers /\ t.kind \in LoadKinds
  BY DEF InsertRow, AtItem, LoadInv, TxFits, Shaped
<1>2. /\ item \in Everything /\ KindFits(t.kind, item)
      /\ Counted(item) => Held(t.own, item)
  BY <1>1, CurrentItem
<1>3. row \in Rows /\ Same(row, item) /\ row.kind = t.kind /\ row.supplier = item.supplier
  BY <1>1, <1>2, InsertedIsARow DEF Inserted
<1>4. NextId \in RowIds /\ NextId \notin UsedIds
  BY NextIdIsNew DEF LoadInv
<1>5. DOMAIN all = DOMAIN t.own \cup DOMAIN rows /\ DOMAIN all \subseteq UsedIds
  BY <1>1 DEF Over, UsedIds
<1>6. /\ Counted(item) => Matches(t.kind, item, all) = {}
      /\ Unique(item) => \A id \in DOMAIN t.own : ~Same(t.own[id], item)
  <2>1. t.seen # Unread
    BY <1>1 DEF NoRow, Unread
  <2> QED
    BY <1>1, <2>1 DEF TxFits, LookedUp
<1>7. ASSUME NEW b \in DOMAIN all, Same(all[b], row)
      PROVE  /\ ~Unique(row)
             /\ Counted(row) => /\ all[b].kind = "legacy" /\ row.kind = "legacy"
                                /\ all[b].supplier # row.supplier
  <2>1. ASSUME Unique(row)
        PROVE  FALSE
    <3>1. Unique(item) /\ ~Nameless(item) /\ Same(all[b], item)
      BY <1>3, <1>7, <2>1 DEF Unique, Same, Nameless
    <3>2. b \in DOMAIN rows /\ all[b] = rows[b]
      BY <1>5, <1>6, <3>1 DEF Over
    <3>3. b \in Matches("archive", item, rows)
      BY <3>1, <3>2 DEF Matches, Same, SameSupplier
    <3> QED
      BY <3>1, <3>3 DEF InsertRow, Taken, Current
  <2>2. ASSUME Counted(row)
        PROVE  /\ all[b].kind = "legacy" /\ row.kind = "legacy"
               /\ all[b].supplier # row.supplier
    <3>1. Counted(item) /\ ~Nameless(item) /\ Same(all[b], item)
      BY <1>3, <1>7, <2>2 DEF Counted, Same, Nameless
    <3>2. ~SameSupplier(t.kind, item, all[b])
      BY <1>6, <3>1 DEF Matches, Same
    <3>3. t.kind = "legacy" /\ all[b].supplier # item.supplier
      BY <3>2 DEF SameSupplier
    <3>4. all[b] \in Rows
      BY <1>1, OverIsALayer, LayerRows DEF TxFits, Fits
    <3>5. all[b].kind = "legacy"
      BY <1>2, <3>1, <3>3, <3>4 DEF Rows, KindFits, Same, Counted, Nameless
    <3> QED
      BY <1>3, <3>3, <3>5
  <2> QED
    BY <2>1, <2>2
<1>8. Welcome(t.own, rows, NextId, row)
  <2>1. Counted(row) => Held(t.own, row)
    BY <1>2, <1>3 DEF Counted, Nameless, Same, Held, IsParent
  <2> QED
    BY <1>4, <1>5, <1>7, <2>1 DEF Welcome
<1>9. ASSUME NEW o \in DOMAIN tx \ {l}
      PROVE  /\ NextId \notin DOMAIN tx[o].own
             /\ Unique(row) => \A b \in DOMAIN tx[o].own : ~Same(tx[o].own[b], row)
  <2>1. NextId \notin DOMAIN tx[o].own
    BY <1>4 DEF UsedIds
  <2>2. ASSUME Unique(row), NEW b \in DOMAIN tx[o].own, Same(tx[o].own[b], row)
        PROVE  FALSE
    <3>1. Unique(item) /\ ~Nameless(item) /\ Same(tx[o].own[b], item)
      BY <1>3, <2>2 DEF Unique, Same, Nameless
    <3>2. b \in Matches("archive", item, tx[o].own)
      BY <3>1 DEF Matches, Same, SameSupplier
    <3> QED
      BY <3>1, <3>2 DEF InsertRow, InsertedByOther, Others, Current
  <2> QED
    BY <2>1, <2>2
<1>10. rows' = rows /\ tx' = [tx EXCEPT ![l] = After(l, NextId, row)]
  BY DEF InsertRow, Current
<1> QED
  BY <1>1, <1>3, <1>4, <1>8, <1>9, <1>10, WriteKeeps

LEMMA UpdateRowKeeps ==
    ASSUME LoadInv, NEW l \in Loaders, UpdateRow(l)
    PROVE  LoadInv'
<1> DEFINE t == tx[l]
           item == Head(t.todo)
           id == t.seen.id
           row == Updated(t.kind, t.seen.row, item)
           all == Over(t.own, rows)
<1>1. /\ l \in DOMAIN tx /\ t.todo # <<>> /\ t.seen.read /\ t.seen # NoRow
      /\ TxFits(t, rows) /\ rows \in Layers /\ t.kind \in LoadKinds /\ t.seen \in Seens
  BY DEF UpdateRow, AtItem, LoadInv, TxFits, Shaped
<1>2. t.seen # Unread /\ id \in RowIds /\ t.seen.row \in Rows
  <2>1. t.seen # Unread
    <3>1. ~Unread.read
      BY DEF Unread
    <3> QED
      BY <1>1, <3>1
  <2>2. t.seen \in [read : {TRUE}, id : RowIds, row : Rows]
    BY <1>1, <2>1 DEF Seens
  <2> QED
    BY <2>1, <2>2
<1>3. /\ item \in Everything /\ KindFits(t.kind, item)
      /\ Counted(item) => Held(t.own, item)
  BY <1>1, CurrentItem
<1>4. /\ id \in DOMAIN all /\ Same(all[id], item) /\ Same(t.seen.row, item)
      /\ Counted(item) => t.seen.row = all[id]
  BY <1>1, <1>2 DEF TxFits, LookedUp
<1>5. row \in Rows /\ Same(row, item)
  BY <1>1, <1>2, <1>3, <1>4, UpdatedIsARow
<1>6. DOMAIN all = DOMAIN t.own \cup DOMAIN rows /\ DOMAIN all \subseteq UsedIds
  BY <1>1 DEF Over, UsedIds
<1>7. /\ Unique(row) => Unique(all[id])
      /\ Counted(row) => Counted(item) /\ Counted(all[id])
  BY <1>4, <1>5 DEF Unique, Counted, Nameless, Same
<1>8. ASSUME NEW b \in DOMAIN all \ {id}, Same(all[b], row)
      PROVE  /\ ~Unique(row)
             /\ Counted(row) => /\ all[b].kind = "legacy" /\ row.kind = "legacy"
                                /\ all[b].supplier # row.supplier
  <2>1. Same(all[id], all[b])
    BY <1>4, <1>5, <1>8 DEF Same
  <2>2. /\ ~Unique(all[id])
        /\ Counted(all[id]) => /\ all[id].kind = "legacy" /\ all[b].kind = "legacy"
                               /\ all[id].supplier # all[b].supplier
    BY <1>1, <1>4, <1>8, <2>1 DEF TxFits, Fits, OnceEach
  <2>3. ASSUME Counted(row)
        PROVE  row.kind = "legacy" /\ row.supplier = all[id].supplier
    <3>1. all[id] \in Rows /\ all[id].kind = "legacy"
      BY <1>1, <1>4, <1>7, <2>2, <2>3, OverIsALayer, LayerRows DEF TxFits, Fits
    <3>2. t.kind = "legacy"
      BY <1>3, <1>4, <1>7, <2>3, <3>1 DEF Rows, KindFits, Same
    <3> QED
      BY <1>2, <1>4, <1>7, <2>3, <3>2 DEF Updated, Rows
  <2> QED
    BY <1>7, <2>2, <2>3
<1>9. Welcome(t.own, rows, id, row)
  <2>1. Counted(row) => Held(t.own, row)
    BY <1>3, <1>5, <1>7 DEF Same, Held, IsParent
  <2>2. Same(all[id], row)
    BY <1>4, <1>5 DEF Same
  <2> QED
    BY <1>8, <2>1, <2>2 DEF Welcome
<1>10. ASSUME NEW o \in DOMAIN tx \ {l}
       PROVE  /\ id \notin DOMAIN tx[o].own
              /\ Unique(row) => \A b \in DOMAIN tx[o].own : ~Same(tx[o].own[b], row)
  <2>1. id \notin DOMAIN tx[o].own
    BY DEF UpdateRow, HeldByOther, Others
  <2>2. ASSUME Unique(row), NEW b \in DOMAIN tx[o].own, Same(tx[o].own[b], row)
        PROVE  FALSE
    <3>1. Unique(all[id]) /\ Same(all[id], tx[o].own[b])
      BY <1>4, <1>5, <1>7, <2>2 DEF Same
    <3>2. Apart(t.own, tx[o].own) /\ Fits(tx[o].own, rows)
      BY <1>1 DEF LoadInv, TxFits
    <3>3. CASE id \in DOMAIN t.own
      BY <3>1, <3>2, <3>3 DEF Apart, Over
    <3>4. CASE id \notin DOMAIN t.own
      <4>1. id \in DOMAIN rows /\ all[id] = rows[id]
        BY <1>4, <1>6, <3>4 DEF Over
      <4> DEFINE T == Over(tx[o].own, rows)
      <4>2. /\ id \in DOMAIN T /\ b \in DOMAIN T /\ id # b
            /\ T[id] = rows[id] /\ T[b] = tx[o].own[b]
        BY <2>1, <4>1 DEF Over
      <4> QED
        BY <3>1, <3>2, <4>1, <4>2 DEF Fits, OnceEach
    <3> QED
      BY <3>3, <3>4
  <2> QED
    BY <2>1, <2>2
<1>11. rows' = rows /\ tx' = [tx EXCEPT ![l] = After(l, id, row)]
  BY DEF UpdateRow, Current
<1> QED
  BY <1>1, <1>2, <1>4, <1>5, <1>6, <1>9, <1>10, <1>11, WriteKeeps

LEMMA UpsertLineKeeps ==
    ASSUME LoadInv, NEW l \in Loaders, UpsertLine(l)
    PROVE  LoadInv'
<1> DEFINE t == tx[l]
           item == Head(t.todo)
           all == Over(t.own, rows)
           found == Matches("budget", item, all)
<1>1. /\ l \in DOMAIN tx /\ t.todo # <<>> /\ item.table = "line"
      /\ TxFits(t, rows) /\ rows \in Layers
  BY DEF UpsertLine, AtItem, Current, LoadInv
<1>2. item \in Everything /\ KindFits("budget", item) /\ "budget" \in LoadKinds
  BY <1>1, CurrentItem DEF KindFits, Counted, LoadKinds
<1>3. found = {id \in DOMAIN all : Same(all[id], item)}
  BY <1>1 DEF Matches, Same, SameSupplier, Nameless
<1>4. all \in Layers /\ DOMAIN all \subseteq UsedIds
  BY <1>1, OverIsALayer DEF TxFits, Fits, Over, UsedIds
<1>5. ASSUME NEW o \in DOMAIN tx \ {l}, NEW b \in DOMAIN tx[o].own
      PROVE  ~Same(tx[o].own[b], item)
  <2>1. Matches("archive", item, tx[o].own) = {}
    BY <1>1 DEF UpsertLine, InsertedByOther, Others, Unique, Current
  <2> QED
    BY <1>1, <2>1 DEF Matches, Same, SameSupplier, Nameless
<1>6. CASE found = {} /\ tx' = [tx EXCEPT ![l] = After(l, NextId, Inserted("budget", item))]
  <2> DEFINE row == Inserted("budget", item)
  <2>1. row \in Rows /\ Same(row, item)
    BY <1>2, InsertedIsARow
  <2>2. NextId \in RowIds /\ NextId \notin UsedIds
    BY NextIdIsNew DEF LoadInv
  <2>3. Welcome(t.own, rows, NextId, row)
    BY <1>1, <1>3, <1>4, <1>6, <2>1, <2>2 DEF Welcome, Same, Counted
  <2>4. \A o \in DOMAIN tx \ {l} :
            /\ NextId \notin DOMAIN tx[o].own
            /\ \A b \in DOMAIN tx[o].own : ~Same(tx[o].own[b], row)
    BY <1>5, <2>1, <2>2 DEF UsedIds, Same
  <2>5. rows' = rows
    BY DEF UpsertLine
  <2> QED
    BY <1>1, <1>6, <2>1, <2>2, <2>3, <2>4, <2>5, WriteKeeps
<1>7. ASSUME NEW id \in found,
             tx' = [tx EXCEPT ![l] = After(l, id, Updated("budget", all[id], item))]
      PROVE  LoadInv'
  <2> DEFINE row == Updated("budget", all[id], item)
  <2>1. id \in DOMAIN all /\ Same(all[id], item) /\ all[id] \in Rows /\ id \in RowIds
    BY <1>3, <1>4, LayerRows
  <2>2. row \in Rows /\ Same(row, item)
    BY <1>2, <2>1, UpdatedIsARow
  <2>3. \A b \in DOMAIN all \ {id} : ~Same(all[b], row)
    BY <1>1, <2>1, <2>2 DEF TxFits, Fits, OnceEach, Same, Unique
  <2>4. Welcome(t.own, rows, id, row)
    BY <1>1, <2>1, <2>2, <2>3 DEF Welcome, Same, Counted
  <2>5. ASSUME NEW o \in DOMAIN tx \ {l}
        PROVE  /\ id \notin DOMAIN tx[o].own
               /\ \A b \in DOMAIN tx[o].own : ~Same(tx[o].own[b], row)
    <3>1. \A b \in DOMAIN tx[o].own : ~Same(tx[o].own[b], row)
      BY <1>5, <2>2 DEF Same
    <3>2. ASSUME id \in DOMAIN tx[o].own
          PROVE  FALSE
      <4>1. Apart(t.own, tx[o].own) /\ Fits(tx[o].own, rows)
        BY <1>1 DEF LoadInv, TxFits
      <4>2. id \in DOMAIN rows /\ all[id] = rows[id]
        BY <2>1, <3>2, <4>1 DEF Apart, Over
      <4> QED
        BY <1>5, <2>1, <3>2, <4>1, <4>2 DEF Fits, Same
    <3> QED
      BY <3>1, <3>2
  <2>6. rows' = rows
    BY DEF UpsertLine
  <2> QED
    BY <1>1, <1>4, <1>7, <2>1, <2>2, <2>4, <2>5, <2>6, WriteKeeps
<1> QED
  BY <1>6, <1>7 DEF UpsertLine, Seen, Current

LEMMA FindAgencyKeeps ==
    ASSUME LoadInv, NEW l \in Loaders, FindAgency(l)
    PROVE  LoadInv'
<1> DEFINE t == tx[l]
           u == [t EXCEPT !.todo = Tail(@), !.seen = Unread]
<1>1. /\ l \in DOMAIN tx /\ t.todo # <<>> /\ t.kind = "budget" /\ TxFits(t, rows)
      /\ tx' = [tx EXCEPT ![l] = u] /\ rows' = rows
  BY DEF FindAgency, AtItem, LoadInv
<1>2. /\ Tail(t.todo) \in Seq(AllAsked(t.kind)) /\ Tail(t.todo) \in Seq(Everything)
  BY <1>1, SeqsAreOfAll DEF TxFits, Shaped
<1>3. /\ Shaped(u) /\ u.own = t.own /\ u.file = t.file /\ u.base = t.base
      /\ u.todo = Tail(t.todo) /\ u.seen = Unread /\ u.kind = t.kind
  BY <1>1, <1>2 DEF TxFits, Shaped, Seens
<1>4. Ordered(Tail(t.todo), t.own, t.kind)
  <2>1. \A n \in 1..Len(t.todo) : ~Counted(t.todo[n])
    BY <1>1 DEF TxFits, Ordered
  <2>2. \A n \in 1..Len(Tail(t.todo)) :
            n + 1 \in 1..Len(t.todo) /\ Tail(t.todo)[n] = t.todo[n + 1]
    BY <1>1 DEF TxFits, Shaped
  <2> QED
    BY <2>1, <2>2 DEF Ordered
<1>5. TxFits(u, rows)
  BY <1>1, <1>3, <1>4 DEF TxFits, LookedUp
<1> QED
  BY <1>1, <1>3, <1>5, OwnStays

(***************************************************************************)
(* The ends of releases and of loads.                                      *)
(***************************************************************************)
LEMMA NextReleaseFits ==
    ASSUME LoadInv, NEW t, TxFits(t, rows), t.file # <<>>,
           NEW own \in {t.own, t.base}, NEW done \in SUBSET Loaded,
           NEW base \in {t.base, own}
    PROVE  TxFits([AtNext(t) EXCEPT !.own = own, !.base = base, !.done = done], rows)
<1> DEFINE u == [AtNext(t) EXCEPT !.own = own, !.base = base, !.done = done]
<1>1. /\ Shaped(t) /\ t.kind \in LoadKinds /\ t.file \in Seq(Releases(t.kind))
      /\ Within(t.base, t.own) /\ Fits(t.base, rows) /\ Fits(t.own, rows)
  BY DEF TxFits, Shaped
<1>2. Tail(t.file) \in Seq(Releases(t.kind)) /\ Tail(t.file) \in Seq(Loaded)
  <2> DEFINE R == Releases(t.kind)
  <2>1. Tail(t.file) \in Seq(R)
    <3>1. t.file \in Seq(R) /\ t.file # <<>>
      BY <1>1
    <3> HIDE DEF R
    <3> QED
      BY <3>1
  <2> QED
    BY <1>1, <2>1, SeqsAreOfAll
<1>3. /\ Todo(t.kind, Tail(t.file)) \in Seq(AllAsked(t.kind))
      /\ Todo(t.kind, Tail(t.file)) \in Seq(Everything)
      /\ Ordered(Todo(t.kind, Tail(t.file)), own, t.kind)
  BY <1>1, <1>2, TodoFits, SeqsAreOfAll
<1>4. /\ Shaped(u) /\ u.own = own /\ u.base = base /\ u.seen = Unread /\ u.kind = t.kind
      /\ u.todo = Todo(t.kind, Tail(t.file))
  BY <1>1, <1>2, <1>3 DEF Shaped, AtNext, Seens, Fits
<1>5. Fits(own, rows) /\ Fits(base, rows) /\ Within(base, own)
  BY <1>1 DEF Within, Same
<1> QED
  BY <1>3, <1>4, <1>5 DEF TxFits, LookedUp

LEMMA EndReleaseKeeps ==
    ASSUME LoadInv, NEW l \in Loaders, EndRelease(l)
    PROVE  LoadInv'
<1> DEFINE t == tx[l]
           u == [AtNext(t) EXCEPT !.own = t.own, !.base = t.own,
                                  !.done = t.done \cup {Head(t.file)}]
<1>1. l \in DOMAIN tx /\ t.file # <<>> /\ TxFits(t, rows)
  BY DEF EndRelease, InRelease, LoadInv
<1>2. t.done \cup {Head(t.file)} \in SUBSET Loaded
  BY <1>1 DEF TxFits, Shaped
<1>3. TxFits(u, rows)
  BY <1>1, <1>2, NextReleaseFits
<1>4. u.own = t.own /\ u = [AtNext(t) EXCEPT !.base = t.own,
                                            !.done = t.done \cup {Head(t.file)}]
  <2>1. t \in [kind : LoadKinds, file : Seq(Loaded), todo : Seq(Everything),
               seen : Seens, own : Layers, base : Layers, done : SUBSET Loaded,
               ok : BOOLEAN]
    BY <1>1 DEF TxFits, Shaped
  <2> QED
    BY <2>1 DEF AtNext
<1>5. tx' = [tx EXCEPT ![l] = u] /\ rows' = rows
  BY <1>4 DEF EndRelease
<1> QED
  BY <1>1, <1>3, <1>4, <1>5, OwnStays

LEMMA ReleaseFailsKeeps ==
    ASSUME LoadInv, NEW l \in Loaders, ReleaseFails(l)
    PROVE  LoadInv'
<1> DEFINE t == tx[l]
           u == [AtNext(t) EXCEPT !.own = t.base, !.base = t.base, !.done = t.done]
<1>1. l \in DOMAIN tx /\ t.file # <<>> /\ TxFits(t, rows)
  BY DEF ReleaseFails, InRelease, LoadInv
<1>2. TxFits(u, rows)
  BY <1>1, NextReleaseFits DEF TxFits, Shaped
<1>3. u.own = t.base /\ tx' = [tx EXCEPT ![l] = u] /\ rows' = rows
  BY <1>1 DEF ReleaseFails, RolledBack, AtNext, TxFits, Shaped
<1>4. Within(t.base, t.own)
  BY <1>1 DEF TxFits
<1> QED
  BY <1>1, <1>2, <1>3, <1>4, OwnStays

LEMMA BodyUnreadableKeeps ==
    ASSUME LoadInv, NEW l \in Loaders, BodyUnreadable(l)
    PROVE  LoadInv'
<1> DEFINE t == tx[l]
           u == [Unreadable(t) EXCEPT !.file = <<>>, !.todo = <<>>, !.done = {}, !.ok = FALSE]
<1>1. l \in DOMAIN tx /\ TxFits(t, rows) /\ tx' = [tx EXCEPT ![l] = u] /\ rows' = rows
  BY DEF BodyUnreadable, LoadInv
<1>2. /\ Shaped(u) /\ u.own = Nothing /\ u.file = <<>> /\ u.todo = <<>> /\ u.kind = t.kind
      /\ u.base = t.base /\ u.seen = t.seen
  <2>1. /\ t \in [kind : LoadKinds, file : Seq(Loaded), todo : Seq(Everything),
                  seen : Seens, own : Layers, base : Layers, done : SUBSET Loaded,
                  ok : BOOLEAN]
        /\ <<>> \in Seq(Loaded) /\ <<>> \in Seq(Everything) /\ {} \in SUBSET Loaded
    BY <1>1 DEF TxFits, Shaped
  <2>2. /\ Unreadable(t) \in [kind : LoadKinds, file : Seq(Loaded), todo : Seq(Everything),
                             seen : Seens, own : Layers, base : Layers,
                             done : SUBSET Loaded, ok : BOOLEAN]
        /\ Unreadable(t).kind = t.kind /\ Unreadable(t).seen = t.seen
        /\ Unreadable(t).own = Nothing /\ Unreadable(t).base = t.base
    BY <2>1, NothingIsALayer DEF Unreadable
  <2>3. <<>> \in Seq(Releases(t.kind)) /\ <<>> \in Seq(AllAsked(t.kind))
    OBVIOUS
  <2> QED
    BY <2>1, <2>2, <2>3, NothingIsALayer DEF Shaped
<1>3. Fits(Nothing, rows)
  <2>1. Over(Nothing, rows) = rows
    BY NothingIsALayer DEF Over, Layers, LoadInv
  <2> QED
    BY <2>1, NothingIsALayer DEF Fits, LoadInv
<1>4. TxFits(u, rows)
  BY <1>2, <1>3 DEF TxFits, Ordered, LookedUp
<1>5. Within(u.own, t.own)
  BY <1>2, NothingIsALayer DEF Within
<1> QED
  BY <1>1, <1>4, <1>5, OwnStays

(***************************************************************************)
(* The invariant.                                                          *)
(***************************************************************************)
LEMMA LoadInit == Init => LoadInv
<1> SUFFICES ASSUME Init
             PROVE  LoadInv
  OBVIOUS
<1>1. rows = Nothing /\ tx = Nothing /\ DOMAIN rows = {} /\ DOMAIN tx = {}
  BY NothingIsALayer DEF Init
<1>2. UsedIds = {}
  BY <1>1 DEF UsedIds
<1> QED
  BY <1>1, <1>2, NothingIsALayer, FS_EmptySet DEF LoadInv, OnceEach

LEMMA UnchangedKeeps ==
    ASSUME LoadInv, UNCHANGED <<rows, tx>>
    PROVE  LoadInv'
  BY DEF LoadInv, UsedIds

LEMMA LoadNext == LoadInv /\ [Next]_vars => LoadInv'
<1> SUFFICES ASSUME LoadInv, [Next]_vars
             PROVE  LoadInv'
  OBVIOUS
<1>1. CASE UNCHANGED vars
  BY <1>1, UnchangedKeeps DEF vars
<1>2. ASSUME NEW l \in Loaders, StartJob(l) \/ SkipPublication(l) \/ RegistryRefuses(l)
      PROVE  LoadInv'
  BY <1>2, UnchangedKeeps DEF StartJob, SkipPublication, RegistryRefuses
<1>3. ASSUME NEW l \in Loaders, BeginPublication(l)
      PROVE  LoadInv'
  <2>1. PICK body \in Bodies[Head(job[l])] : tx' = Put(tx, l, Begun("archive", body))
    BY <1>3 DEF BeginPublication
  <2>2. body \in Files("archive")
    BY <1>3, <2>1, OcdsLoadAssumption DEF BeginPublication, Files, Range
  <2> QED
    BY <1>3, <2>1, <2>2, BeginKeeps DEF BeginPublication, Between, LoadKinds, Kinds
<1>4. ASSUME NEW l \in Loaders, NEW kind \in DOMAIN Documents,
             NEW package \in Documents[kind], StartLoad(l, kind, package)
      PROVE  LoadInv'
  <2>1. kind \in LoadKinds /\ package \in Files(kind)
    BY OcdsLoadAssumption DEF LoadKinds, Kinds, Files
  <2> QED
    BY <1>4, <2>1, BeginKeeps DEF StartLoad, Free
<1>5. ASSUME NEW l \in Loaders, NEW doc \in Budgets, StartBudget(l, doc)
      PROVE  LoadInv'
  <2>1. <<doc>> \in Files("budget") /\ "budget" \in LoadKinds
    BY DEF Files, LoadKinds
  <2> QED
    BY <1>5, <2>1, BeginKeeps DEF StartBudget, Free
<1>6. ASSUME NEW l \in Loaders, LoadFails(l) \/ BudgetBreaksOff(l) \/ Commit(l)
      PROVE  LoadInv'
  BY <1>6, Ends DEF LoadFails, BudgetBreaksOff, Commit, AtItem
<1> QED
  BY <1>1, <1>2, <1>3, <1>4, <1>5, <1>6, SelectKeeps, InsertRowKeeps, UpdateRowKeeps,
     FindAgencyKeeps, UpsertLineKeeps, EndReleaseKeeps, ReleaseFailsKeeps, BodyUnreadableKeeps
     DEF Next

\* Whatever loads do, each of them could be committed as it stands, and what it
\* looked up of an award or a contract is so until it writes.
THEOREM LoadInvariant == Spec => []LoadInv
<1>1. Init => LoadInv
  BY LoadInit
<1>2. LoadInv /\ [Next]_vars => LoadInv'
  BY LoadNext
<1> QED
  BY <1>1, <1>2, PTL DEF Spec

\* Spec 0041, section 3.1: however many loads of releases and budgets run side by
\* side, fail, break off or are rolled back in part, no award and no contract has
\* two rows, except one of a legacy load for each of its suppliers.
THEOREM CountedOnce == Spec => []NothingIsCountedTwice
<1>1. LoadInv => NothingIsCountedTwice
  BY DEF LoadInv, OnceEach, NothingIsCountedTwice, Same
<1> QED
  BY <1>1, LoadInvariant, PTL

(***************************************************************************)
(* What a load has counted is there, and what is there was loaded.         *)
(***************************************************************************)
Accounted(item, table) == Nameless(item) \/ \E id \in DOMAIN table : Same(table[id], item)

Whole(kind, r, table) ==
    \A n \in 1..Len(Asked(kind, r)) : Accounted(Asked(kind, r)[n], table)

\* What is left of a release is its last items, and those before are accounted for.
Behind(items, todo, past, table) ==
    /\ Len(items) = past + Len(todo)
    /\ \A n \in 1..Len(todo) : todo[n] = items[past + n]
    /\ \A n \in 1..past : Accounted(items[n], table)

Underway(t, table) ==
    t.file # <<>> /\ Readable(t.kind, Head(t.file)) =>
        \E past \in Nat : Behind(Asked(t.kind, Head(t.file)), t.todo, past, table)

\* An amount that is known stays known, and one of a live load is kept by an
\* archive load.
KeepsAmounts(kind, layer, table) ==
    \A id \in DOMAIN layer \cap DOMAIN table :
        Counted(table[id]) /\ table[id].kind # "legacy" /\ table[id].amount # NoAmount =>
            /\ layer[id].amount # NoAmount
            /\ kind = "archive" /\ table[id].kind = "live" =>
                  layer[id].amount = table[id].amount /\ layer[id].kind = "live"

TxIsWhole(t, table) ==
    LET all == Over(t.own, table)
    IN  /\ t.todo # <<>> => t.file # <<>> /\ Readable(t.kind, Head(t.file))
        /\ Underway(t, all)
        /\ \A r \in t.done : Whole(t.kind, r, all)
        /\ t.file # <<>> => \A r \in t.done : Whole(t.kind, r, Over(t.base, table))
        /\ ~t.ok => DOMAIN t.own = {} /\ t.file = <<>>
        /\ t.kind = "budget" =>
              \A id \in DOMAIN t.own :
                  t.own[id].table = "line" \/ (t.own[id].table = "party" /\ t.own[id].kind = "budget")
        /\ KeepsAmounts(t.kind, t.own, table)
        /\ t.file # <<>> => KeepsAmounts(t.kind, t.base, table)

WholeInv ==
    /\ \A l \in DOMAIN tx : TxIsWhole(tx[l], rows)
    /\ \A e \in extractions : \A r \in e.releases : Whole(e.kind, r, rows)
    /\ \A id \in DOMAIN rows :
          \/ rows[id].table = "party" /\ rows[id].kind = "budget"
          \/ \E e \in extractions : e.ok /\ id \in e.edges

LEMMA AccountedStays ==
    ASSUME NEW item, NEW old, NEW new, Within(old, new), Accounted(item, old)
    PROVE  Accounted(item, new)
  BY DEF Accounted, Within, Same

LEMMA WholeStays ==
    ASSUME NEW kind, NEW r, NEW old, NEW new, Within(old, new), Whole(kind, r, old)
    PROVE  Whole(kind, r, new)
  BY AccountedStays DEF Whole

LEMMA UnderwayStays ==
    ASSUME NEW t, NEW old, NEW new, Within(old, new), Underway(t, old)
    PROVE  Underway(t, new)
  BY AccountedStays DEF Underway, Behind

\* A commit takes no row away, from the committed ones or from a transaction's view.
LEMMA CommitAdds ==
    ASSUME NEW table, NEW z, Fits(z, table)
    PROVE  Within(table, Over(z, table))
  BY DEF Fits, Within, Over, Same

LEMMA CommitAddsTo ==
    ASSUME NEW table, NEW z, Fits(z, table), NEW y
    PROVE  Within(Over(y, table), Over(y, Over(z, table)))
  BY DEF Fits, Within, Over, Same

LEMMA CommitKeepsAmounts ==
    ASSUME NEW table, NEW z, NEW y, NEW kind, Apart(y, z), KeepsAmounts(kind, y, table)
    PROVE  KeepsAmounts(kind, y, Over(z, table))
<1>1. ASSUME NEW id \in DOMAIN y \cap DOMAIN Over(z, table)
      PROVE  id \in DOMAIN table /\ Over(z, table)[id] = table[id]
  BY <1>1 DEF Apart, Over
<1> QED
  BY <1>1 DEF KeepsAmounts

LEMMA CommitKeepsWhole ==
    ASSUME NEW table, NEW z, Fits(z, table), NEW t, TxFits(t, table), Apart(t.own, z),
           TxIsWhole(t, table)
    PROVE  TxIsWhole(t, Over(z, table))
<1>1. Within(Over(t.own, table), Over(t.own, Over(z, table)))
  BY CommitAddsTo
<1>2. Within(Over(t.base, table), Over(t.base, Over(z, table)))
  BY CommitAddsTo
<1>3. KeepsAmounts(t.kind, t.own, Over(z, table))
  BY CommitKeepsAmounts DEF TxIsWhole
<1>4. t.file # <<>> => KeepsAmounts(t.kind, t.base, Over(z, table))
  <2>1. t.file # <<>> => Apart(t.base, z)
    BY DEF TxFits, Within, Apart, Same, Unique
  <2> QED
    BY <2>1, CommitKeepsAmounts DEF TxIsWhole
<1>5. Underway(t, Over(t.own, Over(z, table)))
  BY <1>1, UnderwayStays DEF TxIsWhole
<1>6. \A r \in t.done : Whole(t.kind, r, Over(t.own, Over(z, table)))
  BY <1>1, WholeStays DEF TxIsWhole
<1>7. t.file # <<>> => \A r \in t.done : Whole(t.kind, r, Over(t.base, Over(z, table)))
  BY <1>2, WholeStays DEF TxIsWhole
<1> QED
  BY <1>3, <1>4, <1>5, <1>6, <1>7 DEF TxIsWhole

LEMMA AskedIsASeq ==
    ASSUME NEW kind \in LoadKinds, NEW r \in Releases(kind), Readable(kind, r)
    PROVE  Asked(kind, r) \in Seq(AllAsked(kind))
  BY ParentsComeFirst DEF LoadKinds

\* The items of a release, before any of them is looked at.
LEMMA TodoIsUnderway ==
    ASSUME NEW t, NEW table, t.kind \in LoadKinds, t.file \in Seq(Releases(t.kind)),
           t.todo = Todo(t.kind, t.file)
    PROVE  /\ Underway(t, table)
           /\ t.todo # <<>> => t.file # <<>> /\ Readable(t.kind, Head(t.file))
<1>0. PICK kind, file : kind = t.kind /\ file = t.file
  OBVIOUS
<1>1. CASE file # <<>> /\ Readable(kind, Head(file))
  <2>1. Head(file) \in Releases(kind) /\ kind \in LoadKinds
    BY <1>0, <1>1
  <2>2. t.todo = Asked(kind, Head(file)) /\ t.todo \in Seq(AllAsked(kind))
    BY <1>0, <1>1, <2>1, AskedIsASeq DEF Todo
  <2>3. Behind(t.todo, t.todo, 0, table)
    <3>1. /\ Len(t.todo) \in Nat /\ Len(t.todo) = 0 + Len(t.todo)
          /\ \A n \in 1..Len(t.todo) : 0 + n = n
      BY <2>2
    <3> QED
      BY <3>1 DEF Behind
  <2> QED
    <3>1. Asked(t.kind, Head(t.file)) = t.todo
      BY <1>0, <2>2
    <3>2. \E past \in Nat : Behind(Asked(t.kind, Head(t.file)), t.todo, past, table)
      BY <2>3, <3>1
    <3> QED
      BY <1>0, <1>1, <3>2 DEF Underway
<1>2. CASE ~(file # <<>> /\ Readable(kind, Head(file)))
  BY <1>0, <1>2 DEF Todo, Underway
<1> QED
  BY <1>1, <1>2

LEMMA BegunIsWhole ==
    ASSUME NEW kind \in LoadKinds, NEW file \in Files(kind), NEW table
    PROVE  TxIsWhole(Begun(kind, file), table)
<1> DEFINE t == Begun(kind, file)
<1>1. /\ t.kind = kind /\ t.file = file /\ t.todo = Todo(kind, file) /\ t.own = Nothing
      /\ t.base = Nothing /\ t.done = {} /\ t.ok = TRUE
  BY DEF Begun
<1>2. file \in Seq(Releases(kind))
  BY ParentsComeFirst DEF LoadKinds
<1>3. /\ Underway(t, Over(t.own, table))
      /\ t.todo # <<>> => t.file # <<>> /\ Readable(t.kind, Head(t.file))
  BY <1>1, <1>2, TodoIsUnderway
<1> QED
  BY <1>1, <1>3, NothingIsALayer DEF TxIsWhole, KeepsAmounts

\* One item more is accounted for.
LEMMA TailIsUnderway ==
    ASSUME NEW t, NEW u, Shaped(t), t.todo # <<>>, NEW table, NEW new,
           Underway(t, table), Within(table, new), Accounted(Head(t.todo), new),
           u.file = t.file, u.kind = t.kind, u.todo = Tail(t.todo)
    PROVE  Underway(u, new)
<1> SUFFICES ASSUME t.file # <<>> /\ Readable(t.kind, Head(t.file))
             PROVE  \E past \in Nat : Behind(Asked(t.kind, Head(t.file)), u.todo, past, new)
  BY DEF Underway
<1>1. PICK items : items = Asked(t.kind, Head(t.file))
  OBVIOUS
<1>2. PICK past \in Nat : Behind(items, t.todo, past, table)
  BY <1>1 DEF Underway
<1>3. /\ Len(t.todo) \in Nat \ {0} /\ Len(u.todo) = Len(t.todo) - 1 /\ Head(t.todo) = t.todo[1]
      /\ \A n \in 1..Len(u.todo) : u.todo[n] = t.todo[n + 1]
  BY DEF Shaped
<1>4. Len(items) = (past + 1) + Len(u.todo)
  BY <1>2, <1>3 DEF Behind
<1>5. ASSUME NEW n \in 1..Len(u.todo)
      PROVE  u.todo[n] = items[(past + 1) + n]
  <2>1. n + 1 \in 1..Len(t.todo) /\ past + (n + 1) = (past + 1) + n
    BY <1>2, <1>3
  <2> QED
    BY <1>2, <1>3, <2>1 DEF Behind
<1>6. ASSUME NEW n \in 1..(past + 1)
      PROVE  Accounted(items[n], new)
  <2>1. CASE n = past + 1
    BY <1>2, <1>3, <2>1 DEF Behind
  <2>2. CASE n # past + 1
    <3>1. n \in 1..past
      BY <2>2
    <3> QED
      BY <1>2, <3>1, AccountedStays DEF Behind
  <2> QED
    BY <2>1, <2>2
<1>7. Behind(items, u.todo, past + 1, new)
  BY <1>4, <1>5, <1>6 DEF Behind
<1> QED
  BY <1>1, <1>7

(***************************************************************************)
(* The steps of one transaction.                                           *)
(***************************************************************************)
LEMMA MakesWhole ==
    ASSUME NEW u, NEW table,
           u.ok /\ (u.todo # <<>> => u.file # <<>> /\ Readable(u.kind, Head(u.file))),
           \A r \in u.done :
               Whole(u.kind, r, Over(u.own, table)) /\ Whole(u.kind, r, Over(u.base, table)),
           KeepsAmounts(u.kind, u.own, table), KeepsAmounts(u.kind, u.base, table),
           u.kind = "budget" =>
               \A n \in DOMAIN u.own :
                   u.own[n].table = "line" \/ (u.own[n].table = "party" /\ u.own[n].kind = "budget"),
           Underway(u, Over(u.own, table))
    PROVE  TxIsWhole(u, table)
  BY DEF TxIsWhole

LEMMA WriteIsWhole ==
    ASSUME LoadInv, NEW l \in DOMAIN tx, TxIsWhole(tx[l], rows), tx[l].todo # <<>>,
           NEW id, NEW row, Same(row, Head(tx[l].todo)),
           id \in DOMAIN Over(tx[l].own, rows) => Same(Over(tx[l].own, rows)[id], row),
           id \in DOMAIN rows => KeepsAmounts(tx[l].kind, [n \in {id} |-> row], rows),
           tx[l].kind = "budget" => row.table = "line" \/ (row.table = "party" /\ row.kind = "budget")
    PROVE  TxIsWhole(After(l, id, row), rows)
<1> DEFINE t == tx[l]
           u == After(l, id, row)
           new == Put(t.own, id, row)
<1>1. TxFits(t, rows) /\ Shaped(t)
  BY DEF LoadInv, TxFits
<1>2. /\ u.own = new /\ u.todo = Tail(t.todo) /\ u.kind = t.kind /\ u.file = t.file
      /\ u.base = t.base /\ u.done = t.done /\ u.ok = t.ok
  BY <1>1 DEF After, Shaped
<1>3. /\ DOMAIN new = DOMAIN t.own \cup {id} /\ new[id] = row
      /\ \A n \in DOMAIN t.own \ {id} : new[n] = t.own[n]
  BY DEF Put
<1>4. Within(Over(t.own, rows), Over(new, rows))
  BY <1>3 DEF Within, Over, Same
<1>5. Accounted(Head(t.todo), Over(new, rows))
  <2>1. id \in DOMAIN Over(new, rows) /\ Over(new, rows)[id] = row
    BY <1>3 DEF Over
  <2> QED
    BY <2>1 DEF Accounted
<1>6. Underway(u, Over(new, rows))
  BY <1>1, <1>2, <1>4, <1>5, TailIsUnderway DEF TxIsWhole
<1>7. \A r \in t.done : Whole(t.kind, r, Over(new, rows))
  BY <1>4, WholeStays DEF TxIsWhole
<1>8. t.file # <<>> /\ Readable(t.kind, Head(t.file)) /\ t.ok
  BY DEF TxIsWhole
<1>9. KeepsAmounts(t.kind, new, rows)
  <2>1. ASSUME NEW n \in DOMAIN new \cap DOMAIN rows, Counted(rows[n]),
               rows[n].kind # "legacy", rows[n].amount # NoAmount
        PROVE  /\ new[n].amount # NoAmount
               /\ t.kind = "archive" /\ rows[n].kind = "live" =>
                     new[n].amount = rows[n].amount /\ new[n].kind = "live"
    <3>1. CASE n = id
      BY <1>3, <2>1, <3>1 DEF KeepsAmounts
    <3>2. CASE n # id
      BY <1>3, <2>1, <3>2 DEF KeepsAmounts, TxIsWhole
    <3> QED
      BY <3>1, <3>2
  <2> QED
    BY <2>1 DEF KeepsAmounts
<1>10. ASSUME t.kind = "budget", NEW n \in DOMAIN new
       PROVE  new[n].table = "line" \/ (new[n].table = "party" /\ new[n].kind = "budget")
  BY <1>3, <1>10 DEF TxIsWhole
<1>11. /\ \A r \in t.done : Whole(t.kind, r, Over(t.base, rows))
       /\ KeepsAmounts(t.kind, t.base, rows)
  BY <1>8 DEF TxIsWhole
<1>12. u.ok /\ (u.todo # <<>> => u.file # <<>> /\ Readable(u.kind, Head(u.file)))
  BY <1>2, <1>8
<1>13. \A r \in u.done : Whole(u.kind, r, Over(u.own, rows)) /\ Whole(u.kind, r, Over(u.base, rows))
  BY <1>2, <1>7, <1>11
<1>14. KeepsAmounts(u.kind, u.own, rows) /\ KeepsAmounts(u.kind, u.base, rows)
  BY <1>2, <1>9, <1>11
<1>15. u.kind = "budget" =>
          \A n \in DOMAIN u.own :
              u.own[n].table = "line" \/ (u.own[n].table = "party" /\ u.own[n].kind = "budget")
  BY <1>2, <1>10
<1>16. Underway(u, Over(u.own, rows))
  BY <1>2, <1>6
<1> QED
  BY <1>12, <1>13, <1>14, <1>15, <1>16, MakesWhole

LEMMA SelectIsWhole ==
    ASSUME LoadInv, NEW l \in Loaders, Select(l), TxIsWhole(tx[l], rows)
    PROVE  TxIsWhole(tx'[l], rows)
<1> DEFINE t == tx[l]
<1>1. l \in DOMAIN tx /\ Shaped(t)
  BY DEF Select, AtItem, LoadInv, TxFits
<1>2. PICK seen : tx' = [tx EXCEPT ![l].seen = seen]
  BY DEF Select
<1>3. /\ tx'[l].own = t.own /\ tx'[l].todo = t.todo /\ tx'[l].kind = t.kind
      /\ tx'[l].file = t.file /\ tx'[l].base = t.base /\ tx'[l].done = t.done
      /\ tx'[l].ok = t.ok
  BY <1>1, <1>2 DEF Shaped
<1> HIDE DEF t
<1> QED
  BY <1>3 DEF TxIsWhole, Underway, t

LEMMA InsertIsWhole ==
    ASSUME LoadInv, NEW l \in Loaders, InsertRow(l), TxIsWhole(tx[l], rows)
    PROVE  TxIsWhole(tx'[l], rows)
<1> DEFINE t == tx[l]
           item == Head(t.todo)
           row == Inserted(t.kind, item)
<1>1. l \in DOMAIN tx /\ t.todo # <<>>
  BY DEF InsertRow, AtItem
<1>2. item \in AllAsked(t.kind)
  BY <1>1, CurrentItem
<1>3. NextId \notin DOMAIN Over(t.own, rows) /\ NextId \notin DOMAIN rows
  BY <1>1, NextIdIsNew DEF LoadInv, UsedIds, Over
<1>4. Same(row, item) /\ row.table = item.table /\ row.kind = t.kind
  BY DEF Inserted, Same
<1>5. t.kind = "budget" => row.table = "line" \/ (row.table = "party" /\ row.kind = "budget")
  BY <1>2, <1>4, OnlyBudgetsListLines
<1>6. tx'[l] = After(l, NextId, row)
  BY <1>1 DEF InsertRow, Current
<1> QED
  BY <1>1, <1>3, <1>4, <1>5, <1>6, WriteIsWhole

\* PickValue and ShallowMergeKind keep what is known and what is live.
LEMMA UpdatedKeepsAmounts ==
    ASSUME NEW kind, kind \notin {"legacy", "budget"}, NEW row \in Rows, NEW item,
           row.amount # NoAmount
    PROVE  LET new == Updated(kind, row, item)
           IN  /\ new.amount # NoAmount
               /\ kind = "archive" /\ row.kind = "live" =>
                     new.amount = row.amount /\ new.kind = "live"
<1>1. Updated(kind, row, item) =
          [row EXCEPT !.supplier = item.supplier,
                      !.amount = PickValue(row.amount, item.amount,
                                           ProtectLiveFromArchive(row, kind)),
                      !.kind = ShallowMergeKind(row, kind)]
  BY DEF Updated
<1> QED
  BY <1>1 DEF PickValue, ShallowMergeKind, ProtectLiveFromArchive, Rows

LEMMA UpdateIsWhole ==
    ASSUME LoadInv, NEW l \in Loaders, UpdateRow(l), TxIsWhole(tx[l], rows)
    PROVE  TxIsWhole(tx'[l], rows)
<1> DEFINE t == tx[l]
           item == Head(t.todo)
           id == t.seen.id
           row == Updated(t.kind, t.seen.row, item)
           all == Over(t.own, rows)
<1>1. /\ l \in DOMAIN tx /\ t.todo # <<>> /\ t.seen.read /\ t.seen # NoRow /\ t.kind # "budget"
      /\ TxFits(t, rows) /\ rows \in Layers /\ t.kind \in LoadKinds /\ t.seen \in Seens
  BY DEF UpdateRow, AtItem, LoadInv, TxFits, Shaped
<1>2. t.seen # Unread /\ id \in RowIds /\ t.seen.row \in Rows
  <2>1. t.seen # Unread
    <3>1. ~Unread.read
      BY DEF Unread
    <3> QED
      BY <1>1, <3>1
  <2>2. t.seen \in [read : {TRUE}, id : RowIds, row : Rows]
    BY <1>1, <2>1 DEF Seens
  <2> QED
    BY <2>1, <2>2
<1>3. item \in Everything /\ KindFits(t.kind, item)
  BY <1>1, CurrentItem
<1>4. /\ id \in DOMAIN all /\ Same(all[id], item) /\ Same(t.seen.row, item)
      /\ Counted(item) => t.seen.row = all[id]
  BY <1>1, <1>2 DEF TxFits, LookedUp
<1>5. row \in Rows /\ Same(row, item)
  BY <1>1, <1>2, <1>3, <1>4, UpdatedIsARow
<1>6. ASSUME id \in DOMAIN rows, Counted(rows[id]), rows[id].kind # "legacy",
             rows[id].amount # NoAmount
      PROVE  /\ row.amount # NoAmount
             /\ t.kind = "archive" /\ rows[id].kind = "live" =>
                   row.amount = rows[id].amount /\ row.kind = "live"
  <2>1. Same(all[id], rows[id])
    BY <1>1, <1>6 DEF TxFits, Fits, Over, Same
  <2>2. Counted(item) /\ Same(rows[id], item)
    BY <1>4, <1>6, <2>1 DEF Counted, Nameless, Same
  <2>3. t.seen.row = all[id]
    BY <1>4, <2>2
  <2>4. t.kind # "legacy"
    <3>1. rows[id] \in Rows
      BY <1>1, <1>6, LayerRows
    <3> QED
      BY <1>3, <1>6, <2>2, <3>1 DEF Rows, KindFits, Same
  <2>5. /\ all[id].amount # NoAmount
        /\ t.kind = "archive" /\ rows[id].kind = "live" =>
              all[id].amount = rows[id].amount /\ all[id].kind = "live"
    <3>1. CASE id \in DOMAIN t.own
      BY <1>6, <3>1 DEF TxIsWhole, KeepsAmounts, Over
    <3>2. CASE id \notin DOMAIN t.own
      <4>1. all[id] = rows[id]
        BY <1>4, <3>2 DEF Over
      <4> QED
        BY <1>6, <4>1
    <3> QED
      BY <3>1, <3>2
  <2>6. t.kind \notin {"legacy", "budget"} /\ t.seen.row.amount # NoAmount
    BY <1>1, <2>3, <2>4, <2>5
  <2>7. /\ row.amount # NoAmount
        /\ t.kind = "archive" /\ t.seen.row.kind = "live" =>
              row.amount = t.seen.row.amount /\ row.kind = "live"
    BY <1>2, <2>6, UpdatedKeepsAmounts
  <2> QED
    BY <2>3, <2>5, <2>7
<1>7. id \in DOMAIN rows => KeepsAmounts(t.kind, [n \in {id} |-> row], rows)
  BY <1>6 DEF KeepsAmounts
<1>8. Same(all[id], row)
  BY <1>4, <1>5 DEF Same
<1>9. tx'[l] = After(l, id, row)
  BY <1>1 DEF UpdateRow, Current
<1> QED
  BY <1>1, <1>5, <1>7, <1>8, <1>9, WriteIsWhole

LEMMA UpsertIsWhole ==
    ASSUME LoadInv, NEW l \in Loaders, UpsertLine(l), TxIsWhole(tx[l], rows)
    PROVE  TxIsWhole(tx'[l], rows)
<1> DEFINE t == tx[l]
           item == Head(t.todo)
           all == Over(t.own, rows)
<1>1. /\ l \in DOMAIN tx /\ t.todo # <<>> /\ item.table = "line" /\ TxFits(t, rows)
      /\ rows \in Layers
  BY DEF UpsertLine, AtItem, Current, LoadInv
<1>2. all \in Layers
  BY <1>1, OverIsALayer DEF TxFits, Fits
<1>3. \/ /\ tx'[l] = After(l, NextId, Inserted("budget", item))
      \/ \E id \in Matches("budget", item, all) :
            tx'[l] = After(l, id, Updated("budget", all[id], item))
  BY <1>1 DEF UpsertLine, Current, Seen
<1>4. CASE tx'[l] = After(l, NextId, Inserted("budget", item))
  <2>1. NextId \notin DOMAIN all /\ NextId \notin DOMAIN rows
    BY <1>1, NextIdIsNew DEF LoadInv, UsedIds, Over
  <2>2. Same(Inserted("budget", item), item) /\ Inserted("budget", item).table = "line"
    BY <1>1 DEF Inserted, Same
  <2> QED
    BY <1>1, <1>4, <2>1, <2>2, WriteIsWhole
<1>5. ASSUME NEW id \in Matches("budget", item, all),
             tx'[l] = After(l, id, Updated("budget", all[id], item))
      PROVE  TxIsWhole(tx'[l], rows)
  <2> DEFINE row == Updated("budget", all[id], item)
  <2>1. id \in DOMAIN all /\ Same(all[id], item) /\ all[id] \in Rows
    BY <1>2, LayerRows DEF Matches, Same
  <2>2. Same(row, item) /\ row.table = "line" /\ Same(all[id], row)
    BY <1>1, <2>1 DEF Updated, Rows, Same
  <2>3. id \in DOMAIN rows => ~Counted(rows[id])
    BY <1>1, <2>1 DEF TxFits, Fits, Over, Same, Counted
  <2>4. id \in DOMAIN rows => KeepsAmounts(t.kind, [n \in {id} |-> row], rows)
    BY <2>3 DEF KeepsAmounts
  <2> QED
    BY <1>1, <1>5, <2>2, <2>4, WriteIsWhole
<1> QED
  BY <1>3, <1>4, <1>5

LEMMA FindAgencyIsWhole ==
    ASSUME LoadInv, NEW l \in Loaders, FindAgency(l), TxIsWhole(tx[l], rows)
    PROVE  TxIsWhole(tx'[l], rows)
<1> DEFINE t == tx[l]
           u == [t EXCEPT !.todo = Tail(@), !.seen = Unread]
           all == Over(t.own, rows)
<1>1. /\ l \in DOMAIN tx /\ t.todo # <<>> /\ TxFits(t, rows) /\ Shaped(t)
      /\ t.seen.read /\ t.seen # NoRow /\ tx'[l] = u
  BY DEF FindAgency, AtItem, LoadInv, TxFits
<1>2. /\ u.own = t.own /\ u.todo = Tail(t.todo) /\ u.kind = t.kind /\ u.file = t.file
      /\ u.base = t.base /\ u.done = t.done /\ u.ok = t.ok
  BY <1>1 DEF Shaped
<1>3. t.seen # Unread
  <2>1. ~Unread.read
    BY DEF Unread
  <2> QED
    BY <1>1, <2>1
<1>4. Accounted(Head(t.todo), all)
  BY <1>1, <1>3 DEF TxFits, LookedUp, Accounted
<1>5. Within(all, all)
  BY DEF Within, Same
<1>6. Underway(u, all)
  BY <1>1, <1>2, <1>4, <1>5, TailIsUnderway DEF TxIsWhole
<1>7. t.file # <<>> /\ Readable(t.kind, Head(t.file)) /\ t.ok
  BY <1>1 DEF TxIsWhole
<1>8. /\ \A r \in t.done : Whole(t.kind, r, all) /\ Whole(t.kind, r, Over(t.base, rows))
      /\ KeepsAmounts(t.kind, t.own, rows) /\ KeepsAmounts(t.kind, t.base, rows)
      /\ t.kind = "budget" =>
            \A n \in DOMAIN t.own :
                t.own[n].table = "line" \/ (t.own[n].table = "party" /\ t.own[n].kind = "budget")
  BY <1>7 DEF TxIsWhole
<1>9. /\ u.ok /\ (u.todo # <<>> => u.file # <<>> /\ Readable(u.kind, Head(u.file)))
      /\ \A r \in u.done : Whole(u.kind, r, Over(u.own, rows)) /\ Whole(u.kind, r, Over(u.base, rows))
      /\ KeepsAmounts(u.kind, u.own, rows) /\ KeepsAmounts(u.kind, u.base, rows)
      /\ u.kind = "budget" =>
            \A n \in DOMAIN u.own :
                u.own[n].table = "line" \/ (u.own[n].table = "party" /\ u.own[n].kind = "budget")
      /\ Underway(u, Over(u.own, rows))
  BY <1>2, <1>6, <1>7, <1>8
<1> QED
  BY <1>1, <1>9, MakesWhole

\* A release ends, or is rolled back, and the next one begins.
LEMMA NextReleaseIsWhole ==
    ASSUME NEW t, Shaped(t), TxIsWhole(t, rows), t.file # <<>>,
           NEW u, u.kind = t.kind, u.file = Tail(t.file),
           u.todo = Todo(t.kind, Tail(t.file)), u.ok = t.ok,
           KeepsAmounts(u.kind, u.own, rows), KeepsAmounts(u.kind, u.base, rows),
           \A r \in u.done : Whole(u.kind, r, Over(u.own, rows)) /\ Whole(u.kind, r, Over(u.base, rows)),
           u.kind = "budget" => u.own = t.own
    PROVE  TxIsWhole(u, rows)
<1>1. t.ok
  BY DEF TxIsWhole
<1>2. t.kind \in LoadKinds /\ Tail(t.file) \in Seq(Releases(t.kind))
  <2> DEFINE R == Releases(t.kind)
  <2>1. t.file \in Seq(R) /\ t.kind \in LoadKinds
    BY DEF Shaped
  <2> HIDE DEF R
  <2>2. Tail(t.file) \in Seq(R)
    BY <2>1
  <2> QED
    BY <2>1, <2>2 DEF R
<1>3. /\ Underway(u, Over(u.own, rows))
      /\ u.todo # <<>> => u.file # <<>> /\ Readable(u.kind, Head(u.file))
  BY <1>2, TodoIsUnderway
<1>4. u.kind = "budget" =>
          \A n \in DOMAIN u.own :
              u.own[n].table = "line" \/ (u.own[n].table = "party" /\ u.own[n].kind = "budget")
  BY DEF TxIsWhole
<1>5. u.ok
  BY <1>1
<1> QED
  BY <1>3, <1>4, <1>5, MakesWhole

LEMMA EndReleaseIsWhole ==
    ASSUME LoadInv, NEW l \in Loaders, EndRelease(l), TxIsWhole(tx[l], rows)
    PROVE  TxIsWhole(tx'[l], rows)
<1> DEFINE t == tx[l]
           u == tx'[l]
           r == Head(t.file)
           all == Over(t.own, rows)
<1>1. /\ l \in DOMAIN tx /\ t.file # <<>> /\ Shaped(t) /\ Readable(t.kind, r) /\ t.todo = <<>>
      /\ u = [AtNext(t) EXCEPT !.base = t.own, !.done = t.done \cup {r}]
  BY DEF EndRelease, InRelease, LoadInv, TxFits
<1>2. /\ u.own = t.own /\ u.base = t.own /\ u.done = t.done \cup {r} /\ u.kind = t.kind
      /\ u.file = Tail(t.file) /\ u.todo = Todo(t.kind, Tail(t.file)) /\ u.ok = t.ok
  BY <1>1 DEF AtNext, Shaped
<1>3. Whole(t.kind, r, all)
  <2>1. PICK past \in Nat : Behind(Asked(t.kind, r), t.todo, past, all)
    BY <1>1 DEF TxIsWhole, Underway
  <2>2. Len(Asked(t.kind, r)) = past
    BY <1>1, <2>1 DEF Behind
  <2> QED
    BY <2>1, <2>2 DEF Behind, Whole
<1>4. /\ KeepsAmounts(t.kind, t.own, rows)
      /\ \A q \in t.done \cup {r} : Whole(t.kind, q, all)
      /\ t.ok
  BY <1>1, <1>3 DEF TxIsWhole
<1>5. /\ KeepsAmounts(u.kind, u.own, rows) /\ KeepsAmounts(u.kind, u.base, rows)
      /\ \A q \in u.done : Whole(u.kind, q, Over(u.own, rows)) /\ Whole(u.kind, q, Over(u.base, rows))
  BY <1>2, <1>4
<1> HIDE DEF u
<1> QED
  BY <1>1, <1>2, <1>5, NextReleaseIsWhole DEF u

LEMMA ReleaseFailsIsWhole ==
    ASSUME LoadInv, NEW l \in Loaders, ReleaseFails(l), TxIsWhole(tx[l], rows)
    PROVE  TxIsWhole(tx'[l], rows)
<1> DEFINE t == tx[l]
           u == tx'[l]
<1>1. /\ l \in DOMAIN tx /\ t.file # <<>> /\ Shaped(t) /\ t.kind = "archive"
      /\ u = [AtNext(t) EXCEPT !.own = t.base]
  BY DEF ReleaseFails, InRelease, LoadInv, TxFits, RolledBack
<1>2. /\ u.own = t.base /\ u.base = t.base /\ u.done = t.done /\ u.kind = t.kind
      /\ u.file = Tail(t.file) /\ u.todo = Todo(t.kind, Tail(t.file)) /\ u.ok = t.ok
  BY <1>1 DEF AtNext, Shaped
<1>3. /\ KeepsAmounts(t.kind, t.base, rows)
      /\ \A q \in t.done : Whole(t.kind, q, Over(t.base, rows))
  BY <1>1 DEF TxIsWhole
<1>4. t.kind # "budget"
  BY <1>1
<1>5. /\ KeepsAmounts(u.kind, u.own, rows) /\ KeepsAmounts(u.kind, u.base, rows)
      /\ \A q \in u.done : Whole(u.kind, q, Over(u.own, rows)) /\ Whole(u.kind, q, Over(u.base, rows))
  BY <1>2, <1>3
<1> HIDE DEF u
<1> QED
  BY <1>1, <1>2, <1>4, <1>5, NextReleaseIsWhole DEF u

LEMMA BodyUnreadableIsWhole ==
    ASSUME LoadInv, NEW l \in Loaders, BodyUnreadable(l), TxIsWhole(tx[l], rows)
    PROVE  TxIsWhole(tx'[l], rows)
<1> DEFINE t == tx[l]
<1>1. /\ l \in DOMAIN tx /\ Shaped(t) /\ t.kind = "archive"
      /\ tx'[l] = [Unreadable(t) EXCEPT !.file = <<>>, !.todo = <<>>, !.done = {}, !.ok = FALSE]
  BY DEF BodyUnreadable, LoadInv, TxFits
<1>2. PICK u : u = tx'[l]
  OBVIOUS
<1>3. u.own = Nothing /\ u.file = <<>> /\ u.todo = <<>> /\ u.done = {} /\ u.kind = "archive"
  BY <1>1, <1>2 DEF Unreadable, Shaped
<1>4. TxIsWhole(u, rows)
  BY <1>3, NothingIsALayer DEF TxIsWhole, Underway, KeepsAmounts
<1> QED
  BY <1>2, <1>4

(***************************************************************************)
(* All of them.                                                            *)
(***************************************************************************)
LEMMA WholeGoesOn ==
    ASSUME WholeInv, rows' = rows, NEW l, DOMAIN tx' = DOMAIN tx \cup {l},
           \A o \in DOMAIN tx \ {l} : tx'[o] = tx[o], TxIsWhole(tx'[l], rows),
           extractions' = extractions
    PROVE  WholeInv'
<1>1. \A o \in DOMAIN tx' : TxIsWhole(tx'[o], rows')
  BY DEF WholeInv
<1>2. \A e \in extractions' : \A r \in e.releases : Whole(e.kind, r, rows')
  BY DEF WholeInv
<1>3. \A id \in DOMAIN rows' :
         \/ rows'[id].table = "party" /\ rows'[id].kind = "budget"
         \/ \E e \in extractions' : e.ok /\ id \in e.edges
  BY DEF WholeInv
<1> QED
  BY <1>1, <1>2, <1>3 DEF WholeInv, Whole, Accounted, Same, Nameless

LEMMA CommitIsWhole ==
    ASSUME LoadInv, WholeInv, NEW l \in DOMAIN tx, tx' = Drop(tx, l),
           rows' = Over(tx[l].own, rows), NEW releases \in {{}, tx[l].done},
           extractions' = extractions \cup {Extracted(tx[l], releases)}
    PROVE  WholeInv'
<1> DEFINE t == tx[l]
           e == Extracted(t, releases)
<1>1. TxFits(t, rows) /\ Fits(t.own, rows) /\ TxIsWhole(t, rows)
  BY DEF LoadInv, TxFits, WholeInv
<1>2. ASSUME NEW o \in DOMAIN tx'
      PROVE  TxIsWhole(tx'[o], rows')
  <2>1. o \in DOMAIN tx /\ o # l /\ tx'[o] = tx[o]
    BY <1>2 DEF Drop
  <2>2. TxFits(tx[o], rows) /\ Apart(tx[o].own, t.own) /\ TxIsWhole(tx[o], rows)
    BY <2>1 DEF LoadInv, WholeInv
  <2> QED
    BY <1>1, <2>1, <2>2, CommitKeepsWhole
<1>3. e.kind = t.kind /\ e.ok = t.ok /\ e.releases = releases /\ e.edges = Linked(t)
  BY DEF Extracted
<1>4. ASSUME NEW f \in extractions', NEW r \in f.releases
      PROVE  Whole(f.kind, r, rows')
  <2>1. CASE f \in extractions
    <3>1. Whole(f.kind, r, rows)
      BY <1>4, <2>1 DEF WholeInv
    <3> QED
      BY <1>1, <3>1, CommitAdds, WholeStays
  <2>2. CASE f = e
    BY <1>1, <1>3, <1>4, <2>2 DEF TxIsWhole
  <2> QED
    BY <2>1, <2>2
<1>5. ASSUME NEW id \in DOMAIN rows'
      PROVE  \/ rows'[id].table = "party" /\ rows'[id].kind = "budget"
             \/ \E f \in extractions' : f.ok /\ id \in f.edges
  <2>1. CASE id \in DOMAIN t.own
    <3>1. rows'[id] = t.own[id]
      BY <2>1 DEF Over
    <3>2. t.ok
      BY <1>1, <2>1 DEF TxIsWhole
    <3>3. CASE t.kind = "budget"
      <4>1. CASE t.own[id].table = "line"
        <5>1. id \in e.edges /\ e \in extractions'
          BY <1>3, <2>1, <3>2, <3>3, <4>1 DEF Linked
        <5> QED
          BY <1>3, <3>2, <5>1
      <4>2. CASE t.own[id].table = "party" /\ t.own[id].kind = "budget"
        BY <3>1, <4>2
      <4> QED
        BY <1>1, <2>1, <3>3, <4>1, <4>2 DEF TxIsWhole
    <3>4. CASE t.kind # "budget"
      <4>1. id \in e.edges /\ e \in extractions'
        BY <1>3, <2>1, <3>2, <3>4 DEF Linked
      <4> QED
        BY <1>3, <3>2, <4>1
    <3> QED
      BY <3>3, <3>4
  <2>2. CASE id \notin DOMAIN t.own
    <3>1. id \in DOMAIN rows /\ rows'[id] = rows[id]
      BY <1>5, <2>2 DEF Over
    <3> QED
      BY <3>1 DEF WholeInv
  <2> QED
    BY <2>1, <2>2
<1> QED
  BY <1>2, <1>4, <1>5 DEF WholeInv, Whole, Accounted, Same, Nameless

LEMMA WholeInit == Init => WholeInv
  BY NothingIsALayer DEF Init, WholeInv

LEMMA StartsWhole ==
    ASSUME WholeInv, NEW l, l \notin DOMAIN tx, NEW kind \in LoadKinds, NEW file \in Files(kind),
           tx' = Put(tx, l, Begun(kind, file)), UNCHANGED <<rows, extractions>>
    PROVE  WholeInv'
<1>1. TxIsWhole(Begun(kind, file), rows)
  BY BegunIsWhole
<1>2. /\ DOMAIN tx' = DOMAIN tx \cup {l} /\ tx'[l] = Begun(kind, file)
      /\ \A o \in DOMAIN tx \ {l} : tx'[o] = tx[o]
  BY DEF Put
<1> QED
  BY <1>1, <1>2, WholeGoesOn

\* A step inside the transaction of one loader.
LEMMA StepIsWhole ==
    ASSUME LoadInv, WholeInv, NEW l \in Loaders,
           \/ Select(l) \/ InsertRow(l) \/ UpdateRow(l) \/ FindAgency(l) \/ UpsertLine(l)
           \/ EndRelease(l) \/ ReleaseFails(l) \/ BodyUnreadable(l)
    PROVE  WholeInv'
<1>1. l \in DOMAIN tx
  BY DEF Select, InsertRow, UpdateRow, FindAgency, UpsertLine, EndRelease, ReleaseFails,
     BodyUnreadable, AtItem, InRelease
<1>2. TxIsWhole(tx[l], rows)
  BY <1>1 DEF WholeInv
<1>3. TxIsWhole(tx'[l], rows)
  BY <1>2, SelectIsWhole, InsertIsWhole, UpdateIsWhole, FindAgencyIsWhole, UpsertIsWhole,
     EndReleaseIsWhole, ReleaseFailsIsWhole, BodyUnreadableIsWhole
<1>4. /\ DOMAIN tx' = DOMAIN tx /\ \A o \in DOMAIN tx \ {l} : tx'[o] = tx[o]
      /\ UNCHANGED <<rows, extractions>>
  BY DEF Select, InsertRow, UpdateRow, FindAgency, UpsertLine, EndRelease, ReleaseFails,
     BodyUnreadable
<1> QED
  BY <1>1, <1>3, <1>4, WholeGoesOn

LEMMA WholeNext == LoadInv /\ WholeInv /\ [Next]_vars => WholeInv'
<1> SUFFICES ASSUME LoadInv, WholeInv, [Next]_vars
             PROVE  WholeInv'
  OBVIOUS
<1>0. ASSUME UNCHANGED <<rows, tx, extractions>>
      PROVE  WholeInv'
  <2>1. \A l \in DOMAIN tx' : TxIsWhole(tx'[l], rows')
    BY <1>0 DEF WholeInv
  <2> QED
    BY <1>0, <2>1 DEF WholeInv, Whole, Accounted, Same, Nameless
<1>1. CASE UNCHANGED vars
  BY <1>0, <1>1 DEF vars
<1>2. ASSUME NEW l \in Loaders, StartJob(l) \/ SkipPublication(l) \/ RegistryRefuses(l)
      PROVE  WholeInv'
  BY <1>0, <1>2 DEF StartJob, SkipPublication, RegistryRefuses
<1>3. ASSUME NEW l \in Loaders, BeginPublication(l)
      PROVE  WholeInv'
  <2>1. PICK body \in Bodies[Head(job[l])] : tx' = Put(tx, l, Begun("archive", body))
    BY <1>3 DEF BeginPublication
  <2>2. body \in Files("archive")
    BY <1>3, <2>1, OcdsLoadAssumption DEF BeginPublication, Files, Range
  <2> QED
    BY <1>3, <2>1, <2>2, StartsWhole DEF BeginPublication, Between, LoadKinds, Kinds
<1>4. ASSUME NEW l \in Loaders, NEW kind \in DOMAIN Documents,
             NEW package \in Documents[kind], StartLoad(l, kind, package)
      PROVE  WholeInv'
  <2>1. kind \in LoadKinds /\ package \in Files(kind)
    BY OcdsLoadAssumption DEF LoadKinds, Kinds, Files
  <2> QED
    BY <1>4, <2>1, StartsWhole DEF StartLoad, Free
<1>5. ASSUME NEW l \in Loaders, NEW doc \in Budgets, StartBudget(l, doc)
      PROVE  WholeInv'
  <2>1. <<doc>> \in Files("budget") /\ "budget" \in LoadKinds
    BY DEF Files, LoadKinds
  <2> QED
    BY <1>5, <2>1, StartsWhole DEF StartBudget, Free
<1>6. ASSUME NEW l \in Loaders, LoadFails(l)
      PROVE  WholeInv'
  <2>1. \A o \in DOMAIN tx' : TxIsWhole(tx'[o], rows')
    BY <1>6 DEF LoadFails, Drop, WholeInv
  <2> QED
    BY <1>6, <2>1 DEF LoadFails, WholeInv, Whole, Accounted, Same, Nameless
<1>7. ASSUME NEW l \in Loaders, BudgetBreaksOff(l) \/ Commit(l)
      PROVE  WholeInv'
  BY <1>7, CommitIsWhole DEF BudgetBreaksOff, Commit, AtItem
<1> QED
  BY <1>1, <1>2, <1>3, <1>4, <1>5, <1>6, <1>7, StepIsWhole DEF Next

LEMMA WholeInvariant == Spec => [](LoadInv /\ WholeInv)
<1>1. Init => WholeInv
  BY WholeInit
<1>2. LoadInv /\ WholeInv /\ [Next]_vars => WholeInv'
  BY WholeNext
<1> QED
  BY <1>1, <1>2, LoadInvariant, PTL DEF Spec

\* A release or a document that a load counted as done has all its rows, and each
\* row has an edge from a load that did not fail, whatever savepoints were rolled
\* back and whoever committed between.
THEOREM CountedIsThere == Spec => []LoadsAreWhole
<1>1. ASSUME WholeInv
      PROVE  LoadsAreWhole
  <2>1. ASSUME NEW e \in extractions, NEW r \in e.releases,
               NEW n \in 1..Len(Asked(e.kind, r)), ~Nameless(Asked(e.kind, r)[n])
        PROVE  Matches("archive", Asked(e.kind, r)[n], rows) # {}
    <3>1. PICK id \in DOMAIN rows : Same(rows[id], Asked(e.kind, r)[n])
      BY <1>1, <2>1 DEF WholeInv, Whole, Accounted
    <3>2. id \in Matches("archive", Asked(e.kind, r)[n], rows)
      BY <2>1, <3>1 DEF Matches, Same, SameSupplier
    <3> QED
      BY <3>2
  <2> QED
    BY <1>1, <2>1 DEF WholeInv, LoadsAreWhole
<1> QED
  BY <1>1, WholeInvariant, PTL

\* Rows change by commits only.
LEMMA RowsChangeByCommit ==
    ASSUME LoadInv, WholeInv, [Next]_vars
    PROVE  /\ rows' = rows \/ \E l \in DOMAIN tx : rows' = Over(tx[l].own, rows)
           /\ \A l \in DOMAIN tx \ DOMAIN tx' : rows' = rows \/ rows' = Over(tx[l].own, rows)
<1>1. CASE UNCHANGED vars
  BY <1>1 DEF vars
<1>2. CASE \E l \in Loaders :
              \/ StartJob(l) \/ SkipPublication(l) \/ RegistryRefuses(l) \/ BeginPublication(l)
              \/ \E kind \in DOMAIN Documents : \E package \in Documents[kind] :
                    StartLoad(l, kind, package)
              \/ \E doc \in Budgets : StartBudget(l, doc)
              \/ Select(l) \/ InsertRow(l) \/ UpdateRow(l) \/ FindAgency(l) \/ UpsertLine(l)
              \/ EndRelease(l) \/ ReleaseFails(l) \/ BodyUnreadable(l) \/ LoadFails(l)
  <2>1. rows' = rows
    BY <1>2 DEF StartJob, SkipPublication, RegistryRefuses, BeginPublication, StartLoad,
       StartBudget, Select, InsertRow, UpdateRow, FindAgency, UpsertLine,
       EndRelease, ReleaseFails, BodyUnreadable, LoadFails
  <2> QED
    BY <2>1
<1>3. ASSUME NEW l \in Loaders, BudgetBreaksOff(l) \/ Commit(l)
      PROVE  /\ rows' = Over(tx[l].own, rows) /\ l \in DOMAIN tx
             /\ DOMAIN tx \ DOMAIN tx' = {l}
  BY <1>3 DEF BudgetBreaksOff, Commit, AtItem, Drop
<1> QED
  BY <1>1, <1>2, <1>3 DEF Next

\* Spec 0041, section 3.1, "null never erases": no load, of whatever kind and
\* however its look-up and its update are apart, loses an amount of an award or a
\* contract that archive or live loads have stored.
THEOREM NullNeverErases == Spec => AmountsStayKnown
<1>1. ASSUME LoadInv, WholeInv, [Next]_vars,
             NEW id \in DOMAIN rows, Counted(rows[id]), rows[id].kind # "legacy",
             rows[id].amount # NoAmount
      PROVE  rows'[id].amount # NoAmount
  <2>1. CASE rows' = rows
    BY <1>1, <2>1
  <2>2. ASSUME NEW l \in DOMAIN tx, rows' = Over(tx[l].own, rows)
        PROVE  rows'[id].amount # NoAmount
    <3>1. KeepsAmounts(tx[l].kind, tx[l].own, rows)
      BY <1>1 DEF WholeInv, TxIsWhole
    <3> QED
      BY <1>1, <2>2, <3>1 DEF KeepsAmounts, Over
  <2> QED
    BY <1>1, <2>1, <2>2, RowsChangeByCommit
<1>2. LoadInv /\ WholeInv /\ [Next]_vars =>
          [\A id \in DOMAIN rows :
              /\ Counted(rows[id]) /\ rows[id].kind # "legacy" /\ rows[id].amount # NoAmount
              => rows'[id].amount # NoAmount]_vars
  BY <1>1
<1> QED
  BY <1>2, WholeInvariant, PTL DEF Spec, AmountsStayKnown

\* Spec 0041, section 3.1, "live beats archive": when an archive load ends, the
\* amounts that live loads had stored by then are as they were, those too that were
\* committed after it had begun.
THEOREM LiveIsKept == Spec => LiveBeatsArchive
<1>1. ASSUME LoadInv, WholeInv, [Next]_vars,
             NEW l \in DOMAIN tx \ DOMAIN tx', tx[l].kind = "archive",
             NEW id \in DOMAIN rows, Counted(rows[id]), rows[id].kind = "live",
             rows[id].amount # NoAmount
      PROVE  rows'[id].amount = rows[id].amount /\ rows'[id].kind = "live"
  <2>1. CASE rows' = rows
    BY <1>1, <2>1
  <2>2. CASE rows' = Over(tx[l].own, rows)
    <3>1. KeepsAmounts("archive", tx[l].own, rows)
      BY <1>1 DEF WholeInv, TxIsWhole
    <3> QED
      BY <1>1, <2>2, <3>1 DEF KeepsAmounts, Over
  <2> QED
    BY <1>1, <2>1, <2>2, RowsChangeByCommit
<1>2. LoadInv /\ WholeInv /\ [Next]_vars =>
          [\A l \in DOMAIN tx \ DOMAIN tx' :
              tx[l].kind = "archive" /\ tx[l].file = <<>> =>
                  \A id \in DOMAIN rows :
                      /\ Counted(rows[id]) /\ rows[id].kind = "live" /\ rows[id].amount # NoAmount
                      => rows'[id].amount = rows[id].amount /\ rows'[id].kind = "live"]_vars
  BY <1>1
<1> QED
  BY <1>2, WholeInvariant, PTL DEF Spec, LiveBeatsArchive

(***************************************************************************)
(* The items of a budget document: for each line its agency, then the line.*)
(***************************************************************************)
LEMMA LeastNatural ==
    ASSUME NEW S \in SUBSET Nat, S # {}
    PROVE  \E n \in S : \A m \in S : n <= m
<1> DEFINE R == OpToRel(<, Nat)
<1>1. IsWellFoundedOn(R, Nat)
  BY NatLessThanWellFounded
<1>2. \A m, n \in Nat : m < n => <<m, n>> \in R
  BY DEF OpToRel
<1> HIDE DEF R
<1>3. PICK n \in S : \A m \in S : ~(<<m, n>> \in R)
  BY <1>1, WFMin
<1>4. \A m \in S : m \in Nat /\ n \in Nat /\ ~(m < n)
  BY <1>2, <1>3
<1>5. \A m \in S : n <= m
  BY <1>4
<1> QED
  BY <1>5

\* The pairs of two lists, one after the other.
Woven(p, q, n) == [m \in 1..(2 * n) |-> IF m % 2 = 1 THEN p[(m + 1) \div 2] ELSE q[m \div 2]]

LEMMA WovenNext ==
    ASSUME NEW p, NEW q, NEW n \in Nat
    PROVE  Woven(p, q, n) \o <<p[n + 1], q[n + 1]>> = Woven(p, q, n + 1)
<1> DEFINE a == Woven(p, q, n)
           b == <<p[n + 1], q[n + 1]>>
           c == Woven(p, q, n + 1)
<1>0. 2 * n \in Nat /\ a = [m \in 1..(2 * n) |-> a[m]]
  BY DEF Woven
<1>1. a \in Seq(Range(a)) /\ Len(a) = 2 * n
  <2>1. \A m \in 1..(2 * n) : a[m] \in Range(a)
    BY <1>0 DEF Range
  <2> HIDE DEF a
  <2>2. a \in [1..(2 * n) -> Range(a)]
    BY <1>0, <2>1
  <2> QED
    BY <1>0, <2>2
<1>2. Len(b) = 2 /\ b[1] = p[n + 1] /\ b[2] = q[n + 1]
  OBVIOUS
<1>3. /\ a \o b \in Seq(Range(a) \cup Range(b)) /\ Len(a \o b) = 2 * n + 2
      /\ \A m \in 1..(2 * n + 2) : (a \o b)[m] = IF m <= 2 * n THEN a[m] ELSE b[m - 2 * n]
  <2>1. b \in Seq(Range(b))
    BY <1>2 DEF Range
  <2>2. PICK S : S = Range(a) \cup Range(b)
    OBVIOUS
  <2> HIDE DEF a, b
  <2>3. a \in Seq(S) /\ b \in Seq(S)
    BY <1>1, <2>1, <2>2
  <2>4. /\ a \o b \in Seq(S) /\ Len(a \o b) = Len(a) + Len(b)
        /\ \A m \in 1..(Len(a) + Len(b)) :
              (a \o b)[m] = IF m <= Len(a) THEN a[m] ELSE b[m - Len(a)]
    BY <2>3, ConcatProperties
  <2> QED
    BY <1>1, <1>2, <2>2, <2>4
<1>4. ASSUME NEW m \in 1..(2 * n + 2)
      PROVE  c[m] = IF m <= 2 * n THEN a[m] ELSE b[m - 2 * n]
  <2>0. 2 * (n + 1) = 2 * n + 2 /\ m \in 1..(2 * (n + 1))
    OBVIOUS
  <2>1. CASE m <= 2 * n
    <3>1. m \in 1..(2 * n)
      BY <2>1
    <3> QED
      BY <2>0, <2>1, <3>1 DEF Woven
  <2>2. CASE m = 2 * n + 1
    <3>1. m % 2 = 1 /\ (m + 1) \div 2 = n + 1 /\ m - 2 * n = 1 /\ ~(m <= 2 * n)
      BY <2>2
    <3> QED
      BY <1>2, <2>0, <3>1 DEF Woven
  <2>3. CASE m = 2 * n + 2
    <3>1. m % 2 # 1 /\ m \div 2 = n + 1 /\ m - 2 * n = 2 /\ ~(m <= 2 * n)
      BY <2>3
    <3>2. c[m] = q[n + 1]
      BY <2>0, <3>1 DEF Woven
    <3> QED
      BY <1>2, <3>1, <3>2
  <2> QED
    BY <2>1, <2>2, <2>3
<1>5. c \in Seq(Range(a) \cup Range(b)) /\ Len(c) = 2 * n + 2
  <2>1. c = [m \in 1..(2 * n + 2) |-> c[m]] /\ 2 * n + 2 \in Nat
    BY DEF Woven
  <2>2. ASSUME NEW m \in 1..(2 * n + 2)
        PROVE  c[m] \in Range(a) \cup Range(b)
    <3>1. CASE m <= 2 * n
      BY <1>0, <1>4, <3>1 DEF Range
    <3>2. CASE ~(m <= 2 * n)
      <4>1. m - 2 * n \in 1..2 /\ DOMAIN b = 1..2
        BY <3>2
      <4> QED
        BY <1>4, <3>2, <4>1 DEF Range
    <3> QED
      BY <3>1, <3>2
  <2> HIDE DEF a, b, c
  <2>3. PICK N \in Nat : N = 2 * n + 2
    BY <2>1
  <2>4. PICK S : S = Range(a) \cup Range(b)
    OBVIOUS
  <2>5. c = [m \in 1..N |-> c[m]] /\ \A m \in 1..N : c[m] \in S
    BY <2>1, <2>2, <2>3, <2>4
  <2>6. c \in [1..N -> S]
    BY <2>5
  <2> QED
    BY <2>3, <2>4, <2>6
<1> HIDE DEF a, b, c
<1>6. a \o b = c
  BY <1>3, <1>4, <1>5, SeqEqual
<1> QED
  BY <1>6 DEF a, b, c

LEMMA FlattenPairs ==
    ASSUME NEW p, NEW q, NEW N \in Nat
    PROVE  FlattenSeq([n \in 1..N |-> <<p[n], q[n]>>]) = Woven(p, q, N)
<1> DEFINE s == [n \in 1..N |-> <<p[n], q[n]>>]
           Step(g) == [i \in 1..Len(s) |-> IF i = 1 THEN s[i] ELSE g[i - 1] \o s[i]]
           F == CHOOSE g : g = Step(g)
           W == [i \in 1..N |-> Woven(p, q, i)]
<1>1. Len(s) = N
  OBVIOUS
<1>2. CASE N = 0
  <2>1. FlattenSeq(s) = s
    BY <1>1, <1>2 DEF FlattenSeq
  <2>2. 1..N = {} /\ 1..(2 * N) = {}
    BY <1>2
  <2>3. s = Woven(p, q, N)
    BY <2>2 DEF Woven
  <2> QED
    BY <2>1, <2>3
<1>3. CASE N # 0
  <2>1. ASSUME NEW i \in 1..N
        PROVE  W[i] = IF i = 1 THEN s[i] ELSE W[i - 1] \o s[i]
    <3>1. CASE i = 1
      <4>1. Woven(p, q, 1) = [m \in 1..2 |-> IF m = 1 THEN p[1] ELSE q[1]]
        <5>1. 1..(2 * 1) = 1..2 /\ \A m \in 1..2 : m = 1 \/ m = 2
          OBVIOUS
        <5>2. /\ 1 % 2 = 1 /\ (1 + 1) \div 2 = 1
              /\ 2 % 2 # 1 /\ 2 \div 2 = 1
          OBVIOUS
        <5>3. \A m \in 1..2 : (IF m % 2 = 1 THEN p[(m + 1) \div 2] ELSE q[m \div 2])
                                  = (IF m = 1 THEN p[1] ELSE q[1])
          BY <5>1, <5>2
        <5> QED
          BY <5>1, <5>3 DEF Woven
      <4>2. <<p[1], q[1]>> = [m \in 1..2 |-> IF m = 1 THEN p[1] ELSE q[1]]
        OBVIOUS
      <4>3. W[i] = Woven(p, q, 1) /\ s[i] = <<p[1], q[1]>>
        BY <3>1
      <4> HIDE DEF W, s
      <4> QED
        BY <3>1, <4>1, <4>2, <4>3
    <3>2. CASE i # 1
      <4>1. i - 1 \in Nat /\ i - 1 \in 1..N /\ (i - 1) + 1 = i
        BY <3>2
      <4>2. Woven(p, q, i - 1) \o <<p[i], q[i]>> = Woven(p, q, i)
        BY <4>1, WovenNext
      <4>3. W[i] = Woven(p, q, i) /\ W[i - 1] = Woven(p, q, i - 1) /\ s[i] = <<p[i], q[i]>>
        BY <4>1
      <4> HIDE DEF W, s
      <4> QED
        BY <3>2, <4>2, <4>3
    <3> HIDE DEF W, s
    <3> QED
      BY <3>1, <3>2
  <2>2. W = Step(W)
    <3>1. W = [i \in 1..N |-> W[i]]
      OBVIOUS
    <3> HIDE DEF W, s
    <3> QED
      BY <1>1, <2>1, <3>1
  <2> HIDE DEF W, s
  <2>3. F = Step(F)
    BY <2>2
  <2> HIDE DEF F
  <2>4. \A i \in 1..N : F[i] = IF i = 1 THEN s[i] ELSE F[i - 1] \o s[i]
    BY <1>1, <2>3
  <2>5. \A i \in 1..N : F[i] = W[i]
    <3>0. PICK other : other = {i \in 1..N : F[i] # W[i]}
      OBVIOUS
    <3>1. SUFFICES ASSUME other # {}
                   PROVE  FALSE
      BY <3>0
    <3>2. other \in SUBSET Nat
      BY <3>0
    <3>3. PICK i \in other : \A j \in other : i <= j
      BY <3>1, <3>2, LeastNatural
    <3>4. i \in 1..N /\ F[i] # W[i] /\ \A j \in 1..N : F[j] # W[j] => i <= j
      BY <3>0, <3>3
    <3>5. i # 1
      BY <2>1, <2>4, <3>4
    <3>6. i - 1 \in 1..N /\ F[i - 1] = W[i - 1]
      BY <3>4, <3>5
    <3> QED
      BY <2>1, <2>4, <3>4, <3>5, <3>6
  <2>6. FlattenSeq(s) = F[N]
    BY <1>1, <1>3 DEF FlattenSeq, F
  <2> QED
    BY <1>3, <2>5, <2>6 DEF W, s
<1> QED
  BY <1>2, <1>3

LEMMA BudgetItemsOf ==
    ASSUME NEW doc \in Budgets
    PROVE  /\ Len(BudgetLines(doc)) \in Nat
           /\ Len(BudgetItems(doc)) = 2 * Len(BudgetLines(doc))
           /\ \A k \in 1..Len(BudgetLines(doc)) :
                 BudgetItems(doc)[2 * k] = LineItem(doc, BudgetLines(doc)[k])
           /\ \A n \in 1..Len(BudgetItems(doc)) :
                 BudgetItems(doc)[n].table = "line" =>
                     \E k \in 1..Len(BudgetLines(doc)) : n = 2 * k
<1> DEFINE L == BudgetLines(doc)
           p == [n \in 1..Len(L) |-> PartyItem(L[n].agency)]
           q == [n \in 1..Len(L) |-> LineItem(doc, L[n])]
<1>1. Len(L) \in Nat
  <2>1. PICK S : L \in Seq(S)
    BY BudgetsAreLists
  <2> HIDE DEF L
  <2> QED
    BY <2>1
<1>2. PICK N \in Nat : N = Len(L)
  BY <1>1
<1>3. BudgetItems(doc) = Woven(p, q, N)
  <2>1. [n \in 1..N |-> <<p[n], q[n]>>] = [n \in 1..Len(L) |-> <<PartyItem(L[n].agency), LineItem(doc, L[n])>>]
    BY <1>2
  <2> HIDE DEF p, q
  <2>2. FlattenSeq([n \in 1..N |-> <<p[n], q[n]>>]) = Woven(p, q, N)
    BY FlattenPairs
  <2> QED
    BY <2>1, <2>2 DEF BudgetItems
<1>4. PICK M \in Nat : M = 2 * N
  OBVIOUS
<1>5. Woven(p, q, N) = [m \in 1..M |-> IF m % 2 = 1 THEN p[(m + 1) \div 2] ELSE q[m \div 2]]
  BY <1>4 DEF Woven
<1> HIDE DEF p, q, L
<1>6. Len(BudgetItems(doc)) = 2 * N
  BY <1>3, <1>4, <1>5
<1>7. ASSUME NEW k \in 1..N
      PROVE  BudgetItems(doc)[2 * k] = LineItem(doc, L[k])
  <2>1. 2 * k \in 1..M /\ (2 * k) % 2 # 1 /\ (2 * k) \div 2 = k
    BY <1>4
  <2>2. Woven(p, q, N)[2 * k] = q[k]
    BY <1>5, <2>1
  <2>3. q[k] = LineItem(doc, L[k])
    BY <1>2 DEF q
  <2> QED
    BY <1>3, <2>2, <2>3
<1>8. ASSUME NEW n \in 1..M, BudgetItems(doc)[n].table = "line"
      PROVE  \E k \in 1..N : n = 2 * k
  <2>1. CASE n % 2 = 1
    <3>1. (n + 1) \div 2 \in 1..N
      BY <1>4
    <3>2. Woven(p, q, N)[n] = p[(n + 1) \div 2]
      BY <1>5, <2>1
    <3>3. p[(n + 1) \div 2].table = "party"
      BY <1>2, <3>1 DEF p, PartyItem
    <3> QED
      BY <1>3, <1>8, <3>2, <3>3
  <2>2. CASE n % 2 # 1
    <3>1. n \div 2 \in 1..N /\ n = 2 * (n \div 2)
      BY <1>4, <2>2
    <3> QED
      BY <3>1
  <2> QED
    BY <2>1, <2>2
<1> QED
  BY <1>2, <1>4, <1>6, <1>7, <1>8 DEF L

(***************************************************************************)
(* A budget is as one document says.                                       *)
(***************************************************************************)
\* A row has the amount of the last of the first items that name it.
LastWord(items, past, row) ==
    \E n \in 1..past :
        /\ Same(items[n], row) /\ items[n].amount = row.amount
        /\ \A m \in (n + 1)..past : ~Same(items[m], row)

\* The lines that the first items wrote are theirs, each as it was said last.
Wrote(items, past, own) ==
    /\ \A id \in DOMAIN own : own[id].table = "line" => LastWord(items, past, own[id])
    /\ \A n \in 1..past : items[n].table = "line" =>
          \E id \in DOMAIN own : Same(own[id], items[n])

NoLine(layer) == \A id \in DOMAIN layer : layer[id].table # "line"

Left(items, past, todo) ==
    /\ Len(items) = past + Len(todo)
    /\ \A n \in 1..Len(todo) : todo[n] = items[past + n]

OfDocument(doc, file, done, todo, own) ==
    \E past \in Nat :
        /\ Left(BudgetItems(doc), past, todo) /\ Wrote(BudgetItems(doc), past, own)
        /\ \/ file = <<doc>> /\ done = {}
           \/ file = <<>> /\ done = {doc} /\ todo = <<>>

TxOfDocument(t) ==
    /\ t.todo # <<>> /\ t.seen # Unread => Head(t.todo).table # "line"
    /\ t.kind # "budget" => NoLine(t.own) /\ (t.file # <<>> => NoLine(t.base))
    /\ t.kind = "budget" =>
          \E doc \in Budgets : OfDocument(doc, t.file, t.done, t.todo, t.own)

LEMMA TailIsLeft ==
    ASSUME NEW items, NEW past \in Nat, NEW S, NEW todo \in Seq(S), todo # <<>>,
           Left(items, past, todo)
    PROVE  items[past + 1] = Head(todo) /\ Left(items, past + 1, Tail(todo))
<1>1. /\ Len(todo) \in Nat \ {0} /\ Len(Tail(todo)) = Len(todo) - 1 /\ Head(todo) = todo[1]
      /\ \A n \in 1..Len(Tail(todo)) : Tail(todo)[n] = todo[n + 1]
  OBVIOUS
<1>2. Len(items) = (past + 1) + Len(Tail(todo))
  BY <1>1 DEF Left
<1>3. ASSUME NEW n \in 1..Len(Tail(todo))
      PROVE  Tail(todo)[n] = items[(past + 1) + n]
  <2>1. n + 1 \in 1..Len(todo) /\ past + (n + 1) = (past + 1) + n
    BY <1>1
  <2> QED
    BY <1>1, <2>1 DEF Left
<1>4. items[past + 1] = Head(todo)
  BY <1>1 DEF Left
<1> QED
  BY <1>2, <1>3, <1>4 DEF Left

\* A line is written: its row has the last word, and no other row is of its key.
LEMMA WroteLine ==
    ASSUME NEW items, NEW past \in Nat, NEW own, Wrote(items, past, own),
           items[past + 1].table = "line", NEW id, NEW row, Same(row, items[past + 1]),
           row.amount = items[past + 1].amount,
           id \in DOMAIN own => Same(own[id], items[past + 1]),
           OnceEach(Put(own, id, row))
    PROVE  Wrote(items, past + 1, Put(own, id, row))
<1> DEFINE new == Put(own, id, row)
           item == items[past + 1]
<1>1. /\ DOMAIN new = DOMAIN own \cup {id} /\ new[id] = row
      /\ \A n \in DOMAIN own \ {id} : new[n] = own[n]
  BY DEF Put
<1>2. ASSUME NEW n \in DOMAIN new, new[n].table = "line"
      PROVE  LastWord(items, past + 1, new[n])
  <2>1. CASE n = id
    <3>1. past + 1 \in 1..(past + 1) /\ ((past + 1) + 1)..(past + 1) = {}
      OBVIOUS
    <3>2. Same(items[past + 1], new[n]) /\ items[past + 1].amount = new[n].amount
      BY <1>1, <2>1 DEF Same
    <3> QED
      BY <3>1, <3>2 DEF LastWord
  <2>2. CASE n # id
    <3>1. n \in DOMAIN own /\ new[n] = own[n]
      BY <1>1, <2>2
    <3>2. PICK k \in 1..past :
              /\ Same(items[k], new[n]) /\ items[k].amount = new[n].amount
              /\ \A m \in (k + 1)..past : ~Same(items[m], new[n])
      BY <1>2, <3>1 DEF Wrote, LastWord
    <3>3. Unique(new[n])
      BY <1>2 DEF Unique
    <3>4. ~Same(new[n], new[id])
      BY <1>1, <2>2, <3>3 DEF OnceEach
    <3>5. ~Same(items[past + 1], new[n])
      BY <1>1, <3>4 DEF Same
    <3>6. k \in 1..(past + 1) /\ \A m \in (k + 1)..(past + 1) : m = past + 1 \/ m \in (k + 1)..past
      OBVIOUS
    <3> QED
      BY <3>2, <3>5, <3>6 DEF LastWord
  <2> QED
    BY <2>1, <2>2
<1>3. ASSUME NEW n \in 1..(past + 1), items[n].table = "line"
      PROVE  \E m \in DOMAIN new : Same(new[m], items[n])
  <2>1. CASE n = past + 1
    BY <1>1, <2>1
  <2>2. CASE n # past + 1
    <3>1. n \in 1..past
      BY <2>2
    <3>2. PICK m \in DOMAIN own : Same(own[m], items[n])
      BY <1>3, <3>1 DEF Wrote
    <3>3. CASE m = id
      BY <1>1, <3>2, <3>3 DEF Same
    <3>4. CASE m # id
      BY <1>1, <3>2, <3>4
    <3> QED
      BY <3>3, <3>4
  <2> QED
    BY <2>1, <2>2
<1> QED
  BY <1>2, <1>3 DEF Wrote

\* An agency is found or written: the lines are as before.
LEMMA WroteAgency ==
    ASSUME NEW items, NEW past \in Nat, NEW own, Wrote(items, past, own),
           items[past + 1].table # "line", NEW new,
           \A n \in DOMAIN own : own[n].table = "line" => n \in DOMAIN new /\ new[n] = own[n],
           \A n \in DOMAIN new : new[n].table = "line" => n \in DOMAIN own /\ new[n] = own[n]
    PROVE  Wrote(items, past + 1, new)
<1>1. ASSUME NEW id \in DOMAIN new, new[id].table = "line"
      PROVE  LastWord(items, past + 1, new[id])
  <2>1. PICK k \in 1..past :
            /\ Same(items[k], new[id]) /\ items[k].amount = new[id].amount
            /\ \A m \in (k + 1)..past : ~Same(items[m], new[id])
    BY <1>1 DEF Wrote, LastWord
  <2>2. ~Same(items[past + 1], new[id])
    BY <1>1 DEF Same
  <2>3. k \in 1..(past + 1) /\ \A m \in (k + 1)..(past + 1) : m = past + 1 \/ m \in (k + 1)..past
    OBVIOUS
  <2> QED
    BY <2>1, <2>2, <2>3 DEF LastWord
<1>2. ASSUME NEW n \in 1..(past + 1), items[n].table = "line"
      PROVE  \E m \in DOMAIN new : Same(new[m], items[n])
  <2>1. n \in 1..past
    BY <1>2
  <2>2. PICK m \in DOMAIN own : Same(own[m], items[n])
    BY <1>2, <2>1 DEF Wrote
  <2>3. own[m].table = "line"
    BY <1>2, <2>2 DEF Same
  <2> QED
    BY <2>2, <2>3
<1> QED
  BY <1>1, <1>2 DEF Wrote

LEMMA WriteIsOfDocument ==
    ASSUME LoadInv, LoadInv', NEW l \in DOMAIN tx, TxOfDocument(tx[l]), tx[l].todo # <<>>,
           NEW id, NEW row, DOMAIN tx' = DOMAIN tx, tx'[l] = After(l, id, row),
           Same(row, Head(tx[l].todo)),
           Head(tx[l].todo).table = "line" => row.amount = Head(tx[l].todo).amount,
           id \in DOMAIN tx[l].own => Same(tx[l].own[id], Head(tx[l].todo))
    PROVE  TxOfDocument(tx'[l])
<1> DEFINE t == tx[l]
           item == Head(t.todo)
           new == Put(t.own, id, row)
<1>1. Shaped(t) /\ item \in AllAsked(t.kind) /\ t.kind \in LoadKinds
  BY CurrentItem DEF LoadInv, TxFits, Shaped
<1>2. PICK u : u = tx'[l]
  OBVIOUS
<1>3. /\ u.own = new /\ u.todo = Tail(t.todo) /\ u.kind = t.kind /\ u.file = t.file
      /\ u.base = t.base /\ u.done = t.done /\ u.seen = Unread
  BY <1>1, <1>2 DEF After, Shaped
<1>4. /\ DOMAIN new = DOMAIN t.own \cup {id} /\ new[id] = row
      /\ \A n \in DOMAIN t.own \ {id} : new[n] = t.own[n]
  BY DEF Put
<1>5. OnceEach(new)
  <2>1. Fits(u.own, rows')
    BY <1>2 DEF LoadInv, TxFits
  <2>2. OnceEach(Over(new, rows'))
    BY <1>3, <2>1 DEF Fits
  <2> QED
    BY <2>2 DEF OnceEach, Over
<1>6. CASE t.kind # "budget"
  <2>1. item.table # "line" /\ row.table # "line"
    BY <1>1, <1>6, OnlyBudgetsListLines DEF LoadKinds, Same
  <2>2. NoLine(new) /\ (u.file # <<>> => NoLine(u.base))
    BY <1>3, <1>4, <1>6, <2>1 DEF TxOfDocument, NoLine
  <2>3. TxOfDocument(u)
    BY <1>3, <1>6, <2>2 DEF TxOfDocument
  <2> QED
    BY <1>2, <2>3
<1>7. CASE t.kind = "budget"
  <2>1. PICK doc \in Budgets : OfDocument(doc, t.file, t.done, t.todo, t.own)
    BY <1>7 DEF TxOfDocument
  <2>2. PICK items : items = BudgetItems(doc)
    OBVIOUS
  <2>3. PICK past \in Nat :
            /\ Left(items, past, t.todo) /\ Wrote(items, past, t.own)
            /\ \/ t.file = <<doc>> /\ t.done = {}
               \/ t.file = <<>> /\ t.done = {doc} /\ t.todo = <<>>
    BY <2>1, <2>2 DEF OfDocument
  <2>4. items[past + 1] = item /\ Left(items, past + 1, u.todo)
    <3>1. t.todo \in Seq(Everything)
      BY <1>1 DEF Shaped
    <3> QED
      BY <1>3, <2>3, <3>1, TailIsLeft
  <2>5. Wrote(items, past + 1, new)
    <3>1. CASE item.table = "line"
      BY <1>5, <2>3, <2>4, <3>1, WroteLine
    <3>2. CASE item.table # "line"
      <4>1. row.table # "line" /\ (id \in DOMAIN t.own => t.own[id].table # "line")
        BY <3>2 DEF Same
      <4>2. \A n \in DOMAIN t.own : t.own[n].table = "line" => n \in DOMAIN new /\ new[n] = t.own[n]
        BY <1>4, <4>1
      <4>3. \A n \in DOMAIN new : new[n].table = "line" => n \in DOMAIN t.own /\ new[n] = t.own[n]
        BY <1>4, <4>1
      <4> HIDE DEF new
      <4> QED
        BY <2>3, <2>4, <3>2, <4>2, <4>3, WroteAgency
    <3> QED
      BY <3>1, <3>2
  <2>6. OfDocument(doc, u.file, u.done, u.todo, u.own)
    BY <1>3, <2>2, <2>3, <2>4, <2>5 DEF OfDocument
  <2>7. TxOfDocument(u)
    BY <1>3, <1>7, <2>6 DEF TxOfDocument
  <2> QED
    BY <1>2, <2>7
<1> QED
  BY <1>6, <1>7

LEMMA SelectIsOfDocument ==
    ASSUME LoadInv, NEW l \in Loaders, Select(l), TxOfDocument(tx[l])
    PROVE  TxOfDocument(tx'[l])
<1> DEFINE t == tx[l]
<1>1. l \in DOMAIN tx /\ Shaped(t) /\ Head(t.todo).table # "line"
  BY DEF Select, AtItem, Current, LoadInv, TxFits
<1>2. PICK seen : tx' = [tx EXCEPT ![l].seen = seen]
  BY DEF Select
<1>3. PICK u : u = tx'[l]
  OBVIOUS
<1>4. /\ u.own = t.own /\ u.todo = t.todo /\ u.kind = t.kind
      /\ u.file = t.file /\ u.base = t.base /\ u.done = t.done
  BY <1>1, <1>2, <1>3 DEF Shaped
<1>5. TxOfDocument(u)
  BY <1>1, <1>4 DEF TxOfDocument
<1> QED
  BY <1>3, <1>5

LEMMA InsertIsOfDocument ==
    ASSUME LoadInv, LoadInv', NEW l \in Loaders, InsertRow(l), TxOfDocument(tx[l])
    PROVE  TxOfDocument(tx'[l])
<1> DEFINE t == tx[l]
           item == Head(t.todo)
           row == Inserted(t.kind, item)
<1>1. l \in DOMAIN tx /\ t.todo # <<>> /\ DOMAIN tx' = DOMAIN tx
  BY DEF InsertRow, AtItem
<1>2. NextId \notin DOMAIN t.own
  BY <1>1, NextIdIsNew DEF LoadInv, UsedIds
<1>3. Same(row, item) /\ row.amount = item.amount
  BY DEF Inserted, Same
<1>4. tx'[l] = After(l, NextId, row)
  BY <1>1 DEF InsertRow, Current
<1> QED
  BY <1>1, <1>2, <1>3, <1>4, WriteIsOfDocument

LEMMA UpdateIsOfDocument ==
    ASSUME LoadInv, LoadInv', NEW l \in Loaders, UpdateRow(l), TxOfDocument(tx[l])
    PROVE  TxOfDocument(tx'[l])
<1> DEFINE t == tx[l]
           item == Head(t.todo)
           id == t.seen.id
           row == Updated(t.kind, t.seen.row, item)
           all == Over(t.own, rows)
<1>1. /\ l \in DOMAIN tx /\ t.todo # <<>> /\ t.seen.read /\ t.seen # NoRow /\ t.kind # "budget"
      /\ TxFits(t, rows) /\ t.kind \in LoadKinds /\ t.seen \in Seens /\ DOMAIN tx' = DOMAIN tx
  BY DEF UpdateRow, AtItem, LoadInv, TxFits, Shaped
<1>2. t.seen # Unread /\ t.seen.row \in Rows
  <2>1. t.seen # Unread
    <3>1. ~Unread.read
      BY DEF Unread
    <3> QED
      BY <1>1, <3>1
  <2>2. t.seen \in [read : {TRUE}, id : RowIds, row : Rows]
    BY <1>1, <2>1 DEF Seens
  <2> QED
    BY <2>1, <2>2
<1>3. item \in AllAsked(t.kind) /\ item \in Everything /\ KindFits(t.kind, item)
  BY <1>1, CurrentItem
<1>4. /\ id \in DOMAIN all /\ Same(all[id], item) /\ Same(t.seen.row, item)
      /\ Counted(item) => t.seen.row = all[id]
  BY <1>1, <1>2 DEF TxFits, LookedUp
<1>5. Same(row, item)
  BY <1>1, <1>2, <1>3, <1>4, UpdatedIsARow
<1>6. item.table # "line"
  BY <1>1, <1>3, OnlyBudgetsListLines DEF LoadKinds
<1>7. id \in DOMAIN t.own => Same(t.own[id], item)
  BY <1>4 DEF Over
<1>8. tx'[l] = After(l, id, row)
  BY <1>1 DEF UpdateRow, Current
<1> QED
  BY <1>1, <1>5, <1>6, <1>7, <1>8, WriteIsOfDocument

LEMMA UpsertIsOfDocument ==
    ASSUME LoadInv, LoadInv', NEW l \in Loaders, UpsertLine(l), TxOfDocument(tx[l])
    PROVE  TxOfDocument(tx'[l])
<1> DEFINE t == tx[l]
           item == Head(t.todo)
           all == Over(t.own, rows)
<1>1. /\ l \in DOMAIN tx /\ t.todo # <<>> /\ item.table = "line" /\ TxFits(t, rows)
      /\ rows \in Layers /\ DOMAIN tx' = DOMAIN tx
  BY DEF UpsertLine, AtItem, Current, LoadInv
<1>2. all \in Layers
  BY <1>1, OverIsALayer DEF TxFits, Fits
<1>3. \/ /\ tx'[l] = After(l, NextId, Inserted("budget", item))
      \/ \E id \in Matches("budget", item, all) :
            tx'[l] = After(l, id, Updated("budget", all[id], item))
  BY <1>1 DEF UpsertLine, Current, Seen
<1>4. CASE tx'[l] = After(l, NextId, Inserted("budget", item))
  <2>1. NextId \notin DOMAIN t.own
    BY <1>1, NextIdIsNew DEF LoadInv, UsedIds
  <2>2. Same(Inserted("budget", item), item) /\ Inserted("budget", item).amount = item.amount
    BY DEF Inserted, Same
  <2> QED
    BY <1>1, <1>4, <2>1, <2>2, WriteIsOfDocument
<1>5. ASSUME NEW id \in Matches("budget", item, all),
             tx'[l] = After(l, id, Updated("budget", all[id], item))
      PROVE  TxOfDocument(tx'[l])
  <2> DEFINE row == Updated("budget", all[id], item)
  <2>1. id \in DOMAIN all /\ Same(all[id], item) /\ all[id] \in Rows
    BY <1>2, LayerRows DEF Matches, Same
  <2>2. Same(row, item) /\ row.amount = item.amount
    BY <1>1, <2>1 DEF Updated, Rows, Same
  <2>3. id \in DOMAIN t.own => Same(t.own[id], item)
    BY <2>1 DEF Over
  <2> QED
    BY <1>1, <1>5, <2>2, <2>3, WriteIsOfDocument
<1> QED
  BY <1>3, <1>4, <1>5

LEMMA FindAgencyIsOfDocument ==
    ASSUME LoadInv, NEW l \in Loaders, FindAgency(l), TxOfDocument(tx[l])
    PROVE  TxOfDocument(tx'[l])
<1> DEFINE t == tx[l]
<1>1. /\ l \in DOMAIN tx /\ t.todo # <<>> /\ Shaped(t) /\ t.kind = "budget"
      /\ t.seen.read /\ t.seen # NoRow
      /\ tx'[l] = [t EXCEPT !.todo = Tail(@), !.seen = Unread]
  BY DEF FindAgency, AtItem, LoadInv, TxFits
<1>2. PICK u : u = tx'[l]
  OBVIOUS
<1>3. /\ u.own = t.own /\ u.todo = Tail(t.todo) /\ u.kind = t.kind /\ u.file = t.file
      /\ u.done = t.done /\ u.seen = Unread
  BY <1>1, <1>2 DEF Shaped
<1>4. t.seen # Unread
  <2>1. ~Unread.read
    BY DEF Unread
  <2> QED
    BY <1>1, <2>1
<1>5. Head(t.todo).table # "line"
  BY <1>1, <1>4 DEF TxOfDocument
<1>6. PICK doc \in Budgets : OfDocument(doc, t.file, t.done, t.todo, t.own)
  BY <1>1 DEF TxOfDocument
<1>7. PICK items : items = BudgetItems(doc)
  OBVIOUS
<1>8. PICK past \in Nat :
          /\ Left(items, past, t.todo) /\ Wrote(items, past, t.own)
          /\ \/ t.file = <<doc>> /\ t.done = {}
             \/ t.file = <<>> /\ t.done = {doc} /\ t.todo = <<>>
  BY <1>6, <1>7 DEF OfDocument
<1>9. items[past + 1] = Head(t.todo) /\ Left(items, past + 1, u.todo)
  <2>1. t.todo \in Seq(Everything)
    BY <1>1 DEF Shaped
  <2>2. Left(items, past, t.todo) /\ t.todo # <<>>
    BY <1>1, <1>8
  <2>3. items[past + 1] = Head(t.todo) /\ Left(items, past + 1, Tail(t.todo))
    BY <2>1, <2>2, TailIsLeft
  <2> QED
    BY <1>3, <2>3
<1>10. Wrote(items, past + 1, t.own)
  BY <1>5, <1>8, <1>9, WroteAgency
<1>11. OfDocument(doc, u.file, u.done, u.todo, u.own)
  BY <1>1, <1>3, <1>7, <1>8, <1>9, <1>10 DEF OfDocument
<1>12. TxOfDocument(u)
  BY <1>1, <1>3, <1>11 DEF TxOfDocument
<1> QED
  BY <1>2, <1>12

LEMMA EndReleaseIsOfDocument ==
    ASSUME LoadInv, NEW l \in Loaders, EndRelease(l), TxOfDocument(tx[l])
    PROVE  TxOfDocument(tx'[l])
<1> DEFINE t == tx[l]
<1>1. /\ l \in DOMAIN tx /\ t.file # <<>> /\ Shaped(t) /\ t.todo = <<>>
      /\ tx'[l] = [AtNext(t) EXCEPT !.base = t.own, !.done = t.done \cup {Head(t.file)}]
  BY DEF EndRelease, InRelease, LoadInv, TxFits
<1>2. PICK u : u = tx'[l]
  OBVIOUS
<1>3. /\ u.own = t.own /\ u.base = t.own /\ u.done = t.done \cup {Head(t.file)}
      /\ u.kind = t.kind /\ u.file = Tail(t.file) /\ u.todo = Todo(t.kind, Tail(t.file))
      /\ u.seen = Unread
  BY <1>1, <1>2 DEF AtNext, Shaped
<1>4. CASE t.kind # "budget"
  <2>1. NoLine(t.own)
    BY <1>4 DEF TxOfDocument
  <2>2. TxOfDocument(u)
    BY <1>3, <1>4, <2>1 DEF TxOfDocument
  <2> QED
    BY <1>2, <2>2
<1>5. CASE t.kind = "budget"
  <2>1. PICK doc \in Budgets : OfDocument(doc, t.file, t.done, t.todo, t.own)
    BY <1>5 DEF TxOfDocument
  <2>2. PICK past \in Nat :
            /\ Left(BudgetItems(doc), past, t.todo) /\ Wrote(BudgetItems(doc), past, t.own)
            /\ t.file = <<doc>> /\ t.done = {}
    BY <1>1, <2>1 DEF OfDocument
  <2>3. Head(t.file) = doc /\ Tail(t.file) = <<>>
    BY <2>2
  <2>4. u.file = <<>> /\ u.done = {doc} /\ u.todo = t.todo
    BY <1>1, <1>3, <2>2, <2>3 DEF Todo
  <2>5. OfDocument(doc, u.file, u.done, u.todo, u.own)
    BY <1>1, <1>3, <2>2, <2>4 DEF OfDocument
  <2>6. TxOfDocument(u)
    BY <1>3, <1>5, <2>5 DEF TxOfDocument
  <2> QED
    BY <1>2, <2>6
<1> QED
  BY <1>4, <1>5

LEMMA ReleaseFailsIsOfDocument ==
    ASSUME LoadInv, NEW l \in Loaders, ReleaseFails(l), TxOfDocument(tx[l])
    PROVE  TxOfDocument(tx'[l])
<1> DEFINE t == tx[l]
<1>1. /\ l \in DOMAIN tx /\ t.file # <<>> /\ Shaped(t) /\ t.kind = "archive"
      /\ tx'[l] = [AtNext(t) EXCEPT !.own = t.base]
  BY DEF ReleaseFails, InRelease, LoadInv, TxFits, RolledBack
<1>2. PICK u : u = tx'[l]
  OBVIOUS
<1>3. u.own = t.base /\ u.base = t.base /\ u.kind = "archive" /\ u.seen = Unread
  BY <1>1, <1>2 DEF AtNext, Shaped
<1>4. NoLine(t.base)
  BY <1>1 DEF TxOfDocument
<1>5. TxOfDocument(u)
  BY <1>3, <1>4 DEF TxOfDocument
<1> QED
  BY <1>2, <1>5

LEMMA BodyUnreadableIsOfDocument ==
    ASSUME LoadInv, NEW l \in Loaders, BodyUnreadable(l), TxOfDocument(tx[l])
    PROVE  TxOfDocument(tx'[l])
<1> DEFINE t == tx[l]
<1>1. /\ l \in DOMAIN tx /\ Shaped(t) /\ t.kind = "archive"
      /\ tx'[l] = [Unreadable(t) EXCEPT !.file = <<>>, !.todo = <<>>, !.done = {}, !.ok = FALSE]
  BY DEF BodyUnreadable, LoadInv, TxFits
<1>2. PICK u : u = tx'[l]
  OBVIOUS
<1>3. u.own = Nothing /\ u.file = <<>> /\ u.todo = <<>> /\ u.kind = "archive"
  BY <1>1, <1>2 DEF Unreadable, Shaped
<1>4. TxOfDocument(u)
  BY <1>3, NothingIsALayer DEF TxOfDocument, NoLine
<1> QED
  BY <1>2, <1>4

LEMMA BegunIsOfDocument ==
    ASSUME NEW kind \in LoadKinds, NEW file \in Files(kind)
    PROVE  TxOfDocument(Begun(kind, file))
<1>1. PICK t : t = Begun(kind, file)
  OBVIOUS
<1>2. /\ t.kind = kind /\ t.file = file /\ t.todo = Todo(kind, file) /\ t.own = Nothing
      /\ t.base = Nothing /\ t.done = {} /\ t.seen = Unread
  BY <1>1 DEF Begun
<1>3. CASE kind # "budget"
  <2>1. TxOfDocument(t)
    BY <1>2, <1>3, NothingIsALayer DEF TxOfDocument, NoLine
  <2> QED
    BY <1>1, <2>1
<1>4. CASE kind = "budget"
  <2>1. PICK doc \in Budgets : file = <<doc>>
    BY <1>4 DEF Files
  <2>2. file # <<>> /\ Head(file) = doc
    BY <2>1
  <2>3. t.todo = BudgetItems(doc)
    BY <1>2, <1>4, <2>2 DEF Todo, Readable, Asked
  <2>4. Len(BudgetItems(doc)) \in Nat
    BY BudgetItemsOf
  <2>5. Left(BudgetItems(doc), 0, t.todo)
    BY <2>3, <2>4 DEF Left
  <2>6. Wrote(BudgetItems(doc), 0, t.own)
    BY <1>2, NothingIsALayer DEF Wrote
  <2>7. OfDocument(doc, t.file, t.done, t.todo, t.own)
    BY <1>2, <2>1, <2>5, <2>6 DEF OfDocument
  <2>8. TxOfDocument(t)
    BY <1>2, <1>4, <2>7 DEF TxOfDocument
  <2> QED
    BY <1>1, <2>8
<1> QED
  BY <1>3, <1>4

\* ListedAt, Says and BudgetIsOfOneDocument, of any rows.
ListedIn(doc, row) ==
    {n \in 1..Len(BudgetLines(doc)) : LineItem(doc, BudgetLines(doc)[n]).key = row.key}

SaysOf(doc, row) ==
    /\ ListedIn(doc, row) # {}
    /\ BudgetLines(doc)[Max(ListedIn(doc, row))].amount = row.amount

LinesOf(table) == {id \in DOMAIN table : table[id].table = "line"}

Listing(loaded, row) == {doc \in loaded : ListedIn(doc, row) # {}}

OfOne(loaded, table) ==
    \A id, other \in LinesOf(table) :
        Listing(loaded, table[id]) = Listing(loaded, table[other]) =>
            \E doc \in loaded : SaysOf(doc, table[id]) /\ SaysOf(doc, table[other])

\* What a document said last of a line is what it says of it.
LEMMA LastWordIsSaid ==
    ASSUME NEW doc \in Budgets, NEW row, row.table = "line",
           LastWord(BudgetItems(doc), Len(BudgetItems(doc)), row)
    PROVE  SaysOf(doc, row)
<1> DEFINE L == BudgetLines(doc)
           items == BudgetItems(doc)
           listed == ListedIn(doc, row)
<1>0. PICK N \in Nat : N = Len(L)
  BY BudgetItemsOf
<1>1. /\ Len(items) = 2 * N
      /\ \A k \in 1..N : items[2 * k] = LineItem(doc, L[k])
      /\ \A n \in 1..(2 * N) : items[n].table = "line" => \E k \in 1..N : n = 2 * k
  BY <1>0, BudgetItemsOf
<1>2. listed = {n \in 1..N : LineItem(doc, L[n]).key = row.key}
  BY <1>0 DEF ListedIn
<1> HIDE DEF L, items, listed
<1>3. PICK n \in 1..(2 * N) :
          /\ Same(items[n], row) /\ items[n].amount = row.amount
          /\ \A m \in (n + 1)..(2 * N) : ~Same(items[m], row)
  BY <1>1 DEF LastWord, items
<1>4. PICK k \in 1..N : n = 2 * k
  BY <1>1, <1>3 DEF Same
<1>5. LineItem(doc, L[k]).key = row.key /\ L[k].amount = row.amount
  <2>1. items[n] = LineItem(doc, L[k]) /\ LineItem(doc, L[k]).amount = L[k].amount
    BY <1>1, <1>4 DEF LineItem
  <2> QED
    BY <1>3, <2>1 DEF Same
<1>6. k \in listed
  BY <1>2, <1>5
<1>7. ASSUME NEW j \in listed
      PROVE  j \in 1..N /\ k >= j
  <2>1. j \in 1..N /\ LineItem(doc, L[j]).key = row.key
    BY <1>2, <1>7
  <2>2. items[2 * j] = LineItem(doc, L[j]) /\ LineItem(doc, L[j]).table = "line"
    BY <1>1, <2>1 DEF LineItem
  <2>3. Same(items[2 * j], row)
    BY <2>1, <2>2 DEF Same
  <2>4. ~(2 * j \in (n + 1)..(2 * N))
    BY <1>3, <2>3
  <2> QED
    BY <1>4, <2>1, <2>4
<1>8. Max(listed) = k
  <2>1. PICK x : x = Max(listed)
    OBVIOUS
  <2>2. \E y \in listed : \A z \in listed : y >= z
    BY <1>6, <1>7
  <2>3. x \in listed /\ \A z \in listed : x >= z
    BY <2>1, <2>2 DEF Max
  <2>4. x \in 1..N /\ k >= x /\ x >= k
    BY <1>6, <1>7, <2>3
  <2> QED
    BY <2>1, <2>4
<1> QED
  BY <1>5, <1>6, <1>8 DEF SaysOf, listed, L

\* A document is loaded: it says of all its lines what they are, and the others
\* are as they were.
Supersedes(d, table, new) ==
    \A id \in LinesOf(new) :
        /\ ListedIn(d, new[id]) # {} => SaysOf(d, new[id])
        /\ ListedIn(d, new[id]) = {} => id \in LinesOf(table) /\ new[id] = table[id]

LEMMA LoadIsOfOne ==
    ASSUME NEW loaded, NEW table, OfOne(loaded, table), NEW d, NEW new,
           Supersedes(d, table, new)
    PROVE  OfOne(loaded \cup {d}, new)
<1> SUFFICES ASSUME NEW id \in LinesOf(new), NEW other \in LinesOf(new),
                    Listing(loaded \cup {d}, new[id]) = Listing(loaded \cup {d}, new[other])
             PROVE  \E doc \in loaded \cup {d} : SaysOf(doc, new[id]) /\ SaysOf(doc, new[other])
  BY DEF OfOne
<1>1. ListedIn(d, new[id]) # {} <=> ListedIn(d, new[other]) # {}
  BY DEF Listing
<1>2. CASE ListedIn(d, new[id]) # {}
  BY <1>1, <1>2 DEF Supersedes
<1>3. CASE ListedIn(d, new[id]) = {}
  <2>1. /\ id \in LinesOf(table) /\ new[id] = table[id]
        /\ other \in LinesOf(table) /\ new[other] = table[other]
    BY <1>1, <1>3 DEF Supersedes
  <2>2. /\ Listing(loaded \cup {d}, new[id]) = Listing(loaded, new[id])
        /\ Listing(loaded \cup {d}, new[other]) = Listing(loaded, new[other])
    BY <1>1, <1>3 DEF Listing
  <2> QED
    BY <2>1, <2>2 DEF OfOne
<1> QED
  BY <1>2, <1>3

\* The lines that a whole document wrote, over the rows there are.
LEMMA WroteAll ==
    ASSUME NEW d \in Budgets, NEW own, NEW table, OnceEach(Over(own, table)),
           Wrote(BudgetItems(d), Len(BudgetItems(d)), own)
    PROVE  Supersedes(d, table, Over(own, table))
<1> DEFINE new == Over(own, table)
<1>0. /\ DOMAIN new = DOMAIN own \cup DOMAIN table
      /\ \A id \in DOMAIN own : new[id] = own[id]
      /\ \A id \in DOMAIN new \ DOMAIN own : new[id] = table[id]
  BY DEF Over
<1>1. ASSUME NEW id \in LinesOf(new), id \in DOMAIN own
      PROVE  SaysOf(d, new[id])
  <2>1. new[id] = own[id] /\ own[id].table = "line"
    BY <1>0, <1>1 DEF LinesOf
  <2>2. LastWord(BudgetItems(d), Len(BudgetItems(d)), own[id])
    BY <1>1, <2>1 DEF Wrote
  <2> QED
    BY <2>1, <2>2, LastWordIsSaid
<1>2. ASSUME NEW id \in LinesOf(new), ListedIn(d, new[id]) # {}
      PROVE  id \in DOMAIN own
  <2>1. PICK k \in 1..Len(BudgetLines(d)) : LineItem(d, BudgetLines(d)[k]).key = new[id].key
    BY <1>2 DEF ListedIn
  <2>2. PICK n \in 1..Len(BudgetItems(d)) : BudgetItems(d)[n] = LineItem(d, BudgetLines(d)[k])
    <3>1. PICK N \in Nat : N = Len(BudgetLines(d))
      BY BudgetItemsOf
    <3>2. k \in 1..N /\ 2 * k \in 1..(2 * N)
      BY <2>1, <3>1
    <3> QED
      BY <3>1, <3>2, BudgetItemsOf
  <2>3. BudgetItems(d)[n].table = "line" /\ new[id].table = "line"
    BY <2>2 DEF LineItem, LinesOf
  <2>4. PICK m \in DOMAIN own : Same(own[m], BudgetItems(d)[n])
    BY <2>2, <2>3 DEF Wrote
  <2>5. Same(new[m], new[id]) /\ m \in DOMAIN new /\ id \in DOMAIN new /\ Unique(new[m])
    BY <1>0, <2>1, <2>2, <2>3, <2>4 DEF Same, Unique, LinesOf
  <2>6. m = id
    BY <2>5 DEF OnceEach
  <2> QED
    BY <2>4, <2>6
<1>3. ASSUME NEW id \in LinesOf(new), ListedIn(d, new[id]) = {}
      PROVE  id \in LinesOf(table) /\ new[id] = table[id]
  <2>1. id \notin DOMAIN own
    BY <1>1, <1>3 DEF SaysOf
  <2> QED
    BY <1>0, <2>1 DEF LinesOf
<1> HIDE DEF new
<1>4. Supersedes(d, table, new)
  BY <1>1, <1>2, <1>3 DEF Supersedes
<1> QED
  BY <1>4 DEF new

BudgetLoads == {e \in extractions : e.kind = "budget"}

OneDocument ==
    (\A e \in BudgetLoads : e.releases # {}) =>
        OfOne(UNION {e.releases : e \in BudgetLoads}, rows)

LEMMA OneDocumentIs == OneDocument <=> BudgetIsOfOneDocument
  BY DEF OneDocument, BudgetIsOfOneDocument, BudgetLoads, OfOne, Listing, SaysOf, Says,
     ListedIn, ListedAt, LinesOf

BudgetInv ==
    /\ \A l \in DOMAIN tx : TxOfDocument(tx[l])
    /\ OneDocument

LEMMA BudgetInit == Init => BudgetInv
  BY NothingIsALayer DEF Init, BudgetInv, OneDocument, BudgetLoads, OfOne, LinesOf

LEMMA BudgetGoesOn ==
    ASSUME BudgetInv, UNCHANGED <<rows, extractions>>, NEW l,
           DOMAIN tx' = DOMAIN tx \cup {l}, \A o \in DOMAIN tx \ {l} : tx'[o] = tx[o],
           TxOfDocument(tx'[l])
    PROVE  BudgetInv'
<1>1. \A o \in DOMAIN tx' : TxOfDocument(tx'[o])
  BY DEF BudgetInv
<1>2. OneDocument'
  BY DEF BudgetInv, OneDocument, BudgetLoads
<1> QED
  BY <1>1, <1>2 DEF BudgetInv

LEMMA CommitIsOfDocument ==
    ASSUME LoadInv, BudgetInv, NEW l \in DOMAIN tx, tx' = Drop(tx, l),
           rows' = Over(tx[l].own, rows), NEW releases,
           extractions' = extractions \cup {Extracted(tx[l], releases)},
           \/ tx[l].kind = "budget" /\ releases = {}
           \/ tx[l].file = <<>> /\ releases = tx[l].done
    PROVE  BudgetInv'
<1> DEFINE t == tx[l]
           e == Extracted(t, releases)
<1>1. e.kind = t.kind /\ e.releases = releases
  BY DEF Extracted
<1>2. \A o \in DOMAIN tx' : TxOfDocument(tx'[o])
  BY DEF BudgetInv, Drop
<1>3. Fits(t.own, rows) /\ TxOfDocument(t)
  BY DEF LoadInv, TxFits, BudgetInv
<1>4. CASE t.kind # "budget"
  <2>1. BudgetLoads' = BudgetLoads
    BY <1>1, <1>4 DEF BudgetLoads
  <2>2. NoLine(t.own)
    BY <1>3, <1>4 DEF TxOfDocument
  <2>3. ASSUME NEW id \in LinesOf(rows')
        PROVE  id \in LinesOf(rows) /\ rows'[id] = rows[id]
    BY <2>2 DEF LinesOf, NoLine, Over
  <2>4. ASSUME NEW id \in LinesOf(rows)
        PROVE  id \in LinesOf(rows')
    <3>1. id \notin DOMAIN t.own
      BY <1>3, <2>2 DEF LinesOf, NoLine, Fits, Same
    <3> QED
      BY <3>1 DEF LinesOf, Over
  <2>5. LinesOf(rows') = LinesOf(rows) /\ \A id \in LinesOf(rows) : rows'[id] = rows[id]
    BY <2>3, <2>4
  <2>6. \A loaded : OfOne(loaded, rows) => OfOne(loaded, rows')
    BY <2>5 DEF OfOne
  <2>7. OneDocument'
    BY <2>1, <2>6 DEF BudgetInv, OneDocument
  <2> QED
    BY <1>2, <2>7 DEF BudgetInv
<1>5. CASE t.kind = "budget" /\ releases = {}
  <2>1. e \in BudgetLoads' /\ e.releases = {}
    BY <1>1, <1>5 DEF BudgetLoads
  <2>2. OneDocument'
    BY <2>1 DEF OneDocument
  <2> QED
    BY <1>2, <2>2 DEF BudgetInv
<1>6. CASE t.kind = "budget" /\ t.file = <<>> /\ releases = t.done
  <2>1. PICK d \in Budgets : OfDocument(d, t.file, t.done, t.todo, t.own)
    BY <1>3, <1>6 DEF TxOfDocument
  <2>2. PICK past \in Nat :
            /\ Left(BudgetItems(d), past, t.todo) /\ Wrote(BudgetItems(d), past, t.own)
            /\ t.done = {d} /\ t.todo = <<>>
    BY <1>6, <2>1 DEF OfDocument
  <2>3. past = Len(BudgetItems(d))
    BY <2>2 DEF Left
  <2>4. OnceEach(Over(t.own, rows))
    BY <1>3 DEF Fits
  <2>5. BudgetLoads' = BudgetLoads \cup {e} /\ e.releases = {d}
    BY <1>1, <1>6, <2>2 DEF BudgetLoads
  <2>6. PICK loaded : loaded = UNION {f.releases : f \in BudgetLoads}
    OBVIOUS
  <2>7. UNION {f.releases : f \in BudgetLoads'} = loaded \cup {d}
    <3> HIDE DEF e
    <3> QED
      BY <2>5, <2>6
  <2>8. ASSUME \A f \in BudgetLoads' : f.releases # {}
        PROVE  OfOne(loaded \cup {d}, rows')
    <3>1. OfOne(loaded, rows)
      BY <2>5, <2>6, <2>8 DEF BudgetInv, OneDocument
    <3>2. Wrote(BudgetItems(d), Len(BudgetItems(d)), t.own)
      BY <2>2, <2>3
    <3>3. Supersedes(d, rows, Over(t.own, rows))
      BY <2>4, <3>2, WroteAll
    <3>4. OfOne(loaded \cup {d}, Over(t.own, rows))
      BY <3>1, <3>3, LoadIsOfOne
    <3> QED
      BY <3>4
  <2>9. OneDocument'
    BY <2>7, <2>8 DEF OneDocument
  <2> QED
    BY <1>2, <2>9 DEF BudgetInv
<1> QED
  BY <1>4, <1>5, <1>6

LEMMA BudgetStarts ==
    ASSUME BudgetInv, NEW l, l \notin DOMAIN tx, NEW kind \in LoadKinds, NEW file \in Files(kind),
           tx' = Put(tx, l, Begun(kind, file)), UNCHANGED <<rows, extractions>>
    PROVE  BudgetInv'
<1>1. TxOfDocument(Begun(kind, file))
  BY BegunIsOfDocument
<1>2. /\ DOMAIN tx' = DOMAIN tx \cup {l} /\ tx'[l] = Begun(kind, file)
      /\ \A o \in DOMAIN tx \ {l} : tx'[o] = tx[o]
  BY DEF Put
<1> QED
  BY <1>1, <1>2, BudgetGoesOn

LEMMA BudgetNext == LoadInv /\ LoadInv' /\ BudgetInv /\ [Next]_vars => BudgetInv'
<1> SUFFICES ASSUME LoadInv, LoadInv', BudgetInv, [Next]_vars
             PROVE  BudgetInv'
  OBVIOUS
<1>0. ASSUME UNCHANGED <<rows, tx>>, BudgetLoads' = BudgetLoads
      PROVE  BudgetInv'
  <2>1. \A l \in DOMAIN tx' : TxOfDocument(tx'[l])
    BY <1>0 DEF BudgetInv
  <2> QED
    BY <1>0, <2>1 DEF BudgetInv, OneDocument
<1>1. CASE UNCHANGED vars
  BY <1>0, <1>1 DEF vars, BudgetLoads
<1>2. ASSUME NEW l \in Loaders, StartJob(l) \/ SkipPublication(l) \/ RegistryRefuses(l)
      PROVE  BudgetInv'
  BY <1>0, <1>2 DEF StartJob, SkipPublication, RegistryRefuses, BudgetLoads
<1>3. ASSUME NEW l \in Loaders, BeginPublication(l)
      PROVE  BudgetInv'
  <2>1. PICK body \in Bodies[Head(job[l])] : tx' = Put(tx, l, Begun("archive", body))
    BY <1>3 DEF BeginPublication
  <2>2. body \in Files("archive")
    BY <1>3, <2>1, OcdsLoadAssumption DEF BeginPublication, Files, Range
  <2> QED
    BY <1>3, <2>1, <2>2, BudgetStarts DEF BeginPublication, Between, LoadKinds, Kinds
<1>4. ASSUME NEW l \in Loaders, NEW kind \in DOMAIN Documents,
             NEW package \in Documents[kind], StartLoad(l, kind, package)
      PROVE  BudgetInv'
  <2>1. kind \in LoadKinds /\ package \in Files(kind)
    BY OcdsLoadAssumption DEF LoadKinds, Kinds, Files
  <2> QED
    BY <1>4, <2>1, BudgetStarts DEF StartLoad, Free
<1>5. ASSUME NEW l \in Loaders, NEW doc \in Budgets, StartBudget(l, doc)
      PROVE  BudgetInv'
  <2>1. <<doc>> \in Files("budget") /\ "budget" \in LoadKinds
    BY DEF Files, LoadKinds
  <2> QED
    BY <1>5, <2>1, BudgetStarts DEF StartBudget, Free
<1>6. ASSUME NEW l \in Loaders, LoadFails(l)
      PROVE  BudgetInv'
  <2>1. \A o \in DOMAIN tx' : TxOfDocument(tx'[o])
    BY <1>6 DEF LoadFails, Drop, BudgetInv
  <2>2. OneDocument'
    BY <1>6 DEF LoadFails, BudgetInv, OneDocument, BudgetLoads
  <2> QED
    BY <2>1, <2>2 DEF BudgetInv
<1>7. ASSUME NEW l \in Loaders, BudgetBreaksOff(l) \/ Commit(l)
      PROVE  BudgetInv'
  BY <1>7, CommitIsOfDocument DEF BudgetBreaksOff, Commit, AtItem
<1>8. ASSUME NEW l \in Loaders,
             \/ Select(l) \/ InsertRow(l) \/ UpdateRow(l) \/ FindAgency(l) \/ UpsertLine(l)
             \/ EndRelease(l) \/ ReleaseFails(l) \/ BodyUnreadable(l)
      PROVE  BudgetInv'
  <2>1. l \in DOMAIN tx
    BY <1>8 DEF Select, InsertRow, UpdateRow, FindAgency, UpsertLine, EndRelease, ReleaseFails,
       BodyUnreadable, AtItem, InRelease
  <2>2. TxOfDocument(tx[l])
    BY <2>1 DEF BudgetInv
  <2>3. TxOfDocument(tx'[l])
    BY <1>8, <2>2, SelectIsOfDocument, InsertIsOfDocument, UpdateIsOfDocument,
       FindAgencyIsOfDocument, UpsertIsOfDocument, EndReleaseIsOfDocument,
       ReleaseFailsIsOfDocument, BodyUnreadableIsOfDocument
  <2>4. /\ DOMAIN tx' = DOMAIN tx /\ \A o \in DOMAIN tx \ {l} : tx'[o] = tx[o]
        /\ UNCHANGED <<rows, extractions>>
    BY <1>8, <2>1 DEF Select, InsertRow, UpdateRow, FindAgency, UpsertLine, EndRelease,
       ReleaseFails, BodyUnreadable
  <2> QED
    BY <2>1, <2>3, <2>4, BudgetGoesOn
<1> QED
  BY <1>1, <1>2, <1>3, <1>4, <1>5, <1>6, <1>7, <1>8 DEF Next

\* The lines of a year are never a mixture of the bill and the act, in whatever
\* order the two documents list them and however their loads overlap: a load holds
\* each line it has written until it commits them all.
THEOREM YearIsOfOneDocument == Spec => []BudgetIsOfOneDocument
<1>1. Init => BudgetInv
  BY BudgetInit
<1>2. LoadInv /\ LoadInv' /\ BudgetInv /\ [Next]_vars => BudgetInv'
  BY BudgetNext
<1>3. BudgetInv => BudgetIsOfOneDocument
  BY OneDocumentIs DEF BudgetInv
<1> QED
  BY <1>1, <1>2, <1>3, LoadInvariant, PTL DEF Spec
=============================================================================
