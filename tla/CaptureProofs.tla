--------------------------- MODULE CaptureProofs ----------------------------
(***************************************************************************)
(* What fetches commit, for any number of jobs and batches, any portals    *)
(* and any faults: records name archived objects, captures are whole, no   *)
(* child of a catalog is listed twice, and the parent that a document      *)
(* names is a document with the link.                                      *)
(***************************************************************************)
EXTENDS Capture, SequenceTheorems, WellFoundedInduction, TLAPS

Steps == {"choose", "get", "stat", "put", "record", "document", "success"}

\* The fields of a transaction, as far as the code depends on their types.
Shape(t) ==
    /\ t \in [rest : Seq(SourceSet), phase : {"page", "years", "children"}, step : Steps,
              target : {t.target}, body : {t.body}, ok : BOOLEAN, years : Seq(YearUrls),
              links : {t.links}, count : {t.count}, own : {t.own}]
    /\ t.own \in [records : {t.own.records}, docs : {t.own.docs}, last : {t.own.last}]
    /\ t.ok => t.body \in Bodies
    /\ t.phase \in {"page", "years"} =>
           t.target \in [url : {t.target.url}, parent : {t.target.parent}]

(***************************************************************************)
(* What a transaction has written, against the archive a and the           *)
(* committed records r and documents d.                                    *)
(***************************************************************************)
FirstRecord(doc, b) == [source |-> doc.source, url |-> doc.url, ok |-> TRUE, body |-> b]

WrittenOk(own, a, r, d) ==
    /\ \A q \in own.records : q.body # NoBody => q.body \in a
    /\ \A b \in DOMAIN own.docs : FirstRecord(own.docs[b], b) \in own.records \cup r

\* Between requests every success has its document.
Settled(t, a, r, d) ==
    /\ WrittenOk(t.own, a, r, d)
    /\ \A q \in t.own.records : q.ok => q.body \in DOMAIN t.own.docs \cup DOMAIN d

FetchOk(t, a, r, d) ==
    /\ Shape(t)
    /\ WrittenOk(t.own, a, r, d)
    /\ t.step = "record" => t.body \in a
    /\ t.step = "document" => t.ok /\ t.rest # <<>> /\ Record(t, TRUE, t.body) \in t.own.records
    /\ \A q \in t.own.records :
          q.ok => \/ q.body \in DOMAIN t.own.docs \cup DOMAIN d
                  \/ t.step = "document" /\ q.body = t.body

CaptureInv ==
    /\ RowsAreArchived
    /\ CapturesAreWhole
    /\ \A f \in DOMAIN tx : FetchOk(tx[f], archive, records, docs)

\* The archive, the records and the documents only grow.
LEMMA OthersKeep ==
    ASSUME NEW t, NEW a, NEW r, NEW d, NEW a1, NEW r1, NEW d1,
           FetchOk(t, a, r, d), a \subseteq a1, r \subseteq r1, DOMAIN d \subseteq DOMAIN d1
    PROVE  FetchOk(t, a1, r1, d1)
BY DEF FetchOk, WrittenOk

LEMMA OverIsEither ==
    ASSUME NEW f, NEW g
    PROVE  /\ DOMAIN Over(f, g) = DOMAIN f \cup DOMAIN g
           /\ \A x \in DOMAIN f : Over(f, g)[x] = f[x]
           /\ \A x \in DOMAIN g \ DOMAIN f : Over(f, g)[x] = g[x]
BY DEF Over

LEMMA YearPagesAreUrls ==
    ASSUME NEW b \in Bodies, NEW n \in Nat
    PROVE  FirstOf(YearPages[b], n) \in Seq(YearUrls)
<1> DEFINE s == YearPages[b]
<1>1. s \in Seq(DOMAIN Answers) /\ Len(s) \in Nat
  BY CaptureAssumption
<1>2. \A k \in 1..Len(s) : s[k] \in YearUrls
  BY <1>1 DEF YearUrls, ToSet
<1>3. s \in Seq(YearUrls)
  BY <1>1, <1>2
<1> DEFINE m == IF Len(s) < n THEN Len(s) ELSE n
<1>4. m \in 0..Len(s)
  BY <1>1
<1>5. SubSeq(s, 1, m) \in Seq(YearUrls)
  BY <1>3, <1>4, SubSeqProperties
<1> QED
  BY <1>5 DEF FirstOf

LEMMA BegunHasShape ==
    ASSUME NEW list \in Seq(SourceSet), NEW own,
           own \in [records : {own.records}, docs : {own.docs}, last : {own.last}]
    PROVE  /\ Shape(Begun(list, own))
           /\ Begun(list, own).own = own
           /\ Begun(list, own).step = "get" /\ Begun(list, own).phase = "page"
           /\ Begun(list, own).rest = list
           /\ Begun(list, own).target = Page(Head(list))
BY DEF Begun, Shape, Page, Steps

LEMMA NextSourceHasShape ==
    ASSUME NEW t, Shape(t), t.rest # <<>>
    PROVE  /\ Shape(NextSource(t))
           /\ NextSource(t).own = t.own
           /\ NextSource(t).step = "get" /\ NextSource(t).phase = "page"
           /\ NextSource(t).rest # <<>> => NextSource(t).target = Page(Source(NextSource(t)))
<1>1. t.rest \in Seq(SourceSet) /\ Tail(t.rest) \in Seq(SourceSet)
  BY DEF Shape
<1>2. t.own \in [records : {t.own.records}, docs : {t.own.docs}, last : {t.own.last}]
  BY DEF Shape
<1>3. CASE Len(t.rest) = 1
  <2> DEFINE u == Begun(t.rest, t.own)
  <2>1. Shape(u) /\ u.own = t.own /\ u.step = "get" /\ u.phase = "page"
    BY <1>1, <1>2, BegunHasShape
  <2> HIDE DEF u
  <2> DEFINE v == [u EXCEPT !.rest = <<>>]
  <2>2. <<>> \in Seq(SourceSet)
    OBVIOUS
  <2>3. Shape(v)
    BY <2>1, <2>2 DEF Shape
  <2>4. v.own = u.own /\ v.step = u.step /\ v.phase = u.phase /\ v.rest = <<>>
    BY <2>1 DEF Shape
  <2>5. NextSource(t) = v
    BY <1>3 DEF NextSource, u
  <2> QED
    BY <2>1, <2>3, <2>4, <2>5
<1>4. CASE Len(t.rest) # 1
  <2> DEFINE list == Tail(t.rest)
             u == Begun(list, t.own)
  <2>1. NextSource(t) = u
    BY <1>4 DEF NextSource
  <2>2. list \in Seq(SourceSet)
    BY <1>1
  <2> HIDE DEF list
  <2>3. /\ Shape(u) /\ u.own = t.own /\ u.step = "get" /\ u.phase = "page"
        /\ u.rest = list /\ u.target = Page(Head(list))
    BY <2>2, <1>2, BegunHasShape
  <2> HIDE DEF u
  <2> QED
    BY <2>1, <2>3 DEF Source
<1> QED
  BY <1>3, <1>4

LEMMA FollowedHasShape ==
    ASSUME NEW t, Shape(t), t.rest # <<>>
    PROVE  /\ Shape(Followed(t))
           /\ Followed(t).own = t.own
           /\ Followed(t).step \in {"get", "choose"}
<1>1. CASE t.phase = "page" /\ t.ok /\ Source(t) \in Catalogs
  <2>1. FirstOf(YearPages[t.body], MaxYearPages) \in Seq(YearUrls)
    BY <1>1, YearPagesAreUrls, CaptureAssumption DEF Shape
  <2> DEFINE years == FirstOf(YearPages[t.body], MaxYearPages)
             links == Discovered(t.body, Links[t.body], <<>>)
  <2>2. Followed(t) = [t EXCEPT !.phase = "years", !.step = "choose", !.years = years,
                                !.links = links, !.target.parent = t.body]
    BY <1>1 DEF Followed
  <2> HIDE DEF years, links
  <2>3. years \in Seq(YearUrls)
    BY <2>1 DEF years
  <2> DEFINE target == [t.target EXCEPT !.parent = t.body]
  <2>4. target \in [url : {target.url}, parent : {target.parent}]
    BY <1>1 DEF Shape
  <2>5. Followed(t) = [t EXCEPT !.phase = "years", !.step = "choose", !.years = years,
                                !.links = links, !.target = target]
    BY <2>2
  <2> HIDE DEF target
  <2> DEFINE u == [t EXCEPT !.phase = "years", !.step = "choose", !.years = years,
                            !.links = links, !.target = target]
  <2>6. /\ u.phase = "years" /\ u.step = "choose" /\ u.own = t.own /\ u.target = target
        /\ u.links = links /\ u.body = t.body /\ u.count = t.count /\ u.ok = t.ok
    BY DEF Shape
  <2>7. u \in [rest : Seq(SourceSet), phase : {"page", "years", "children"}, step : Steps,
               target : {target}, body : {t.body}, ok : BOOLEAN, years : Seq(YearUrls),
               links : {links}, count : {t.count}, own : {t.own}]
    BY <2>3 DEF Shape, Steps
  <2> HIDE DEF u
  <2>8. Shape(u)
    BY <2>4, <2>6, <2>7 DEF Shape
  <2> QED
    BY <2>5, <2>6, <2>8 DEF u
<1>2. CASE t.phase = "page" /\ ~(t.ok /\ Source(t) \in Catalogs)
  BY <1>2, NextSourceHasShape DEF Followed
<1>3. CASE t.phase = "years" /\ t.ok
  <2> DEFINE links == Discovered(Parent(t), Links[t.body], t.links)
  <2>1. Followed(t) = [t EXCEPT !.step = "choose", !.links = links]
    BY <1>3 DEF Followed
  <2> HIDE DEF links
  <2> QED
    BY <1>3, <2>1 DEF Shape, Steps
<1>4. CASE t.phase # "page" /\ ~(t.phase = "years" /\ t.ok)
  BY <1>4 DEF Followed, Shape, Steps
<1> QED
  BY <1>1, <1>2, <1>3, <1>4

LEMMA ChosenHasShape ==
    ASSUME NEW t, Shape(t), t.rest # <<>>, NEW seen
    PROVE  /\ Shape(Chosen(t, seen))
           /\ Chosen(t, seen).own = t.own
           /\ Chosen(t, seen).step \in {"get", t.step}
<1>1. CASE t.phase = "years" /\ t.years # <<>>
  <2>1. Chosen(t, seen) = [t EXCEPT !.step = "get", !.years = Tail(@), !.target.url = Head(t.years)]
    BY <1>1 DEF Chosen
  <2>2. Tail(t.years) \in Seq(YearUrls)
    BY <1>1 DEF Shape
  <2> DEFINE target == [t.target EXCEPT !.url = Head(t.years)]
  <2>3. target \in [url : {target.url}, parent : {target.parent}]
    BY <1>1 DEF Shape
  <2>4. Chosen(t, seen) = [t EXCEPT !.step = "get", !.years = Tail(@), !.target = target]
    BY <2>1 DEF Shape
  <2> HIDE DEF target
  <2>5. PICK u : u = Chosen(t, seen)
    OBVIOUS
  <2>6. u = [rest |-> t.rest, phase |-> t.phase, step |-> "get", target |-> target,
             body |-> t.body, ok |-> t.ok, years |-> Tail(t.years), links |-> t.links,
             count |-> t.count, own |-> t.own]
    BY <2>4, <2>5 DEF Shape
  <2>7. Shape(u)
    BY <2>2, <2>3, <2>6 DEF Shape, Steps
  <2> QED
    BY <2>5, <2>6, <2>7
<1>2. CASE ~(t.phase = "years" /\ t.years # <<>>) /\ (t.links = <<>> \/ Capped(t))
  BY <1>2, NextSourceHasShape DEF Chosen
<1>3. CASE /\ ~(t.phase = "years" /\ t.years # <<>>) /\ ~(t.links = <<>> \/ Capped(t))
           /\ HasSuccessfulFetch(seen, Source(t), Head(t.links).url)
  <2>1. Chosen(t, seen) = [t EXCEPT !.phase = "children", !.links = Tail(@)]
    BY <1>3 DEF Chosen
  <2> QED
    BY <2>1 DEF Shape, Steps
<1>4. CASE /\ ~(t.phase = "years" /\ t.years # <<>>) /\ ~(t.links = <<>> \/ Capped(t))
           /\ ~HasSuccessfulFetch(seen, Source(t), Head(t.links).url)
  <2>1. Chosen(t, seen) = [t EXCEPT !.phase = "children", !.step = "get", !.links = Tail(@),
                                    !.target = Head(t.links), !.count = @ + 1]
    BY <1>4 DEF Chosen
  <2> QED
    BY <2>1 DEF Shape, Steps
<1> QED
  BY <1>1, <1>2, <1>3, <1>4

LEMMA AtStepHasShape ==
    ASSUME NEW t, Shape(t), NEW s \in Steps
    PROVE  LET u == [t EXCEPT !.step = s]
           IN  /\ Shape(u) /\ u.step = s
               /\ u.own = t.own /\ u.rest = t.rest /\ u.ok = t.ok /\ u.body = t.body
               /\ u.target = t.target /\ u.phase = t.phase
BY DEF Shape

LEMMA WithRecordHasShape ==
    ASSUME NEW t, Shape(t)
    PROVE  LET u == WithRecord(t)
           IN  /\ Shape(u)
               /\ u.own.records = t.own.records \cup {Record(t, t.ok, t.body)}
               /\ u.own.docs = t.own.docs /\ u.own.last = t.own.last
               /\ u.step = t.step /\ u.rest = t.rest /\ u.ok = t.ok /\ u.body = t.body
               /\ u.target = t.target /\ u.phase = t.phase
<1> DEFINE recs == t.own.records \cup {Record(t, t.ok, t.body)}
           own == [t.own EXCEPT !.records = recs]
           u == [t EXCEPT !.own = own]
<1>1. WithRecord(t) = u
  BY DEF WithRecord
<1> HIDE DEF recs
<1>2. /\ own \in [records : {own.records}, docs : {own.docs}, last : {own.last}]
      /\ own.records = recs /\ own.docs = t.own.docs /\ own.last = t.own.last
  BY DEF Shape
<1> HIDE DEF own
<1>3. Shape(u) /\ u.own = own /\ u.step = t.step /\ u.rest = t.rest /\ u.ok = t.ok
      /\ u.body = t.body /\ u.target = t.target /\ u.phase = t.phase
  BY <1>2 DEF Shape
<1> HIDE DEF u
<1> QED
  BY <1>1, <1>2, <1>3 DEF recs

LEMMA FollowedOk ==
    ASSUME NEW t, NEW a, NEW r, NEW d, Shape(t), t.rest # <<>>, Settled(t, a, r, d)
    PROVE  FetchOk(Followed(t), a, r, d)
<1>1. /\ Shape(Followed(t)) /\ Followed(t).own = t.own
      /\ Followed(t).step \in {"get", "choose"}
  BY FollowedHasShape
<1> QED
  BY <1>1 DEF FetchOk, Settled

LEMMA UnansweredOk ==
    ASSUME NEW t, NEW a, NEW r, NEW d, FetchOk(t, a, r, d), t.rest # <<>>, t.step = "get"
    PROVE  FetchOk(Unanswered(t), a, r, d)
<1> DEFINE none == [t EXCEPT !.ok = FALSE, !.body = NoBody]
<1>1. /\ Shape(none) /\ none.own = t.own /\ none.rest = t.rest /\ none.step = "get"
      /\ none.ok = FALSE /\ none.body = NoBody /\ none.phase = t.phase
  BY DEF FetchOk, Shape
<1>2. Unanswered(t) = Followed(IF t.phase = "years" THEN none ELSE WithRecord(none))
  BY DEF Unanswered
<1> HIDE DEF none
<1>3. Settled(none, a, r, d)
  BY <1>1 DEF FetchOk, Settled
<1>4. Shape(WithRecord(none)) /\ WithRecord(none).rest # <<>>
  BY <1>1, WithRecordHasShape
<1>5. Settled(WithRecord(none), a, r, d)
  <2> DEFINE w == WithRecord(none)
  <2>1. /\ w.own.records = none.own.records \cup {Record(none, FALSE, NoBody)}
        /\ w.own.docs = none.own.docs
    BY <1>1, WithRecordHasShape
  <2>2. Record(none, FALSE, NoBody).ok = FALSE /\ Record(none, FALSE, NoBody).body = NoBody
    BY DEF Record
  <2> HIDE DEF w
  <2>3. Settled(w, a, r, d)
    BY <1>3, <2>1, <2>2 DEF Settled, WrittenOk
  <2> QED
    BY <2>3 DEF w
<1> QED
  BY <1>1, <1>2, <1>3, <1>4, <1>5, FollowedOk

(***************************************************************************)
(* Steps of one transaction.                                               *)
(***************************************************************************)
LEMMA OneFetchSteps ==
    ASSUME CaptureInv, NEW f \in DOMAIN tx, NEW t, tx' = [tx EXCEPT ![f] = t],
           archive \subseteq archive', records' = records, docs' = docs,
           FetchOk(t, archive', records, docs)
    PROVE  CaptureInv'
<1>1. ASSUME NEW g \in DOMAIN tx' PROVE FetchOk(tx[g], archive', records, docs) \/ g = f
  BY <1>1, OthersKeep DEF CaptureInv
<1>2. \A g \in DOMAIN tx' : FetchOk(tx'[g], archive', records', docs')
  BY <1>1
<1>3. RowsAreArchived' /\ CapturesAreWhole'
  BY DEF CaptureInv, RowsAreArchived, CapturesAreWhole
<1> QED
  BY <1>2, <1>3 DEF CaptureInv

LEMMA RolledBackKeeps ==
    ASSUME CaptureInv, NEW f, tx' = Drop(tx, f), UNCHANGED <<archive, records, docs>>
    PROVE  CaptureInv'
BY DEF CaptureInv, RowsAreArchived, CapturesAreWhole, Drop

LEMMA StartFetchKeeps ==
    ASSUME CaptureInv, NEW f, NEW list \in Seq(SourceSet), StartFetch(f, list)
    PROVE  CaptureInv'
<1> DEFINE t == Begun(list, Nothing)
<1>1. Nothing \in [records : {Nothing.records}, docs : {Nothing.docs}, last : {Nothing.last}]
      /\ Nothing.records = {} /\ DOMAIN Nothing.docs = {}
  BY DEF Nothing, Empty
<1>2. Shape(t) /\ t.own = Nothing /\ t.step = "get"
  BY <1>1, BegunHasShape
<1> HIDE DEF t
<1>3. FetchOk(t, archive, records, docs)
  BY <1>1, <1>2 DEF FetchOk, WrittenOk
<1>4. tx' = Put(tx, f, t) /\ f \notin DOMAIN tx /\ UNCHANGED <<archive, records, docs>>
  BY DEF StartFetch, t
<1>5. DOMAIN tx' = DOMAIN tx \cup {f} /\ tx'[f] = t /\ \A g \in DOMAIN tx : tx'[g] = tx[g]
  BY <1>4, Zenon DEF Put, Over
<1>6. \A g \in DOMAIN tx' : FetchOk(tx'[g], archive', records', docs')
  BY <1>3, <1>4, <1>5 DEF CaptureInv
<1> QED
  BY <1>4, <1>6 DEF CaptureInv, RowsAreArchived, CapturesAreWhole

LEMMA ChooseKeeps ==
    ASSUME CaptureInv, NEW f, Choose(f)
    PROVE  CaptureInv'
<1> DEFINE t == Chosen(tx[f], Over3(tx[f].own).records)
<1>1. f \in DOMAIN tx /\ tx[f].rest # <<>> /\ tx[f].step = "choose"
      /\ FetchOk(tx[f], archive, records, docs)
  BY DEF CaptureInv, Choose, At, Running
<1>2. Shape(t) /\ t.own = tx[f].own /\ t.step \in {"get", "choose"}
  BY <1>1, ChosenHasShape DEF FetchOk
<1>3. FetchOk(t, archive, records, docs)
  BY <1>1, <1>2 DEF FetchOk
<1>4. tx' = [tx EXCEPT ![f] = t] /\ UNCHANGED <<archive, records, docs>>
  BY DEF Choose
<1> QED
  BY <1>1, <1>3, <1>4, OneFetchSteps

LEMMA GetFailsKeeps ==
    ASSUME CaptureInv, NEW f, GetFails(f)
    PROVE  CaptureInv'
<1>1. f \in DOMAIN tx /\ tx[f].rest # <<>> /\ tx[f].step = "get"
      /\ FetchOk(tx[f], archive, records, docs)
  BY DEF CaptureInv, GetFails, At, Running
<1>2. FetchOk(Unanswered(tx[f]), archive, records, docs)
  BY <1>1, UnansweredOk
<1>3. tx' = [tx EXCEPT ![f] = Unanswered(tx[f])] /\ UNCHANGED <<archive, records, docs>>
  BY DEF GetFails
<1> QED
  BY <1>1, <1>2, <1>3, OneFetchSteps

LEMMA AnswersAreTyped ==
    ASSUME NEW url, NEW x \in AnswersOf(url)
    PROVE  x.ok \in BOOLEAN /\ x.body \in Bodies
BY CaptureAssumption DEF AnswersOf, Bodies

LEMMA GetKeeps ==
    ASSUME CaptureInv, NEW f, Get(f)
    PROVE  CaptureInv'
<1>1. f \in DOMAIN tx /\ tx[f].rest # <<>> /\ tx[f].step = "get"
      /\ FetchOk(tx[f], archive, records, docs)
  BY DEF CaptureInv, Get, At, Running
<1>2. PICK x \in AnswersOf(tx[f].target.url) :
          LET t == [tx[f] EXCEPT !.ok = x.ok, !.body = x.body]
          IN  tx' = [tx EXCEPT ![f] = IF t.phase = "years" /\ ~x.ok THEN Unanswered(t)
                                      ELSE [t EXCEPT !.step = "stat"]]
  BY DEF Get
<1> DEFINE t == [tx[f] EXCEPT !.ok = x.ok, !.body = x.body]
<1>3. x.ok \in BOOLEAN /\ x.body \in Bodies
  BY AnswersAreTyped
<1>4. /\ Shape(t) /\ t.own = tx[f].own /\ t.rest # <<>> /\ t.step = "get" /\ t.ok = x.ok
      /\ t.body = x.body
  BY <1>1, <1>3 DEF FetchOk, Shape
<1>5. UNCHANGED <<archive, records, docs>>
  BY DEF Get
<1>6. tx' = [tx EXCEPT ![f] = IF t.phase = "years" /\ ~x.ok THEN Unanswered(t)
                              ELSE [t EXCEPT !.step = "stat"]]
  BY <1>2
<1> HIDE DEF t
<1>7. FetchOk(t, archive, records, docs)
  BY <1>1, <1>4 DEF FetchOk
<1>8. FetchOk([t EXCEPT !.step = "stat"], archive, records, docs)
  <2> DEFINE u == [t EXCEPT !.step = "stat"]
  <2>1. Shape(u) /\ u.step = "stat" /\ u.own = t.own
    BY <1>4, AtStepHasShape DEF Steps
  <2> HIDE DEF u
  <2>2. FetchOk(u, archive, records, docs)
    BY <1>7, <1>4, <2>1 DEF FetchOk
  <2> QED
    BY <2>2 DEF u
<1>9. FetchOk(Unanswered(t), archive, records, docs)
  BY <1>4, <1>7, UnansweredOk
<1> QED
  BY <1>1, <1>5, <1>6, <1>8, <1>9, OneFetchSteps

LEMMA StatKeeps ==
    ASSUME CaptureInv, NEW f, Stat(f)
    PROVE  CaptureInv'
<1> DEFINE s == IF ObjectExists(tx[f].body) THEN "record" ELSE "put"
           t == [tx[f] EXCEPT !.step = s]
<1>1. f \in DOMAIN tx /\ tx[f].step = "stat" /\ FetchOk(tx[f], archive, records, docs)
  BY DEF CaptureInv, Stat, At, Running
<1>2. tx' = [tx EXCEPT ![f] = t] /\ UNCHANGED <<archive, records, docs>>
  BY DEF Stat
<1>3. s \in {"record", "put"} /\ (s = "record" => tx[f].body \in archive)
  BY DEF ObjectExists
<1> HIDE DEF s
<1> HIDE DEF t
<1>4. Shape(t) /\ t.step = s /\ t.own = tx[f].own /\ t.body = tx[f].body
  <2>1. Shape(tx[f]) /\ s \in Steps
    BY <1>1, <1>3 DEF FetchOk, Steps
  <2> QED
    BY <2>1, AtStepHasShape DEF t
<1> HIDE DEF t
<1>5. FetchOk(t, archive, records, docs)
  BY <1>1, <1>3, <1>4 DEF FetchOk
<1> QED
  BY <1>1, <1>2, <1>5, OneFetchSteps

LEMMA PutObjectKeeps ==
    ASSUME CaptureInv, NEW f, PutObject(f)
    PROVE  CaptureInv'
<1> DEFINE t == [tx[f] EXCEPT !.step = "record"]
<1>1. f \in DOMAIN tx /\ tx[f].step = "put" /\ FetchOk(tx[f], archive, records, docs)
  BY DEF CaptureInv, PutObject, At, Running
<1>2. /\ tx' = [tx EXCEPT ![f] = t] /\ UNCHANGED <<records, docs>>
      /\ archive' = archive \cup {tx[f].body}
  BY DEF PutObject
<1>3. Shape(t) /\ t.step = "record" /\ t.own = tx[f].own /\ t.body = tx[f].body
  BY <1>1, AtStepHasShape DEF FetchOk, Steps
<1> HIDE DEF t
<1>4. FetchOk(t, archive', records, docs)
  BY <1>1, <1>2, <1>3 DEF FetchOk, WrittenOk
<1> QED
  BY <1>1, <1>2, <1>4, OneFetchSteps

\* A success goes on to its document, another answer to the next request.
LEMMA CreateFetchRecordKeeps ==
    ASSUME CaptureInv, NEW f, CreateFetchRecord(f)
    PROVE  CaptureInv'
<1> DEFINE w == WithRecord(tx[f])
           t == [w EXCEPT !.step = "document"]
<1>1. /\ f \in DOMAIN tx /\ tx[f].rest # <<>> /\ tx[f].step = "record"
      /\ FetchOk(tx[f], archive, records, docs)
  BY DEF CaptureInv, CreateFetchRecord, At, Running
<1>2. /\ tx' = [tx EXCEPT ![f] = IF tx[f].ok THEN t ELSE Followed(w)]
      /\ UNCHANGED <<archive, records, docs>>
  BY DEF CreateFetchRecord
<1>3. /\ Shape(w) /\ w.own.records = tx[f].own.records \cup {Record(tx[f], tx[f].ok, tx[f].body)}
      /\ w.own.docs = tx[f].own.docs /\ w.rest = tx[f].rest /\ w.ok = tx[f].ok
      /\ w.body = tx[f].body /\ w.target = tx[f].target
  BY <1>1, WithRecordHasShape DEF FetchOk
<1>4. /\ Record(tx[f], tx[f].ok, tx[f].body).ok = tx[f].ok
      /\ Record(tx[f], tx[f].ok, tx[f].body).body = tx[f].body
  BY DEF Record
<1> HIDE DEF w
<1>5. /\ Shape(t) /\ t.own = w.own /\ t.rest = w.rest /\ t.ok = w.ok /\ t.body = w.body
      /\ t.target = w.target /\ t.step = "document"
  BY <1>3, AtStepHasShape DEF Steps
<1> HIDE DEF t
<1>6. CASE tx[f].ok
  <2>1. tx[f].ok = TRUE
    BY <1>1, <1>6 DEF FetchOk, Shape
  <2>2. Record(t, TRUE, t.body) = Record(tx[f], tx[f].ok, tx[f].body)
    BY <1>3, <1>5, <2>1 DEF Record, Source
  <2>3. WrittenOk(t.own, archive, records, docs)
    BY <1>1, <1>3, <1>4, <1>5 DEF FetchOk, WrittenOk
  <2>4. FetchOk(t, archive, records, docs)
    BY <1>1, <1>3, <1>4, <1>5, <1>6, <2>2, <2>3 DEF FetchOk
  <2> QED
    BY <1>1, <1>2, <1>6, <2>4, OneFetchSteps
<1>7. CASE ~tx[f].ok
  <2>1. Settled(w, archive, records, docs)
    BY <1>1, <1>3, <1>4, <1>7 DEF FetchOk, WrittenOk, Settled
  <2>2. FetchOk(Followed(w), archive, records, docs)
    BY <1>1, <1>3, <2>1, FollowedOk
  <2> QED
    BY <1>1, <1>2, <1>7, <2>2, OneFetchSteps
<1> QED
  BY <1>6, <1>7

\* The record that is there already is the one the document is first fetched by.
LEMMA UpsertDocumentKeeps ==
    ASSUME CaptureInv, NEW f, UpsertDocument(f)
    PROVE  CaptureInv'
<1> DEFINE b == tx[f].body
           kept == tx[f].own.docs
           written == IF b \in DOMAIN Over3(tx[f].own).docs THEN kept
                      ELSE Put(kept, b, Document(tx[f]))
           own == [tx[f].own EXCEPT !.docs = written]
           t == [tx[f] EXCEPT !.step = "success", !.own = own]
<1>1. /\ f \in DOMAIN tx /\ tx[f].step = "document"
      /\ FetchOk(tx[f], archive, records, docs)
  BY DEF CaptureInv, UpsertDocument, At, Running
<1>2. /\ tx' = [tx EXCEPT ![f].step = "success",
                          ![f].own.docs = IF b \in DOMAIN Over3(tx[f].own).docs THEN @
                                          ELSE Put(@, b, Document(tx[f]))]
      /\ UNCHANGED <<archive, records, docs>>
  BY DEF UpsertDocument
<1>3. tx' = [tx EXCEPT ![f] = t]
  BY <1>1, <1>2 DEF FetchOk, Shape
<1>4. DOMAIN Over3(tx[f].own).docs = DOMAIN docs \cup DOMAIN kept
  BY OverIsEither DEF Over3
<1>5. /\ DOMAIN kept \subseteq DOMAIN written /\ b \in DOMAIN written \cup DOMAIN docs
      /\ \A x \in DOMAIN written : \/ x \in DOMAIN kept /\ written[x] = kept[x]
                                   \/ x = b /\ written[x] = Document(tx[f])
  <2>1. CASE b \in DOMAIN Over3(tx[f].own).docs
    BY <1>4, <2>1
  <2>2. CASE b \notin DOMAIN Over3(tx[f].own).docs
    <3> DEFINE put == Put(kept, b, Document(tx[f]))
    <3>1. /\ DOMAIN put = DOMAIN kept \cup {b} /\ put[b] = Document(tx[f])
          /\ \A x \in DOMAIN kept \ {b} : put[x] = kept[x]
      BY Zenon DEF Put, Over
    <3>2. written = put
      BY <2>2
    <3> HIDE DEF put, written
    <3> QED
      BY <3>1, <3>2
  <2> QED
    BY <2>1, <2>2
<1> HIDE DEF written
<1>6. /\ own \in [records : {own.records}, docs : {own.docs}, last : {own.last}]
      /\ own.records = tx[f].own.records /\ own.docs = written
  BY <1>1 DEF FetchOk, Shape
<1> HIDE DEF own
<1>7. Shape(t) /\ t.step = "success" /\ t.own = own
  BY <1>1, <1>6 DEF FetchOk, Shape, Steps
<1> HIDE DEF t
<1>8. FirstRecord(Document(tx[f]), b) = Record(tx[f], TRUE, b)
  BY DEF FirstRecord, Document, Record
<1>9. WrittenOk(own, archive, records, docs)
  BY <1>1, <1>5, <1>6, <1>8 DEF FetchOk, WrittenOk
<1>10. \A q \in own.records : q.ok => q.body \in DOMAIN own.docs \cup DOMAIN docs
  BY <1>1, <1>5, <1>6 DEF FetchOk
<1>11. FetchOk(t, archive, records, docs)
  BY <1>7, <1>9, <1>10 DEF FetchOk
<1> QED
  BY <1>1, <1>2, <1>3, <1>11, OneFetchSteps

LEMMA RecordFetchSuccessKeeps ==
    ASSUME CaptureInv, NEW f, RecordFetchSuccess(f)
    PROVE  CaptureInv'
<1> DEFINE own == [tx[f].own EXCEPT !.last = Put(@, Source(tx[f]), tx[f].body)]
           t == [tx[f] EXCEPT !.own = own]
<1>1. /\ f \in DOMAIN tx /\ tx[f].rest # <<>> /\ tx[f].step = "success"
      /\ FetchOk(tx[f], archive, records, docs)
  BY DEF CaptureInv, RecordFetchSuccess, At, Running
<1>2. tx' = [tx EXCEPT ![f] = Followed(t)] /\ UNCHANGED <<archive, records, docs>>
  <2>1. WithSuccess(tx[f]) = t
    BY DEF WithSuccess
  <2> QED
    BY <2>1 DEF RecordFetchSuccess
<1>3. /\ own \in [records : {own.records}, docs : {own.docs}, last : {own.last}]
      /\ own.records = tx[f].own.records /\ own.docs = tx[f].own.docs
  BY <1>1 DEF FetchOk, Shape
<1> HIDE DEF own
<1>4. Shape(t) /\ t.own = own /\ t.rest = tx[f].rest
  BY <1>1, <1>3 DEF FetchOk, Shape
<1> HIDE DEF t
<1>5. Settled(t, archive, records, docs)
  BY <1>1, <1>3, <1>4 DEF FetchOk, Settled, WrittenOk
<1>6. FetchOk(Followed(t), archive, records, docs)
  BY <1>1, <1>4, <1>5, FollowedOk
<1> QED
  BY <1>1, <1>2, <1>6, OneFetchSteps

(***************************************************************************)
(* How a transaction ends.                                                 *)
(***************************************************************************)
LEMMA CommitKeeps ==
    ASSUME CaptureInv, NEW f, Commit(f)
    PROVE  CaptureInv'
<1> DEFINE own == tx[f].own
<1>1. f \in DOMAIN tx /\ tx[f].rest = <<>> /\ FetchOk(tx[f], archive, records, docs)
  BY DEF CaptureInv, Commit
<1>2. /\ records' = records \cup own.records /\ docs' = Over(docs, own.docs)
      /\ tx' = Drop(tx, f) /\ archive' = archive
  BY DEF Commit, Over3
<1>3. Settled(tx[f], archive, records, docs)
  BY <1>1 DEF FetchOk, Settled
<1>4. RowsAreArchived'
  BY <1>2, <1>3 DEF CaptureInv, RowsAreArchived, Settled, WrittenOk
<1>5. /\ DOMAIN docs' = DOMAIN docs \cup DOMAIN own.docs
      /\ \A b \in DOMAIN docs : docs'[b] = docs[b]
      /\ \A b \in DOMAIN own.docs \ DOMAIN docs : docs'[b] = own.docs[b]
  BY <1>2, Zenon DEF Over
<1>6. CapturesAreWhole'
  <2>1. ASSUME NEW r \in records', r.ok PROVE r.body \in DOMAIN docs'
    BY <1>2, <1>3, <1>5, <2>1 DEF CaptureInv, CapturesAreWhole, Settled
  <2>2. ASSUME NEW b \in DOMAIN docs' PROVE FirstRecord(docs'[b], b) \in records'
    <3>1. CASE b \in DOMAIN docs
      BY <1>2, <1>5, <3>1 DEF CaptureInv, CapturesAreWhole, FirstRecord
    <3>2. CASE b \in DOMAIN own.docs \ DOMAIN docs
      BY <1>2, <1>3, <1>5, <3>2 DEF Settled, WrittenOk
    <3> QED
      BY <1>5, <3>1, <3>2
  <2> QED
    BY <2>1, <2>2 DEF CapturesAreWhole, FirstRecord
<1>7. ASSUME NEW g \in DOMAIN tx' PROVE FetchOk(tx'[g], archive', records', docs')
  <2>1. g \in DOMAIN tx /\ tx'[g] = tx[g]
    BY <1>2, <1>7 DEF Drop
  <2>2. FetchOk(tx[g], archive, records, docs)
    BY <2>1 DEF CaptureInv
  <2>3. records \subseteq records' /\ DOMAIN docs \subseteq DOMAIN docs'
    BY <1>2, <1>5
  <2> QED
    BY <1>2, <2>1, <2>2, <2>3, OthersKeep
<1> QED
  BY <1>4, <1>6, <1>7 DEF CaptureInv

LEMMA RaisesKeeps ==
    ASSUME CaptureInv, NEW f, Raises(f)
    PROVE  CaptureInv'
<1> DEFINE t == [tx[f] EXCEPT !.rest = <<>>]
<1>1. /\ f \in DOMAIN tx /\ tx[f].step \in {"get", "stat", "put"}
      /\ FetchOk(tx[f], archive, records, docs)
  BY DEF CaptureInv, Raises, At, Running
<1>2. UNCHANGED <<archive, records, docs>>
  BY DEF Raises
<1>3. CASE tx' = Drop(tx, f)
  BY <1>2, <1>3, RolledBackKeeps
<1>4. CASE tx' = [tx EXCEPT ![f] = t]
  <2>1. <<>> \in Seq(SourceSet)
    OBVIOUS
  <2>2. Shape(t) /\ t.step = tx[f].step /\ t.own = tx[f].own
    BY <1>1, <2>1 DEF FetchOk, Shape
  <2> HIDE DEF t
  <2>3. FetchOk(t, archive, records, docs)
    BY <1>1, <2>2 DEF FetchOk
  <2> QED
    BY <1>1, <1>2, <1>4, <2>3, OneFetchSteps
<1> QED
  BY <1>3, <1>4 DEF Raises

LEMMA CaptureInit == Init => CaptureInv
BY DEF Init, CaptureInv, RowsAreArchived, CapturesAreWhole, Empty

LEMMA CaptureNext == CaptureInv /\ [Next]_vars => CaptureInv'
<1> SUFFICES ASSUME CaptureInv, [Next]_vars PROVE CaptureInv'
  OBVIOUS
<1>1. CASE UNCHANGED vars
  <2>1. UNCHANGED <<archive, records, docs, tx>>
    BY <1>1 DEF vars
  <2> QED
    BY <2>1, Zenon DEF CaptureInv, RowsAreArchived, CapturesAreWhole
<1>2. ASSUME NEW f \in Workers, NEW s \in SourceSet, StartFetch(f, <<s>>) PROVE CaptureInv'
  <2>1. <<s>> \in Seq(SourceSet)
    OBVIOUS
  <2> QED
    BY <1>2, <2>1, StartFetchKeeps
<1>3. ASSUME NEW f \in Batches, StartFetch(f, Sources) PROVE CaptureInv'
  BY <1>3, StartFetchKeeps, CaptureAssumption
<1>4. ASSUME NEW f \in Fetchers, Step(f) PROVE CaptureInv'
  <2>1. CASE Choose(f)
    BY <2>1, ChooseKeeps
  <2>2. CASE GetFails(f)
    BY <2>2, GetFailsKeeps
  <2>3. CASE Get(f)
    BY <2>3, GetKeeps
  <2>4. CASE Stat(f)
    BY <2>4, StatKeeps
  <2>5. CASE PutObject(f)
    BY <2>5, PutObjectKeeps
  <2>6. CASE CreateFetchRecord(f)
    BY <2>6, CreateFetchRecordKeeps
  <2>7. CASE UpsertDocument(f)
    BY <2>7, UpsertDocumentKeeps
  <2>8. CASE RecordFetchSuccess(f)
    BY <2>8, RecordFetchSuccessKeeps
  <2>9. CASE Commit(f)
    BY <2>9, CommitKeeps
  <2>10. CASE DeadlockBroken(f)
    BY <2>10, RolledBackKeeps DEF DeadlockBroken
  <2> QED
    BY <1>4, <2>1, <2>2, <2>3, <2>4, <2>5, <2>6, <2>7, <2>8, <2>9, <2>10 DEF Step
<1>5. ASSUME NEW f \in Fetchers, Raises(f) PROVE CaptureInv'
  BY <1>5, RaisesKeeps
<1>6. ASSUME NEW f \in Fetchers, Dies(f) PROVE CaptureInv'
  BY <1>6, RolledBackKeeps DEF Dies
<1> QED
  BY <1>1, <1>2, <1>3, <1>4, <1>5, <1>6 DEF Next

THEOREM CaptureInvariant == Spec => []CaptureInv
<1> QED
  BY CaptureInit, CaptureNext, PTL DEF Spec

\* The archive is the evidence (spec 0002): every committed row that names an
\* object was put before, whoever died, raised or put the same bytes meanwhile.
THEOREM EvidenceIsArchived == Spec => []RowsAreArchived
<1>1. CaptureInv => RowsAreArchived
  BY DEF CaptureInv
<1> QED
  BY <1>1, CaptureInvariant, PTL

\* A successful record is committed with its document, and a document with the
\* record it was first fetched by, also by a job that failed half way.
THEOREM CapturesCommitWhole == Spec => []CapturesAreWhole
<1>1. CaptureInv => CapturesAreWhole
  BY DEF CaptureInv
<1> QED
  BY <1>1, CaptureInvariant, PTL
-----------------------------------------------------------------------------
(***************************************************************************)
(* Children.  Who follows the links of a source holds the lock on it, so   *)
(* what it did not find among the committed records stays unfetched until  *)
(* it commits itself.                                                      *)
(***************************************************************************)
Known(s) == {UrlOf[s]} \cup YearUrls

NoneYet(s, url, r) == ~\E q \in r : q.source = s /\ q.url = url /\ q.ok

ListedOnce(own, r) ==
    \A q \in own.records :
        q.ok => \/ q.url \in Known(q.source)
                \/ q.source \in DOMAIN own.last /\ NoneYet(q.source, q.url, r)

ChildOk(t, r) ==
    /\ ListedOnce(t.own, r)
    /\ t.phase = "page" /\ t.rest # <<>> => t.target.url = UrlOf[Source(t)]
    /\ t.phase # "page" /\ t.rest # <<>> => Source(t) \in DOMAIN t.own.last
    /\ t.step = "choose" => t.phase # "page"
    /\ t.phase = "years" /\ t.step # "choose" => t.target.url \in YearUrls
    /\ /\ t.phase = "children" /\ t.rest # <<>>
       /\ t.step \in {"get", "stat", "put", "record"}
       => t.target.url \in Known(Source(t)) \/ NoneYet(Source(t), t.target.url, r)

ChildInv ==
    /\ \A f, g \in DOMAIN tx : f # g =>
          DOMAIN tx[f].own.last \cap DOMAIN tx[g].own.last = {}
    /\ \A f \in DOMAIN tx : ChildOk(tx[f], records)

LEMMA ChildrenOnce == ChildInv => ChildrenAreCapturedOnce
<1> SUFFICES ASSUME ChildInv, NEW f \in DOMAIN tx, NEW s, NEW url \in Children(f, s)
             PROVE  /\ ~\E r \in records : r.source = s /\ r.url = url /\ r.ok
                    /\ \A g \in Others(f) : url \notin Children(g, s)
  BY DEF ChildrenAreCapturedOnce
<1>1. ASSUME NEW g \in DOMAIN tx, url \in Children(g, s)
      PROVE  s \in DOMAIN tx[g].own.last /\ NoneYet(s, url, records)
  <2>1. PICK q \in tx[g].own.records : q.ok /\ q.source = s /\ q.url = url
    BY <1>1 DEF Children
  <2>2. url \notin Known(s)
    BY <1>1 DEF Children, Known
  <2>3. ListedOnce(tx[g].own, records)
    BY DEF ChildInv, ChildOk
  <2> QED
    BY <2>1, <2>2, <2>3 DEF ListedOnce
<1>2. s \in DOMAIN tx[f].own.last /\ NoneYet(s, url, records)
  BY <1>1
<1>3. ASSUME NEW g \in Others(f), url \in Children(g, s) PROVE FALSE
  <2>1. g \in DOMAIN tx /\ g # f
    BY DEF Others
  <2>2. s \in DOMAIN tx[g].own.last
    BY <1>1, <1>3, <2>1
  <2> QED
    BY <1>2, <2>1, <2>2 DEF ChildInv
<1> QED
  BY <1>2, <1>3 DEF NoneYet

\* From one request to the next: another source, or the same one and what is
\* left to choose of it.
LEMMA NextSourceChildOk ==
    ASSUME NEW t, NEW r, Shape(t), t.rest # <<>>, ListedOnce(t.own, r)
    PROVE  ChildOk(NextSource(t), r) /\ NextSource(t).own = t.own
<1> DEFINE u == NextSource(t)
<1>1. /\ u.own = t.own /\ u.step = "get" /\ u.phase = "page"
      /\ u.rest # <<>> => u.target = Page(Source(u))
  BY NextSourceHasShape
<1> HIDE DEF u
<1>2. u.rest # <<>> => u.target.url = UrlOf[Source(u)]
  BY <1>1 DEF Page
<1>3. ChildOk(u, r) /\ u.own = t.own
  BY <1>1, <1>2 DEF ChildOk
<1> QED
  BY <1>3 DEF u

LEMMA FollowedChildOk ==
    ASSUME NEW t, NEW r, Shape(t), t.rest # <<>>, ListedOnce(t.own, r),
           t.phase # "page" \/ t.ok => Source(t) \in DOMAIN t.own.last
    PROVE  ChildOk(Followed(t), r)
<1> DEFINE u == Followed(t)
<1>1. CASE t.phase = "page" /\ ~(t.ok /\ Source(t) \in Catalogs)
  BY <1>1, NextSourceChildOk DEF Followed
<1>2. CASE ~(t.phase = "page" /\ ~(t.ok /\ Source(t) \in Catalogs))
  <2>1. u.own = t.own /\ u.step = "choose" /\ u.phase # "page" /\ u.rest = t.rest
    <3>1. CASE t.phase = "page" /\ t.ok /\ Source(t) \in Catalogs
      <4> DEFINE years == FirstOf(YearPages[t.body], MaxYearPages)
                 links == Discovered(t.body, Links[t.body], <<>>)
      <4>1. u = [t EXCEPT !.phase = "years", !.step = "choose", !.years = years,
                          !.links = links, !.target.parent = t.body]
        BY <3>1 DEF Followed
      <4> HIDE DEF years, links, u
      <4> QED
        BY <4>1 DEF Shape
    <3>2. CASE t.phase = "years" /\ t.ok
      <4> DEFINE links == Discovered(Parent(t), Links[t.body], t.links)
      <4>1. u = [t EXCEPT !.step = "choose", !.links = links]
        BY <3>2 DEF Followed
      <4> HIDE DEF links, u
      <4> QED
        BY <3>2, <4>1 DEF Shape
    <3>3. CASE t.phase # "page" /\ ~(t.phase = "years" /\ t.ok)
      <4>1. u = [t EXCEPT !.step = "choose"]
        BY <3>3 DEF Followed
      <4> HIDE DEF u
      <4> QED
        BY <3>3, <4>1 DEF Shape
    <3> QED
      BY <1>2, <3>1, <3>2, <3>3
  <2> HIDE DEF u
  <2>2. Source(u) = Source(t) /\ Source(t) \in DOMAIN t.own.last
    BY <1>2, <2>1 DEF Source
  <2>3. ChildOk(u, r)
    BY <2>1, <2>2 DEF ChildOk
  <2> QED
    BY <2>3 DEF u
<1> QED
  BY <1>1, <1>2

\* The record there was looked for is not among the committed ones either.
LEMMA ChosenChildOk ==
    ASSUME NEW t, NEW r, NEW seen, Shape(t), t.rest # <<>>, ChildOk(t, r), t.step = "choose",
           r \subseteq seen
    PROVE  ChildOk(Chosen(t, seen), r)
<1> DEFINE u == Chosen(t, seen)
<1>1. CASE t.phase = "years" /\ t.years # <<>>
  <2>1. Head(t.years) \in YearUrls
    BY <1>1 DEF Shape
  <2>2. u = [t EXCEPT !.step = "get", !.years = Tail(@), !.target.url = Head(t.years)]
    BY <1>1 DEF Chosen
  <2>3. /\ u.own = t.own /\ u.rest = t.rest /\ u.phase = "years" /\ u.step = "get"
        /\ u.target.url = Head(t.years)
    BY <1>1, <2>2 DEF Shape
  <2> HIDE DEF u
  <2>4. ChildOk(u, r)
    BY <2>1, <2>3 DEF ChildOk, Source
  <2> QED
    BY <2>4 DEF u
<1>2. CASE ~(t.phase = "years" /\ t.years # <<>>) /\ (t.links = <<>> \/ Capped(t))
  BY <1>2, NextSourceChildOk DEF Chosen, ChildOk
<1>3. CASE /\ ~(t.phase = "years" /\ t.years # <<>>) /\ ~(t.links = <<>> \/ Capped(t))
           /\ HasSuccessfulFetch(seen, Source(t), Head(t.links).url)
  <2>1. u = [t EXCEPT !.phase = "children", !.links = Tail(@)]
    BY <1>3 DEF Chosen
  <2>2. /\ u.own = t.own /\ u.rest = t.rest /\ u.phase = "children" /\ u.step = "choose"
    BY <2>1 DEF Shape
  <2> HIDE DEF u
  <2>3. ChildOk(u, r)
    BY <2>2 DEF ChildOk, Source
  <2> QED
    BY <2>3 DEF u
<1>4. CASE /\ ~(t.phase = "years" /\ t.years # <<>>) /\ ~(t.links = <<>> \/ Capped(t))
           /\ ~HasSuccessfulFetch(seen, Source(t), Head(t.links).url)
  <2>1. u = [t EXCEPT !.phase = "children", !.step = "get", !.links = Tail(@),
                      !.target = Head(t.links), !.count = @ + 1]
    BY <1>4 DEF Chosen
  <2>2. /\ u.own = t.own /\ u.rest = t.rest /\ u.phase = "children" /\ u.step = "get"
        /\ u.target = Head(t.links)
    BY <2>1 DEF Shape
  <2> HIDE DEF u
  <2>3. NoneYet(Source(u), u.target.url, r)
    BY <1>4, <2>2 DEF NoneYet, HasSuccessfulFetch, Source
  <2>4. ChildOk(u, r)
    BY <2>2, <2>3 DEF ChildOk, Source
  <2> QED
    BY <2>4 DEF u
<1> QED
  BY <1>1, <1>2, <1>3, <1>4

LEMMA OneFetchLists ==
    ASSUME ChildInv, NEW f \in DOMAIN tx, NEW t, tx' = [tx EXCEPT ![f] = t],
           records' = records, ChildOk(t, records),
           \A g \in Others(f) : DOMAIN t.own.last \cap DOMAIN tx[g].own.last = {}
    PROVE  ChildInv'
BY DEF ChildInv, Others

LEMMA SameLocksList ==
    ASSUME ChildInv, NEW f \in DOMAIN tx, NEW t, tx' = [tx EXCEPT ![f] = t],
           records' = records, ChildOk(t, records), t.own.last = tx[f].own.last
    PROVE  ChildInv'
BY OneFetchLists DEF ChildInv, Others

LEMMA RolledBackLists ==
    ASSUME ChildInv, NEW f, tx' = Drop(tx, f), records' = records
    PROVE  ChildInv'
BY DEF ChildInv, Drop

\* The step alone is another; the next one has no new promise to keep.
LEMMA OnlyStepLists ==
    ASSUME CaptureInv, ChildInv, NEW f \in DOMAIN tx, NEW s \in Steps, s # "choose",
           tx' = [tx EXCEPT ![f].step = s], records' = records,
           tx[f].step # "choose",
           s \in {"get", "stat", "put", "record"} =>
               tx[f].step \in {"get", "stat", "put", "record"}
    PROVE  ChildInv'
<1> DEFINE t == [tx[f] EXCEPT !.step = s]
<1>1. Shape(tx[f]) /\ ChildOk(tx[f], records)
  BY DEF CaptureInv, FetchOk, ChildInv
<1>2. /\ t.step = s /\ t.own = tx[f].own /\ t.rest = tx[f].rest /\ t.target = tx[f].target
      /\ t.phase = tx[f].phase
  BY <1>1, AtStepHasShape
<1>3. tx' = [tx EXCEPT ![f] = t]
  OBVIOUS
<1> HIDE DEF t
<1>4. ChildOk(t, records)
  BY <1>1, <1>2 DEF ChildOk, Source
<1> QED
  BY <1>2, <1>3, <1>4, SameLocksList

LEMMA StartFetchLists ==
    ASSUME ChildInv, NEW f, NEW list \in Seq(SourceSet), StartFetch(f, list)
    PROVE  ChildInv'
<1> DEFINE t == Begun(list, Nothing)
<1>1. Nothing \in [records : {Nothing.records}, docs : {Nothing.docs}, last : {Nothing.last}]
      /\ Nothing.records = {} /\ DOMAIN Nothing.last = {}
  BY DEF Nothing, Empty
<1>2. /\ t.own = Nothing /\ t.step = "get" /\ t.phase = "page" /\ t.rest = list
      /\ t.target = Page(Head(list))
  BY <1>1, BegunHasShape
<1> HIDE DEF t
<1>3. ChildOk(t, records)
  BY <1>1, <1>2 DEF ChildOk, ListedOnce, Page, Source
<1>4. tx' = Put(tx, f, t) /\ f \notin DOMAIN tx /\ records' = records
  BY DEF StartFetch, t
<1>5. DOMAIN tx' = DOMAIN tx \cup {f} /\ tx'[f] = t /\ \A g \in DOMAIN tx : tx'[g] = tx[g]
  BY <1>4, Zenon DEF Put, Over
<1>6. \A g \in DOMAIN tx' : ChildOk(tx'[g], records')
  BY <1>3, <1>4, <1>5 DEF ChildInv
<1>7. \A g, h \in DOMAIN tx' :
          g # h => DOMAIN tx'[g].own.last \cap DOMAIN tx'[h].own.last = {}
  BY <1>1, <1>2, <1>5 DEF ChildInv
<1> QED
  BY <1>6, <1>7 DEF ChildInv

LEMMA ChooseLists ==
    ASSUME CaptureInv, ChildInv, NEW f, Choose(f)
    PROVE  ChildInv'
<1> DEFINE seen == Over3(tx[f].own).records
           t == Chosen(tx[f], seen)
<1>1. f \in DOMAIN tx /\ tx[f].rest # <<>> /\ tx[f].step = "choose"
      /\ Shape(tx[f]) /\ ChildOk(tx[f], records)
  BY DEF CaptureInv, FetchOk, ChildInv, Choose, At, Running
<1>2. records \subseteq seen
  BY DEF Over3
<1>3. tx' = [tx EXCEPT ![f] = t] /\ records' = records
  BY DEF Choose
<1> HIDE DEF seen
<1>4. ChildOk(t, records) /\ t.own = tx[f].own
  BY <1>1, <1>2, ChosenChildOk, ChosenHasShape
<1> QED
  BY <1>1, <1>3, <1>4, SameLocksList

\* No answer: a record of a failure at most, and on to what comes next.
LEMMA UnansweredLists ==
    ASSUME NEW t, NEW r, Shape(t), t.rest # <<>>, ChildOk(t, r)
    PROVE  ChildOk(Unanswered(t), r) /\ Unanswered(t).own.last = t.own.last
<1> DEFINE none == [t EXCEPT !.ok = FALSE, !.body = NoBody]
           w == IF t.phase = "years" THEN none ELSE WithRecord(none)
<1>1. /\ Shape(none) /\ none.own = t.own /\ none.rest = t.rest
      /\ none.ok = FALSE /\ none.body = NoBody /\ none.phase = t.phase
  BY DEF Shape
<1>2. Unanswered(t) = Followed(w)
  BY DEF Unanswered
<1> HIDE DEF none
<1>3. /\ Shape(w) /\ w.own.last = t.own.last /\ w.rest = t.rest /\ w.ok = FALSE
      /\ w.phase = t.phase
      /\ w.own.records \subseteq t.own.records \cup {Record(none, FALSE, NoBody)}
  BY <1>1, WithRecordHasShape
<1>4. Record(none, FALSE, NoBody).ok = FALSE
  BY DEF Record
<1> HIDE DEF w
<1>5. ListedOnce(w.own, r)
  BY <1>3, <1>4 DEF ChildOk, ListedOnce
<1>6. w.phase # "page" => Source(w) \in DOMAIN w.own.last
  BY <1>3 DEF ChildOk, Source
<1> QED
  BY <1>2, <1>3, <1>5, <1>6, FollowedChildOk, FollowedHasShape

LEMMA GetFailsLists ==
    ASSUME CaptureInv, ChildInv, NEW f, GetFails(f)
    PROVE  ChildInv'
<1>1. f \in DOMAIN tx /\ tx[f].rest # <<>> /\ Shape(tx[f]) /\ ChildOk(tx[f], records)
  BY DEF CaptureInv, FetchOk, ChildInv, GetFails, At, Running
<1>2. tx' = [tx EXCEPT ![f] = Unanswered(tx[f])] /\ records' = records
  BY DEF GetFails
<1> QED
  BY <1>1, <1>2, UnansweredLists, SameLocksList

LEMMA GetLists ==
    ASSUME CaptureInv, ChildInv, NEW f, Get(f)
    PROVE  ChildInv'
<1>1. f \in DOMAIN tx /\ tx[f].rest # <<>> /\ tx[f].step = "get"
      /\ Shape(tx[f]) /\ ChildOk(tx[f], records)
  BY DEF CaptureInv, FetchOk, ChildInv, Get, At, Running
<1>2. PICK x \in AnswersOf(tx[f].target.url) :
          LET t == [tx[f] EXCEPT !.ok = x.ok, !.body = x.body]
          IN  tx' = [tx EXCEPT ![f] = IF t.phase = "years" /\ ~x.ok THEN Unanswered(t)
                                      ELSE [t EXCEPT !.step = "stat"]]
  BY DEF Get
<1> DEFINE t == [tx[f] EXCEPT !.ok = x.ok, !.body = x.body]
           u == [t EXCEPT !.step = "stat"]
<1>3. x.ok \in BOOLEAN /\ x.body \in Bodies
  BY AnswersAreTyped
<1>4. /\ Shape(t) /\ t.own = tx[f].own /\ t.rest = tx[f].rest /\ t.step = "get"
      /\ t.phase = tx[f].phase /\ t.target = tx[f].target
  BY <1>1, <1>3 DEF Shape
<1>5. tx' = [tx EXCEPT ![f] = IF t.phase = "years" /\ ~x.ok THEN Unanswered(t) ELSE u]
  BY <1>2
<1>6. records' = records
  BY DEF Get
<1> HIDE DEF t
<1>7. ChildOk(t, records)
  BY <1>1, <1>4 DEF ChildOk, Source
<1>8. /\ u.step = "stat" /\ u.own = t.own /\ u.rest = t.rest /\ u.phase = t.phase
      /\ u.target = t.target
  BY <1>4, AtStepHasShape DEF Steps
<1> HIDE DEF u
<1>9. ChildOk(u, records)
  BY <1>4, <1>7, <1>8 DEF ChildOk, Source
<1>10. ChildOk(Unanswered(t), records) /\ Unanswered(t).own.last = t.own.last
  BY <1>1, <1>4, <1>7, UnansweredLists
<1> QED
  BY <1>1, <1>4, <1>5, <1>6, <1>8, <1>9, <1>10, SameLocksList

LEMMA CreateFetchRecordLists ==
    ASSUME CaptureInv, ChildInv, NEW f, CreateFetchRecord(f)
    PROVE  ChildInv'
<1> DEFINE w == WithRecord(tx[f])
           t == [w EXCEPT !.step = "document"]
           rec == Record(tx[f], tx[f].ok, tx[f].body)
<1>1. /\ f \in DOMAIN tx /\ tx[f].rest # <<>> /\ tx[f].step = "record"
      /\ Shape(tx[f]) /\ ChildOk(tx[f], records)
  BY DEF CaptureInv, FetchOk, ChildInv, CreateFetchRecord, At, Running
<1>2. /\ tx' = [tx EXCEPT ![f] = IF tx[f].ok THEN t ELSE Followed(w)]
      /\ records' = records
  BY DEF CreateFetchRecord
<1>3. /\ Shape(w) /\ w.own.records = tx[f].own.records \cup {rec}
      /\ w.own.last = tx[f].own.last /\ w.rest = tx[f].rest /\ w.ok = tx[f].ok
      /\ w.target = tx[f].target /\ w.phase = tx[f].phase
  BY <1>1, WithRecordHasShape
<1>4. rec.source = Source(tx[f]) /\ rec.url = tx[f].target.url /\ rec.ok = tx[f].ok
  BY DEF Record
<1> HIDE DEF w, rec
<1>5. /\ t.own = w.own /\ t.rest = w.rest /\ t.target = w.target /\ t.step = "document"
      /\ t.phase = w.phase
  BY <1>3, AtStepHasShape DEF Steps
<1> HIDE DEF t
<1>6. \/ rec.url \in Known(rec.source)
      \/ rec.source \in DOMAIN tx[f].own.last /\ NoneYet(rec.source, rec.url, records)
  <2>1. tx[f].phase \in {"page", "years", "children"}
    BY <1>1 DEF Shape
  <2> QED
    BY <1>1, <1>4, <2>1 DEF ChildOk, Known
<1>7. ListedOnce(w.own, records)
  BY <1>1, <1>3, <1>6 DEF ChildOk, ListedOnce
<1>8. ChildOk(t, records)
  BY <1>1, <1>3, <1>5, <1>7 DEF ChildOk, Source
<1>9. ASSUME ~tx[f].ok PROVE ChildOk(Followed(w), records) /\ Followed(w).own = w.own
  <2>1. w.phase # "page" \/ w.ok => Source(w) \in DOMAIN w.own.last
    BY <1>1, <1>3, <1>9 DEF ChildOk, Source
  <2> QED
    BY <1>1, <1>3, <1>7, <2>1, FollowedChildOk, FollowedHasShape
<1> QED
  BY <1>1, <1>2, <1>3, <1>5, <1>8, <1>9, SameLocksList

LEMMA UpsertDocumentLists ==
    ASSUME CaptureInv, ChildInv, NEW f, UpsertDocument(f)
    PROVE  ChildInv'
<1> DEFINE b == tx[f].body
           written == IF b \in DOMAIN Over3(tx[f].own).docs THEN tx[f].own.docs
                      ELSE Put(tx[f].own.docs, b, Document(tx[f]))
           own == [tx[f].own EXCEPT !.docs = written]
           t == [tx[f] EXCEPT !.step = "success", !.own = own]
<1>1. /\ f \in DOMAIN tx /\ tx[f].step = "document" /\ Shape(tx[f])
      /\ ChildOk(tx[f], records)
  BY DEF CaptureInv, FetchOk, ChildInv, UpsertDocument, At, Running
<1>2. /\ tx' = [tx EXCEPT ![f].step = "success",
                          ![f].own.docs = IF b \in DOMAIN Over3(tx[f].own).docs THEN @
                                          ELSE Put(@, b, Document(tx[f]))]
      /\ records' = records
  BY DEF UpsertDocument
<1>3. tx' = [tx EXCEPT ![f] = t]
  BY <1>1, <1>2 DEF Shape
<1> HIDE DEF written
<1>4. own.records = tx[f].own.records /\ own.last = tx[f].own.last
  BY <1>1 DEF Shape
<1> HIDE DEF own
<1>5. /\ t.own = own /\ t.rest = tx[f].rest /\ t.phase = tx[f].phase /\ t.step = "success"
      /\ t.target = tx[f].target
  BY <1>1 DEF Shape
<1> HIDE DEF t
<1>6. ChildOk(t, records)
  BY <1>1, <1>4, <1>5 DEF ChildOk, ListedOnce, Source
<1> QED
  BY <1>1, <1>2, <1>3, <1>4, <1>5, <1>6, SameLocksList

\* The lock that the capture of the page takes.
LEMMA RecordFetchSuccessLists ==
    ASSUME CaptureInv, ChildInv, NEW f, RecordFetchSuccess(f)
    PROVE  ChildInv'
<1> DEFINE s == Source(tx[f])
           own == [tx[f].own EXCEPT !.last = Put(@, s, tx[f].body)]
           t == [tx[f] EXCEPT !.own = own]
<1>1. /\ f \in DOMAIN tx /\ tx[f].rest # <<>> /\ Shape(tx[f]) /\ ChildOk(tx[f], records)
      /\ \A g \in Others(f) : s \notin DOMAIN tx[g].own.last
  BY DEF CaptureInv, FetchOk, ChildInv, RecordFetchSuccess, At, Running, LocksSource
<1>2. tx' = [tx EXCEPT ![f] = Followed(t)] /\ records' = records
  <2>1. WithSuccess(tx[f]) = t
    BY DEF WithSuccess
  <2> QED
    BY <2>1 DEF RecordFetchSuccess
<1>3. DOMAIN Put(tx[f].own.last, s, tx[f].body) = DOMAIN tx[f].own.last \cup {s}
  BY Zenon DEF Put, Over
<1>4. /\ own \in [records : {own.records}, docs : {own.docs}, last : {own.last}]
      /\ own.records = tx[f].own.records
      /\ DOMAIN own.last = DOMAIN tx[f].own.last \cup {s}
  BY <1>1, <1>3 DEF Shape
<1> HIDE DEF own
<1>5. Shape(t) /\ t.own = own /\ t.rest = tx[f].rest
  BY <1>1, <1>4 DEF Shape
<1> HIDE DEF t
<1>6. ListedOnce(t.own, records)
  BY <1>1, <1>4, <1>5 DEF ChildOk, ListedOnce
<1>7. Source(t) \in DOMAIN t.own.last
  BY <1>4, <1>5 DEF Source
<1>8. ChildOk(Followed(t), records) /\ Followed(t).own = own
  BY <1>1, <1>5, <1>6, <1>7, FollowedChildOk, FollowedHasShape
<1>9. \A g \in Others(f) : DOMAIN own.last \cap DOMAIN tx[g].own.last = {}
  BY <1>1, <1>4 DEF ChildInv, Others
<1> QED
  BY <1>1, <1>2, <1>8, <1>9, OneFetchLists

\* What is committed was listed by who held the lock, or is a page.
LEMMA CommitLists ==
    ASSUME ChildInv, NEW f, Commit(f)
    PROVE  ChildInv'
<1> DEFINE own == tx[f].own
<1>1. f \in DOMAIN tx /\ records' = records \cup own.records /\ tx' = Drop(tx, f)
  BY DEF Commit, Over3
<1>2. ASSUME NEW g \in DOMAIN tx' PROVE g \in DOMAIN tx /\ g # f /\ tx'[g] = tx[g]
  BY <1>1, <1>2 DEF Drop
<1>3. ASSUME NEW g \in DOMAIN tx, g # f, NEW s \in DOMAIN tx[g].own.last, NEW url,
             url \notin Known(s), NoneYet(s, url, records)
      PROVE  NoneYet(s, url, records')
  <2> SUFFICES ASSUME NEW q \in own.records, q.source = s, q.url = url, q.ok PROVE FALSE
    BY <1>1, <1>3 DEF NoneYet
  <2>1. s \in DOMAIN own.last
    BY <1>1, <1>3 DEF ChildInv, ChildOk, ListedOnce
  <2> QED
    BY <1>1, <1>3, <2>1 DEF ChildInv
<1>4. ASSUME NEW g \in DOMAIN tx, g # f PROVE ChildOk(tx[g], records')
  <2>1. ChildOk(tx[g], records)
    BY DEF ChildInv
  <2>2. ListedOnce(tx[g].own, records')
    BY <1>3, <1>4, <2>1 DEF ChildOk, ListedOnce
  <2> QED
    BY <1>3, <1>4, <2>1, <2>2 DEF ChildOk
<1> QED
  BY <1>2, <1>4 DEF ChildInv

LEMMA RaisesLists ==
    ASSUME CaptureInv, ChildInv, NEW f, Raises(f)
    PROVE  ChildInv'
<1> DEFINE t == [tx[f] EXCEPT !.rest = <<>>]
<1>1. f \in DOMAIN tx /\ Shape(tx[f]) /\ ChildOk(tx[f], records) /\ records' = records
  BY DEF CaptureInv, FetchOk, ChildInv, Raises, At, Running
<1>2. CASE tx' = Drop(tx, f)
  BY <1>1, <1>2, RolledBackLists
<1>3. CASE tx' = [tx EXCEPT ![f] = t]
  <2>1. /\ t.rest = <<>> /\ t.own = tx[f].own /\ t.phase = tx[f].phase
        /\ t.step = tx[f].step /\ t.target = tx[f].target
    BY <1>1 DEF Shape
  <2> HIDE DEF t
  <2>2. ChildOk(t, records)
    BY <1>1, <2>1 DEF ChildOk
  <2> QED
    BY <1>1, <1>3, <2>1, <2>2, SameLocksList
<1> QED
  BY <1>2, <1>3 DEF Raises

LEMMA StatLists ==
    ASSUME CaptureInv, ChildInv, NEW f, Stat(f)
    PROVE  ChildInv'
<1> DEFINE s == IF ObjectExists(tx[f].body) THEN "record" ELSE "put"
<1>1. f \in DOMAIN tx /\ tx[f].step = "stat"
  BY DEF Stat, At, Running
<1>2. s \in {"put", "record"}
  OBVIOUS
<1>3. tx' = [tx EXCEPT ![f].step = s] /\ records' = records
  BY DEF Stat
<1> HIDE DEF s
<1>4. s \in Steps
  BY <1>2 DEF Steps
<1> QED
  BY <1>1, <1>2, <1>3, <1>4, OnlyStepLists

LEMMA PutObjectLists ==
    ASSUME CaptureInv, ChildInv, NEW f, PutObject(f)
    PROVE  ChildInv'
<1>1. f \in DOMAIN tx /\ tx[f].step = "put"
  BY DEF PutObject, At, Running
<1>2. tx' = [tx EXCEPT ![f].step = "record"] /\ records' = records
  BY DEF PutObject
<1>3. "record" \in Steps
  BY DEF Steps
<1> QED
  BY <1>1, <1>2, <1>3, OnlyStepLists

LEMMA ChildInit == Init => ChildInv
BY DEF Init, ChildInv, Empty

LEMMA ChildNext == CaptureInv /\ ChildInv /\ [Next]_vars => ChildInv'
<1> SUFFICES ASSUME CaptureInv, ChildInv, [Next]_vars PROVE ChildInv'
  OBVIOUS
<1>1. CASE UNCHANGED vars
  <2>1. UNCHANGED <<records, tx>>
    BY <1>1 DEF vars
  <2> QED
    BY <2>1, Zenon DEF ChildInv
<1>2. ASSUME NEW f \in Workers, NEW s \in SourceSet, StartFetch(f, <<s>>) PROVE ChildInv'
  <2>1. <<s>> \in Seq(SourceSet)
    OBVIOUS
  <2> QED
    BY <1>2, <2>1, StartFetchLists
<1>3. ASSUME NEW f \in Batches, StartFetch(f, Sources) PROVE ChildInv'
  BY <1>3, StartFetchLists, CaptureAssumption
<1>4. ASSUME NEW f \in Fetchers, Step(f) PROVE ChildInv'
  <2>1. CASE Choose(f)
    BY <2>1, ChooseLists
  <2>2. CASE GetFails(f)
    BY <2>2, GetFailsLists
  <2>3. CASE Get(f)
    BY <2>3, GetLists
  <2>4. CASE Stat(f)
    BY <2>4, StatLists
  <2>5. CASE PutObject(f)
    BY <2>5, PutObjectLists
  <2>6. CASE CreateFetchRecord(f)
    BY <2>6, CreateFetchRecordLists
  <2>7. CASE UpsertDocument(f)
    BY <2>7, UpsertDocumentLists
  <2>8. CASE RecordFetchSuccess(f)
    BY <2>8, RecordFetchSuccessLists
  <2>9. CASE Commit(f)
    BY <2>9, CommitLists
  <2>10. CASE DeadlockBroken(f)
    BY <2>10, RolledBackLists DEF DeadlockBroken
  <2> QED
    BY <1>4, <2>1, <2>2, <2>3, <2>4, <2>5, <2>6, <2>7, <2>8, <2>9, <2>10 DEF Step
<1>5. ASSUME NEW f \in Fetchers, Raises(f) PROVE ChildInv'
  BY <1>5, RaisesLists
<1>6. ASSUME NEW f \in Fetchers, Dies(f) PROVE ChildInv'
  BY <1>6, RolledBackLists DEF Dies
<1> QED
  BY <1>1, <1>2, <1>3, <1>4, <1>5, <1>6 DEF Next

\* Spec 0008, "skip if child URL already has ok fetch_record": a job and a batch
\* that fetch one catalog at the same time never both capture a child of it.
THEOREM ChildrenAreListedOnce == Spec => []ChildrenAreCapturedOnce
<1>1. Spec => [](CaptureInv /\ ChildInv)
  <2>1. Init => CaptureInv /\ ChildInv
    BY CaptureInit, ChildInit
  <2>2. CaptureInv /\ ChildInv /\ [Next]_vars => (CaptureInv /\ ChildInv)'
    BY CaptureNext, ChildNext
  <2> QED
    BY <2>1, <2>2, PTL DEF Spec
<1> QED
  BY <1>1, ChildrenOnce, PTL
-----------------------------------------------------------------------------
(***************************************************************************)
(* Parents.  A link is followed, and a year page requested, after the      *)
(* document of the page that lists it was written.                         *)
(***************************************************************************)
Lead(link, known) ==
    \/ link.parent = NoBody
    \/ /\ link.parent \in Bodies \cap known
       /\ link.url \in ToSet(Links[link.parent]) \cup ToSet(YearPages[link.parent])

Leads(known) == {link \in [url : DOMAIN Answers, parent : Bodies] : Lead(link, known)}

\* What a transaction has listed and written, if these are the documents known.
Tracked(t, known) ==
    /\ t.links \in Seq(Leads(known))
    /\ t.phase = "page" => t.target.parent = NoBody
    /\ t.phase = "years" =>
          /\ t.target.parent \in Bodies \cap known
          /\ \A n \in 1..Len(t.years) : t.years[n] \in ToSet(YearPages[t.target.parent])
    /\ \A b \in DOMAIN t.own.docs : Lead(t.own.docs[b], known)

KnownTo(t, d) == DOMAIN t.own.docs \cup DOMAIN d

LinkOk(t, d) ==
    /\ Tracked(t, KnownTo(t, d))
    /\ t.step # "choose" => Lead(t.target, KnownTo(t, d))
    /\ t.step = "success" => t.body \in KnownTo(t, d)

LinkInv ==
    /\ \A b \in DOMAIN docs : Lead(docs[b], DOMAIN docs)
    /\ \A f \in DOMAIN tx : LinkOk(tx[f], docs)

LEMMA LeastNatural ==
    ASSUME NEW S \in SUBSET Nat, S # {}
    PROVE  \E n \in S : \A m \in S : n <= m
<1> DEFINE R == OpToRel(<, Nat)
<1>1. IsWellFoundedOn(R, Nat)
  BY NatLessThanWellFounded
<1>2. \A m, n \in Nat : m < n => <<m, n>> \in R
  BY DEF OpToRel
<1> HIDE DEF R
<1>3. PICK n \in S : \A m \in S : ~(<<m, n>> \in R)
  BY <1>1, WFMin
<1>4. \A m \in S : m \in Nat /\ n \in Nat /\ ~(m < n)
  BY <1>2, <1>3
<1>5. \A m \in S : n <= m
  BY <1>4
<1> QED
  BY <1>5

\* All that is discovered on a page is a link that the page has, or was there.
LEMMA DiscoveredLeads ==
    ASSUME NEW known, NEW body \in Bodies \cap known, NEW links \in Seq(Leads(known))
    PROVE  Discovered(body, Links[body], links) \in Seq(Leads(known))
<1> DEFINE urls == Links[body]
           S == Leads(known)
           Goes(x, n) == IF \E link \in ToSet(x) : link.url = urls[n] THEN x
                         ELSE Append(x, [url |-> urls[n], parent |-> body])
           Unrolled(g, n) == [k \in 0..n |-> IF k = 0 THEN links ELSE Goes(g[k - 1], k)]
<1>0. urls \in Seq(DOMAIN Answers)
  BY CaptureAssumption
<1>1. PICK N \in Nat : N = Len(urls) /\ DOMAIN urls = 1..N
  <2> HIDE DEF urls
  <2> QED
    BY <1>0
<1>2. ASSUME NEW n \in 1..N
      PROVE  [url |-> urls[n], parent |-> body] \in S
  <2>1. urls[n] \in DOMAIN Answers /\ urls[n] \in ToSet(Links[body])
    <3> HIDE DEF urls
    <3>1. urls[n] \in DOMAIN Answers /\ urls[n] \in ToSet(urls)
      BY <1>0, <1>1 DEF ToSet
    <3> QED
      BY <3>1 DEF urls
  <2> QED
    BY <2>1 DEF Leads, Lead
<1>3. ASSUME NEW x \in Seq(S), NEW n \in 1..N
      PROVE  Goes(x, n) \in Seq(S)
  <2>1. PICK item : item = [url |-> urls[n], parent |-> body]
    OBVIOUS
  <2>2. item \in S
    BY <1>2, <2>1
  <2> HIDE DEF S
  <2>3. Append(x, item) \in Seq(S)
    BY <2>2
  <2>4. Goes(x, n) = x \/ Goes(x, n) = Append(x, item)
    BY <2>1
  <2> QED
    BY <2>3, <2>4
<1> HIDE DEF S, Goes
<1>4. \A n \in 0..N : \E g : g = Unrolled(g, n)
  <2>0. PICK bad : bad = {n \in 0..N : ~\E g : g = Unrolled(g, n)}
    OBVIOUS
  <2>1. SUFFICES ASSUME bad # {} PROVE FALSE
    BY <2>0
  <2>2. bad \in SUBSET Nat
    BY <2>0
  <2>3. PICK n \in bad : \A m \in bad : n <= m
    BY <2>1, <2>2, LeastNatural
  <2>4. n \in 0..N /\ (~\E g : g = Unrolled(g, n)) /\ \A m \in 0..N : m < n => \E g : g = Unrolled(g, m)
    BY <2>0, <2>3
  <2>5. CASE n = 0
    <3> DEFINE h == [k \in 0..0 |-> links]
    <3>1. h = Unrolled(h, 0)
      OBVIOUS
    <3> QED
      BY <2>4, <2>5, <3>1
  <2>6. CASE n # 0
    <3>1. n - 1 \in 0..N /\ n - 1 < n
      BY <2>4, <2>6
    <3>2. PICK g : g = Unrolled(g, n - 1)
      BY <2>4, <3>1
    <3>3. \A k \in 0..(n - 1) : g[k] = IF k = 0 THEN links ELSE Goes(g[k - 1], k)
      BY <3>2
    <3> DEFINE h == [k \in 0..n |-> IF k = n THEN Goes(g[n - 1], n) ELSE g[k]]
    <3>4. ASSUME NEW k \in 0..n
          PROVE  h[k] = IF k = 0 THEN links ELSE Goes(h[k - 1], k)
      <4>1. CASE k = n
        <5>1. h[k] = Goes(g[n - 1], n) /\ n - 1 \in 0..n /\ n - 1 # n /\ k # 0
          BY <2>4, <2>6, <4>1
        <5>2. h[k - 1] = g[n - 1]
          BY <4>1, <5>1
        <5> HIDE DEF h
        <5> QED
          BY <4>1, <5>1, <5>2
      <4>2. CASE k # n
        <5>1. k \in 0..(n - 1) /\ h[k] = g[k]
          BY <2>4, <4>2
        <5>2. k # 0 => h[k - 1] = g[k - 1]
          BY <2>4, <4>2
        <5> HIDE DEF h
        <5> QED
          BY <3>3, <5>1, <5>2
      <4> QED
        BY <4>1, <4>2
    <3>5. h = [k \in 0..n |-> h[k]]
      OBVIOUS
    <3> HIDE DEF h
    <3>6. h = Unrolled(h, n)
      BY <3>4, <3>5
    <3> QED
      BY <2>4, <3>6
  <2> QED
    BY <2>5, <2>6
<1> DEFINE after == CHOOSE g : g = Unrolled(g, N)
<1>5. after = Unrolled(after, N)
  <2>1. \E g : g = Unrolled(g, N)
    BY <1>4
  <2> QED
    BY <2>1, Zenon
<1>6. Discovered(body, urls, links) = after[N]
  BY <1>1 DEF Discovered, Goes
<1> HIDE DEF after
<1>7. \A k \in 0..N : after[k] = IF k = 0 THEN links ELSE Goes(after[k - 1], k)
  BY <1>5
<1>8. \A k \in 0..N : after[k] \in Seq(S)
  <2>0. PICK bad : bad = {n \in 0..N : after[n] \notin Seq(S)}
    OBVIOUS
  <2>1. SUFFICES ASSUME bad # {} PROVE FALSE
    BY <2>0
  <2>2. bad \in SUBSET Nat
    BY <2>0
  <2>3. PICK n \in bad : \A m \in bad : n <= m
    BY <2>1, <2>2, LeastNatural
  <2>4. n \in 0..N /\ after[n] \notin Seq(S) /\ \A m \in 0..N : m < n => after[m] \in Seq(S)
    BY <2>0, <2>3
  <2>5. n # 0
    BY <1>7, <2>4 DEF S
  <2>6. n - 1 \in 0..N /\ n - 1 < n /\ n \in 1..N
    BY <2>4, <2>5
  <2>7. after[n] = Goes(after[n - 1], n) /\ after[n - 1] \in Seq(S)
    BY <1>7, <2>4, <2>5, <2>6
  <2> QED
    BY <1>3, <2>4, <2>6, <2>7
<1> QED
  BY <1>6, <1>8 DEF S

\* More documents are known: what led to one still does.
LEMMA KnownGrows ==
    ASSUME NEW known, NEW more, known \subseteq more
    PROVE  /\ \A link : Lead(link, known) => Lead(link, more)
           /\ \A t : Tracked(t, known) => Tracked(t, more)
<1>1. \A link : Lead(link, known) => Lead(link, more)
  BY DEF Lead
<1>2. Leads(known) \subseteq Leads(more)
  BY <1>1 DEF Leads
<1>3. Seq(Leads(known)) \subseteq Seq(Leads(more))
  BY <1>2
<1> QED
  BY <1>1, <1>3 DEF Tracked

LEMMA BegunTracked ==
    ASSUME NEW list, NEW own, NEW known, \A b \in DOMAIN own.docs : Lead(own.docs[b], known)
    PROVE  Tracked(Begun(list, own), known) /\ Lead(Begun(list, own).target, known)
<1>1. PICK t : t = Begun(list, own)
  OBVIOUS
<1>2. t.links = <<>> /\ t.phase = "page" /\ t.own = own /\ t.target.parent = NoBody
  BY <1>1 DEF Begun, Page
<1>3. <<>> \in Seq(Leads(known))
  OBVIOUS
<1>4. Tracked(t, known) /\ Lead(t.target, known)
  BY <1>2, <1>3 DEF Tracked, Lead
<1> QED
  BY <1>1, <1>4

LEMMA NextSourceTracked ==
    ASSUME NEW t, NEW known, Shape(t), t.rest # <<>>,
           \A b \in DOMAIN t.own.docs : Lead(t.own.docs[b], known)
    PROVE  /\ Tracked(NextSource(t), known) /\ Lead(NextSource(t).target, known)
           /\ NextSource(t).step = "get"
<1>0. PICK begun, rest : begun = Begun(t.rest, t.own) /\ rest = Begun(Tail(t.rest), t.own)
  OBVIOUS
<1>1. /\ Tracked(begun, known) /\ Lead(begun.target, known) /\ begun.step = "get"
      /\ Tracked(rest, known) /\ Lead(rest.target, known) /\ rest.step = "get"
  BY <1>0, BegunTracked DEF Begun
<1>2. PICK none : none = [begun EXCEPT !.rest = <<>>]
  OBVIOUS
<1>3. /\ none.links = begun.links /\ none.phase = begun.phase /\ none.target = begun.target
      /\ none.years = begun.years /\ none.own = begun.own /\ none.step = begun.step
  BY <1>0, <1>2 DEF Begun
<1>4. Tracked(none, known) /\ Lead(none.target, known) /\ none.step = "get"
  BY <1>1, <1>3 DEF Tracked
<1>5. NextSource(t) = none \/ NextSource(t) = rest
  BY <1>0, <1>2 DEF NextSource
<1> QED
  BY <1>1, <1>4, <1>5

\* What follows a request: its links are those of a page that is known.
LEMMA FollowedTracked ==
    ASSUME NEW t, NEW known, Shape(t), t.rest # <<>>, Tracked(t, known),
           t.ok => t.body \in known
    PROVE  /\ Tracked(Followed(t), known)
           /\ Followed(t).step # "choose" => Lead(Followed(t).target, known)
           /\ Followed(t).step # "success"
<1>0. PICK u : u = Followed(t)
  OBVIOUS
<1>1. CASE t.phase = "page" /\ ~(t.ok /\ Source(t) \in Catalogs)
  <2>1. Followed(t) = NextSource(t)
    BY <1>1 DEF Followed
  <2> QED
    BY <2>1, NextSourceTracked DEF Tracked
<1>2. CASE t.phase = "page" /\ t.ok /\ Source(t) \in Catalogs
  <2>1. PICK years, links : /\ years = FirstOf(YearPages[t.body], MaxYearPages)
                            /\ links = Discovered(t.body, Links[t.body], <<>>)
    OBVIOUS
  <2>2. u = [t EXCEPT !.phase = "years", !.step = "choose", !.years = years,
                      !.links = links, !.target.parent = t.body]
    BY <1>0, <1>2, <2>1 DEF Followed
  <2>3. /\ u.phase = "years" /\ u.step = "choose" /\ u.years = years /\ u.links = links
        /\ u.own = t.own /\ u.target.parent = t.body
    BY <1>2, <2>2 DEF Shape
  <2>4. t.body \in Bodies \cap known
    BY <1>2 DEF Shape
  <2>5. links \in Seq(Leads(known))
    <3>1. <<>> \in Seq(Leads(known))
      OBVIOUS
    <3> QED
      BY <2>1, <2>4, <3>1, DiscoveredLeads
  <2>6. ASSUME NEW n \in 1..Len(years)
        PROVE  years[n] \in ToSet(YearPages[t.body])
    <3>1. PICK pages : pages = YearPages[t.body]
      OBVIOUS
    <3>2. pages \in Seq(DOMAIN Answers)
      BY <2>4, <3>1, CaptureAssumption
    <3>3. PICK m \in 0..Len(pages) : years = SubSeq(pages, 1, m)
      <4>1. MaxYearPages \in Nat
        BY CaptureAssumption
      <4>2. PICK k : k = IF Len(pages) < MaxYearPages THEN Len(pages) ELSE MaxYearPages
        OBVIOUS
      <4>3. k \in 0..Len(pages)
        BY <3>2, <4>1, <4>2
      <4>4. years = SubSeq(pages, 1, k)
        BY <2>1, <3>1, <4>2 DEF FirstOf
      <4> QED
        BY <4>3, <4>4
    <3>4. Len(years) = m /\ years[n] = pages[n] /\ n \in DOMAIN pages
      BY <3>2, <3>3
    <3> QED
      BY <3>1, <3>4 DEF ToSet
  <2>7. Tracked(u, known)
    BY <2>3, <2>4, <2>5, <2>6 DEF Tracked
  <2> QED
    BY <1>0, <2>3, <2>7
<1>3. CASE t.phase = "years" /\ t.ok
  <2>1. PICK links : links = Discovered(Parent(t), Links[t.body], t.links)
    OBVIOUS
  <2>2. u = [t EXCEPT !.step = "choose", !.links = links]
    BY <1>0, <1>3, <2>1 DEF Followed
  <2>3. /\ u.phase = "years" /\ u.step = "choose" /\ u.years = t.years /\ u.links = links
        /\ u.own = t.own /\ u.target = t.target
    BY <1>3, <2>2 DEF Shape
  <2>4. t.body \in Bodies \cap known
    BY <1>3 DEF Shape
  <2>5. links \in Seq(Leads(known))
    BY <2>1, <2>4, DiscoveredLeads DEF Tracked, Parent
  <2>6. Tracked(u, known)
    BY <1>3, <2>3, <2>5 DEF Tracked
  <2> QED
    BY <1>0, <2>3, <2>6
<1>4. CASE t.phase # "page" /\ ~(t.phase = "years" /\ t.ok)
  <2>1. u = [t EXCEPT !.step = "choose"]
    BY <1>0, <1>4 DEF Followed
  <2>2. /\ u.phase = t.phase /\ u.step = "choose" /\ u.years = t.years /\ u.links = t.links
        /\ u.own = t.own /\ u.target = t.target
    BY <2>1 DEF Shape
  <2>3. Tracked(u, known)
    BY <2>2 DEF Tracked
  <2> QED
    BY <1>0, <2>2, <2>3
<1> QED
  BY <1>1, <1>2, <1>3, <1>4

\* What is chosen is a year page of the page, or the next of its links.
LEMMA ChosenTracked ==
    ASSUME NEW t, NEW known, NEW seen, Shape(t), t.rest # <<>>, t.step = "choose",
           Tracked(t, known)
    PROVE  /\ Tracked(Chosen(t, seen), known)
           /\ Chosen(t, seen).step # "choose" => Lead(Chosen(t, seen).target, known)
           /\ Chosen(t, seen).step # "success"
<1>0. PICK u : u = Chosen(t, seen)
  OBVIOUS
<1>1. CASE t.phase = "years" /\ t.years # <<>>
  <2>1. u = [t EXCEPT !.step = "get", !.years = Tail(@), !.target.url = Head(t.years)]
    BY <1>0, <1>1 DEF Chosen
  <2>2. /\ u.phase = "years" /\ u.step = "get" /\ u.years = Tail(t.years) /\ u.links = t.links
        /\ u.own = t.own /\ u.target.parent = t.target.parent /\ u.target.url = Head(t.years)
    BY <1>1, <2>1 DEF Shape
  <2>3. /\ Head(t.years) = t.years[1] /\ 1 \in 1..Len(t.years)
        /\ \A n \in 1..Len(Tail(t.years)) : /\ n + 1 \in 1..Len(t.years)
                                            /\ Tail(t.years)[n] = t.years[n + 1]
    BY <1>1 DEF Shape
  <2>4. Lead(u.target, known)
    BY <1>1, <2>2, <2>3 DEF Tracked, Lead
  <2>5. Tracked(u, known)
    BY <1>1, <2>2, <2>3 DEF Tracked
  <2> QED
    BY <1>0, <2>2, <2>4, <2>5
<1>2. CASE ~(t.phase = "years" /\ t.years # <<>>) /\ (t.links = <<>> \/ Capped(t))
  <2>1. Chosen(t, seen) = NextSource(t)
    BY <1>2 DEF Chosen
  <2> QED
    BY <2>1, NextSourceTracked DEF Tracked
<1>3. CASE /\ ~(t.phase = "years" /\ t.years # <<>>) /\ ~(t.links = <<>> \/ Capped(t))
           /\ HasSuccessfulFetch(seen, Source(t), Head(t.links).url)
  <2>1. u = [t EXCEPT !.phase = "children", !.links = Tail(@)]
    BY <1>0, <1>3 DEF Chosen
  <2>2. /\ u.phase = "children" /\ u.step = "choose" /\ u.links = Tail(t.links)
        /\ u.own = t.own
    BY <2>1 DEF Shape
  <2>3. Tail(t.links) \in Seq(Leads(known))
    <3>1. PICK S : S = Leads(known)
      OBVIOUS
    <3>2. t.links \in Seq(S) /\ t.links # <<>>
      BY <1>3, <3>1 DEF Tracked
    <3> QED
      BY <3>1, <3>2
  <2>4. Tracked(u, known)
    BY <2>2, <2>3 DEF Tracked
  <2> QED
    BY <1>0, <2>2, <2>4
<1>4. CASE /\ ~(t.phase = "years" /\ t.years # <<>>) /\ ~(t.links = <<>> \/ Capped(t))
           /\ ~HasSuccessfulFetch(seen, Source(t), Head(t.links).url)
  <2>1. u = [t EXCEPT !.phase = "children", !.step = "get", !.links = Tail(@),
                      !.target = Head(t.links), !.count = @ + 1]
    BY <1>0, <1>4 DEF Chosen
  <2>2. /\ u.phase = "children" /\ u.step = "get" /\ u.links = Tail(t.links)
        /\ u.own = t.own /\ u.target = Head(t.links)
    BY <2>1 DEF Shape
  <2>3. Tail(t.links) \in Seq(Leads(known)) /\ Head(t.links) \in Leads(known)
    <3>1. PICK S : S = Leads(known)
      OBVIOUS
    <3>2. t.links \in Seq(S) /\ t.links # <<>>
      BY <1>4, <3>1 DEF Tracked
    <3> QED
      BY <3>1, <3>2
  <2>4. Lead(u.target, known)
    BY <2>2, <2>3 DEF Leads
  <2>5. Tracked(u, known)
    BY <2>2, <2>3 DEF Tracked
  <2> QED
    BY <1>0, <2>2, <2>4, <2>5
<1> QED
  BY <1>1, <1>2, <1>3, <1>4

(***************************************************************************)
(* Steps of one transaction, as far as its links go.                       *)
(***************************************************************************)
LEMMA OneFetchLinks ==
    ASSUME LinkInv, NEW f \in DOMAIN tx, NEW t, tx' = [tx EXCEPT ![f] = t], docs' = docs,
           LinkOk(t, docs)
    PROVE  LinkInv'
BY DEF LinkInv

LEMMA RolledBackLinks ==
    ASSUME LinkInv, NEW f, tx' = Drop(tx, f), docs' = docs
    PROVE  LinkInv'
BY DEF LinkInv, Drop

\* The step alone is another.
LEMMA StepLinkOk ==
    ASSUME NEW t, NEW d, Shape(t), LinkOk(t, d), NEW s \in Steps, s # "success",
           t.step # "choose"
    PROVE  LinkOk([t EXCEPT !.step = s], d)
<1>1. PICK u : u = [t EXCEPT !.step = s]
  OBVIOUS
<1>2. /\ u.step = s /\ u.own = t.own /\ u.links = t.links /\ u.years = t.years
      /\ u.phase = t.phase /\ u.target = t.target /\ u.body = t.body
  BY <1>1 DEF Shape
<1>3. KnownTo(u, d) = KnownTo(t, d)
  BY <1>2 DEF KnownTo
<1>4. LinkOk(u, d)
  BY <1>2, <1>3 DEF LinkOk, Tracked
<1> QED
  BY <1>1, <1>4

LEMMA OnlyStepLinks ==
    ASSUME CaptureInv, LinkInv, NEW f \in DOMAIN tx, NEW s \in Steps, s # "success",
           tx' = [tx EXCEPT ![f].step = s], docs' = docs, tx[f].step # "choose"
    PROVE  LinkInv'
<1>1. PICK t : t = [tx[f] EXCEPT !.step = s]
  OBVIOUS
<1>2. Shape(tx[f]) /\ LinkOk(tx[f], docs)
  BY DEF CaptureInv, FetchOk, LinkInv
<1>3. LinkOk(t, docs)
  BY <1>1, <1>2, StepLinkOk
<1>4. tx' = [tx EXCEPT ![f] = t]
  BY <1>1
<1> QED
  BY <1>3, <1>4, OneFetchLinks

LEMMA StartFetchLinks ==
    ASSUME LinkInv, NEW f, NEW list, StartFetch(f, list)
    PROVE  LinkInv'
<1>1. PICK t : t = Begun(list, Nothing)
  OBVIOUS
<1>2. t.own = Nothing /\ t.step = "get" /\ DOMAIN Nothing.docs = {}
  BY <1>1 DEF Begun, Nothing, Empty
<1>3. Tracked(t, KnownTo(t, docs)) /\ Lead(t.target, KnownTo(t, docs))
  BY <1>1, <1>2, BegunTracked
<1>4. LinkOk(t, docs)
  BY <1>2, <1>3 DEF LinkOk
<1>5. tx' = Put(tx, f, t) /\ f \notin DOMAIN tx /\ docs' = docs
  BY <1>1 DEF StartFetch
<1>6. DOMAIN tx' = DOMAIN tx \cup {f} /\ tx'[f] = t /\ \A g \in DOMAIN tx : tx'[g] = tx[g]
  BY <1>5, Zenon DEF Put, Over
<1> QED
  BY <1>4, <1>5, <1>6 DEF LinkInv

LEMMA ChooseLinks ==
    ASSUME CaptureInv, LinkInv, NEW f, Choose(f)
    PROVE  LinkInv'
<1>1. PICK seen : seen = Over3(tx[f].own).records
  OBVIOUS
<1>2. PICK t : t = Chosen(tx[f], seen)
  OBVIOUS
<1>3. /\ f \in DOMAIN tx /\ tx[f].rest # <<>> /\ tx[f].step = "choose"
      /\ Shape(tx[f]) /\ LinkOk(tx[f], docs)
      /\ tx' = [tx EXCEPT ![f] = t] /\ docs' = docs
  BY <1>1, <1>2 DEF CaptureInv, FetchOk, LinkInv, Choose, At, Running
<1>4. t.own = tx[f].own /\ KnownTo(t, docs) = KnownTo(tx[f], docs)
  BY <1>2, <1>3, ChosenHasShape DEF KnownTo
<1>5. LinkOk(t, docs)
  BY <1>2, <1>3, <1>4, ChosenTracked DEF LinkOk
<1> QED
  BY <1>3, <1>5, OneFetchLinks

\* Once a request is over, with the page that it captured among the documents.
LEMMA FollowedLinkOk ==
    ASSUME NEW t, NEW d, Shape(t), t.rest # <<>>, Tracked(t, KnownTo(t, d)),
           t.ok => t.body \in KnownTo(t, d)
    PROVE  LinkOk(Followed(t), d)
<1>1. PICK u : u = Followed(t)
  OBVIOUS
<1>2. u.own = t.own /\ KnownTo(u, d) = KnownTo(t, d)
  BY <1>1, FollowedHasShape DEF KnownTo
<1>3. LinkOk(u, d)
  BY <1>1, <1>2, FollowedTracked DEF LinkOk
<1> QED
  BY <1>1, <1>3

LEMMA WithRecordTracked ==
    ASSUME NEW t, NEW known, Shape(t), Tracked(t, known)
    PROVE  Tracked(WithRecord(t), known)
<1>1. PICK own : own = [t.own EXCEPT !.records = @ \cup {Record(t, t.ok, t.body)}]
  OBVIOUS
<1>2. PICK u : u = [t EXCEPT !.own = own]
  OBVIOUS
<1>3. WithRecord(t) = u
  BY <1>1, <1>2 DEF WithRecord
<1>4. own.docs = t.own.docs
  BY <1>1 DEF Shape
<1>5. /\ u.own = own /\ u.links = t.links /\ u.years = t.years
      /\ u.phase = t.phase /\ u.target = t.target
  BY <1>2 DEF Shape
<1> QED
  BY <1>3, <1>4, <1>5 DEF Tracked

LEMMA UnansweredLinkOk ==
    ASSUME NEW t, NEW d, Shape(t), t.rest # <<>>, Tracked(t, KnownTo(t, d))
    PROVE  LinkOk(Unanswered(t), d)
<1>1. PICK none : none = [t EXCEPT !.ok = FALSE, !.body = NoBody]
  OBVIOUS
<1>2. PICK w : w = IF t.phase = "years" THEN none ELSE WithRecord(none)
  OBVIOUS
<1>3. /\ Shape(none) /\ none.own = t.own /\ none.rest = t.rest /\ none.ok = FALSE
      /\ none.links = t.links /\ none.years = t.years /\ none.phase = t.phase
      /\ none.target = t.target
  BY <1>1 DEF Shape
<1>4. Tracked(none, KnownTo(t, d))
  BY <1>3 DEF Tracked
<1>5. /\ Shape(w) /\ w.rest = t.rest /\ w.ok = FALSE /\ w.own.docs = t.own.docs
      /\ Tracked(w, KnownTo(t, d))
  BY <1>2, <1>3, <1>4, WithRecordHasShape, WithRecordTracked
<1>6. KnownTo(w, d) = KnownTo(t, d)
  BY <1>5 DEF KnownTo
<1>7. Unanswered(t) = Followed(w)
  BY <1>1, <1>2 DEF Unanswered
<1> QED
  BY <1>5, <1>6, <1>7, FollowedLinkOk

LEMMA GetFailsLinks ==
    ASSUME CaptureInv, LinkInv, NEW f, GetFails(f)
    PROVE  LinkInv'
<1>1. PICK t : t = Unanswered(tx[f])
  OBVIOUS
<1>2. /\ f \in DOMAIN tx /\ tx[f].rest # <<>> /\ Shape(tx[f]) /\ LinkOk(tx[f], docs)
      /\ tx' = [tx EXCEPT ![f] = t] /\ docs' = docs
  BY <1>1 DEF CaptureInv, FetchOk, LinkInv, GetFails, At, Running
<1>3. LinkOk(t, docs)
  BY <1>1, <1>2, UnansweredLinkOk DEF LinkOk
<1> QED
  BY <1>2, <1>3, OneFetchLinks

LEMMA GetLinks ==
    ASSUME CaptureInv, LinkInv, NEW f, Get(f)
    PROVE  LinkInv'
<1>1. /\ f \in DOMAIN tx /\ tx[f].rest # <<>> /\ tx[f].step = "get"
      /\ Shape(tx[f]) /\ LinkOk(tx[f], docs) /\ docs' = docs
  BY DEF CaptureInv, FetchOk, LinkInv, Get, At, Running
<1>2. PICK x \in AnswersOf(tx[f].target.url) :
          LET t == [tx[f] EXCEPT !.ok = x.ok, !.body = x.body]
          IN  tx' = [tx EXCEPT ![f] = IF t.phase = "years" /\ ~x.ok THEN Unanswered(t)
                                      ELSE [t EXCEPT !.step = "stat"]]
  BY DEF Get
<1>3. PICK t : t = [tx[f] EXCEPT !.ok = x.ok, !.body = x.body]
  OBVIOUS
<1>4. x.ok \in BOOLEAN /\ x.body \in Bodies
  BY AnswersAreTyped
<1>5. /\ Shape(t) /\ t.own = tx[f].own /\ t.rest = tx[f].rest /\ t.step = "get"
      /\ t.links = tx[f].links /\ t.years = tx[f].years /\ t.phase = tx[f].phase
      /\ t.target = tx[f].target
  BY <1>1, <1>3, <1>4 DEF Shape
<1>6. KnownTo(t, docs) = KnownTo(tx[f], docs)
  BY <1>5 DEF KnownTo
<1>7. LinkOk(t, docs)
  BY <1>1, <1>5, <1>6 DEF LinkOk, Tracked
<1>8. LinkOk(Unanswered(t), docs)
  BY <1>1, <1>5, <1>7, UnansweredLinkOk DEF LinkOk
<1>9. LinkOk([t EXCEPT !.step = "stat"], docs)
  BY <1>5, <1>7, StepLinkOk DEF Steps
<1>10. \/ tx' = [tx EXCEPT ![f] = Unanswered(t)]
       \/ tx' = [tx EXCEPT ![f] = [t EXCEPT !.step = "stat"]]
  BY <1>2, <1>3
<1> QED
  BY <1>1, <1>8, <1>9, <1>10, OneFetchLinks

LEMMA CreateFetchRecordLinks ==
    ASSUME CaptureInv, LinkInv, NEW f, CreateFetchRecord(f)
    PROVE  LinkInv'
<1>1. PICK w : w = WithRecord(tx[f])
  OBVIOUS
<1>2. /\ f \in DOMAIN tx /\ tx[f].rest # <<>> /\ tx[f].step = "record"
      /\ Shape(tx[f]) /\ LinkOk(tx[f], docs) /\ docs' = docs
  BY DEF CaptureInv, FetchOk, LinkInv, CreateFetchRecord, At, Running
<1>3. \/ tx[f].ok /\ tx' = [tx EXCEPT ![f] = [w EXCEPT !.step = "document"]]
      \/ ~tx[f].ok /\ tx' = [tx EXCEPT ![f] = Followed(w)]
  BY <1>1, <1>2 DEF CreateFetchRecord
<1>4. /\ Shape(w) /\ w.own.docs = tx[f].own.docs /\ w.rest = tx[f].rest /\ w.ok = tx[f].ok
      /\ w.target = tx[f].target /\ w.step = "record"
  BY <1>1, <1>2, WithRecordHasShape
<1>5. KnownTo(w, docs) = KnownTo(tx[f], docs)
  BY <1>4 DEF KnownTo
<1>6. Tracked(w, KnownTo(w, docs))
  BY <1>1, <1>2, <1>5, WithRecordTracked DEF LinkOk
<1>7. LinkOk(w, docs)
  BY <1>2, <1>4, <1>5, <1>6 DEF LinkOk
<1>8. LinkOk([w EXCEPT !.step = "document"], docs)
  BY <1>4, <1>7, StepLinkOk DEF Steps
<1>9. ~tx[f].ok => LinkOk(Followed(w), docs)
  BY <1>2, <1>4, <1>6, FollowedLinkOk
<1> QED
  BY <1>2, <1>3, <1>8, <1>9, OneFetchLinks

\* The document that is written is where the request went.
LEMMA UpsertDocumentLinks ==
    ASSUME CaptureInv, LinkInv, NEW f, UpsertDocument(f)
    PROVE  LinkInv'
<1>1. /\ f \in DOMAIN tx /\ tx[f].step = "document" /\ Shape(tx[f]) /\ LinkOk(tx[f], docs)
      /\ docs' = docs
  BY DEF CaptureInv, FetchOk, LinkInv, UpsertDocument, At, Running
<1>2. PICK b, old : b = tx[f].body /\ old = tx[f].own.docs
  OBVIOUS
<1>3. PICK new : new = IF b \in DOMAIN Over3(tx[f].own).docs THEN old
                       ELSE Put(old, b, Document(tx[f]))
  OBVIOUS
<1>4. tx' = [tx EXCEPT ![f].step = "success", ![f].own.docs = new]
  BY <1>1, <1>2, <1>3 DEF UpsertDocument
<1>5. PICK own : own = [tx[f].own EXCEPT !.docs = new]
  OBVIOUS
<1>6. PICK t : t = [tx[f] EXCEPT !.step = "success", !.own = own]
  OBVIOUS
<1>7. tx' = [tx EXCEPT ![f] = t]
  BY <1>1, <1>4, <1>5, <1>6 DEF Shape
<1>8. /\ t.step = "success" /\ t.own = own /\ t.links = tx[f].links /\ t.years = tx[f].years
      /\ t.phase = tx[f].phase /\ t.target = tx[f].target /\ t.body = b
  BY <1>1, <1>2, <1>6 DEF Shape
<1>9. own.docs = new
  BY <1>1, <1>5 DEF Shape
<1>10. DOMAIN Over3(tx[f].own).docs = DOMAIN docs \cup DOMAIN old
  BY <1>2 DEF Over3, Over
<1>11. /\ DOMAIN old \subseteq DOMAIN new
       /\ b \in DOMAIN new \cup DOMAIN docs
       /\ \A k \in DOMAIN new : \/ k \in DOMAIN old /\ new[k] = old[k]
                                \/ new[k] = Document(tx[f])
  <2>1. CASE new = old /\ b \in DOMAIN Over3(tx[f].own).docs
    BY <1>10, <2>1
  <2>2. CASE new = Put(old, b, Document(tx[f])) /\ b \notin DOMAIN Over3(tx[f].own).docs
    <3>1. PICK doc : doc = Document(tx[f])
      OBVIOUS
    <3>2. new = [k \in {b} \cup DOMAIN old |->
                    IF k \in {b} THEN [y \in {b} |-> doc][k] ELSE old[k]]
      BY <2>2, <3>1, Zenon DEF Put, Over
    <3>3. /\ DOMAIN new = {b} \cup DOMAIN old
          /\ new[b] = Document(tx[f])
          /\ \A k \in DOMAIN old \ {b} : new[k] = old[k]
      BY <3>1, <3>2
    <3> QED
      BY <3>3
  <2> QED
    BY <1>3, <2>1, <2>2
<1>12. PICK known : known = KnownTo(t, docs)
  OBVIOUS
<1>13. KnownTo(tx[f], docs) \subseteq known /\ b \in known
  BY <1>2, <1>8, <1>9, <1>11, <1>12 DEF KnownTo
<1>14. Tracked(tx[f], known) /\ Lead(tx[f].target, known)
  BY <1>1, <1>13, KnownGrows DEF LinkOk
<1>15. Lead(Document(tx[f]), known)
  BY <1>14 DEF Lead, Document
<1>16. \A k \in DOMAIN t.own.docs : Lead(t.own.docs[k], known)
  BY <1>2, <1>8, <1>9, <1>11, <1>14, <1>15 DEF Tracked
<1>17. Tracked(t, known)
  BY <1>8, <1>14, <1>16 DEF Tracked
<1>18. LinkOk(t, docs)
  BY <1>8, <1>12, <1>13, <1>14, <1>17 DEF LinkOk
<1> QED
  BY <1>1, <1>7, <1>18, OneFetchLinks

LEMMA RecordFetchSuccessLinks ==
    ASSUME CaptureInv, LinkInv, NEW f, RecordFetchSuccess(f)
    PROVE  LinkInv'
<1>1. /\ f \in DOMAIN tx /\ tx[f].rest # <<>> /\ tx[f].step = "success"
      /\ Shape(tx[f]) /\ LinkOk(tx[f], docs) /\ docs' = docs
  BY DEF CaptureInv, FetchOk, LinkInv, RecordFetchSuccess, At, Running
<1>2. PICK lasts : lasts = Put(tx[f].own.last, Source(tx[f]), tx[f].body)
  OBVIOUS
<1>3. PICK own : own = [tx[f].own EXCEPT !.last = lasts]
  OBVIOUS
<1>4. PICK t : t = [tx[f] EXCEPT !.own = own]
  OBVIOUS
<1>5. t = WithSuccess(tx[f])
  BY <1>2, <1>3, <1>4 DEF WithSuccess
<1>6. tx' = [tx EXCEPT ![f] = Followed(t)]
  BY <1>5 DEF RecordFetchSuccess
<1>7. /\ own \in [records : {own.records}, docs : {own.docs}, last : {own.last}]
      /\ own.docs = tx[f].own.docs
  BY <1>1, <1>3 DEF Shape
<1>8. /\ Shape(t) /\ t.own = own /\ t.rest = tx[f].rest /\ t.links = tx[f].links
      /\ t.years = tx[f].years /\ t.phase = tx[f].phase /\ t.target = tx[f].target
      /\ t.body = tx[f].body
  BY <1>1, <1>4, <1>7 DEF Shape
<1>9. KnownTo(t, docs) = KnownTo(tx[f], docs)
  BY <1>7, <1>8 DEF KnownTo
<1>10. Tracked(t, KnownTo(t, docs)) /\ t.body \in KnownTo(t, docs)
  BY <1>1, <1>7, <1>8, <1>9 DEF LinkOk, Tracked
<1>11. LinkOk(Followed(t), docs)
  BY <1>1, <1>8, <1>10, FollowedLinkOk
<1> QED
  BY <1>1, <1>6, <1>11, OneFetchLinks

\* A page is committed with, or before, the children that name it.
LEMMA CommitLinks ==
    ASSUME LinkInv, NEW f, Commit(f)
    PROVE  LinkInv'
<1>1. f \in DOMAIN tx /\ tx' = Drop(tx, f) /\ docs' = Over(docs, tx[f].own.docs)
  BY DEF Commit, Over3
<1>2. DOMAIN docs' = KnownTo(tx[f], docs) /\ DOMAIN docs \subseteq DOMAIN docs'
  <2>1. DOMAIN docs' = DOMAIN docs \cup DOMAIN tx[f].own.docs
    BY <1>1, Zenon DEF Over
  <2> QED
    BY <2>1 DEF KnownTo
<1>3. ASSUME NEW b \in DOMAIN docs' PROVE Lead(docs'[b], DOMAIN docs')
  <2>1. PICK old, new : old = DOMAIN docs /\ new = DOMAIN docs'
    OBVIOUS
  <2>2. CASE b \in DOMAIN docs
    <3>1. docs'[b] = docs[b] /\ Lead(docs[b], old)
      BY <1>1, <2>1, <2>2, OverIsEither DEF LinkInv
    <3> QED
      BY <1>2, <2>1, <3>1, KnownGrows
  <2>3. CASE b \notin DOMAIN docs
    <3>1. b \in DOMAIN tx[f].own.docs /\ docs'[b] = tx[f].own.docs[b]
      BY <1>1, <1>2, <2>3 DEF Over, KnownTo
    <3>2. Tracked(tx[f], KnownTo(tx[f], docs))
      BY <1>1 DEF LinkInv, LinkOk
    <3> QED
      BY <1>2, <3>1, <3>2 DEF Tracked
  <2> QED
    BY <2>2, <2>3
<1>4. ASSUME NEW g \in DOMAIN tx' PROVE LinkOk(tx'[g], docs')
  <2>1. g \in DOMAIN tx /\ tx'[g] = tx[g] /\ LinkOk(tx[g], docs)
    BY <1>1, <1>4 DEF Drop, LinkInv
  <2>2. PICK t, old, new : t = tx[g] /\ old = KnownTo(tx[g], docs) /\ new = KnownTo(tx[g], docs')
    OBVIOUS
  <2>3. old \subseteq new
    BY <1>2, <2>2 DEF KnownTo
  <2>4. /\ Tracked(t, old) /\ (t.step # "choose" => Lead(t.target, old))
        /\ (t.step = "success" => t.body \in old)
    BY <2>1, <2>2 DEF LinkOk
  <2>5. /\ Tracked(t, new) /\ (t.step # "choose" => Lead(t.target, new))
        /\ (t.step = "success" => t.body \in new)
    BY <2>3, <2>4, KnownGrows
  <2> QED
    BY <2>1, <2>2, <2>5 DEF LinkOk
<1> QED
  BY <1>3, <1>4 DEF LinkInv

LEMMA RaisesLinks ==
    ASSUME CaptureInv, LinkInv, NEW f, Raises(f)
    PROVE  LinkInv'
<1>1. PICK t : t = [tx[f] EXCEPT !.rest = <<>>]
  OBVIOUS
<1>2. f \in DOMAIN tx /\ Shape(tx[f]) /\ LinkOk(tx[f], docs) /\ docs' = docs
  BY DEF CaptureInv, FetchOk, LinkInv, Raises, At, Running
<1>3. /\ t.step = tx[f].step /\ t.own = tx[f].own /\ t.links = tx[f].links
      /\ t.years = tx[f].years /\ t.phase = tx[f].phase /\ t.target = tx[f].target
      /\ t.body = tx[f].body
  BY <1>1, <1>2 DEF Shape
<1>4. KnownTo(t, docs) = KnownTo(tx[f], docs)
  BY <1>3 DEF KnownTo
<1>5. LinkOk(t, docs)
  BY <1>2, <1>3, <1>4 DEF LinkOk, Tracked
<1>6. tx' = Drop(tx, f) \/ tx' = [tx EXCEPT ![f] = t]
  BY <1>1, <1>2 DEF Raises
<1> QED
  BY <1>2, <1>5, <1>6, OneFetchLinks, RolledBackLinks

LEMMA StatLinks ==
    ASSUME CaptureInv, LinkInv, NEW f, Stat(f)
    PROVE  LinkInv'
<1>1. PICK s : s = IF ObjectExists(tx[f].body) THEN "record" ELSE "put"
  OBVIOUS
<1>2. s \in Steps /\ s # "success"
  BY <1>1 DEF Steps
<1>3. /\ f \in DOMAIN tx /\ tx[f].step = "stat" /\ tx' = [tx EXCEPT ![f].step = s]
      /\ docs' = docs
  BY <1>1 DEF Stat, At, Running
<1> QED
  BY <1>2, <1>3, OnlyStepLinks

LEMMA PutObjectLinks ==
    ASSUME CaptureInv, LinkInv, NEW f, PutObject(f)
    PROVE  LinkInv'
<1>1. /\ f \in DOMAIN tx /\ tx[f].step = "put" /\ tx' = [tx EXCEPT ![f].step = "record"]
      /\ docs' = docs
  BY DEF PutObject, At, Running
<1>2. "record" \in Steps
  BY DEF Steps
<1> QED
  BY <1>1, <1>2, OnlyStepLinks

LEMMA LinkInit == Init => LinkInv
BY DEF Init, LinkInv, Empty

LEMMA LinkNext == CaptureInv /\ LinkInv /\ [Next]_vars => LinkInv'
<1> SUFFICES ASSUME CaptureInv, LinkInv, [Next]_vars PROVE LinkInv'
  OBVIOUS
<1>1. CASE UNCHANGED vars
  <2>1. UNCHANGED <<docs, tx>>
    BY <1>1 DEF vars
  <2> QED
    BY <2>1, Zenon DEF LinkInv
<1>2. ASSUME NEW f, NEW list, StartFetch(f, list) PROVE LinkInv'
  BY <1>2, StartFetchLinks
<1>3. ASSUME NEW f \in Fetchers, Step(f) PROVE LinkInv'
  <2>1. CASE Choose(f)
    BY <2>1, ChooseLinks
  <2>2. CASE GetFails(f)
    BY <2>2, GetFailsLinks
  <2>3. CASE Get(f)
    BY <2>3, GetLinks
  <2>4. CASE Stat(f)
    BY <2>4, StatLinks
  <2>5. CASE PutObject(f)
    BY <2>5, PutObjectLinks
  <2>6. CASE CreateFetchRecord(f)
    BY <2>6, CreateFetchRecordLinks
  <2>7. CASE UpsertDocument(f)
    BY <2>7, UpsertDocumentLinks
  <2>8. CASE RecordFetchSuccess(f)
    BY <2>8, RecordFetchSuccessLinks
  <2>9. CASE Commit(f)
    BY <2>9, CommitLinks
  <2>10. CASE DeadlockBroken(f)
    BY <2>10, RolledBackLinks DEF DeadlockBroken
  <2> QED
    BY <1>3, <2>1, <2>2, <2>3, <2>4, <2>5, <2>6, <2>7, <2>8, <2>9, <2>10 DEF Step
<1>4. ASSUME NEW f \in Fetchers, Raises(f) PROVE LinkInv'
  BY <1>4, RaisesLinks
<1>5. ASSUME NEW f \in Fetchers, Dies(f) PROVE LinkInv'
  BY <1>5, RolledBackLinks DEF Dies
<1> QED
  BY <1>1, <1>2, <1>3, <1>4, <1>5 DEF Next

\* discover_and_fetch_children: the parent that a document names is a document,
\* in the version of the page or year page that has the link, whatever the
\* pages answer from one request to the next and whoever dies between them.
THEOREM ParentsAreDocuments == Spec => []ParentsListTheirChildren
<1>1. Spec => [](CaptureInv /\ LinkInv)
  <2>1. Init => CaptureInv /\ LinkInv
    BY CaptureInit, LinkInit
  <2>2. CaptureInv /\ LinkInv /\ [Next]_vars => (CaptureInv /\ LinkInv)'
    BY CaptureNext, LinkNext
  <2> QED
    BY <2>1, <2>2, PTL DEF Spec
<1>2. LinkInv => ParentsListTheirChildren
  BY DEF LinkInv, Lead, ParentsListTheirChildren
<1> QED
  BY <1>1, <1>2, PTL
=============================================================================
