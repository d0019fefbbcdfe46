--------------------------- MODULE WebPagesProofs ---------------------------
(***************************************************************************)
(* What WebPages shows for any parameters and any number of events: pages  *)
(* show the answer to their query, and addresses fit their tab.            *)
(***************************************************************************)
EXTENDS WebPages, TLAPS

Live(c) == ~c.cancelled

\* A request that was not cancelled asks what the page asks now, unless the
\* effect that replaces it is due.
RowCallsAreCurrent ==
    \A c \in calls : c.effect = "rows" /\ Live(c) =>
        "rows" \in due \/ c.ask = Ask(view)

FacetCallsAreCurrent ==
    \A c \in calls : c.effect = "facets" /\ Live(c) =>
        "facets" \in due \/ c.ask.with = FacetsOf(view)

RowsAreCurrent ==
    "rows" \in due \/ load.kind = "loading" \/ load.ask = Ask(view)

FacetsAreCurrent ==
    \/ "facets" \in due
    \/ facets.lost
    \/ facets.of = FacetsOf(view)
    \/ \E c \in calls : c.effect = "facets" /\ Live(c)

IsCall(c) ==
    /\ c = [effect |-> c.effect, ask |-> c.ask, cancelled |-> c.cancelled]
    /\ c.effect \in {"rows", "facets"} /\ c.cancelled \in BOOLEAN

PageInv ==
    /\ view.page \in Pages /\ url.page \in Pages
    /\ due \subseteq Effects
    /\ facets = [of |-> facets.of, lost |-> facets.lost]
    /\ \A c \in calls : IsCall(c)
    /\ RowCallsAreCurrent /\ FacetCallsAreCurrent
    /\ RowsAreCurrent /\ FacetsAreCurrent

LEMMA EffectsOfPages == \A page \in Pages : Mounted(page) \subseteq Effects
BY DEF Mounted, Pages, Effects

\* The page asks the same when neither of its effects has to run again.
LEMMA SameAsk ==
    ASSUME NEW v, NEW w, v.page \in Pages, w.page = v.page,
           "rows" \notin Changed(v, w)
    PROVE  Ask(w) = Ask(v)
<1>1. "rows" \in Mounted(w.page)
  BY DEF Mounted, Pages, Effects
<1>2. RowsDependOn(v) = RowsDependOn(w)
  BY <1>1 DEF Changed
<1>3. CASE w.page = "explore"
  <2>1. v.query.tab = w.query.tab /\ v.query = w.query
    BY <1>2, <1>3 DEF RowsDependOn
  <2> QED
    BY <2>1, <1>3 DEF Ask, Resource
<1>4. CASE w.page # "explore"
  BY <1>2, <1>4 DEF RowsDependOn
<1> QED
  BY <1>3, <1>4

LEMMA SameFacets ==
    ASSUME NEW v, NEW w, v.page \in Pages, w.page = v.page,
           "facets" \notin Changed(v, w)
    PROVE  FacetsOf(w) = FacetsOf(v)
<1>1. CASE w.page = "graph"
  BY <1>1 DEF FacetsOf
<1>2. CASE w.page # "graph"
  <2>1. "facets" \in Mounted(w.page)
    BY <1>2 DEF Mounted, Pages, Effects
  <2> QED
    BY <2>1 DEF Changed
<1> QED
  BY <1>1, <1>2

\* A fresh call asks for its page; a cancelled one is never shown.
LEMMA CancelledStay ==
    ASSUME NEW effects, NEW c \in Cancel(effects), \A d \in calls : IsCall(d)
    PROVE  /\ IsCall(c)
           /\ Live(c) => c \in calls /\ c.effect \notin effects
<1>1. PICK d \in calls : c = [d EXCEPT !.cancelled = @ \/ d.effect \in effects]
  BY DEF Cancel
<1>2. IsCall(d)
  OBVIOUS
<1>3. c = [effect |-> d.effect, ask |-> d.ask,
           cancelled |-> d.cancelled \/ d.effect \in effects]
  BY <1>1, <1>2 DEF IsCall
<1>4. c.effect = d.effect /\ c.ask = d.ask
      /\ c.cancelled = (d.cancelled \/ d.effect \in effects)
  BY <1>3
<1>5. IsCall(c)
  BY <1>2, <1>3, <1>4 DEF IsCall
<1>6. ASSUME Live(c) PROVE c \in calls /\ c.effect \notin effects
  <2>1. d.effect \notin effects /\ d.cancelled = FALSE
    BY <1>2, <1>4, <1>6 DEF Live, IsCall
  <2>2. c = d
    BY <1>2, <1>3, <2>1 DEF IsCall
  <2> QED
    BY <2>1, <2>2
<1> QED
  BY <1>5, <1>6

LEMMA OthersStay ==
    ASSUME NEW effects, NEW c \in calls, IsCall(c), c.effect \notin effects
    PROVE  c \in Cancel(effects)
<1>1. c = [c EXCEPT !.cancelled = @ \/ c.effect \in effects]
  BY DEF IsCall
<1> QED
  BY <1>1 DEF Cancel

(***************************************************************************)
(* Each step keeps PageInv.                                                *)
(***************************************************************************)
LEMMA InitPages == Init => PageInv
<1> SUFFICES ASSUME Init PROVE PageInv
  OBVIOUS
<1>1. view.page \in Pages /\ url.page \in Pages
  BY DEF Init, Opens
<1>2. /\ calls = {} /\ load.kind = "loading" /\ facets.lost
      /\ facets = [of |-> facets.of, lost |-> facets.lost]
  BY DEF Init, Loading, NoFacets
<1>3. due \subseteq Effects
  BY <1>1, EffectsOfPages DEF Init
<1> QED
  BY <1>1, <1>2, <1>3 DEF PageInv, RowCallsAreCurrent, FacetCallsAreCurrent, RowsAreCurrent,
     FacetsAreCurrent

LEMMA EventKeepsPages ==
    ASSUME PageInv, UNCHANGED pageVars, url'.page \in Pages
    PROVE  PageInv'
BY DEF PageInv, pageVars, RowCallsAreCurrent, FacetCallsAreCurrent, RowsAreCurrent,
   FacetsAreCurrent, IsCall, Live, Ask, Resource, FacetsOf

LEMMA RenderKeepsPages ==
    ASSUME PageInv, Render
    PROVE  PageInv'
<1>1. view' = url /\ url' = url /\ view.page \in Pages /\ url.page \in Pages /\ due = {}
  BY DEF PageInv, Render
<1>4. due' \subseteq Effects
  BY <1>1, EffectsOfPages DEF Render, Changed
<1>2. CASE url.page = view.page
  <2>1. due' = Changed(view, url) /\ UNCHANGED <<load, facets, calls>>
    BY <1>2 DEF Render
  <2>2. "rows" \in due' \/ Ask(view') = Ask(view)
    BY <1>1, <1>2, <2>1, SameAsk
  <2>3. "facets" \in due' \/ FacetsOf(view') = FacetsOf(view)
    BY <1>1, <1>2, <2>1, SameFacets
  <2>4. \A c \in calls' : IsCall(c)'
    BY <2>1 DEF PageInv, IsCall
  <2>5. RowCallsAreCurrent' /\ RowsAreCurrent'
    BY <1>1, <2>1, <2>2 DEF PageInv, RowCallsAreCurrent, RowsAreCurrent, Live
  <2>6. FacetCallsAreCurrent' /\ FacetsAreCurrent'
    BY <1>1, <2>1, <2>3 DEF PageInv, FacetCallsAreCurrent, FacetsAreCurrent, Live
  <2> QED
    BY <1>1, <1>4, <2>1, <2>4, <2>5, <2>6 DEF PageInv
<1>3. CASE url.page # view.page
  <2>1. load' = Loading /\ facets' = NoFacets /\ calls' = Cancel(Effects)
    BY <1>3 DEF Render
  <2>2. \A c \in calls' : IsCall(c) /\ ~Live(c)
    BY <2>1, CancelledStay DEF PageInv, IsCall, Effects
  <2>3. /\ load'.kind = "loading" /\ facets'.lost
        /\ facets' = [of |-> facets'.of, lost |-> facets'.lost]
    BY <2>1 DEF Loading, NoFacets
  <2> QED
    BY <1>1, <1>4, <2>2, <2>3 DEF PageInv, RowCallsAreCurrent, FacetCallsAreCurrent,
       RowsAreCurrent, FacetsAreCurrent, IsCall, Live
<1> QED
  BY <1>2, <1>3

LEMMA RunEffectsKeepsPages ==
    ASSUME PageInv, RunEffects
    PROVE  PageInv'
<1>1. UNCHANGED <<url, view>> /\ calls' = Cancel(due) \cup {Call(e, view) : e \in due \ {"focus"}}
  BY DEF RunEffects
<1>2. ASSUME NEW c \in calls'
      PROVE  /\ IsCall(c)
             /\ Live(c) => \/ c \in calls /\ c.effect \notin due
                           \/ \E e \in due \ {"focus"} : c = Call(e, view)
  <2>1. CASE c \in Cancel(due)
    BY <2>1, CancelledStay DEF PageInv
  <2>2. CASE \E e \in due \ {"focus"} : c = Call(e, view)
    <3>1. PICK e \in {"rows", "facets"} : e \in due /\ c = Call(e, view)
      BY <2>2 DEF PageInv, Effects
    <3>2. c.effect = e /\ c.cancelled = FALSE /\ c = [effect |-> e, ask |-> c.ask, cancelled |-> FALSE]
      BY <3>1 DEF Call
    <3> QED
      BY <2>2, <3>1, <3>2 DEF IsCall
  <2> QED
    BY <1>1, <1>2, <2>1, <2>2
<1>3. ASSUME NEW e \in due \ {"focus"}
      PROVE  /\ Call(e, view) \in calls' /\ Call(e, view).effect = e /\ Live(Call(e, view))
             /\ e = "rows" => Call(e, view).ask = Ask(view)
             /\ e = "facets" => Call(e, view).ask.with = FacetsOf(view)
  BY <1>1, <1>3 DEF Call, Live
<1>4. RowCallsAreCurrent'
  BY <1>1, <1>2, <1>3 DEF PageInv, RowCallsAreCurrent, Live
<1>5. FacetCallsAreCurrent'
  BY <1>1, <1>2, <1>3 DEF PageInv, FacetCallsAreCurrent, Live
<1>6. RowsAreCurrent'
  <2>1. CASE "rows" \in due
    BY <2>1 DEF RunEffects, Loading, RowsAreCurrent
  <2>2. CASE "rows" \notin due
    BY <1>1, <2>2 DEF RunEffects, RowsAreCurrent, PageInv
  <2> QED
    BY <2>1, <2>2
<1>7. FacetsAreCurrent'
  <2>1. CASE "facets" \in due
    BY <1>3, <2>1 DEF FacetsAreCurrent, Live
  <2>2. CASE "facets" \notin due /\ (facets.lost \/ facets.of = FacetsOf(view))
    BY <1>1, <2>2 DEF RunEffects, FacetsAreCurrent
  <2>3. CASE /\ "facets" \notin due
             /\ \E c \in calls : c.effect = "facets" /\ Live(c)
    <3>1. PICK c \in calls : c.effect = "facets" /\ Live(c)
      BY <2>3
    <3>2. c \in calls'
      BY <1>1, <2>3, <3>1, OthersStay DEF PageInv
    <3> QED
      BY <3>1, <3>2 DEF FacetsAreCurrent, Live
  <2> QED
    BY <2>1, <2>2, <2>3 DEF PageInv, FacetsAreCurrent
<1>8. due' \subseteq Effects /\ facets' = [of |-> facets'.of, lost |-> facets'.lost]
  BY DEF RunEffects, FocusDue, Effects, PageInv
<1> QED
  BY <1>1, <1>2, <1>4, <1>5, <1>6, <1>7, <1>8 DEF PageInv, IsCall

\* An answer or a failure: its request is gone, and if it was live the page shows
\* the outcome of what it asked for.
LEMMA OutcomeKeepsPages ==
    ASSUME PageInv, NEW c \in calls, calls' = calls \ {c}, UNCHANGED <<url, view>>,
           due \subseteq due', due' \subseteq due \cup {"focus"},
           facets' = [of |-> facets'.of, lost |-> facets'.lost],
           \/ UNCHANGED <<load, facets>> /\ ~Live(c)
           \/ load'.ask = c.ask /\ UNCHANGED facets /\ Live(c) /\ c.effect = "rows"
           \/ UNCHANGED load /\ Live(c) /\ c.effect = "facets"
                 /\ (facets'.lost \/ facets'.of = c.ask.with)
    PROVE  PageInv'
<1>1. \A e \in {"rows", "facets"} : e \in due' <=> e \in due
  OBVIOUS
<1>2. RowCallsAreCurrent' /\ FacetCallsAreCurrent'
  BY <1>1 DEF PageInv, RowCallsAreCurrent, FacetCallsAreCurrent, Live
<1>3. RowsAreCurrent'
  BY <1>1 DEF PageInv, RowsAreCurrent, RowCallsAreCurrent
<1>4. FacetsAreCurrent'
  BY <1>1 DEF PageInv, FacetsAreCurrent, FacetCallsAreCurrent, Live
<1> QED
  BY <1>2, <1>3, <1>4 DEF PageInv, IsCall, Effects

LEMMA AnswerKeepsPages ==
    ASSUME PageInv, NEW c \in calls, Answer(c)
    PROVE  PageInv'
<1>1. IsCall(c)
  BY DEF PageInv
<1>2. FocusDue(load') \subseteq {"focus"}
  BY DEF FocusDue
<1>3. CASE c.cancelled
  <2>1. UNCHANGED <<load, facets, due>> /\ calls' = calls \ {c} /\ UNCHANGED <<url, view>>
    BY <1>1, <1>3 DEF Answer, IsCall
  <2> QED
    BY <1>3, <2>1, OutcomeKeepsPages DEF Live, PageInv
<1>4. CASE ~c.cancelled /\ c.effect = "rows"
  <2>1. /\ load'.ask = c.ask /\ due' = due \cup FocusDue(load') /\ UNCHANGED facets
        /\ calls' = calls \ {c} /\ UNCHANGED <<url, view>>
    BY <1>1, <1>4 DEF Answer, Show, IsCall
  <2> QED
    BY <1>2, <1>4, <2>1, OutcomeKeepsPages DEF Live, PageInv
<1>5. CASE ~c.cancelled /\ c.effect = "facets"
  <2>1. /\ facets' = [of |-> c.ask.with, lost |-> FALSE] /\ UNCHANGED <<load, due>>
        /\ calls' = calls \ {c} /\ UNCHANGED <<url, view>>
    BY <1>1, <1>5 DEF Answer, IsCall
  <2> QED
    BY <1>5, <2>1, OutcomeKeepsPages DEF Live, PageInv
<1> QED
  BY <1>1, <1>3, <1>4, <1>5 DEF IsCall

LEMMA FailKeepsPages ==
    ASSUME PageInv, NEW c \in calls, Fail(c)
    PROVE  PageInv'
<1>1. IsCall(c)
  BY DEF PageInv
<1>2. FocusDue(load') \subseteq {"focus"}
  BY DEF FocusDue
<1>3. CASE c.cancelled
  <2>1. UNCHANGED <<load, facets, due>> /\ calls' = calls \ {c} /\ UNCHANGED <<url, view>>
    BY <1>1, <1>3 DEF Fail, IsCall
  <2> QED
    BY <1>3, <2>1, OutcomeKeepsPages DEF Live, PageInv
<1>4. CASE ~c.cancelled /\ c.effect = "rows"
  <2>1. /\ load'.ask = c.ask /\ due' = due \cup FocusDue(load') /\ UNCHANGED facets
        /\ calls' = calls \ {c} /\ UNCHANGED <<url, view>>
    BY <1>1, <1>4 DEF Fail, Show, IsCall
  <2> QED
    BY <1>2, <1>4, <2>1, OutcomeKeepsPages DEF Live, PageInv
<1>5. CASE ~c.cancelled /\ c.effect = "facets"
  <2>1. UNCHANGED <<load, due>> /\ calls' = calls \ {c} /\ UNCHANGED <<url, view>>
    BY <1>1, <1>5 DEF Fail, IsCall
  <2>2. facets'.lost /\ facets' = [of |-> facets'.of, lost |-> facets'.lost]
    BY <1>1, <1>5 DEF Fail, IsCall, PageInv
  <2> QED
    BY <1>5, <2>1, <2>2, OutcomeKeepsPages DEF Live, PageInv
<1> QED
  BY <1>1, <1>3, <1>4, <1>5 DEF IsCall

(***************************************************************************)
(* Addresses.                                                              *)
(***************************************************************************)
Fits(a) ==
    a.page = "explore" =>
        /\ a.query.tab # "tenders" =>
              a.query.state = "" /\ a.query.lga = "" /\ a.query.year = ""
        /\ a.query.tab # "parties" => a.query.type = ""

AddressInv ==
    /\ picked = NoRow \/ picked.state \in States \cup {""}
    /\ url \in Addresses /\ view \in Addresses
    /\ Fits(url) /\ Fits(view)

\* A patch of the fields the tab has makes an address of the tab.
LEMMA OpensFits == \A page \in Pages : Opens(page) \in Addresses /\ Fits(Opens(page))
BY DEF Opens, Addresses, Queries, Blank, Tabs, Fits

LEMMA InitAddresses == Init => AddressInv
BY OpensFits DEF Init, AddressInv

LEMMA VisitKeepsAddresses ==
    ASSUME AddressInv, Visit
    PROVE  AddressInv'
<1>1. view' = view
  BY DEF Visit, ClickTab, ChangeType, ChangeText, ChangeLga, ChangeState, ChangeYear, PickRow,
     ClickColumn, ClickBesideColumns, FollowLink, FollowStateLink, Event, pageVars
<1>2. picked' = NoRow \/ picked'.state \in States \cup {""}
  <2>1. Row("", load).state = "" /\ \A s \in States : Row(s, load).state = s
    BY DEF Row
  <2> QED
  BY <2>1 DEF Visit, ClickTab, ChangeType, ChangeText, ChangeLga, ChangeState, ChangeYear, PickRow,
     ClickColumn, ClickBesideColumns, FollowLink, FollowStateLink, AddressInv
<1> SUFFICES url' \in Addresses /\ Fits(url')
  BY <1>1, <1>2 DEF AddressInv, Fits
<1>3. ASSUME NEW t \in Tabs, ClickTab(t) PROVE url' \in Addresses /\ Fits(url')
  BY <1>3 DEF ClickTab, TabPatch, Patched, Addresses, Queries, Tabs, Fields, Fits, AddressInv
<1>4. ASSUME NEW y \in Types \cup {""}, ChangeType(y) PROVE url' \in Addresses /\ Fits(url')
  BY <1>4 DEF ChangeType, OnTab, Patched, Addresses, Queries, Tabs, Fields, Fits, AddressInv
<1>5. ASSUME NEW x \in Texts \cup {""}, ChangeText(x) PROVE url' \in Addresses /\ Fits(url')
  BY <1>5 DEF ChangeText, Patched, Addresses, Queries, Tabs, Fields, Fits, AddressInv
<1>6. ASSUME NEW l \in Lgas \cup {""}, ChangeLga(l) PROVE url' \in Addresses /\ Fits(url')
  BY <1>6 DEF ChangeLga, OnTab, Patched, Addresses, Queries, Tabs, Fields, Fits, AddressInv
<1>7. ASSUME NEW s \in States \cup {""}, ChangeState(s) PROVE url' \in Addresses /\ Fits(url')
  BY <1>7 DEF ChangeState, OnTab, Patched, Addresses, Queries, Tabs, Fields, Fits, AddressInv
<1>8. ASSUME NEW y \in Years \cup PartialYears \cup {""}, ChangeYear(y)
      PROVE url' \in Addresses /\ Fits(url')
  BY <1>8 DEF ChangeYear, OnTab, Patched, Addresses, Queries, Tabs, Fields, Fits, AddressInv
<1>9. CASE PickRow \/ ClickBesideColumns
  BY <1>9 DEF PickRow, ClickBesideColumns, AddressInv
<1>10. ASSUME NEW s \in States, ClickColumn(s) PROVE url' \in Addresses /\ Fits(url')
  BY <1>10 DEF ClickColumn, Patched, Addresses, Queries, Tabs, Fields, Fits, AddressInv
<1>11. ASSUME NEW page \in Pages, FollowLink(page) PROVE url' \in Addresses /\ Fits(url')
  BY <1>11, OpensFits DEF FollowLink
<1>12. ASSUME NEW page \in {"explore", "sources"}, FollowStateLink(page)
       PROVE url' \in Addresses /\ Fits(url')
  <2>1. PICK s \in Shared :
          url' = [page |-> page,
                  query |-> [Blank EXCEPT !.state = s,
                               !.tab = IF page = "explore" /\ s # "" THEN "tenders" ELSE @]]
    BY <1>12 DEF FollowStateLink
  <2>2. s \in States \cup {""}
    BY DEF Shared, Focus, AddressInv, Addresses, Queries
  <2> QED
    BY <2>1, <2>2 DEF Blank, Addresses, Queries, Tabs, Fits, Pages
<1> QED
  BY <1>3, <1>4, <1>5, <1>6, <1>7, <1>8, <1>9, <1>10, <1>11, <1>12 DEF Visit

LEMMA PageKeepsAddresses ==
    ASSUME AddressInv, Render \/ RunEffects \/ \E c \in calls : Answer(c) \/ Fail(c)
    PROVE  AddressInv'
<1>1. CASE Render
  BY <1>1 DEF Render, AddressInv, Fits
<1>2. CASE RunEffects
  <2>1. UNCHANGED <<url, view>> /\ picked' = Pick
    BY <1>2 DEF RunEffects
  <2>2. Focus(view) \in States \cup {""}
    BY DEF AddressInv, Focus, Addresses, Queries
  <2>3. Row(Focus(view), load).state = Focus(view)
    BY DEF Row
  <2>4. Pick = NoRow \/ Pick.state \in States \cup {""}
    <3>1. CASE "rows" \in due /\ view.page = "explore"
      <4>1. Focus(view) = ""
        BY <3>1 DEF Focus
      <4> QED
        BY <3>1, <4>1 DEF Pick
    <3>2. CASE ~("rows" \in due /\ view.page = "explore") /\ "focus" \in due /\ Focus(view) # ""
      BY <2>2, <2>3, <3>2 DEF Pick
    <3>3. CASE /\ ~("rows" \in due /\ view.page = "explore")
               /\ ~("focus" \in due /\ Focus(view) # "")
      BY <3>3 DEF Pick, AddressInv
    <3> QED
      BY <3>1, <3>2, <3>3
  <2> QED
    BY <2>1, <2>4 DEF AddressInv, Fits
<1>3. CASE \E c \in calls : Answer(c) \/ Fail(c)
  BY <1>3 DEF Answer, Fail, AddressInv, Fits
<1> QED
  BY <1>1, <1>2, <1>3

LEMMA AddressesFit == Spec => []AddressInv
<1>1. ASSUME AddressInv, [Next]_vars PROVE AddressInv'
  <2>1. CASE UNCHANGED vars
    BY <1>1, <2>1 DEF vars, AddressInv, Fits
  <2>2. CASE Next
    BY <1>1, <2>2, VisitKeepsAddresses, PageKeepsAddresses DEF Next
  <2> QED
    BY <1>1, <2>1, <2>2
<1> QED
  BY <1>1, InitAddresses, PTL DEF Spec

LEMMA NextKeepsPages ==
    ASSUME PageInv, AddressInv', [Next]_vars
    PROVE  PageInv'
<1>1. url'.page \in Pages
  BY DEF AddressInv, Addresses
<1>2. CASE UNCHANGED vars
  BY <1>1, <1>2, EventKeepsPages DEF vars, pageVars
<1>3. CASE Visit
  <2>1. UNCHANGED pageVars
    BY <1>3 DEF Visit, ClickTab, ChangeType, ChangeText, ChangeLga, ChangeState, ChangeYear,
       PickRow, ClickColumn, ClickBesideColumns, FollowLink, FollowStateLink, Event
  <2> QED
    BY <1>1, <2>1, EventKeepsPages
<1>4. CASE Render
  BY <1>4, RenderKeepsPages
<1>5. CASE RunEffects
  BY <1>5, RunEffectsKeepsPages
<1>6. CASE \E c \in calls : Answer(c) \/ Fail(c)
  BY <1>6, AnswerKeepsPages, FailKeepsPages
<1> QED
  BY <1>2, <1>3, <1>4, <1>5, <1>6 DEF Next

(***************************************************************************)
(* The theorems.                                                           *)
(***************************************************************************)
\* Whatever order events, renders and answers come in, a page shows the answer to
\* its query: an answer of an earlier query finds its effect cancelled.
THEOREM PagesAreCurrent == Spec => []PagesShowTheirQuery
<1>1. PageInv => PagesShowTheirQuery
  BY DEF PageInv, PagesShowTheirQuery, RowsAreCurrent, FacetsAreCurrent, Live
<1> QED
  BY <1>1, InitPages, NextKeepsPages, AddressesFit, PTL DEF Spec

\* No sequence of events, however far ahead of the renders, makes an address that
\* filters one tab by the fields of another.
THEOREM FiltersFit == Spec => []FiltersFitTheTab
<1>1. AddressInv => FiltersFitTheTab
  BY DEF AddressInv, Fits, FiltersFitTheTab
<1> QED
  BY <1>1, AddressesFit, PTL

\* Addresses, effects, loads and the panel have their types.
THEOREM TypeCorrect == Spec => []TypeOK
<1> DEFINE Counts == /\ load.kind \in {"loading", "ok", "demo", "error"}
                     /\ events \in 0..MaxEvents
<1>a. MaxEvents \in Nat /\ 0 \in 0..MaxEvents
  <2>1. MaxEvents \in Nat
    BY WebPagesAssumption, Zenon
  <2> QED
    BY <2>1
<1>b. Loading.kind = "loading"
  BY DEF Loading
<1>1. Init => Counts
  BY <1>a, <1>b DEF Init
<1>2. ASSUME PageInv, Counts, [Next]_vars PROVE Counts'
  <2>1. CASE UNCHANGED vars
    BY <1>2, <2>1 DEF vars
  <2>2. CASE Visit
    <3>1. Event
      BY <2>2 DEF Visit, ClickTab, ChangeType, ChangeText, ChangeLga, ChangeState,
         ChangeYear, PickRow, ClickColumn, ClickBesideColumns, FollowLink, FollowStateLink
    <3>2. events' \in 0..MaxEvents
      BY <1>a, <1>2, <3>1 DEF Event
    <3> QED
      BY <1>2, <3>1, <3>2 DEF Event, pageVars
  <2>3. CASE Render
    BY <1>b, <1>2, <2>3 DEF Render
  <2>4. CASE RunEffects
    BY <1>b, <1>2, <2>4 DEF RunEffects
  <2>5. ASSUME NEW c \in calls, Answer(c) \/ Fail(c) PROVE Counts'
    <3>1. c.cancelled \/ (~c.cancelled /\ c.effect \in {"rows", "facets"})
      BY <1>2 DEF PageInv, IsCall
    <3>2. UNCHANGED load \/ Show("ok", c.ask) \/ Show(Fallback, c.ask)
      BY <2>5, <3>1 DEF Answer, Fail
    <3>3. load' = load \/ load'.kind \in {"ok", "demo", "error"}
      BY <3>2 DEF Show, Fallback
    <3> QED
      BY <1>2, <2>5, <3>3 DEF Answer, Fail
  <2> QED
    BY <1>2, <2>1, <2>2, <2>3, <2>4, <2>5 DEF Next
<1>3. PageInv /\ AddressInv /\ Counts => TypeOK
  BY DEF PageInv, AddressInv, TypeOK
<1> QED
  BY <1>1, <1>2, <1>3, InitPages, NextKeepsPages, AddressesFit, PTL DEF Spec

(***************************************************************************)
(* The row in the panel.                                                   *)
(***************************************************************************)
\* One request for rows is live at a time, and the page says "Loading" until it ends.
OneRowCall ==
    \A c, d \in calls :
        c.effect = "rows" /\ Live(c) /\ d.effect = "rows" /\ Live(d) => c = d

RowCallsMeanLoading ==
    \A c \in calls : c.effect = "rows" /\ Live(c) => "rows" \in due \/ load.kind = "loading"

\* On Explore a row is one of those shown, or the effect that drops it is due.
ExploredRowIsShown ==
    view.page = "explore" /\ picked # NoRow =>
        "rows" \in due \/ (load.kind = "ok" /\ picked.of = load.ask)

\* On the map the focused row is of the rows shown, or its look-up is due.
FocusedRowIsShown ==
    Focus(view) # "" /\ picked # NoRow => "focus" \in due \/ picked = Row(Focus(view), load)

PanelInv == OneRowCall /\ RowCallsMeanLoading /\ ExploredRowIsShown /\ FocusedRowIsShown

LEMMA InitPanel == Init => PanelInv
BY DEF Init, PanelInv, OneRowCall, RowCallsMeanLoading, ExploredRowIsShown, FocusedRowIsShown

\* Rows that the map does not take for others give the same row.
LEMMA SameRow ==
    ASSUME NEW l, Focus(view) # "", "focus" \notin FocusDue(l)
    PROVE  Row(Focus(view), l) = Row(Focus(view), load)
<1>1. view.page = "map"
  BY DEF Focus
<1> QED
  BY <1>1 DEF FocusDue, Row

LEMMA RenderKeepsPanel ==
    ASSUME PageInv, PanelInv, Render
    PROVE  PanelInv'
<1>1. view' = url /\ view.page \in Pages /\ url.page \in Pages /\ due = {}
  BY DEF PageInv, Render
<1>2. CASE url.page = view.page
  <2>1. due' = Changed(view, url) /\ UNCHANGED <<load, picked, calls>>
    BY <1>2 DEF Render
  <2>2. OneRowCall' /\ RowCallsMeanLoading'
    BY <1>1, <2>1 DEF PanelInv, OneRowCall, RowCallsMeanLoading, Live
  <2>3. ExploredRowIsShown'
    BY <1>1, <1>2, <2>1 DEF PanelInv, ExploredRowIsShown
  <2>4. ASSUME Focus(url) # "", picked # NoRow, "focus" \notin due'
        PROVE  picked = Row(Focus(url), load)
    <3>1. url.page = "map"
      BY <2>4 DEF Focus
    <3>2. "focus" \in Mounted(url.page)
      BY <3>1 DEF Mounted, Effects
    <3>3. Focus(view) = Focus(url)
      BY <2>1, <2>4, <3>2 DEF Changed
    <3> QED
      BY <1>1, <2>4, <3>3 DEF PanelInv, FocusedRowIsShown
  <2>5. FocusedRowIsShown'
    BY <1>1, <2>1, <2>4 DEF FocusedRowIsShown, Focus, Row, Rows
  <2> QED
    BY <2>2, <2>3, <2>5 DEF PanelInv
<1>3. CASE url.page # view.page
  <2>1. picked' = NoRow /\ calls' = Cancel(Effects)
    BY <1>3 DEF Render
  <2>2. \A c \in calls' : ~Live(c)
    BY <2>1, CancelledStay DEF PageInv, IsCall, Effects
  <2> QED
    BY <2>1, <2>2 DEF PanelInv, OneRowCall, RowCallsMeanLoading, ExploredRowIsShown,
       FocusedRowIsShown, Live
<1> QED
  BY <1>2, <1>3

LEMMA RunEffectsKeepsPanel ==
    ASSUME PageInv, PanelInv, RunEffects
    PROVE  PanelInv'
<1>1. /\ UNCHANGED view /\ calls' = Cancel(due) \cup {Call(e, view) : e \in due \ {"focus"}}
      /\ picked' = Pick /\ due' = FocusDue(load')
      /\ load' = IF "rows" \in due THEN Loading ELSE load
  BY DEF RunEffects
<1>2. ASSUME NEW c \in calls', c.effect = "rows", Live(c)
      PROVE  \/ c \in calls /\ "rows" \notin due
             \/ c = Call("rows", view) /\ "rows" \in due
  <2>1. CASE c \in Cancel(due)
    BY <1>2, <2>1, CancelledStay DEF PageInv
  <2>2. CASE \E e \in due \ {"focus"} : c = Call(e, view)
    BY <1>2, <2>2 DEF Call
  <2> QED
    BY <1>1, <2>1, <2>2
<1>3. OneRowCall'
  BY <1>2 DEF PanelInv, OneRowCall, Live
<1>4. RowCallsMeanLoading'
  <2>1. CASE "rows" \in due
    BY <1>1, <2>1 DEF RowCallsMeanLoading, Loading
  <2>2. CASE "rows" \notin due
    BY <1>1, <1>2, <2>2 DEF PanelInv, RowCallsMeanLoading, Live
  <2> QED
    BY <2>1, <2>2
<1>5. ExploredRowIsShown'
  <2>1. CASE view.page = "explore" /\ "rows" \in due
    <3>1. Focus(view) = ""
      BY <2>1 DEF Focus
    <3>2. Pick = NoRow
      BY <2>1, <3>1 DEF Pick
    <3> QED
      BY <1>1, <3>2 DEF ExploredRowIsShown
  <2>2. CASE view.page = "explore" /\ "rows" \notin due
    <3>1. picked' = picked /\ load' = load
      BY <1>1, <2>2 DEF Pick, Focus
    <3> QED
      BY <1>1, <2>2, <3>1 DEF PanelInv, ExploredRowIsShown
  <2>3. CASE view.page # "explore"
    BY <1>1, <2>3 DEF ExploredRowIsShown
  <2> QED
    BY <2>1, <2>2, <2>3
<1>6. FocusedRowIsShown'
  <2>1. ASSUME Focus(view) # "", picked' # NoRow, "focus" \notin due'
        PROVE  picked' = Row(Focus(view), load')
    <3>1. view.page = "map"
      BY <2>1 DEF Focus
    <3>2. picked' = Row(Focus(view), load)
      <4>1. CASE "focus" \in due
        BY <1>1, <2>1, <3>1, <4>1 DEF Pick
      <4>2. CASE "focus" \notin due
        BY <1>1, <2>1, <3>1, <4>2 DEF Pick, PanelInv, FocusedRowIsShown
      <4> QED
        BY <4>1, <4>2
    <3> QED
      BY <1>1, <2>1, <3>2, SameRow
  <2> QED
    BY <1>1, <2>1 DEF FocusedRowIsShown, Focus, Row, Rows
<1> QED
  BY <1>3, <1>4, <1>5, <1>6 DEF PanelInv

\* The end of a request: a cancelled one changes nothing, one for rows ends the load.
LEMMA OutcomeKeepsPanel ==
    ASSUME PageInv, PanelInv, NEW c \in calls, calls' = calls \ {c},
           UNCHANGED <<view, picked>>,
           \/ UNCHANGED <<load, due>> /\ (c.effect # "rows" \/ ~Live(c))
           \/ c.effect = "rows" /\ Live(c) /\ due' = due \cup FocusDue(load')
    PROVE  PanelInv'
<1>1. CASE UNCHANGED <<load, due>> /\ (c.effect # "rows" \/ ~Live(c))
  BY <1>1 DEF PanelInv, OneRowCall, RowCallsMeanLoading, ExploredRowIsShown, FocusedRowIsShown,
     Live, Focus, Row, Rows
<1>2. CASE c.effect = "rows" /\ Live(c) /\ due' = due \cup FocusDue(load')
  <2>1. \A d \in calls' : ~(d.effect = "rows" /\ Live(d))
    BY <1>2 DEF PanelInv, OneRowCall
  <2>2. OneRowCall' /\ RowCallsMeanLoading'
    BY <2>1 DEF OneRowCall, RowCallsMeanLoading, Live
  <2>3. ExploredRowIsShown'
    BY <1>2 DEF PanelInv, RowCallsMeanLoading, ExploredRowIsShown
  <2>4. ASSUME Focus(view) # "", picked # NoRow, "focus" \notin due'
        PROVE  picked = Row(Focus(view), load')
    BY <1>2, <2>4, SameRow DEF PanelInv, FocusedRowIsShown
  <2>5. FocusedRowIsShown'
    BY <2>4 DEF FocusedRowIsShown, Focus, Row, Rows
  <2> QED
    BY <2>2, <2>3, <2>5 DEF PanelInv
<1> QED
  BY <1>1, <1>2

LEMMA AnswerKeepsPanel ==
    ASSUME PageInv, PanelInv, NEW c \in calls, Answer(c) \/ Fail(c)
    PROVE  PanelInv'
<1>1. IsCall(c)
  BY DEF PageInv
<1>2. calls' = calls \ {c} /\ UNCHANGED <<view, picked>>
  BY DEF Answer, Fail
<1>3. CASE c.cancelled \/ c.effect = "facets"
  <2>1. UNCHANGED <<load, due>>
    BY <1>1, <1>3 DEF Answer, Fail, IsCall
  <2> QED
    BY <1>2, <1>3, <2>1, OutcomeKeepsPanel DEF Live
<1>4. CASE ~c.cancelled /\ c.effect = "rows"
  <2>1. due' = due \cup FocusDue(load')
    BY <1>1, <1>4 DEF Answer, Fail, Show, IsCall
  <2> QED
    BY <1>2, <1>4, <2>1, OutcomeKeepsPanel DEF Live
<1> QED
  BY <1>1, <1>3, <1>4 DEF IsCall

LEMMA VisitKeepsPanel ==
    ASSUME PanelInv, Visit
    PROVE  PanelInv'
<1>1. UNCHANGED <<view, due, load, calls>>
  BY DEF Visit, ClickTab, ChangeType, ChangeText, ChangeLga, ChangeState, ChangeYear,
     PickRow, ClickColumn, ClickBesideColumns, FollowLink, FollowStateLink, Event, pageVars
<1>2. OneRowCall' /\ RowCallsMeanLoading'
  BY <1>1 DEF PanelInv, OneRowCall, RowCallsMeanLoading, Live
<1>3. \/ picked' \in {picked, NoRow}
      \/ view.page = "explore" /\ load.kind = "ok" /\ picked' = Row("", load)
      \/ view.page = "map" /\ \E s \in States : Focus(view) \in {"", s} /\ picked' = Row(s, load)
  BY DEF Visit, ClickTab, ChangeType, ChangeText, ChangeLga, ChangeState, ChangeYear,
     PickRow, ClickColumn, ClickBesideColumns, FollowLink, FollowStateLink
<1>4. ExploredRowIsShown'
  <2>1. load.kind = "ok" => Row("", load).of = load.ask
    BY DEF Row, Rows
  <2> QED
    BY <1>1, <1>3, <2>1 DEF PanelInv, ExploredRowIsShown
<1>5. FocusedRowIsShown'
  <2>1. ASSUME Focus(view) # "", picked' # NoRow, "focus" \notin due
        PROVE  picked' = Row(Focus(view), load)
    <3>1. view.page = "map"
      BY <2>1 DEF Focus
    <3> QED
      BY <1>3, <2>1, <3>1 DEF PanelInv, FocusedRowIsShown
  <2> QED
    BY <1>1, <2>1 DEF FocusedRowIsShown, Focus, Row, Rows
<1> QED
  BY <1>2, <1>4, <1>5 DEF PanelInv

LEMMA NextKeepsPanel ==
    ASSUME PageInv, PanelInv, [Next]_vars
    PROVE  PanelInv'
<1>1. CASE UNCHANGED vars
  BY <1>1 DEF vars, PanelInv, OneRowCall, RowCallsMeanLoading, ExploredRowIsShown,
     FocusedRowIsShown, Live, Focus, Row, Rows
<1>2. CASE Next
  BY <1>2, RenderKeepsPanel, RunEffectsKeepsPanel, AnswerKeepsPanel, VisitKeepsPanel DEF Next
<1> QED
  BY <1>1, <1>2

\* The detail panel never shows a row of an earlier load, whichever of a click, a
\* render, an answer and the look-up of the focus comes first.
THEOREM PickedRowsAreCurrent == Spec => []PickedRowIsShown
<1>1. PageInv /\ PanelInv => PickedRowIsShown
  BY DEF PanelInv, ExploredRowIsShown, FocusedRowIsShown, PickedRowIsShown
<1> QED
  BY <1>1, InitPages, InitPanel, NextKeepsPages, NextKeepsPanel, AddressesFit, PTL DEF Spec
=============================================================================
