------------------------------ MODULE WebPages ------------------------------
(***************************************************************************)
(* The pages of the web frontend that load from the API (web/src/pages):   *)
(* Explore, Map, Sources and Graph.  The address is the state: events      *)
(* write it, a later render shows it, and after the render its effects     *)
(* cancel the requests of the render before and start new ones.  Answers   *)
(* come in any order or fail.                                              *)
(***************************************************************************)
EXTENDS Naturals

CONSTANTS
    Types,         \* values of party_type
    Texts,         \* what is typed into the search field
    States,        \* state codes the facet bar offers
    Lgas,          \* lgas of the tenders
    Years,         \* complete fiscal years
    PartialYears,  \* years while they are typed
    MaxEvents,     \* bound: events of the visitor
    NoRow          \* null

ASSUME WebPagesAssumption ==
    /\ "" \notin Types \cup Texts \cup States \cup Lgas \cup Years \cup PartialYears
    /\ Years \cap PartialYears = {} /\ MaxEvents \in Nat

VARIABLES
    url,     \* the address, as the last event wrote it
    view,    \* the address the page was rendered with
    due,     \* effects of that render that have not run
    load,    \* state of the page: what it shows and the request it comes from
    facets,  \* the facets shown: the state they are of; if the last request was lost
    picked,  \* the row of the detail or selection panel
    calls,   \* requests that have no answer yet
    events   \* how many events there were

vars == <<url, view, due, load, facets, picked, calls, events>>
pageVars == <<view, due, load, facets, calls>>

Tabs == {"parties", "tenders", "flags"}
Pages == {"explore", "map", "sources", "graph"}
Fields == {"tab", "type", "text", "state", "lga", "year"}
Effects == {"facets", "rows", "focus"}

Queries == [tab : Tabs, type : Types \cup {""}, text : Texts \cup {""},
            state : States \cup {""}, lga : Lgas \cup {""},
            year : Years \cup PartialYears \cup {""}]
Addresses == [page : Pages, query : Queries]

\* An address without parameters.
Blank == [tab |-> "parties", type |-> "", text |-> "", state |-> "", lga |-> "",
          year |-> ""]

(***************************************************************************)
(* What a render asks the API for, and when its effects run again.         *)
(***************************************************************************)
Resource(v) == IF v.page = "explore" THEN v.query.tab ELSE v.page

\* The parameters each resource is asked with.
Sent == [parties |-> {"type", "text"}, tenders |-> {"state", "lga", "year"},
         flags |-> {}, map |-> {"year"}, sources |-> {"state"}, graph |-> {}]

\* parseFacetYear: a year that is still typed is no year.
ParsedYear(y) == IF y \in Years THEN y ELSE ""

Ask(v) ==
    [of |-> Resource(v),
     with |-> [f \in Sent[Resource(v)] |->
                 IF f = "year" THEN ParsedYear(v.query.year) ELSE v.query[f]]]

FacetsOf(v) == IF v.page = "explore" THEN v.query.state ELSE ""

Focus(v) == IF v.page = "map" THEN v.query.state ELSE ""

Mounted(page) == [explore |-> {"facets", "rows"}, map |-> Effects,
                  sources |-> {"facets", "rows"}, graph |-> {"rows"}][page]

\* Fault: the text is missing among the dependencies of the load.
RowsDependOnLess(v) == [Ask(v) EXCEPT !.with = [f \in DOMAIN @ \ {"text"} |-> @[f]]]

\* The explore page loads again for every field it has, used by the tab or not.
RowsDependOn(v) ==
    IF v.page = "explore" THEN [of |-> v.query.tab, with |-> v.query] ELSE Ask(v)

Changed(v, w) ==
    {e \in Mounted(w.page) :
        CASE e = "rows" -> RowsDependOn(v) # RowsDependOn(w)
          [] e = "facets" -> FacetsOf(v) # FacetsOf(w)
          [] e = "focus" -> Focus(v) # Focus(w)}

Loading == [kind |-> "loading", ask |-> Ask([page |-> "graph", query |-> Blank])]
NoFacets == [of |-> NoRow, lost |-> TRUE]

\* allRows of the map: the demo rows until live ones are there.
Rows(l) == IF l.kind = "ok" THEN l.ask ELSE Loading.ask
Row(s, l) == [state |-> s, of |-> Rows(l)]

Call(e, v) ==
    [effect |-> e, ask |-> IF e = "rows" THEN Ask(v) ELSE [of |-> "facets", with |-> FacetsOf(v)],
     cancelled |-> FALSE]

\* Fault: the cleanup of an effect does not cancel.
NotCancelled(effects) == calls

Cancel(effects) ==
    {[c EXCEPT !.cancelled = @ \/ c.effect \in effects] : c \in calls}

Opens(page) == [page |-> page, query |-> Blank]

Init ==
    /\ \E page \in Pages : view = Opens(page)
    /\ url = view
    /\ due = Mounted(view.page)
    /\ load = Loading
    /\ facets = NoFacets
    /\ picked = NoRow
    /\ calls = {}
    /\ events = 0

\* The router renders in a transition: events and answers may come before it.
\* Another page is mounted anew, the same page keeps its state.
Render ==
    /\ url # view
    /\ due = {}
    /\ view' = url
    /\ IF url.page = view.page
       THEN /\ due' = Changed(view, url)
            /\ UNCHANGED <<load, facets, picked, calls>>
       ELSE /\ due' = Mounted(url.page)
            /\ load' = Loading
            /\ facets' = NoFacets
            /\ picked' = NoRow
            /\ calls' = Cancel(Effects)
    /\ UNCHANGED <<url, events>>

\* setSelected(match): the row of the focused state among those rendered.
Pick ==
    CASE "rows" \in due /\ view.page = "explore" -> NoRow
      [] "focus" \in due /\ Focus(view) # "" -> Row(Focus(view), load)
      [] OTHER -> picked

\* Fault: the focus is not looked up again in new rows.
FocusOnce(l) == {}

\* New rows of the map make its effect on the focus due.
FocusDue(l) == IF view.page = "map" /\ Rows(l) # Rows(load) THEN {"focus"} ELSE {}

RunEffects ==
    /\ due # {}
    /\ calls' = Cancel(due) \cup {Call(e, view) : e \in due \ {"focus"}}
    /\ load' = IF "rows" \in due THEN Loading ELSE load
    /\ facets' = IF "facets" \in due THEN [facets EXCEPT !.lost = FALSE] ELSE facets
    /\ picked' = Pick
    /\ due' = FocusDue(load')
    /\ UNCHANGED <<url, view, events>>

Show(kind, ask) ==
    /\ load' = [kind |-> kind, ask |-> ask]
    /\ due' = due \cup FocusDue(load')

Answer(c) ==
    /\ calls' = calls \ {c}
    /\ CASE c.cancelled -> UNCHANGED <<load, facets, due>>
         [] c.effect = "rows" /\ ~c.cancelled ->
               Show("ok", c.ask) /\ UNCHANGED facets
         [] c.effect = "facets" /\ ~c.cancelled ->
               facets' = [of |-> c.ask.with, lost |-> FALSE] /\ UNCHANGED <<load, due>>
    /\ UNCHANGED <<url, view, picked, events>>

\* The API does not answer, or says that there is no graph: the map and the
\* graph fall back to a sample, the others say so.  Old facets stay.
Fallback == IF view.page \in {"map", "graph"} THEN "demo" ELSE "error"

\* Fault: only the answer has a handler.
FailUnnoticed(c) == calls' = calls \ {c} /\ UNCHANGED <<load, facets, due, url, view, picked, events>>

Fail(c) ==
    /\ calls' = calls \ {c}
    /\ CASE c.cancelled -> UNCHANGED <<load, facets, due>>
         [] c.effect = "rows" /\ ~c.cancelled ->
               Show(Fallback, c.ask) /\ UNCHANGED facets
         [] c.effect = "facets" /\ ~c.cancelled ->
               facets' = [facets EXCEPT !.lost = TRUE] /\ UNCHANGED <<load, due>>
    /\ UNCHANGED <<url, view, picked, events>>

(***************************************************************************)
(* The visitor.                                                            *)
(***************************************************************************)
\* Fault: the patch is made of the address and not of what was rendered.
PatchedAddress(patch) ==
    [page |-> view.page,
     query |-> [f \in Fields |-> IF f \in DOMAIN patch THEN patch[f] ELSE url.query[f]]]

\* patchParams: the parameters of the last render, patched.
Patched(patch) ==
    [page |-> view.page,
     query |-> [f \in Fields |-> IF f \in DOMAIN patch THEN patch[f] ELSE view.query[f]]]

\* A field fires an event when it gets another value than the one rendered.
Typed(field, value) == value # view.query[field]

\* The map knows the states, the other pages have them of the facets.
Offered(s) == view.page \in {"explore", "sources"} => s = "" \/ facets.of # NoRow

Event == events < MaxEvents /\ events' = events + 1 /\ UNCHANGED pageVars

OnTab(t) == view.page = "explore" /\ view.query.tab = t

\* Fault: the facets of the tenders stay when another tab is opened.
TabKeepsFacets(t) == [tab |-> t, type |-> "", text |-> ""]

TabPatch(t) ==
    IF t = "tenders" THEN [tab |-> t, type |-> "", text |-> ""]
    ELSE [tab |-> t, type |-> "", text |-> "", state |-> "", lga |-> "", year |-> ""]

ClickTab(t) ==
    /\ Event
    /\ view.page = "explore"
    /\ url' = Patched(TabPatch(t))
    /\ UNCHANGED picked

ChangeType(y) ==
    /\ Event
    /\ OnTab("parties") /\ Typed("type", y)
    /\ url' = Patched([type |-> y])
    /\ UNCHANGED picked

ChangeText(x) ==
    /\ Event
    /\ view.page = "explore" /\ Typed("text", x)
    /\ url' = Patched([text |-> x])
    /\ UNCHANGED picked

ChangeLga(l) ==
    /\ Event
    /\ OnTab("tenders") /\ Typed("lga", l)
    /\ url' = Patched([lga |-> l])
    /\ UNCHANGED picked

\* The map drops its selection with the state.
ChangeState(s) ==
    /\ Event
    /\ view.page = "explore" => OnTab("tenders")
    /\ Typed("state", s) /\ Offered(s)
    /\ url' = IF view.page = "explore"
              THEN Patched([state |-> s, lga |-> ""]) ELSE Patched([state |-> s])
    /\ picked' = IF view.page = "map" /\ s = "" THEN NoRow ELSE picked

\* A patch of the year has no state: the map drops its selection as well.
ChangeYear(y) ==
    /\ Event
    /\ (view.page = "map" \/ OnTab("tenders")) /\ Typed("year", y)
    /\ url' = Patched([year |-> y])
    /\ picked' = IF view.page = "map" THEN NoRow ELSE picked

\* A row of the table that is shown is opened or taken for a comparison.
PickRow ==
    /\ Event
    /\ view.page = "explore" /\ load.kind = "ok" /\ load.ask.of = view.query.tab
    /\ picked' = Row("", load)
    /\ UNCHANGED url

\* A focus leaves one column, and a click beside it does nothing.
ClickColumn(s) ==
    /\ Event
    /\ view.page = "map" /\ Focus(view) \in {"", s}
    /\ picked' = Row(s, load)
    /\ url' = Patched([state |-> s])

ClickBesideColumns ==
    /\ Event
    /\ view.page = "map" /\ Focus(view) = ""
    /\ picked' = NoRow
    /\ UNCHANGED url

\* The links of the shell have no parameters.
FollowLink(page) ==
    /\ Event
    /\ url' = Opens(page)
    /\ UNCHANGED picked

\* Those of the map and the graph take the state along, or that of the selection.
Shared == IF view.page = "map" /\ picked # NoRow THEN {Focus(view), picked.state}
          ELSE {view.query.state}

FollowStateLink(page) ==
    /\ Event
    /\ \/ view.page = "map"
       \/ view.page = "graph" /\ view.query.state # ""
    /\ \E s \in Shared :
          url' = [page |-> page,
                  query |-> [Blank EXCEPT !.state = s,
                               !.tab = IF page = "explore" /\ s # "" THEN "tenders" ELSE @]]
    /\ UNCHANGED picked

Visit ==
    \/ \E t \in Tabs : ClickTab(t)
    \/ \E y \in Types \cup {""} : ChangeType(y)
    \/ \E x \in Texts \cup {""} : ChangeText(x)
    \/ \E l \in Lgas \cup {""} : ChangeLga(l)
    \/ \E s \in States \cup {""} : ChangeState(s)
    \/ \E y \in Years \cup PartialYears \cup {""} : ChangeYear(y)
    \/ PickRow
    \/ \E s \in States : ClickColumn(s)
    \/ ClickBesideColumns
    \/ \E page \in Pages : FollowLink(page)
    \/ \E page \in {"explore", "sources"} : FollowStateLink(page)

Next ==
    \/ Render \/ RunEffects
    \/ \E c \in calls : Answer(c) \/ Fail(c)
    \/ Visit

Spec == Init /\ [][Next]_vars

\* React renders and runs effects, and the browser ends each request.
Settle == \E c \in calls : ~c.cancelled /\ (Answer(c) \/ Fail(c))

Fairness == WF_vars(Render) /\ WF_vars(RunEffects) /\ WF_vars(Settle)

FairSpec == Spec /\ Fairness
-----------------------------------------------------------------------------
TypeOK ==
    /\ url \in Addresses /\ view \in Addresses
    /\ due \subseteq Effects
    /\ load.kind \in {"loading", "ok", "demo", "error"}
    /\ picked = NoRow \/ picked.state \in States \cup {""}
    /\ events \in 0..MaxEvents

\* Whatever order answers come in, a page whose effects have run shows the answer
\* to what it asks now, and facets of its state unless their request is under way
\* or was lost.
PagesShowTheirQuery ==
    due = {} =>
        /\ load.kind # "loading" => load.ask = Ask(view)
        /\ \/ facets.lost
           \/ facets.of = FacetsOf(view)
           \/ \E c \in calls : c.effect = "facets" /\ ~c.cancelled

\* A row in the panel is one of the rows on the page: a load takes the old ones
\* away, and the map finds the focused state among the new ones.  A selection
\* without a focus, left by a link that drops the state, may be older.
PickedRowIsShown ==
    due = {} /\ url = view /\ picked # NoRow =>
        /\ view.page = "explore" => load.kind = "ok" /\ picked.of = load.ask
        /\ Focus(view) # "" => picked = Row(Focus(view), load)

\* However fast events follow each other, no address has a filter of another tab.
FiltersFitTheTab ==
    url.page = "explore" =>
        /\ url.query.tab # "tenders" =>
              url.query.state = "" /\ url.query.lga = "" /\ url.query.year = ""
        /\ url.query.tab # "parties" => url.query.type = ""

\* No page stays at "Loading": each load ends at rows, a sample or an error.
LoadsEnd == (load.kind = "loading") ~> (load.kind # "loading")
=============================================================================
