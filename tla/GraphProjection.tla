-------------------------- MODULE GraphProjection ---------------------------
(***************************************************************************)
(* The finance graph (engine/src/naijaledger/graph): a rebuild reads the   *)
(* parties, then the finance rows, then walks from each party to its       *)
(* survivor, one SELECT at a time, and replaces the graph in one Memgraph  *)
(* transaction.  Under READ COMMITTED each SELECT sees what was committed  *)
(* before it, so merges and loads go on between them; and nothing keeps    *)
(* two rebuilds apart, nor their order.                                    *)
(* An award stands for every row that refers to a party.                   *)
(***************************************************************************)
EXTENDS PartyMerge, Sequences

CONSTANTS
    Awards,        \* awards a load can insert
    Rebuilds,      \* bound: as many rebuilds as there are ids are begun
    MaxMergeDepth  \* _MAX_MERGE_DEPTH

ASSUME GraphProjectionAssumption == MaxMergeDepth \in Nat \ {0}

VARIABLES
    supplier,  \* award -> party, the committed rows
    begun,     \* the ids of rebuilds that were begun
    plan,      \* rebuild under way -> what it has read so far
    graph      \* the projection in Memgraph, with the survivors it was made of

graphVars == <<supplier, begun, plan, graph>>
vars == <<partyVars, graphVars>>

Empty == [x \in {} |-> x]

NoGraph == [nodes |-> {}, awards |-> {}, edges |-> {}, survivor |-> Empty]

\* What SELECT ... FROM parties finds of the merges.
Listing == [p \in DOMAIN party |-> party[p].into]

Init ==
    /\ PartyInit
    /\ supplier = Empty
    /\ begun = {}
    /\ plan = Empty
    /\ graph = NoGraph

\* A load refers to a party by name: to a merged one as well as to a live one.
InsertAward(a, p) ==
    /\ a \notin DOMAIN supplier
    /\ p \in DOMAIN party
    /\ supplier' = Put(supplier, a, p)
    /\ UNCHANGED <<partyVars, begun, plan, graph>>

Reads(r, phase) == r \in DOMAIN plan /\ plan[r].phase = phase

\* overtaken is a history variable, which no action reads: another rebuild
\* was applied since this one began.
LoadParties(r) ==
    /\ r \notin begun
    /\ begun' = begun \cup {r}
    /\ plan' = Put(plan, r, [phase |-> "parties", listed |-> Listing,
                             supplier |-> Empty, survivor |-> Empty,
                             path |-> <<>>, overtaken |-> FALSE])
    /\ UNCHANGED <<partyVars, supplier, graph>>

LoadAwards(r) ==
    /\ Reads(r, "parties")
    /\ plan' = [plan EXCEPT ![r].phase = "walks", ![r].supplier = supplier]
    /\ UNCHANGED <<partyVars, supplier, begun, graph>>

(***************************************************************************)
(* canonical_party_id of each listed party: one SELECT for each party on   *)
(* the way, which is under way (path) or begins with a party that is not   *)
(* resolved yet.                                                           *)
(***************************************************************************)
Unresolved(r) == DOMAIN plan[r].listed \ DOMAIN plan[r].survivor

Ways(r) == IF plan[r].path = <<>> THEN {<<p>> : p \in Unresolved(r)}
           ELSE {plan[r].path}

At(way) == way[Len(way)]

Visited(way, p) == \E n \in 1..Len(way) : way[n] = p

\* Fault: the party a row names is taken for its survivor.
EndsAtOnce(way) == Len(way) = 1

EndsHere(way) == Unmerged(At(way))

WalkEnds(r, way) ==
    /\ EndsHere(way)
    /\ plan' = [plan EXCEPT ![r].survivor = Put(@, way[1], At(way)), ![r].path = <<>>]

\* A circle of merges, or one too many, makes the rebuild fail.
WalkOn(r, way) ==
    /\ ~EndsHere(way)
    /\ LET next == party[At(way)].into
       IN  plan' = IF Visited(way, next) \/ Len(way) = MaxMergeDepth
                   THEN Drop(plan, r)
                   ELSE [plan EXCEPT ![r].path = Append(way, next)]

Walk(r) ==
    /\ Reads(r, "walks")
    /\ \E way \in Ways(r) : WalkEnds(r, way) \/ WalkOn(r, way)
    /\ UNCHANGED <<partyVars, supplier, begun, graph>>

\* plan_finance_projection and rebuild_from_plan.  The listed parties without
\* a merge become nodes.  MATCH finds nothing for an edge whose node was not
\* planned: such an edge is left out without a word.
Nodes(r) == {p \in DOMAIN plan[r].listed : plan[r].listed[p] = NoParty}

\* Fault: the edge goes to the party the row names.
EdgesToNamed(r) ==
    {<<a, plan[r].supplier[a]>> : a \in {b \in DOMAIN plan[r].supplier :
                                           plan[r].supplier[b] \in Nodes(r)}}

PlannedEdges(r) ==
    {<<a, plan[r].survivor[plan[r].supplier[a]]>> :
        a \in {b \in DOMAIN plan[r].supplier :
                 plan[r].survivor[plan[r].supplier[b]] \in Nodes(r)}}

Planned(r) == [nodes |-> Nodes(r), awards |-> DOMAIN plan[r].supplier,
               edges |-> PlannedEdges(r), survivor |-> plan[r].survivor]

Complete(r) ==
    /\ Reads(r, "walks") /\ plan[r].path = <<>>
    /\ Unresolved(r) = {}
    /\ \A a \in DOMAIN plan[r].supplier : plan[r].supplier[a] \in DOMAIN plan[r].listed

\* The plans of the other rebuilds, when that of r is applied.
Overtaken(r) == [q \in DOMAIN plan \ {r} |-> [plan[q] EXCEPT !.overtaken = TRUE]]

\* Fault: wiped in one transaction and filled in the next.
WipesFirst(r) ==
    \/ /\ Complete(r)
       /\ graph' = NoGraph
       /\ plan' = [plan EXCEPT ![r].phase = "wiped"]
       /\ UNCHANGED <<partyVars, supplier, begun>>
    \/ /\ Reads(r, "wiped")
       /\ graph' = Planned(r)
       /\ plan' = Overtaken(r)
       /\ UNCHANGED <<partyVars, supplier, begun>>

ApplyPlan(r) ==
    /\ Complete(r)
    /\ graph' = Planned(r)
    /\ plan' = Overtaken(r)
    /\ UNCHANGED <<partyVars, supplier, begun>>

\* A row names a party younger than the list (KeyError), the database or
\* Memgraph fails, or the process dies: the old graph stays.
RebuildFails(r) ==
    /\ r \in DOMAIN plan
    /\ plan' = Drop(plan, r)
    /\ UNCHANGED <<partyVars, supplier, begun, graph>>

Next ==
    \/ PartyNext /\ UNCHANGED graphVars
    \/ \E a \in Awards, p \in Parties : InsertAward(a, p)
    \/ \E r \in Rebuilds :
          \/ LoadParties(r) \/ LoadAwards(r) \/ Walk(r)
          \/ ApplyPlan(r) \/ RebuildFails(r)

Spec == Init /\ [][Next]_vars
-----------------------------------------------------------------------------
\* Merges that commit while the plan is read lose no edge: an award is without
\* its supplier only when the survivor is younger than the list of parties.
EdgesAreLostToNewPartiesOnly ==
    \A a \in graph.awards :
        \/ \E p \in graph.nodes : <<a, p>> \in graph.edges
        \/ graph.survivor[supplier[a]] \notin DOMAIN graph.survivor

\* The rebuilds that end in a step.
Ending == DOMAIN plan \ DOMAIN plan'

\* A rebuild that is applied while the parties and their merges are what it
\* listed leads each award to the party its supplier is by now, through however
\* many merges (spec 0016, section 3.3), whatever other rebuilds and
\* confirmations go on.
UndisturbedGraphIsExact ==
    [][\A r \in Ending : graph' # graph /\ plan[r].listed = Listing =>
          graph'.edges = {<<a, Survivor(supplier[a])>> : a \in graph'.awards}]_vars

\* A rebuild replaces the graph in one transaction ("so a mid-failure rolls back"),
\* and one that fails leaves it alone: an award, or a survivor that was not
\* merged since, leaves the graph only with a plan that another rebuild
\* overtook, which has read the database before the one it replaces was applied.
OnlyOvertakenPlansForget ==
    [][\/ /\ graph.awards \subseteq graph'.awards
          /\ \A p \in graph.nodes \ graph'.nodes : ~Unmerged(p)
       \/ \E r \in Ending : plan[r].overtaken]_vars
=============================================================================
