-------------------------- MODULE MCSourceRegistry --------------------------
(***************************************************************************)
(* A portal that moved from oldUrl to newUrl, where it needs a browser; a  *)
(* search form, which the catalog lists but never approves.  The old url   *)
(* is one the probe refuses, the new one does not always answer.           *)
(***************************************************************************)
EXTENDS SourceRegistry, TLC

CONSTANTS oldUrl, newUrl, formUrl, goneUrl, print1, print2

MCObsolete ==
    <<[url |-> oldUrl, to |-> newUrl, method |-> NoMethod],
      [url |-> goneUrl, to |-> NoUrl, method |-> NoMethod]>>

MCCatalog ==
    <<[url |-> newUrl, role |-> "leaf", method |-> "playwright", proposed |-> FALSE],
      [url |-> formUrl, role |-> "search_ui", method |-> "http", proposed |-> FALSE]>>

\* What an earlier seed run left: the portal at its old url or without a
\* browser, and the form approved as if it were a leaf.
Seeded(url) == [url |-> url, role |-> "leaf", method |-> "http", status |-> "approved",
                health |-> "unknown", print |-> NoPrint]
MCTables == {<<>>, <<Seeded(newUrl), Seeded(formUrl)>>, <<Seeded(oldUrl), Seeded(goneUrl)>>}

Page(print) == [tls |-> "ok", code |-> 200, print |-> print]
NoAnswer == [tls |-> "ok", code |-> 0, print |-> NoPrint]

MCAnswers == (oldUrl :> {}) @@ (newUrl :> {Page(print1), NoAnswer})
             @@ (goneUrl :> {Page(print1)}) @@ (formUrl :> {Page(print2)})
=============================================================================
