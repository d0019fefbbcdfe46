----------------------------- MODULE MCCapture ------------------------------
(***************************************************************************)
(* A catalog whose page links to a file that is gone and to one that is    *)
(* there, and to a year page with one more; and a plain source that serves *)
(* the bytes of that file too.                                             *)
(***************************************************************************)
EXTENDS Capture, TLC

CONSTANTS catalog, plain, page, year, fileA, fileB, gone,
          catalogUrl, plainUrl, yearUrl, urlA, urlB, goneUrl

Good(body) == {[ok |-> TRUE, body |-> body]}

MCSources == <<plain, catalog>>
MCUrlOf == (plain :> plainUrl) @@ (catalog :> catalogUrl)
MCAnswers ==
    (catalogUrl :> Good(page)) @@ (yearUrl :> Good(year)) @@ (urlA :> Good(fileA))
    @@ (urlB :> Good(fileB)) @@ (plainUrl :> Good(fileA))
    @@ (goneUrl :> {[ok |-> FALSE, body |-> gone]})

NoLinks == [b \in {page, year, fileA, fileB, gone} |-> <<>>]
MCLinks == [NoLinks EXCEPT ![page] = <<goneUrl, urlA>>, ![year] = <<urlA, urlB>>]
MCYearPages == [NoLinks EXCEPT ![page] = <<yearUrl>>]
=============================================================================
