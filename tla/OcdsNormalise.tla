--------------------------- MODULE OcdsNormalise ----------------------------
(***************************************************************************)
(* From an OCDS release to the rows it asks for (finance/ocds.py,          *)
(* finance/ocp_registry.py): which parties, which tender, which awards and *)
(* contracts, with what ids and suppliers.                                 *)
(*                                                                         *)
(* A release is read as one of three kinds: an archive release of the OCP  *)
(* registry is first prepared, an archive and a live one are normalised by *)
(* normalize_ocp_release, a legacy one by normalize_ocds_release alone.    *)
(* An organisation is its name, suppliers are those that have one, and an  *)
(* amount stands for each field that may be null.                          *)
(***************************************************************************)
EXTENDS Naturals, Sequences, SequencesExt

CONSTANTS
    NoId,      \* a release, an award or a contract without an id
    NoName,    \* an organisation that is not named
    NoAmount   \* NULL

Kinds == {"archive", "live", "legacy"}

Distinct(names) ==
    FoldLeft(LAMBDA seen, x : IF Contains(seen, x) THEN seen ELSE Append(seen, x),
             <<>>, names)

\* A release without an ocid is refused.
Normalises(r) == r.ocid # NoId

(***************************************************************************)
(* Agency and tender.                                                      *)
(***************************************************************************)
\* The party with the role of the buyer, or the buyer among the parties.
Buyers(r) == SelectSeq(r.parties, LAMBDA p : p.agency)

\* The procuring entity counts only in a tender that has a title.
AgencyOf(r) ==
    IF Buyers(r) # <<>> THEN Head(Buyers(r)).name
    ELSE IF r.titled THEN r.procuring ELSE NoName

HasTender(r) == r.titled /\ AgencyOf(r) # NoName

(***************************************************************************)
(* Awards.                                                                 *)
(***************************************************************************)
\* An archive release that leaves an id out is given one by the place in it.
AwardId(kind, r, n) ==
    IF kind = "archive" /\ r.awards[n].id = NoId THEN <<r.ocid, n>> ELSE r.awards[n].id

\* One for each supplier; an award without suppliers is dropped.
AwardsBySupplier(kind, r) ==
    FlattenSeq([n \in 1..Len(r.awards) |->
        [m \in 1..Len(r.awards[n].suppliers) |->
            [id |-> AwardId(kind, r, n), supplier |-> r.awards[n].suppliers[m],
             amount |-> r.awards[n].amount]]])

\* Archive and live: one for each id, of the first supplier there is.
NormalAwards(kind, r) ==
    IF kind = "legacy" THEN AwardsBySupplier(kind, r)
    ELSE FoldLeft(LAMBDA kept, a : IF \E n \in 1..Len(kept) : kept[n].id = a.id
                                   THEN kept ELSE Append(kept, a),
                  <<>>, AwardsBySupplier(kind, r))

(***************************************************************************)
(* Contracts.                                                              *)
(***************************************************************************)
\* An archive contract without suppliers has those of the award it names.
SuppliersOf(kind, r, c) ==
    LET named == SelectSeq(r.awards, LAMBDA a : a.id # NoId /\ a.id = c.award)
    IN  IF c.suppliers = <<>> /\ kind = "archive" /\ named # <<>>
        THEN Last(named).suppliers ELSE c.suppliers

WithSuppliers(kind, r) ==
    SelectSeq([n \in 1..Len(r.contracts) |->
                  [id |-> r.contracts[n].id, place |-> n,
                   suppliers |-> SuppliersOf(kind, r, r.contracts[n]),
                   amount |-> r.contracts[n].amount]],
              LAMBDA c : c.suppliers # <<>>)

\* Archive and live releases carry the contract's id with the ocid before it, and
\* its place if it has none: in the archive that is the one among all contracts.
ContractId(kind, r, c, n) ==
    IF kind = "legacy" THEN c.id
    ELSE <<r.ocid, IF c.id # NoId THEN c.id ELSE IF kind = "archive" THEN c.place ELSE n>>

\* A contract without a supplier or an agency is dropped.
NormalContracts(kind, r) ==
    LET kept == IF AgencyOf(r) = NoName THEN <<>> ELSE WithSuppliers(kind, r)
    IN  [n \in 1..Len(kept) |->
            [id |-> ContractId(kind, r, kept[n], n), supplier |-> Head(kept[n].suppliers),
             amount |-> kept[n].amount]]

(***************************************************************************)
(* Parties: those that are listed, and who else is named.                  *)
(***************************************************************************)
NormalParties(kind, r) ==
    LET contracts == WithSuppliers(kind, r)
    IN  Distinct([n \in 1..Len(r.parties) |-> r.parties[n].name]
                 \o (IF HasTender(r) THEN <<AgencyOf(r)>> ELSE <<>>)
                 \o FlattenSeq([n \in 1..Len(r.awards) |-> r.awards[n].suppliers])
                 \o [n \in 1..Len(contracts) |-> Head(contracts[n].suppliers)])

(***************************************************************************)
(* What a release asks for, in the order of load_normalized_release.       *)
(***************************************************************************)
PartyItem(name) ==
    [table |-> "party", key |-> name, supplier |-> NoName, amount |-> NoAmount]
TenderItem(r) ==
    [table |-> "tender", key |-> r.ocid, supplier |-> NoName, amount |-> r.amount]
AwardItem(r, a) ==
    [table |-> "award", key |-> <<r.ocid, a.id>>, supplier |-> a.supplier,
     amount |-> a.amount]
ContractItem(r, c) ==
    [table |-> "contract", key |-> <<AgencyOf(r), c.id>>, supplier |-> c.supplier,
     amount |-> c.amount]

Nameless(item) == item.table \in {"award", "contract"} /\ item.key[2] = NoId

\* Without a tender there are no awards.
Items(kind, r) ==
    LET parties == NormalParties(kind, r)
        tenders == IF HasTender(r) THEN <<TenderItem(r)>> ELSE <<>>
        awards == IF HasTender(r) THEN NormalAwards(kind, r) ELSE <<>>
        contracts == NormalContracts(kind, r)
        \* identity="ocp" skips an award without an id.
        Kept(item) == kind = "legacy" \/ ~Nameless(item)
    IN  SelectSeq([n \in 1..Len(parties) |-> PartyItem(parties[n])] \o tenders
                  \o [n \in 1..Len(awards) |-> AwardItem(r, awards[n])]
                  \o [n \in 1..Len(contracts) |-> ContractItem(r, contracts[n])],
                  Kept)
=============================================================================
