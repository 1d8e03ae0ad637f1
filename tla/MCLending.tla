----------------------------- MODULE MCLending -----------------------------
(* HardwareLending for TLC: a product p without serial numbers, a product s *)
(* with them, whose assets are a1 and a2, and a box b1.                     *)
EXTENDS HardwareLending, TLC

CONSTANTS p, s, a1, a2, b1

\* Quantity-tracked stock only.
QProducts == {p}
QStock == [x \in {p} |-> NewRow(2, 2)]
\* Enough to leave a unit behind when two QRs are handed out together.
PStock == [x \in {p} |-> NewRow(3, 3)]
QTracking == [x \in {p} |-> "quantity"]
QProductBox == [x \in {p} |-> b1]
NoAssets == {}
NoFunction == << >>
FlatBoxes == [b \in Boxes |-> {b}]

\* Stock of p whose units can be given asset rows later.
QAssetProduct == [a \in {a1, a2} |-> p]
QAssetBox == [a \in {a1, a2} |-> b1]
QAssets == {a1, a2}
QAsset == [a \in {a1, a2} |-> "absent"]

\* Serialized stock only.
SProducts == {s}
SAssets == {a1, a2}
SStock == [x \in {s} |-> NewRow(2, 2)]
STracking == [x \in {s} |-> "individual"]
SProductBox == [x \in {s} |-> None]
SAssetProduct == [a \in {a1, a2} |-> s]
SAssetBox == [a \in {a1, a2} |-> b1]
SAsset == [a \in {a1, a2} |-> "available"]

LendingSymmetry ==
    Permutations(Requests) \cup Permutations(IssuePhotos)
        \cup Permutations(ReturnPhotos)

\* The catalogs of these instances are ones the theorems speak of.
ASSUME CatalogSerialized == SerializedCatalog
=============================================================================
