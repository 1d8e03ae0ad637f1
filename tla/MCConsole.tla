----------------------------- MODULE MCConsole -----------------------------
(* StaffConsole for TLC: one serialized product s with one asset a1, which   *)
(* lies in the box b1.                                                       *)
EXTENDS StaffConsole, TLC

CONSTANTS s, a1, b1

SProducts == {s}
SAssets == {a1}
SStock == [x \in {s} |-> NewRow(1, 1)]
STracking == [x \in {s} |-> "individual"]
SProductBox == [x \in {s} |-> None]
SAssetProduct == [a \in {a1} |-> s]
SAssetBox == [a \in {a1} |-> b1]
SAsset == [a \in {a1} |-> "available"]
FlatBoxes == [b \in Boxes |-> {b}]

ConsoleSymmetry ==
    Permutations(Requests) \cup Permutations(IssuePhotos)
        \cup Permutations(ReturnPhotos)
=============================================================================
