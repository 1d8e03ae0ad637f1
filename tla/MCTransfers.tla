----------------------------- MODULE MCTransfers -----------------------------
(* Transfers for TLC: makerspace A keeps two units of a product in a box, and  *)
(* one serialized unit, which has a code; another code is free.                *)
EXTENDS Transfers

CONSTANTS A, B, h1, n1

TwoSpaces == {A, B}
ShelfInA == [h \in {h1} |-> A]
BuyerB == [i \in Purchases |-> B]

StartRow(makerspace, box, category, mode, n) ==
    [makerspace |-> makerspace, box |-> box, category |-> category, tracking_mode |-> mode,
     stock |-> [total |-> n, available |-> n, reserved |-> 0, issued |-> 0,
                damaged |-> 0, lost |-> 0, needs_fix |-> 0]]
PlainRows ==
    <<StartRow(A, h1, Nothing, "quantity", 2), StartRow(A, Nothing, Nothing, "individual", 1)>>
StartUnits == [u \in Units |-> [product |-> 2, makerspace |-> A, status |-> "available"]]
StartCodes ==
    [c \in Codes |->
        IF c = 2 THEN [status |-> "active", makerspace |-> A, target |-> <<"asset", n1>>]
        ELSE NoCode]

\* The catalog of this instance is one the theorems speak of.
ASSUME CatalogInOrder == StartsInOrder
=============================================================================
