-------------------------------- MODULE MCLocks --------------------------------
(***************************************************************************)
(* Two sessions that lend, return and move the four assets of a box and    *)
(* two products.                                                           *)
(***************************************************************************)
EXTENDS RowLocks, TLC

\* Assets 1 and 2 of product 1 lie in the box, 3 of product 1 and 4 of product 2
\* are out.
AssetProducts == 1 :> 1 @@ 2 :> 1 @@ 3 :> 1 @@ 4 :> 2
WhoHolds == 3 :> 1 @@ 4 :> 1
BoxContent == 1 :> {1, 2}
RequestBox == 1 :> 1
WhoAsked == 1 :> 1
=============================================================================
