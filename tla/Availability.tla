---------------------------- MODULE Availability ----------------------------
(***************************************************************************)
(* apps/inventory/availability.py: the only code that moves units between  *)
(* the quantity buckets of an InventoryProduct row.  Every operator takes  *)
(* the row (a record of buckets) as the caller read it under the row lock  *)
(* and yields the row it saves; the operator named Can... is the condition *)
(* under which the function does not raise InsufficientStock.  Operators    *)
(* whose comment starts with "Fault:" are wrong variants that no model      *)
(* uses; each shows that a property notices the slip it stands for.         *)
(***************************************************************************)
EXTENDS Integers, FiniteSets

Buckets == {"available", "reserved", "issued", "damaged", "lost", "needs_fix"}

\* A product row: the six buckets and the total they must fit in.
Row(N) == [total : N, available : N, reserved : N, issued : N,
           damaged : N, lost : N, needs_fix : N]

\* A row as the catalog creates it: only total and available may be given.
NewRow(total, available) ==
    [total |-> total, available |-> available, reserved |-> 0, issued |-> 0,
     damaged |-> 0, lost |-> 0, needs_fix |-> 0]

BucketSum(s) ==
    s.available + s.reserved + s.issued + s.damaged + s.lost + s.needs_fix

\* Fault: the total is not recomputed.
RetotalForgotten(s) == s

\* The statement that closes every adjustment: total is the sum of the buckets.
Retotal(s) == [s EXCEPT !.total = BucketSum(s)]

-----------------------------------------------------------------------------
\* reserve_for_request, one product: accepted units leave the shelf.
CanReserve(s, q) == s.available >= q

Reserve(s, q) == [s EXCEPT !.available = @ - q, !.reserved = @ + q]

\* Fault: only the units handed over leave the reservation.
IssueItemKeepsBroken(s, accepted, broken, disposition) ==
    [s EXCEPT !.reserved  = @ - (accepted - broken),
              !.issued    = @ + (accepted - broken),
              !.total     = IF disposition = "remove" THEN @ - broken ELSE @,
              !.needs_fix = IF disposition = "remove" THEN @ ELSE @ + broken]

\* issue_items, one item: the accepted units leave the reservation; broken
\* ones go to the fix shelf or out of inventory, the rest to the borrower.
CanIssueItem(s, accepted, broken) ==
    /\ broken <= accepted
    /\ s.reserved >= accepted

IssueItem(s, accepted, broken, disposition) ==
    [s EXCEPT !.reserved  = @ - accepted,
              !.issued    = @ + (accepted - broken),
              !.total     = IF disposition = "remove" THEN @ - broken ELSE @,
              !.needs_fix = IF disposition = "remove" THEN @ ELSE @ + broken]

\* issue_available / return_to_available: the flows without a reservation.
CanIssueAvailable(s, q) == s.available >= q

IssueAvailable(s, q) == [s EXCEPT !.available = @ - q, !.issued = @ + q]

CanReturnToAvailable(s, q) == s.issued >= q

ReturnToAvailable(s, q) == [s EXCEPT !.issued = @ - q, !.available = @ + q]

\* Fault: what comes back goes on the shelf, whatever its state.
ReturnItemToShelf(s, returned, damaged, missing) ==
    [s EXCEPT !.issued    = @ - (returned + damaged + missing),
              !.available = @ + (returned + damaged + missing)]

\* return_items, one resolution.
CanReturnItem(s, returned, damaged, missing) ==
    s.issued >= returned + damaged + missing

ReturnItem(s, returned, damaged, missing) ==
    [s EXCEPT !.issued    = @ - (returned + damaged + missing),
              !.available = @ + returned,
              !.damaged   = @ + damaged,
              !.lost      = @ + missing]

-----------------------------------------------------------------------------
\* adjust_quantities and apply_stocktake_delta: signed corrections.
CanAdjust(s, delta_available, delta_damaged, delta_lost) ==
    /\ s.available + delta_available >= 0
    /\ s.damaged + delta_damaged >= 0
    /\ s.lost + delta_lost >= 0

Adjust(s, delta_available, delta_damaged, delta_lost) ==
    Retotal([s EXCEPT !.available = @ + delta_available,
                      !.damaged   = @ + delta_damaged,
                      !.lost      = @ + delta_lost])

\* move_available_to_triage_bucket: a reported unit leaves the shelf.
CanTriage(s, q) == q > 0 /\ s.available >= q

Triage(s, q, outcome) ==
    CASE outcome = "damaged"   -> Adjust(s, -q, q, 0)
      [] outcome = "missing"   -> Adjust(s, -q, 0, q)
      [] outcome = "needs_fix" -> Retotal([s EXCEPT !.available = @ - q,
                                                    !.needs_fix = @ + q])

\* The fix shelf: move_available_to_needs_fix, repair_ and scrap_from_needs_fix.
CanShelve(s, q) == q > 0 /\ s.available >= q

Shelve(s, q) == [s EXCEPT !.available = @ - q, !.needs_fix = @ + q]

CanRepair(s, q) == q > 0 /\ s.needs_fix >= q

Repair(s, q) == [s EXCEPT !.needs_fix = @ - q, !.available = @ + q]

Scrap(s, q) == [s EXCEPT !.needs_fix = @ - q, !.total = @ - q]

-----------------------------------------------------------------------------
\* ASSET_QUANTITY_BUCKETS: the bucket that counts an asset of a given status
\* (a retired asset is counted nowhere).
AssetBucket ==
    [available |-> "available", reserved |-> "reserved", issued |-> "issued",
     damaged |-> "damaged", lost |-> "lost", maintenance |-> "needs_fix"]

\* reconcile_individual_product_from_assets: statuses maps the product's asset
\* rows to their status; every bucket becomes a count of rows.
Reconcile(statuses) ==
    LET Count(b) == Cardinality({a \in DOMAIN statuses :
                        /\ statuses[a] \in DOMAIN AssetBucket
                        /\ AssetBucket[statuses[a]] = b})
    IN  Retotal([total     |-> 0,
                 available |-> Count("available"),
                 reserved  |-> Count("reserved"),
                 issued    |-> Count("issued"),
                 damaged   |-> Count("damaged"),
                 lost      |-> Count("lost"),
                 needs_fix |-> Count("needs_fix")])

\* move_asset_status: one unit from the bucket of the old status to that of
\* the new one.
CanMoveAsset(old, new) == {old, new} \subseteq DOMAIN AssetBucket

MoveUnit(s, old, new) ==
    [s EXCEPT ![AssetBucket[old]] = @ - 1, ![AssetBucket[new]] = @ + 1]

\* ... for each asset of S of an individually tracked product, which is
\* reconciled first: the row saved counts the asset rows as moved.
MoveAssets(statuses, S, new) ==
    Reconcile([a \in DOMAIN statuses |->
                  IF a \in S THEN new ELSE statuses[a]])
=============================================================================
