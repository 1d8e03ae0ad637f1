--------------------------- MODULE HardwareLending ---------------------------
(***************************************************************************)
(* The custody workflows of one makerspace (apps/hardware_requests): the   *)
(* reviewed request (submit, accept, box, handover, return), the public    *)
(* QR self-checkout and the staff direct handout, over the product rows of *)
(* module Availability, the serialized asset rows, the boxes and the       *)
(* evidence photos.  Every service is one database transaction that holds  *)
(* the row locks of what it reads and writes, hence one action; a call the *)
(* service rejects is rolled back and is no step.  The staff console's     *)
(* handlers that act on an unlocked read are in module StaffConsole.       *)
(***************************************************************************)
EXTENDS Availability

CONSTANTS
    Products, Assets, Boxes, Requests,   \* row identities
    IssuePhotos, ReturnPhotos,           \* EvidencePhoto rows, by evidence_type
    None,                                \* SQL NULL
    AssetProduct,                        \* InventoryAsset.product
    ProductBox, AssetBox,                \* the box a product / an asset lies in
    Subtree,                             \* a box and the boxes nested under it
    InitialStock, InitialTracking, InitialAsset,
    MaxQty,                              \* bound: units named in one call
    MaxDelta,                            \* bound: size of one correction
    MaxTotal                             \* bound: units a product can grow to

Statuses == {"absent", "pending_approval", "rejected", "accepted", "issued",
             "partially_returned", "returned", "closed_with_issue"}
AssetStatuses == {"absent", "available", "reserved", "issued", "damaged",
                  "lost", "retired", "maintenance"}
TrackingModes == {"quantity", "individual"}

\* A QR code is identified with its target (the model keeps one per target).
QRs == Products \cup Assets \cup Boxes

ASSUME LendingAssumption ==
    /\ IsFiniteSet(Requests) /\ IsFiniteSet(Assets)
    /\ None \notin QRs \cup Requests \cup IssuePhotos \cup ReturnPhotos
    /\ Products \cap Assets = {} /\ Products \cap Boxes = {}
    /\ Assets \cap Boxes = {}
    /\ AssetProduct \in [Assets -> Products]
    /\ ProductBox \in [Products -> Boxes \cup {None}]
    /\ AssetBox \in [Assets -> Boxes \cup {None}]
    /\ Subtree \in [Boxes -> SUBSET Boxes]
    /\ \A b \in Boxes : b \in Subtree[b]
    /\ InitialTracking \in [Products -> TrackingModes]
    /\ InitialAsset \in [Assets -> {"absent", "available"}]
    /\ MaxQty \in Nat /\ MaxDelta \in Nat /\ MaxTotal \in Nat
    /\ InitialStock \in [Products -> Row(Nat)]
    /\ \A p \in Products :
          /\ InitialStock[p].available <= InitialStock[p].total
          /\ InitialStock[p] =
                NewRow(InitialStock[p].total, InitialStock[p].available)

VARIABLES
    stock,        \* InventoryProduct: the quantity buckets
    tracking,     \* InventoryProduct.tracking_mode
    asset,        \* InventoryAsset.status
    request,      \* HardwareRequest
    item,         \* HardwareRequestItem, at most one per request and product
    link,         \* HardwareRequestItemAsset.outcome
    loan,         \* PublicToolLoan, one-to-one with its request
    returnEvents, \* how many ReturnEvent rows a request has for each photo
    report        \* PublicProblemReport of a loan

vars == <<stock, tracking, asset, request, item, link, loan, returnEvents,
          report>>

Item(N) == [requested : N, accepted : N, issued : N, returned : N,
            damaged : N, missing : N, needs_fix : N]
NoItem == [requested |-> 0, accepted |-> 0, issued |-> 0, returned |-> 0,
           damaged |-> 0, missing |-> 0, needs_fix |-> 0]

NoRequest == [status |-> "absent", assigned_box |-> None,
              issue_evidence |-> None]

NoLoan == [status |-> "none", source |-> "none", qr_code |-> None,
           qr_ids |-> {}, container |-> None, asset_ids |-> {},
           return_evidence |-> None]

TypeOK ==
    /\ stock \in [Products -> Row(Nat)]
    /\ tracking \in [Products -> TrackingModes]
    /\ asset \in [Assets -> AssetStatuses]
    /\ request \in [Requests -> [status : Statuses,
                                 assigned_box : Boxes \cup {None},
                                 issue_evidence : IssuePhotos \cup {None}]]
    /\ item \in [Requests -> [Products -> Item(Nat)]]
    /\ link \in [Requests -> [Assets ->
                    {"none", "issued", "returned", "damaged", "lost"}]]
    /\ loan \in [Requests ->
                    [status : {"none", "checked_out", "returned"},
                     source : {"none", "public_self_checkout", "admin_direct"},
                     qr_code : QRs \cup {None},
                     qr_ids : SUBSET QRs,
                     container : Boxes \cup {None},
                     asset_ids : SUBSET Assets,
                     return_evidence : ReturnPhotos \cup {None}]]
    /\ returnEvents \in [Requests -> [ReturnPhotos -> Nat]]
    /\ report \in [Requests -> {"none", "open", "triaged"}]

Init ==
    /\ stock = InitialStock
    /\ tracking = InitialTracking
    /\ asset = InitialAsset
    /\ request = [r \in Requests |-> NoRequest]
    /\ item = [r \in Requests |-> [p \in Products |-> NoItem]]
    /\ link = [r \in Requests |-> [a \in Assets |-> "none"]]
    /\ loan = [r \in Requests |-> NoLoan]
    /\ returnEvents = [r \in Requests |-> [e \in ReturnPhotos |-> 0]]
    /\ report = [r \in Requests |-> "none"]

-----------------------------------------------------------------------------
(* What the workflows read. *)

AssetsOf(p) == {a \in Assets : AssetProduct[a] = p}

Active == {"issued", "partially_returned"}

\* remaining_quantity: issued units of an item not yet resolved.
Remaining(it) == it.issued - (it.returned + it.damaged + it.missing)

\* _active_public_container_loan_exists
ContainerLoanExists(b) ==
    \E r \in Requests : loan[r].status = "checked_out" /\ loan[r].container = b

\* The box is out with another reviewed request (the query of assign_box and
\* the constraint uniq_active_loan_per_box).
BoxOutWithRequest(b, except) ==
    \E r \in Requests \ {except} :
        request[r].assigned_box = b /\ request[r].status \in Active

\* Fault: the re-issue gap, only the first QR of a bundle is looked up.
FirstQrHasActiveLoan(q) ==
    \E r \in Requests : loan[r].status = "checked_out" /\ loan[r].qr_code = q

\* qr_has_active_loan: the first QR or any of the bundled ones.
QrHasActiveLoan(q) ==
    \E r \in Requests :
        /\ loan[r].status = "checked_out"
        /\ loan[r].qr_code = q \/ q \in loan[r].qr_ids

\* A photo is single-use: issue_evidence is one-to-one, and a return photo
\* backs neither two loan returns nor two ReturnEvent rows.
IssuePhotoUsed(e) == \E r \in Requests : request[r].issue_evidence = e
LoanReturnUsed(e) == \E r \in Requests : loan[r].return_evidence = e
ReturnEventUsed(e) == \E r \in Requests : returnEvents[r][e] > 0

-----------------------------------------------------------------------------
(* Reviewed requests: request_workflow.py *)

\* submit_request, behind RequestSubmitSerializer: one item per product.
submit_request(r, quantity) ==
    /\ request[r].status = "absent"
    /\ \E p \in Products : quantity[p] > 0
    /\ request' = [request EXCEPT ![r].status = "pending_approval"]
    /\ item' = [item EXCEPT ![r] =
                   [p \in Products |-> [NoItem EXCEPT !.requested = quantity[p]]]]
    /\ UNCHANGED <<stock, tracking, asset, link, loan, returnEvents, report>>

\* assert_individual_assets_available: the AVAILABLE asset rows must cover
\* this request and everything already reserved.
IndividualAssetsAvailable(p, required) ==
    tracking[p] = "individual" /\ required > 0 =>
        Cardinality({a \in AssetsOf(p) : asset[a] = "available"})
            >= required + stock[p].reserved

\* accept_request with the accepted map; reserve_for_request runs under the
\* product row locks and one product it cannot serve rolls back the whole call.
accept_request(r, accepted) ==
    /\ request[r].status = "pending_approval"
    /\ \A p \in Products : accepted[p] <= item[r][p].requested
    /\ \E p \in Products : accepted[p] > 0
    /\ \A p \in Products :
          /\ IndividualAssetsAvailable(p, accepted[p])
          /\ CanReserve(stock[p], accepted[p])
    /\ stock' = [p \in Products |-> Reserve(stock[p], accepted[p])]
    /\ item' = [item EXCEPT ![r] =
                   [p \in Products |->
                       [item[r][p] EXCEPT !.accepted = accepted[p]]]]
    /\ request' = [request EXCEPT ![r].status = "accepted"]
    /\ UNCHANGED <<tracking, asset, link, loan, returnEvents, report>>

reject_request(r) ==
    /\ request[r].status = "pending_approval"
    /\ request' = [request EXCEPT ![r].status = "rejected"]
    /\ UNCHANGED <<stock, tracking, asset, item, link, loan, returnEvents,
                   report>>

-----------------------------------------------------------------------------
(* Handover: handover_workflow.py, handover_issue_helpers.py *)

\* assign_box also records the BoxScan that issue_request asks for; nothing
\* else writes assigned_box, so a request with a box has its scan.
assign_box(r, b) ==
    /\ request[r].status = "accepted"
    /\ ~BoxOutWithRequest(b, r)
    /\ ~ContainerLoanExists(b)
    /\ request' = [request EXCEPT ![r].assigned_box = b]
    /\ UNCHANGED <<stock, tracking, asset, item, link, loan, returnEvents,
                   report>>

\* validate_broken_rejects: counts only, and only of quantity-tracked items.
BrokenRejectsValid(r, broken) ==
    \A p \in Products :
        broken[p] > 0 => /\ broken[p] <= item[r][p].accepted
                         /\ tracking[p] = "quantity"

\* Fault: the scanned assets are matched without their status.
ScansMatchItemsAnyStatus(r, scans) ==
    /\ \A a \in scans : tracking[AssetProduct[a]] = "individual"
    /\ \A p \in Products : tracking[p] = "individual" =>
          Cardinality(scans \cap AssetsOf(p)) = item[r][p].accepted

\* issue_individual_assets: the scanned asset QRs are AVAILABLE assets, exactly
\* the accepted number of each individually tracked item and none besides.
ScansMatchItems(r, scans) ==
    /\ \A a \in scans : asset[a] = "available"
                        /\ tracking[AssetProduct[a]] = "individual"
    /\ \A p \in Products : tracking[p] = "individual" =>
          Cardinality(scans \cap AssetsOf(p)) = item[r][p].accepted

issue_request(r, photo, scans, broken, disposition) ==
    /\ request[r].status = "accepted"
    /\ request[r].assigned_box # None
    /\ ~ContainerLoanExists(request[r].assigned_box)
    /\ BrokenRejectsValid(r, broken)
    /\ ScansMatchItems(r, scans)
    /\ \A p \in Products :
          CanIssueItem(stock[p], item[r][p].accepted, broken[p])
    /\ ~BoxOutWithRequest(request[r].assigned_box, r)
    /\ ~IssuePhotoUsed(photo)
    /\ asset' = [a \in Assets |-> IF a \in scans THEN "issued" ELSE asset[a]]
    /\ link' = [link EXCEPT ![r] =
                   [a \in Assets |-> IF a \in scans THEN "issued" ELSE link[r][a]]]
    /\ stock' = [p \in Products |->
                    IssueItem(stock[p], item[r][p].accepted, broken[p],
                              disposition[p])]
    /\ item' = [item EXCEPT ![r] =
                   [p \in Products |->
                      [item[r][p] EXCEPT
                         !.issued = item[r][p].accepted - broken[p],
                         !.needs_fix = IF disposition[p] = "remove"
                                       THEN 0 ELSE broken[p]]]]
    /\ request' = [request EXCEPT ![r].status = "issued",
                                  ![r].issue_evidence = photo]
    /\ UNCHANGED <<tracking, loan, returnEvents, report>>

-----------------------------------------------------------------------------
(* Returns: return_workflow.py, return_helpers.py *)

Outcomes == {"returned", "damaged", "missing"}

\* OUTCOME_MAP: what an outcome writes to the link and to the asset row.
LinkOutcome == [returned |-> "returned", damaged |-> "damaged", missing |-> "lost"]
AssetOutcome == [returned |-> "available", damaged |-> "damaged", missing |-> "lost"]

\* build_resolutions: what a return resolves of product p.  Quantity-tracked
\* items are resolved by counts; individually tracked ones by the identity of
\* their assets (the count-only form the code also takes names all of them).
Resolved(p, counts, outcome) ==
    IF tracking[p] = "individual"
    THEN [o \in Outcomes |-> Cardinality({a \in AssetsOf(p) : outcome[a] = o})]
    ELSE counts[p]

ResolvedUnits(c) == c["returned"] + c["damaged"] + c["missing"]

\* build_resolutions' checks and those of availability.return_items.
ResolutionsValid(r, counts, outcome) ==
    /\ \A p \in Products :
          LET c == Resolved(p, counts, outcome)
          IN  /\ ResolvedUnits(c) <= Remaining(item[r][p])
              /\ CanReturnItem(stock[p], c["returned"], c["damaged"], c["missing"])
    /\ \E p \in Products : ResolvedUnits(Resolved(p, counts, outcome)) > 0

StockAfterReturn(counts, outcome) ==
    [p \in Products |->
        LET c == Resolved(p, counts, outcome)
        IN  ReturnItem(stock[p], c["returned"], c["damaged"], c["missing"])]

ItemsAfterReturn(r, counts, outcome) ==
    [p \in Products |->
        LET c == Resolved(p, counts, outcome)
        IN  [item[r][p] EXCEPT !.returned = @ + c["returned"],
                               !.damaged  = @ + c["damaged"],
                               !.missing  = @ + c["missing"]]]

\* The row of every asset the return names takes the status of its outcome,
\* whatever its status was.
AssetsAfterReturn(outcome) ==
    [a \in Assets |-> IF outcome[a] \in Outcomes
                      THEN AssetOutcome[outcome[a]] ELSE asset[a]]

\* Fault: only units that came back intact count as resolved.
StatusFromIntactUnits(items) ==
    IF \E p \in Products : items[p].returned # items[p].issued
    THEN "partially_returned" ELSE "returned"

\* finalize_return_status, from the item rows after the return.
StatusAfterReturn(items) ==
    IF \E p \in Products : Remaining(items[p]) # 0 THEN "partially_returned"
    ELSE IF \E p \in Products : items[p].damaged > 0 \/ items[p].missing > 0
         THEN "closed_with_issue" ELSE "returned"

\* return_items of a reviewed loan: the scanned box is the loan's own (a loan
\* without a box cannot take this path), the photo is unused, and the links of
\* the assets named are still out (_flip_exact_asset_links).
return_items(r, photo, counts, outcome) ==
    /\ request[r].status \in Active
    /\ request[r].assigned_box # None
    /\ ~LoanReturnUsed(photo)
    /\ ResolutionsValid(r, counts, outcome)
    /\ ~ReturnEventUsed(photo)
    /\ \A a \in Assets : outcome[a] \in Outcomes => link[r][a] = "issued"
    /\ stock' = StockAfterReturn(counts, outcome)
    /\ item' = [item EXCEPT ![r] = ItemsAfterReturn(r, counts, outcome)]
    /\ returnEvents' = [returnEvents EXCEPT ![r][photo] = @ + 1]
    /\ asset' = AssetsAfterReturn(outcome)
    /\ link' = [link EXCEPT ![r] =
                   [a \in Assets |-> IF outcome[a] \in Outcomes
                                     THEN LinkOutcome[outcome[a]]
                                     ELSE link[r][a]]]
    /\ request' = [request EXCEPT ![r].status =
                      StatusAfterReturn(ItemsAfterReturn(r, counts, outcome))]
    /\ UNCHANGED <<tracking, loan, report>>

-----------------------------------------------------------------------------
(* Handouts without a reviewed request: self_checkout_workflow.py,         *)
(* self_checkout_helpers.py, direct_loan_workflow.py                       *)

\* _checkout_target over the scanned QRs (a box QR, of which a handout has at
\* most one, is scanned last): the assets that leave ...
HandedAssets(qrs) ==
    (qrs \cap Assets)
        \cup {a \in Assets : AssetBox[a] \in qrs /\ asset[a] = "available"}

ScannedUnits(qrs, p) ==
    Cardinality(HandedAssets(qrs) \cap AssetsOf(p)) + (IF p \in qrs THEN 1 ELSE 0)

\* ... the products of which _checkout_box takes one unit each ...
BoxedProducts(qrs) ==
    {p \in Products : ProductBox[p] \in qrs
                      /\ stock[p].available - ScannedUnits(qrs, p) >= 1}

\* ... and the units that leave of each product, manual items included.
HandedUnits(qrs, manual, p) ==
    ScannedUnits(qrs, p) + (IF p \in BoxedProducts(qrs) THEN 1 ELSE 0) + manual[p]

\* The conditions of _checkout_target, _checkout_box, _manual_product and
\* issue_available: each raises, and rolls the handout back, when it fails.
HandoutValid(qrs, manual) ==
    /\ \A q \in qrs : ~QrHasActiveLoan(q)
    /\ \A a \in qrs \cap Assets : asset[a] = "available"
    /\ \A p \in Products :
          /\ p \in qrs \cup BoxedProducts(qrs) \/ manual[p] > 0
                => tracking[p] = "quantity"
          /\ CanIssueAvailable(stock[p], HandedUnits(qrs, manual, p))
    /\ \A b \in qrs \cap Boxes :
          /\ ~ContainerLoanExists(b)
          /\ \/ \E a \in Assets \ qrs : AssetBox[a] = b /\ asset[a] = "available"
             \/ BoxedProducts(qrs) # {}

\* _create_issued_request and PublicToolLoan.objects.create: a request that is
\* born issued, and its loan.
CreateIssuedLoan(r, photo, source, first, qrs, container, manual) ==
    /\ request[r].status = "absent"
    /\ ~IssuePhotoUsed(photo)
    /\ HandoutValid(qrs, manual)
    /\ stock' = [p \in Products |->
                    IssueAvailable(stock[p], HandedUnits(qrs, manual, p))]
    /\ asset' = [a \in Assets |->
                    IF a \in HandedAssets(qrs) THEN "issued" ELSE asset[a]]
    /\ request' = [request EXCEPT ![r].status = "issued",
                                  ![r].issue_evidence = photo]
    /\ item' = [item EXCEPT ![r] =
                   [p \in Products |->
                      LET n == HandedUnits(qrs, manual, p)
                      IN  [NoItem EXCEPT !.requested = n, !.accepted = n,
                                         !.issued = n]]]
    /\ loan' = [loan EXCEPT ![r] =
                   [status |-> "checked_out", source |-> source,
                    qr_code |-> first, qr_ids |-> qrs, container |-> container,
                    asset_ids |-> HandedAssets(qrs), return_evidence |-> None]]
    /\ UNCHANGED <<tracking, link, returnEvents, report>>

NoManual == [p \in Products |-> 0]

\* checkout_tool: one QR, scanned by the member.
checkout_tool(r, q, photo) ==
    CreateIssuedLoan(r, photo, "public_self_checkout", q, {q},
                     IF q \in Boxes THEN q ELSE None, NoManual)

\* The container-only handout must be an empty vessel, nested boxes included.
ContainerEmpty(c) ==
    /\ \A p \in Products : ProductBox[p] \in Subtree[c] => stock[p].available = 0
    /\ \A a \in Assets : AssetBox[a] \in Subtree[c] => asset[a] # "available"

\* issue_direct_loan: staff hand out any bundle of QRs, manual items and at
\* most one container (chosen, or the box whose QR is scanned).
issue_direct_loan(r, photo, first, qrs, manual, container) ==
    /\ container # None \/ qrs # {} \/ \E p \in Products : manual[p] > 0
    /\ container # None => ~ContainerLoanExists(container)
    /\ container # None /\ qrs = {} /\ manual = NoManual
          => ContainerEmpty(container)
    /\ \A b, c \in qrs \cap Boxes : b = c
    /\ container # None => qrs \cap Boxes \subseteq {container}
    /\ IF qrs = {} THEN first = None ELSE first \in qrs
    /\ CreateIssuedLoan(r, photo, "admin_direct", first, qrs,
          IF qrs \cap Boxes = {} THEN container
          ELSE CHOOSE b \in qrs \cap Boxes : TRUE, manual)

\* Fault: any loan of the borrower will do, a returned one too.
AnyLoan(r) == loan[r].status # "none"

\* The loan both return paths look for under its row lock.
CheckedOut(r) == loan[r].status = "checked_out"

\* return_tool: the borrower scans the loan's first QR (of a self-checkout or
\* of a direct handout); everything outstanding goes back to the shelf and
\* every asset of the loan becomes AVAILABLE, whatever its status was.
return_tool(r, photo, report_problem) ==
    /\ CheckedOut(r)
    /\ loan[r].qr_code # None
    /\ ~LoanReturnUsed(photo) /\ ~ReturnEventUsed(photo)
    /\ LET outstanding(p) ==
               IF item[r][p].issued > item[r][p].returned
               THEN item[r][p].issued - item[r][p].returned ELSE 0
       IN  /\ \A p \in Products : CanReturnToAvailable(stock[p], outstanding(p))
           /\ stock' = [p \in Products |->
                           ReturnToAvailable(stock[p], outstanding(p))]
           /\ item' = [item EXCEPT ![r] =
                          [p \in Products |->
                             [item[r][p] EXCEPT !.returned = @ + outstanding(p)]]]
    /\ asset' = [a \in Assets |->
                    IF a \in loan[r].asset_ids THEN "available" ELSE asset[a]]
    /\ loan' = [loan EXCEPT ![r].status = "returned",
                            ![r].return_evidence = photo]
    /\ request' = [request EXCEPT ![r].status = "returned"]
    /\ report' = [report EXCEPT ![r] = IF report_problem THEN "open" ELSE @]
    /\ UNCHANGED <<tracking, link, returnEvents>>

\* Fault: a handout may be returned in part.
PartlyResolved(r, counts, outcome) ==
    \A p \in Products :
        ResolvedUnits(Resolved(p, counts, outcome)) <= Remaining(item[r][p])

\* _require_full_resolution, and no resolution where nothing is outstanding.
FullyResolved(r, counts, outcome) ==
    \A p \in Products :
        ResolvedUnits(Resolved(p, counts, outcome)) = Remaining(item[r][p])

\* return_direct_loan: staff resolve every outstanding unit at once; the assets
\* named are on the loan and still ISSUED (_flip_direct_loan_assets); a loan
\* with nothing outstanding (a container-only handout) takes no resolution.
return_direct_loan(r, photo, counts, outcome) ==
    /\ CheckedOut(r) /\ loan[r].source = "admin_direct"
    /\ ~LoanReturnUsed(photo) /\ ~ReturnEventUsed(photo)
    /\ FullyResolved(r, counts, outcome)
    /\ (\E p \in Products : Remaining(item[r][p]) > 0)
          => ResolutionsValid(r, counts, outcome)
    /\ \A a \in Assets : outcome[a] \in Outcomes =>
          a \in loan[r].asset_ids /\ asset[a] = "issued"
    /\ stock' = StockAfterReturn(counts, outcome)
    /\ item' = [item EXCEPT ![r] = ItemsAfterReturn(r, counts, outcome)]
    /\ asset' = AssetsAfterReturn(outcome)
    /\ returnEvents' = [returnEvents EXCEPT ![r][photo] = @ + 1]
    /\ request' = [request EXCEPT ![r].status =
                      StatusAfterReturn(ItemsAfterReturn(r, counts, outcome))]
    /\ loan' = [loan EXCEPT ![r].status = "returned",
                            ![r].return_evidence = photo]
    /\ UNCHANGED <<tracking, link, report>>

-----------------------------------------------------------------------------
(* Stock corrections around the loans: problem_report_workflow.py,         *)
(* admin_api/views_inventory.py, views_needs_fix.py,                       *)
(* operations/services_qr_assets.py                                        *)

ReportOutcomes == {"no_issue", "damaged", "missing", "needs_fix"}

\* ASSET_STATUS_OUTCOMES: a missing asset, too, becomes DAMAGED.
TriageStatus == [damaged |-> "damaged", missing |-> "damaged",
                 needs_fix |-> "maintenance"]

\* triage_problem_report: up to the issued number of units of an item leave
\* the shelf; of an individually tracked item, that many assets of the loan
\* that are AVAILABLE (moved).
triage_problem_report(r, outcome, quantity, moved) ==
    /\ report[r] = "open"
    /\ report' = [report EXCEPT ![r] = "triaged"]
    /\ IF outcome = "no_issue"
       THEN UNCHANGED <<stock, asset>>
       ELSE /\ \E p \in Products : quantity[p] > 0
            /\ \A p \in Products :
                  /\ quantity[p] <= item[r][p].issued
                  /\ tracking[p] = "individual" =>
                        Cardinality(moved \cap AssetsOf(p)) = quantity[p]
                  /\ tracking[p] = "quantity" =>
                        /\ moved \cap AssetsOf(p) = {}
                        /\ quantity[p] > 0 => CanTriage(stock[p], quantity[p])
            /\ \A a \in moved : a \in loan[r].asset_ids /\ asset[a] = "available"
            /\ stock' = [p \in Products |->
                  IF quantity[p] = 0 THEN stock[p]
                  ELSE IF tracking[p] = "individual"
                  THEN MoveAssets([a \in AssetsOf(p) |-> asset[a]], moved,
                                  TriageStatus[outcome])
                  ELSE Triage(stock[p], quantity[p], outcome)]
            /\ asset' = [a \in Assets |->
                  IF a \in moved THEN TriageStatus[outcome] ELSE asset[a]]
    /\ UNCHANGED <<tracking, request, item, link, loan, returnEvents>>

StockStep(p, row) ==
    /\ stock' = [stock EXCEPT ![p] = row]
    /\ UNCHANGED <<tracking, asset, request, item, link, loan, returnEvents,
                   report>>

\* adjust_quantities (staff adjustment, consumption, stocktake deltas).
adjust_quantities(p, delta_available, delta_damaged, delta_lost) ==
    /\ CanAdjust(stock[p], delta_available, delta_damaged, delta_lost)
    /\ BucketSum(stock[p]) + delta_available + delta_damaged + delta_lost
          <= MaxTotal
    /\ StockStep(p, Adjust(stock[p], delta_available, delta_damaged, delta_lost))

\* NeedsFixActionView: shelve, repair or scrap a count of units of any product.
needs_fix_action(p, action, q) ==
    \/ /\ action = "shelve" /\ CanShelve(stock[p], q)
       /\ StockStep(p, Shelve(stock[p], q))
    \/ /\ action = "repair" /\ CanRepair(stock[p], q)
       /\ StockStep(p, Repair(stock[p], q))
    \/ /\ action = "scrap" /\ CanRepair(stock[p], q)
       /\ StockStep(p, Scrap(stock[p], q))

\* Fault: the product is reconciled with its assets but stays quantity-tracked.
generate_assets_same_mode(p, new) ==
    /\ new # {} /\ new \subseteq AssetsOf(p)
    /\ \A a \in new : asset[a] = "absent"
    /\ asset' = [a \in Assets |-> IF a \in new THEN "available" ELSE asset[a]]
    /\ stock' = [stock EXCEPT ![p] = Reconcile([a \in AssetsOf(p) |-> asset'[a]])]
    /\ UNCHANGED <<tracking, request, item, link, loan, returnEvents, report>>

\* Fault: every asset of the product starts over as AVAILABLE.
generate_assets_afresh(p, new) ==
    /\ new # {} /\ new \subseteq AssetsOf(p)
    /\ \A a \in new : asset[a] = "absent"
    /\ tracking' = [tracking EXCEPT ![p] = "individual"]
    /\ asset' = [a \in Assets |->
                    IF a \in new \/ (a \in AssetsOf(p) /\ asset[a] # "absent")
                    THEN "available" ELSE asset[a]]
    /\ stock' = [stock EXCEPT ![p] = Reconcile([a \in AssetsOf(p) |-> asset'[a]])]
    /\ UNCHANGED <<request, item, link, loan, returnEvents, report>>

\* generate_assets_with_qr: new asset rows for the product, which becomes
\* individually tracked and is reconciled with its rows.
generate_assets_with_qr(p, new) ==
    /\ new # {} /\ new \subseteq AssetsOf(p)
    /\ \A a \in new : asset[a] = "absent"
    /\ tracking' = [tracking EXCEPT ![p] = "individual"]
    /\ asset' = [a \in Assets |-> IF a \in new THEN "available" ELSE asset[a]]
    /\ stock' = [stock EXCEPT ![p] = Reconcile([a \in AssetsOf(p) |-> asset'[a]])]
    /\ UNCHANGED <<request, item, link, loan, returnEvents, report>>

-----------------------------------------------------------------------------
Quantities == [Products -> 0..MaxQty]
Deltas == -MaxDelta..MaxDelta

\* Inputs are named once: a disposition only matters where units are broken, a
\* count only for a quantity-tracked item with units out, an outcome only for
\* an asset of an individually tracked product that the loan handed out.
Dispositions(broken) ==
    {d \in [Products -> {"needs_fix", "remove"}] :
        \A p \in Products : broken[p] = 0 => d[p] = "needs_fix"}
NoCount == [o \in Outcomes |-> 0]
Counts(r) ==
    {counts \in [Products -> [Outcomes -> 0..MaxQty]] :
        \A p \in Products :
            tracking[p] = "individual" \/ item[r][p].issued = 0
               => counts[p] = NoCount}
AssetOutcomes(r) ==
    {outcome \in [Assets -> Outcomes \cup {"none"}] :
        \A a \in Assets : outcome[a] \in Outcomes =>
            /\ tracking[AssetProduct[a]] = "individual"
            /\ link[r][a] # "none" \/ a \in loan[r].asset_ids}

\* The first conjunct of each disjunct is a guard of its action, said before
\* the inputs are enumerated.
ReviewedSteps ==
    \E r \in Requests :
        \/ request[r].status = "absent"
           /\ \E quantity \in Quantities : submit_request(r, quantity)
        \/ request[r].status = "pending_approval"
           /\ \E accepted \in Quantities : accept_request(r, accepted)
        \/ reject_request(r)
        \/ \E b \in Boxes : assign_box(r, b)
        \/ request[r].status = "accepted"
           /\ \E photo \in IssuePhotos, scans \in SUBSET Assets,
                 broken \in Quantities : \E d \in Dispositions(broken) :
                    issue_request(r, photo, scans, broken, d)
        \/ request[r].status \in Active
           /\ \E photo \in ReturnPhotos, counts \in Counts(r),
                 outcome \in AssetOutcomes(r) :
                    return_items(r, photo, counts, outcome)

HandoutSteps ==
    \E r \in Requests :
        \/ \E q \in QRs, photo \in IssuePhotos : checkout_tool(r, q, photo)
        \/ \E photo \in ReturnPhotos, problem \in BOOLEAN :
                 return_tool(r, photo, problem)
        \/ request[r].status = "absent"
           /\ \E photo \in IssuePhotos, qrs \in SUBSET QRs,
                 manual \in Quantities, container \in Boxes \cup {None} :
                 \E first \in qrs \cup {None} :
                    issue_direct_loan(r, photo, first, qrs, manual, container)
        \/ CheckedOut(r)
           /\ \E photo \in ReturnPhotos, counts \in Counts(r),
                 outcome \in AssetOutcomes(r) :
                    return_direct_loan(r, photo, counts, outcome)
        \/ report[r] = "open"
           /\ \E outcome \in ReportOutcomes, quantity \in Quantities,
                 moved \in SUBSET Assets :
                    triage_problem_report(r, outcome, quantity, moved)

StockSteps ==
    \E p \in Products :
        \/ \E da, dd, dl \in Deltas : adjust_quantities(p, da, dd, dl)
        \/ \E action \in {"shelve", "repair", "scrap"}, q \in 1..MaxQty :
                 needs_fix_action(p, action, q)
        \/ \E new \in SUBSET Assets : generate_assets_with_qr(p, new)

Next == ReviewedSteps \/ HandoutSteps \/ StockSteps

Spec == Init /\ [][Next]_vars

-----------------------------------------------------------------------------
(* Properties.  Units(f) tells the units of a count per request apart, so   *)
(* that TotalUnits(f) is the sum of f over the requests.                    *)

Units(f) == UNION {{r} \X (1..f[r]) : r \in Requests}
TotalUnits(f) == Cardinality(Units(f))

\* What accepted requests were promised, and what borrowers still hold.
Promised(p) ==
    [r \in Requests |->
        IF request[r].status = "accepted" THEN item[r][p].accepted ELSE 0]
OnLoan(p) ==
    [r \in Requests |->
        IF request[r].status \in Active THEN Remaining(item[r][p]) ELSE 0]

\* The DB check qty_sum_within_total never has to reject a save: no order of
\* reservations, handovers, scraps, returns, triages and adjustments makes the
\* buckets of a product outgrow its total.
BucketsWithinTotal == \A p \in Products : BucketSum(stock[p]) <= stock[p].total

\* The reserved bucket of a quantity-tracked product is exactly what its
\* accepted requests are owed, so issue_items never lacks reserved stock.
ReservationsBacked ==
    \A p \in Products : tracking[p] = "quantity" =>
        stock[p].reserved = TotalUnits(Promised(p))

\* The issued bucket of a quantity-tracked product is exactly what borrowers
\* of all three flows still hold, so no return fails for lack of issued stock.
LoansBacked ==
    \A p \in Products : tracking[p] = "quantity" =>
        stock[p].issued = TotalUnits(OnLoan(p))

\* The item rows agree with the state of their request: nothing is issued
\* beyond what was accepted, nothing resolved beyond what was issued, a closed
\* request has nothing outstanding, a partly returned one has, and an issue is
\* on record exactly when units came back damaged or not at all.
ItemsMatchStatus ==
    \A r \in Requests :
        LET st == request[r].status
            it == item[r]
        IN  /\ \A p \in Products :
                  /\ it[p].issued <= it[p].accepted
                  /\ it[p].accepted <= it[p].requested
                  /\ Remaining(it[p]) >= 0
                  /\ st \in {"absent", "pending_approval", "rejected"} =>
                        it[p].accepted = 0
                  /\ st = "accepted" => it[p].issued = 0
                  /\ st \in {"returned", "closed_with_issue"} =>
                        Remaining(it[p]) = 0
            /\ st = "partially_returned" =>
                  /\ \E p \in Products : Remaining(it[p]) > 0
                  /\ \E p \in Products : Remaining(it[p]) < it[p].issued
            /\ st \in {"returned", "closed_with_issue"} =>
                  ((\E p \in Products : it[p].damaged > 0 \/ it[p].missing > 0)
                      <=> st = "closed_with_issue")

\* A checked-out PublicToolLoan always sits on an issued request, and closes
\* together with it, whichever of the two return paths is taken.
LoanMatchesRequest ==
    \A r \in Requests :
        /\ loan[r].status = "checked_out" => request[r].status = "issued"
        /\ loan[r].status = "returned" =>
              request[r].status \in {"returned", "closed_with_issue"}
        /\ loan[r].status # "none" => request[r].assigned_box = None

\* The requests in whose custody an asset is.
Holders(a) ==
    {r \in Requests :
        \/ request[r].status \in Active /\ link[r][a] = "issued"
        \/ loan[r].status = "checked_out" /\ a \in loan[r].asset_ids}

\* What the catalog has to be at the start: asset rows are made by
\* generate_assets_with_qr, which makes their product individually tracked
\* first (services_qr_assets.py:80), so a quantity-tracked product has none.
SerializedCatalog ==
    \A a \in Assets : InitialAsset[a] # "absent" =>
        InitialTracking[AssetProduct[a]] = "individual"

\* A serialized asset is in the hands of at most one borrower, and its row
\* says ISSUED exactly while it is: it is neither handed out twice nor left
\* ISSUED by a return of the loan it was on.
AssetOnOneLoan ==
    \A a \in Assets :
        /\ Cardinality(Holders(a)) <= 1
        /\ Holders(a) # {} <=> asset[a] = "issued"

\* Every QR of a bundle, not only the first, is on at most one open loan.
QrOnOneLoan ==
    \A q \in QRs, r1, r2 \in Requests :
        (/\ loan[r1].status = "checked_out" /\ q \in loan[r1].qr_ids
         /\ loan[r2].status = "checked_out" /\ q \in loan[r2].qr_ids) => r1 = r2

\* Ways a box can be out: with a reviewed request, or as a loan's container.
BoxOutWith(b) ==
    {r \in Requests : request[r].status \in Active /\ request[r].assigned_box = b}
ContainerOf(b) ==
    {r \in Requests : loan[r].status = "checked_out" /\ loan[r].container = b}

\* A closed or rejected request is final: no later call changes its status,
\* its items or its issue photo.
ClosedIsFinal ==
    [][\A r \in Requests :
          request[r].status \in {"rejected", "returned", "closed_with_issue"} =>
             request'[r] = request[r] /\ item'[r] = item[r]]_vars

-----------------------------------------------------------------------------
(* Where the units are, as module Custody sees it. *)

PhaseOf ==
    [absent |-> "none", pending_approval |-> "asked", accepted |-> "promised",
     issued |-> "out", partially_returned |-> "out", returned |-> "over",
     closed_with_issue |-> "over", rejected |-> "over"]

PhaseNow == [r \in Requests |-> PhaseOf[request[r].status]]
InHand ==
    [r \in Requests |-> [p \in Products |-> Promised(p)[r] + OnLoan(p)[r]]]
BroughtBack == [r \in Requests |-> [p \in Products |-> item[r][p].returned]]
Spoilt ==
    [r \in Requests |-> [p \in Products |->
        item[r][p].damaged + item[r][p].missing + item[r][p].needs_fix]]
OnShelf == [p \in Products |-> stock[p].available]
SetAside ==
    [p \in Products |->
        stock[p].damaged + stock[p].lost + stock[p].needs_fix]

Ledger == INSTANCE Custody WITH
    phase <- PhaseNow, held <- InHand, back <- BroughtBack, spoilt <- Spoilt,
    shelf <- OnShelf, aside <- SetAside

\* Item rows and product rows tell one story, step by step: what a lending
\* service books on the item of a request (returned, damaged, missing, broken
\* at the handover) is what it moves between the buckets of the product, for
\* every product at once, and no correction of the stock touches a request.
UnitsInCustody == Ledger!Spec

-----------------------------------------------------------------------------
(* Statements of the repository that the code does not keep. *)

\* "A physical container can only be out on one active handout at a time"
\* (direct_loan_workflow.py:66).
BoxOutOnce ==
    \A b \in Boxes : Cardinality(BoxOutWith(b) \cup ContainerOf(b)) <= 1

\* "a unit that is accepted-but-not-yet-issued still leaves its asset row
\* AVAILABLE while reserved_quantity is incremented" (availability.py:416-418).
IndividualReservationsKept ==
    \A p \in Products : tracking[p] = "individual" =>
        stock[p].reserved >= TotalUnits(Promised(p))

\* issued --> returned (ARCHITECTURE.md): a reviewed loan that is out has
\* units to return, without which return_items cannot close it.
IssuedIsReturnable ==
    \A r \in Requests :
        request[r].status \in Active /\ loan[r].status = "none" =>
            \E p \in Products : Remaining(item[r][p]) > 0
=============================================================================
