---------------------------- MODULE StaffConsole ----------------------------
(***************************************************************************)
(* The staff console (apps/admin_api) beside the lending services.  Two of *)
(* its handlers decide on, or write back, what they read without a row     *)
(* lock, so any lending service may run between their two halves: the fix  *)
(* action on a serialized asset (views_assets.py) and the PATCH of a       *)
(* product (views_inventory.py), which saves every column of the row.  The *)
(* asset line of a stock transfer (apps/operations) is here as well: it    *)
(* sets statuses under its locks, but without a look at loans.             *)
(***************************************************************************)
EXTENDS HardwareLending

CONSTANTS FixSessions, EditSessions   \* calls of the two handlers in flight

VARIABLES
    fixing,   \* the asset and the status a fix call has decided on
    editing   \* the product row a PATCH has read

console == <<fixing, editing>>
allVars == <<vars, console>>

NoFix == [asset |-> None, target |-> "none"]
NoEdit == [product |-> None]
Edits == [product : Products, row : Row(Nat), tracking : TrackingModes]

ConsoleTypeOK ==
    /\ TypeOK
    /\ fixing \in [FixSessions ->
                     {NoFix} \cup [asset : Assets,
                                   target : {"maintenance", "available"}]]
    /\ editing \in [EditSessions -> {NoEdit} \cup Edits]

ConsoleInit ==
    /\ Init
    /\ fixing = [s \in FixSessions |-> NoFix]
    /\ editing = [d \in EditSessions |-> NoEdit]

-----------------------------------------------------------------------------
\* InventoryAssetStatusActionView.post, first half: tracking mode and status
\* are checked on a read without a lock.
asset_fix_read(s, a, target) ==
    /\ fixing[s] = NoFix
    /\ tracking[AssetProduct[a]] = "individual"
    /\ \/ target = "maintenance" /\ asset[a] \in {"available", "damaged"}
       \/ target = "available" /\ asset[a] = "maintenance"
    /\ fixing' = [fixing EXCEPT ![s] = [asset |-> a, target |-> target]]
    /\ UNCHANGED <<vars, editing>>

\* move_asset_status under the row lock, from whatever the status is by then; a
\* product switched to quantity tracking in between is not reconciled first.
Reconciled(p) ==
    IF tracking[p] = "individual"
    THEN Reconcile([x \in AssetsOf(p) |-> asset[x]]) ELSE stock[p]

CanMoveStatus(a, new) ==
    /\ asset[a] # new /\ CanMoveAsset(asset[a], new)
    /\ Reconciled(AssetProduct[a])[AssetBucket[asset[a]]] >= 1

MoveStatus(a, new) ==
    /\ stock' = [stock EXCEPT ![AssetProduct[a]] =
                    MoveUnit(Reconciled(AssetProduct[a]), asset[a], new)]
    /\ asset' = [asset EXCEPT ![a] = new]

\* ... second half; an asset that already has the target, or that cannot get it,
\* is left alone.
asset_fix_apply(s) ==
    /\ fixing[s] # NoFix
    /\ fixing' = [fixing EXCEPT ![s] = NoFix]
    /\ IF CanMoveStatus(fixing[s].asset, fixing[s].target)
       THEN MoveStatus(fixing[s].asset, fixing[s].target)
       ELSE UNCHANGED <<stock, asset>>
    /\ UNCHANGED <<tracking, request, item, link, loan, returnEvents, report, editing>>

\* _apply_intra_makerspace_line for an asset: a stock transfer may set any
\* status, whoever holds the asset.
transfer_asset(a, to_status) ==
    /\ CanMoveStatus(a, to_status) /\ MoveStatus(a, to_status)
    /\ UNCHANGED <<tracking, request, item, link, loan, returnEvents, report, console>>

\* InventoryDetailView PATCH: get_object reads the row ...
product_patch_read(d, p) ==
    /\ editing[d] = NoEdit
    /\ editing' = [editing EXCEPT ![d] =
                      [product |-> p, row |-> stock[p], tracking |-> tracking[p]]]
    /\ UNCHANGED <<vars, fixing>>

\* ... and serializer.save() writes all of it back, the quantities as read and
\* the tracking mode as read or as patched.
product_patch_save(d, mode) ==
    /\ editing[d] # NoEdit
    /\ stock' = [stock EXCEPT ![editing[d].product] = editing[d].row]
    /\ tracking' = [tracking EXCEPT ![editing[d].product] = mode]
    /\ editing' = [editing EXCEPT ![d] = NoEdit]
    /\ UNCHANGED <<asset, request, item, link, loan, returnEvents, report, fixing>>

-----------------------------------------------------------------------------
ConsoleSteps ==
    \/ \E a \in Assets, to_status \in AssetStatuses : transfer_asset(a, to_status)
    \/ \E s \in FixSessions :
        \/ \E a \in Assets, target \in {"maintenance", "available"} :
                 asset_fix_read(s, a, target)
        \/ asset_fix_apply(s)
    \/ \E d \in EditSessions :
        \/ \E p \in Products : product_patch_read(d, p)
        \/ \E mode \in TrackingModes : product_patch_save(d, mode)

ConsoleNext == (Next /\ UNCHANGED console) \/ ConsoleSteps

ConsoleSpec == ConsoleInit /\ [][ConsoleNext]_allVars

-----------------------------------------------------------------------------
(* Statements of the repository that the unlocked handlers break. *)

\* "Only available or damaged assets can be moved to the fix shelf."
\* (views_assets.py): the fix action never shelves an asset that has been
\* handed out since its status was read.
OnlyFreeAssetsShelved ==
    [][\A s \in FixSessions :
          LET a == fixing[s].asset
          IN  fixing[s] # NoFix /\ fixing'[s] = NoFix /\ fixing[s].target = "maintenance"
                 => \/ Holders(a) = {} \/ asset[a] \in {"available", "damaged"}
                    \/ UNCHANGED asset]_allVars

\* "only inventory availability changes quantity buckets" (ARCHITECTURE.md):
\* a PATCH that edits a product leaves its quantities as they are.
PatchKeepsQuantities ==
    [][\A d \in EditSessions :
          editing[d] # NoEdit /\ editing'[d] = NoEdit => stock' = stock]_allVars
=============================================================================
