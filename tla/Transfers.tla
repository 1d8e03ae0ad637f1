------------------------------ MODULE Transfers ------------------------------
(***************************************************************************)
(* Where stock is and which code leads to it: stock transfers within and   *)
(* across makerspaces (apps/operations), QR codes that are created, rebound*)
(* or revoked and serialized units that move to another makerspace with    *)
(* their code (apps/boxes), and purchases that are received into inventory *)
(* (apps/procurement).  All products of the model have one name, since     *)
(* only namesakes meet; a unit leaves and comes back by the checkout and   *)
(* the return of its code.  Each service is one transaction that locks     *)
(* what it changes, but for the creation of a code, which reads its target *)
(* without a lock.                                                         *)
(***************************************************************************)
EXTENDS Integers, FiniteSets, Sequences
Av == INSTANCE Availability

CONSTANTS
    Spaces,     \* makerspaces
    Shelves,    \* boxes that products lie in
    ShelfSpace, \* Box.makerspace
    Units,      \* InventoryAsset rows
    Codes,      \* QrCode rows that may be created
    Purchases,  \* ToBuyItem rows of kind hardware that have been received
    BuyerOf,    \* ToBuyItem.makerspace
    Nothing,    \* SQL NULL
    InitialRows, InitialUnits, InitialCodes,
    MaxRows     \* bound: rows that transfers and purchases add up to

VARIABLES
    product,   \* InventoryProduct rows, by primary key
    unit,      \* InventoryAsset: product, makerspace and status
    code,      \* QrCode: status, makerspace and target
    lent,      \* the target of a code's open PublicToolLoan
    chosen,    \* the target a creation of a code has read, and its makerspace
    received,  \* purchases that were moved to inventory
    strayed    \* whether a code was created for a target that had moved on

transferVars == <<product, unit, code, lent, chosen, received, strayed>>

ProductIds == DOMAIN product
Targets == ({"product"} \X (1..MaxRows)) \cup ({"asset"} \X Units)

ProductRow == [makerspace : Spaces, box : Shelves \cup {Nothing},
               category : Spaces \cup {Nothing},   \* the makerspace it belongs to
               tracking_mode : {"quantity", "individual"}, stock : Av!Row(Nat)]
UnitRow == [product : 1..MaxRows, makerspace : Spaces, status : {"available", "issued"}]
CodeRow == [status : {"absent", "active", "revoked"}, makerspace : Spaces \cup {Nothing},
            target : Targets \cup {Nothing}]

NoCode == [status |-> "absent", makerspace |-> Nothing, target |-> Nothing]

ASSUME TransfersAssumption ==
    /\ ShelfSpace \in [Shelves -> Spaces] /\ BuyerOf \in [Purchases -> Spaces]
    /\ IsFiniteSet(Units) /\ IsFiniteSet(Purchases)
    /\ Nothing \notin Spaces \cup Shelves \cup Codes /\ MaxRows \in Nat
    /\ InitialRows \in Seq(ProductRow) /\ Len(InitialRows) <= MaxRows
    /\ InitialUnits \in [Units -> UnitRow] /\ InitialCodes \in [Codes -> CodeRow]

TransfersTypeOK ==
    /\ product \in Seq(ProductRow) /\ Len(product) <= MaxRows
    /\ unit \in [Units -> UnitRow]
    /\ code \in [Codes -> CodeRow]
    /\ lent \in [Codes -> Targets \cup {Nothing}]
    /\ chosen \in {Nothing} \cup [target : Targets, makerspace : Spaces]
    /\ received \subseteq Purchases /\ strayed \in BOOLEAN

TransfersInit ==
    /\ product = InitialRows /\ unit = InitialUnits /\ code = InitialCodes
    /\ lent = [c \in Codes |-> Nothing]
    /\ chosen = Nothing /\ received = {} /\ strayed = FALSE

-----------------------------------------------------------------------------
\* .first(): the lowest primary key, or none.
First(S) == IF S = {} THEN 0 ELSE CHOOSE p \in S : \A x \in S : p <= x

\* A row as a transfer, a move or a purchase creates it: empty.
EmptyRow(makerspace, box, category, mode) ==
    [makerspace |-> makerspace, box |-> box, category |-> category,
     tracking_mode |-> mode, stock |-> Av!NewRow(0, 0)]

\* Fault: the units stay in the total of the row they leave.
ShelfOnlyMoved(rows, source, destination, q) ==
    [rows EXCEPT ![source].stock.available = @ - q,
                 ![destination].stock = Av!Adjust(@, q, 0, 0)]

\* transfer_available_quantity
MoveStock(rows, source, destination, q) ==
    [rows EXCEPT ![source].stock.available = @ - q, ![source].stock.total = @ - q,
                 ![destination].stock.available = @ + q,
                 ![destination].stock.total = @ + q]

\* _destination_product
DestinationProducts(p, box) ==
    {d \in ProductIds \ {p} :
        /\ product[d].makerspace = product[p].makerspace /\ product[d].box = box
        /\ product[d].category = product[p].category
        /\ product[d].tracking_mode = "quantity"}

\* _can_move_source_row
CanMoveSourceRow(p, q) ==
    /\ q = product[p].stock.available
    /\ product[p].stock = Av!NewRow(q, q)

\* _apply_intra_makerspace_line for a product (move_quantity_stock): the row
\* itself moves where all of it goes to a box without a namesake.
transfer_within(p, box, q) ==
    LET d == First(DestinationProducts(p, box))
        row == product[p]
    IN  /\ box # Nothing => ShelfSpace[box] = row.makerspace
        /\ row.tracking_mode = "quantity" /\ q > 0 /\ q <= row.stock.available
        /\ \/ d # 0 /\ product' = MoveStock(product, p, d, q)
           \/ d = 0 /\ CanMoveSourceRow(p, q)
              /\ product' = [product EXCEPT ![p].box = box]
           \/ d = 0 /\ ~CanMoveSourceRow(p, q)
              /\ product' = MoveStock(
                    Append(product, EmptyRow(row.makerspace, box, row.category, "quantity")),
                    p, Len(product) + 1, q)
        /\ UNCHANGED <<unit, code, lent, chosen, received, strayed>>

\* The query of _apply_cross_makerspace_line; a category belongs to one
\* makerspace, so a row there never has the category of the source.
NamesakesAt(p, makerspace, box) ==
    {d \in ProductIds : /\ product[d].makerspace = makerspace /\ product[d].box = box
                      /\ product[d].category = product[p].category}

\* _apply_cross_makerspace_line
transfer_across(p, makerspace, box, q) ==
    LET d == First(NamesakesAt(p, makerspace, box))
    IN  /\ makerspace # product[p].makerspace
        /\ box # Nothing => ShelfSpace[box] = makerspace
        /\ product[p].tracking_mode = "quantity"
        /\ q > 0 /\ q <= product[p].stock.available
        /\ \/ d # 0 /\ product[d].tracking_mode = "quantity"
              /\ product' = MoveStock(product, p, d, q)
           \/ d = 0
              /\ product' = MoveStock(
                    Append(product, EmptyRow(makerspace, box, Nothing, "quantity")),
                    p, Len(product) + 1, q)
        /\ UNCHANGED <<unit, code, lent, chosen, received, strayed>>

-----------------------------------------------------------------------------
SpaceOf(t) == IF t[1] = "product" THEN product[t[2]].makerspace ELSE unit[t[2]].makerspace

Exists(t) == t[1] = "product" => t[2] \in ProductIds

\* A code resolves in its own makerspace only.
Resolves(c) ==
    code[c].status = "active" /\ SpaceOf(code[c].target) = code[c].makerspace

QrHasActiveLoan(c) == lent[c] # Nothing

\* Another active code of the target in this makerspace (_target_has_qr and the
\* constraint uniq_active_qr_per_target).
TargetHasQr(c, t, makerspace) ==
    \E x \in Codes \ {c} : code[x] = [status |-> "active", makerspace |-> makerspace,
                                      target |-> t]

\* checkout_tool of a product or an asset: one unit, straight from the shelf.
checkout(c) ==
    LET t == code[c].target
        p == IF t[1] = "product" THEN t[2] ELSE unit[t[2]].product
    IN  /\ code[c].status = "active" /\ Resolves(c) /\ ~QrHasActiveLoan(c)
        /\ IF t[1] = "product"
           THEN product[p].tracking_mode = "quantity" /\ unit' = unit
           ELSE /\ unit[t[2]].status = "available"
                /\ unit' = [unit EXCEPT ![t[2]].status = "issued"]
        /\ Av!CanIssueAvailable(product[p].stock, 1)
        /\ product' = [product EXCEPT ![p].stock = Av!IssueAvailable(@, 1)]
        /\ lent' = [lent EXCEPT ![c] = t]
        /\ UNCHANGED <<code, chosen, received, strayed>>

\* return_tool
return_tool(c) ==
    LET t == lent[c]
        p == IF t[1] = "product" THEN t[2] ELSE unit[t[2]].product
    IN  /\ QrHasActiveLoan(c) /\ code[c].status = "active"
        /\ Av!CanReturnToAvailable(product[p].stock, 1)
        /\ product' = [product EXCEPT ![p].stock = Av!ReturnToAvailable(@, 1)]
        /\ unit' = IF t[1] = "product" THEN unit
                   ELSE [unit EXCEPT ![t[2]].status = "available"]
        /\ lent' = [lent EXCEPT ![c] = Nothing]
        /\ UNCHANGED <<code, chosen, received, strayed>>

\* ProductIds of a makerspace that a move may arrive at.
Candidates(makerspace) == {d \in ProductIds : product[d].makerspace = makerspace}

\* The two adjust_quantities of a move, each on the row as it is by then.
MoveUnitStock(rows, source, destination) ==
    LET out == [rows EXCEPT ![source].stock = Av!Adjust(@, -1, 0, 0)]
    IN  [out EXCEPT ![destination].stock = Av!Adjust(@, 1, 0, 0)]

\* Fault: the code stays behind.
CodeLeftBehind(c, makerspace) == code

\* The code goes with its unit.
CodeMoved(c, makerspace) == [code EXCEPT ![c].makerspace = makerspace]

\* move_asset_across_makerspaces, to the individual product staff name or that
\* is found there, or to a new one where there is no namesake; the makerspace it
\* leaves is the code's.
move_asset(c, makerspace, d) ==
    LET u == code[c].target[2]
        source == unit[u].product
    IN  /\ code[c].status = "active" /\ code[c].target[1] = "asset"
        /\ makerspace # code[c].makerspace
        /\ unit[u].status = "available" /\ ~QrHasActiveLoan(c)
        /\ ~TargetHasQr(c, code[c].target, makerspace)
        /\ Av!CanAdjust(product[source].stock, -1, 0, 0)
        /\ \/ /\ d \in Candidates(makerspace)
              /\ product[d].tracking_mode = "individual"
              /\ product' = MoveUnitStock(product, source, d)
           \/ /\ d = Len(product) + 1 /\ Candidates(makerspace) = {}
              /\ product' = MoveUnitStock(
                    Append(product, EmptyRow(makerspace, Nothing, Nothing, "individual")),
                    source, d)
        /\ unit' = [unit EXCEPT ![u].product = d, ![u].makerspace = makerspace]
        /\ code' = CodeMoved(c, makerspace)
        /\ UNCHANGED <<lent, chosen, received, strayed>>

\* rebind_qr_target, where it moves no asset.
rebind_qr_target(c, t) ==
    /\ code[c].status = "active" /\ ~QrHasActiveLoan(c)
    /\ SpaceOf(t) # code[c].makerspace =>
          code[c].target[1] = "product" /\ t[1] = "product"
    /\ ~TargetHasQr(c, t, SpaceOf(t))
    /\ code' = [code EXCEPT ![c].makerspace = SpaceOf(t), ![c].target = t]
    /\ UNCHANGED <<product, unit, lent, chosen, received, strayed>>

revoke_qr_code(c) ==
    /\ code[c].status = "active" /\ ~QrHasActiveLoan(c)
    /\ code' = [code EXCEPT ![c].status = "revoked"]
    /\ UNCHANGED <<product, unit, lent, chosen, received, strayed>>

\* CreateToolQrView.post: the target is read in its makerspace ...
choose_target(t) ==
    /\ chosen = Nothing
    /\ t[1] = "product" => product[t[2]].tracking_mode = "quantity"
    /\ chosen' = [target |-> t, makerspace |-> SpaceOf(t)]
    /\ UNCHANGED <<product, unit, code, lent, received, strayed>>

\* ... and then its active code there is taken or created.
get_or_create_qr(c) ==
    LET t == chosen.target
    IN  /\ chosen # Nothing /\ chosen' = Nothing
        /\ IF TargetHasQr(Nothing, t, chosen.makerspace) THEN UNCHANGED <<code, strayed>>
           ELSE /\ code[c].status = "absent"
                /\ code' = [code EXCEPT ![c] = [status |-> "active",
                               makerspace |-> chosen.makerspace, target |-> t]]
                /\ strayed' = (strayed \/ SpaceOf(t) # chosen.makerspace)
        /\ UNCHANGED <<product, unit, lent, received>>

-----------------------------------------------------------------------------
\* move_to_inventory, create: a new row, of any tracking mode.
receive_new(i, row, q) ==
    /\ i \notin received
    /\ row.makerspace = BuyerOf[i] /\ row.category \in {Nothing, BuyerOf[i]}
    /\ row.box # Nothing => ShelfSpace[row.box] = BuyerOf[i]
    /\ product' = Append(product, [row EXCEPT !.stock = Av!Adjust(@, q, 0, 0)])
    /\ received' = received \cup {i}
    /\ UNCHANGED <<unit, code, lent, chosen, strayed>>

\* ... and topup: more of a product of the makerspace.
receive_topup(i, p, q) ==
    /\ i \notin received
    /\ product[p].makerspace = BuyerOf[i]
    /\ product' = [product EXCEPT ![p].stock = Av!Adjust(@, q, 0, 0)]
    /\ received' = received \cup {i}
    /\ UNCHANGED <<unit, code, lent, chosen, strayed>>

-----------------------------------------------------------------------------
CONSTANT BoughtQty   \* bound: units of one purchase, all received at once
ASSUME BoughtAssumption == BoughtQty \in Nat

Places == Shelves \cup {Nothing}

StockSteps ==
    \/ \E p \in ProductIds, box \in Places : \E q \in 1..product[p].stock.available :
          \/ transfer_within(p, box, q)
          \/ \E makerspace \in Spaces : transfer_across(p, makerspace, box, q)
    \/ \E i \in Purchases :
          \/ \E row \in {EmptyRow(BuyerOf[i], box, category, mode) : box \in Places,
                           category \in {Nothing, BuyerOf[i]},
                           mode \in {"quantity", "individual"}} :
                receive_new(i, row, BoughtQty)
          \/ \E p \in ProductIds : receive_topup(i, p, BoughtQty)

CodeSteps ==
    \/ \E c \in Codes :
          \/ checkout(c)
          \/ return_tool(c)
          \/ revoke_qr_code(c)
          \/ get_or_create_qr(c)
          \/ \E t \in Targets : Exists(t) /\ rebind_qr_target(c, t)
          \/ \E makerspace \in Spaces, d \in 1..MaxRows : move_asset(c, makerspace, d)
    \/ \E t \in Targets : Exists(t) /\ choose_target(t)

TransfersNext == (StockSteps \/ CodeSteps) /\ Len(product') <= MaxRows

TransfersSpec == TransfersInit /\ [][TransfersNext]_transferVars

-----------------------------------------------------------------------------
\* The units of all rows, one by one, to be counted.
Pieces(rows) == UNION {{p} \X (1..rows[p].stock.total) : p \in DOMAIN rows}

UnitsOf(p, status) == {u \in Units : unit[u].product = p /\ unit[u].status = status}

\* The rows add up to what there was and what was bought,
StockConserved ==
    Cardinality(Pieces(product)) =
       Cardinality(Pieces(InitialRows)) + BoughtQty * Cardinality(received)

\* ... every row to its buckets,
RowsAddUp ==
    \A p \in ProductIds : product[p].stock.total = Av!BucketSum(product[p].stock)

\* ... and a row counts the units that point to it.
UnitsCounted ==
    \A p \in ProductIds : product[p].tracking_mode = "individual" =>
       /\ product[p].stock.available >= Cardinality(UnitsOf(p, "available"))
       /\ product[p].stock.issued = Cardinality(UnitsOf(p, "issued"))

\* However often stock is split, merged, moved between makerspaces, bought and
\* lent, it is all there.
StockAccounted == StockConserved /\ RowsAddUp /\ UnitsCounted

\* Where no code was created for a target that had moved on, an active code
\* resolves in its makerspace and is its target's only one;
CodesResolve ==
    ~strayed => \A c \in Codes : code[c].status = "active" =>
       /\ Resolves(c)
       /\ \A x \in Codes \ {c} :
             code[x].status = "active" => code[x].target # code[c].target

\* ... and while a loan is open its code still leads to what was lent, so that
\* it can be returned.
LoansKeepTheirCode ==
    \A c \in Codes : QrHasActiveLoan(c) =>
       code[c].status = "active" /\ code[c].target = lent[c] /\ Resolves(c)

\* Codes and what they lead to move together.
CodesFollowTargets == CodesResolve /\ LoansKeepTheirCode

-----------------------------------------------------------------------------
\* What the first rows, units and codes have to be.  Rows add up as long as the
\* catalog creates them with all of the total on the shelf; a unit and its code
\* are created in one transaction in the makerspace of their individual product
\* (generate_assets_with_qr), which then counts its units.
StartsInOrder ==
    /\ \A p \in DOMAIN InitialRows :
          LET row == InitialRows[p]
              Of(status) == {u \in Units : /\ InitialUnits[u].product = p
                                          /\ InitialUnits[u].status = status}
          IN  /\ row.stock.total = Av!BucketSum(row.stock)
              /\ row.tracking_mode = "individual" =>
                    /\ row.stock.available >= Cardinality(Of("available"))
                    /\ row.stock.issued = Cardinality(Of("issued"))
    /\ \A u \in Units : LET p == InitialUnits[u].product IN
          /\ p \in DOMAIN InitialRows /\ InitialRows[p].tracking_mode = "individual"
          /\ InitialRows[p].makerspace = InitialUnits[u].makerspace
    /\ \A c \in Codes : InitialCodes[c].status = "active" =>
          LET t == InitialCodes[c].target IN
          /\ IF t[1] = "product"
             THEN /\ t \in {"product"} \X DOMAIN InitialRows
                  /\ InitialCodes[c].makerspace = InitialRows[t[2]].makerspace
             ELSE /\ t \in {"asset"} \X Units
                  /\ InitialCodes[c].makerspace = InitialUnits[t[2]].makerspace
          /\ \A x \in Codes \ {c} :
                InitialCodes[x].status = "active" => InitialCodes[x].target # t

=============================================================================
