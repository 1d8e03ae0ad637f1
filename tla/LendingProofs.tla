---------------------------- MODULE LendingProofs ----------------------------
(***************************************************************************)
(* Theorems about HardwareLending, for every catalog, every number of      *)
(* requests and photos and every bound: what the operators of Availability *)
(* preserve (from a row that satisfies the database's checks, no negative  *)
(* bucket and the buckets within the total, every adjustment that passes   *)
(* its guard yields such a row), the types and the soundness of every      *)
(* product row, and the lemmas on sums over the requests that module       *)
(* CustodyProofs builds on (a step of one request changes one summand,     *)
(* TotalUnitsChange).                                                      *)
(***************************************************************************)
EXTENDS HardwareLending, CountingProofs

\* The CHECK constraints of InventoryProduct (inventory/models.py).
Sound(s) == s \in Row(Nat) /\ BucketSum(s) <= s.total

\* Units that are in the building but cannot be lent.
Aside(s) == s.damaged + s.lost + s.needs_fix

-----------------------------------------------------------------------------
\* A fresh catalog row is sound.
LEMMA NewRowSound ==
    ASSUME NEW total \in Nat, NEW available \in Nat, available <= total
    PROVE  Sound(NewRow(total, available))
BY DEF Sound, NewRow, Row, BucketSum

LEMMA RetotalSound ==
    ASSUME NEW s \in Row(Nat)
    PROVE  Sound(Retotal(s))
BY DEF Sound, Retotal, Row, BucketSum

LEMMA ReserveSound ==
    ASSUME NEW s, Sound(s), NEW q \in Nat, CanReserve(s, q)
    PROVE  /\ Sound(Reserve(s, q))
           /\ Reserve(s, q).reserved = s.reserved + q
           /\ Reserve(s, q).available = s.available - q /\ Aside(Reserve(s, q)) = Aside(s)
           /\ Reserve(s, q).issued = s.issued
<1> DEFINE t == Reserve(s, q)
<1>1. s \in Row(Nat) /\ BucketSum(s) <= s.total
  BY DEF Sound
<1>2. (s.available - q) \in Nat /\ (s.reserved + q) \in Nat
  BY <1>1 DEF Row, BucketSum, CanReserve
<1>3. t \in Row(Nat)
  BY <1>1, <1>2 DEF Row, Reserve
<1>4. /\ t.total = s.total /\ t.available = s.available - q
      /\ t.reserved = s.reserved + q /\ t.issued = s.issued
      /\ t.damaged = s.damaged /\ t.lost = s.lost
      /\ t.needs_fix = s.needs_fix
  BY <1>1, <1>2 DEF Row, Reserve
<1>5. Sound(t)
  <2> HIDE DEF t
  <2> QED
    BY <1>1, <1>2, <1>3, <1>4 DEF Sound, Row, BucketSum, CanReserve
<1>6. Aside(t) = Aside(s)
  BY <1>4 DEF Aside
<1> QED
  BY <1>4, <1>5, <1>6


LEMMA IssueItemSound ==
    ASSUME NEW s, Sound(s), NEW accepted \in Nat, NEW broken \in Nat,
           NEW disposition, CanIssueItem(s, accepted, broken)
    PROVE  LET t == IssueItem(s, accepted, broken, disposition)
           IN  /\ Sound(t)
               /\ t.available = s.available
               /\ Aside(t) = Aside(s) + (IF disposition = "remove" THEN 0 ELSE broken)
               /\ t.reserved = s.reserved - accepted
               /\ t.issued = s.issued + (accepted - broken)
<1>1. CASE disposition = "remove"
  <2> DEFINE t == IssueItem(s, accepted, broken, disposition)
  <2>1. s \in Row(Nat) /\ BucketSum(s) <= s.total
    BY DEF Sound
  <2>2. (s.reserved - accepted) \in Nat /\ (s.issued + (accepted - broken)) \in Nat /\ (s.total - broken) \in Nat
    BY <2>1 DEF Row, BucketSum, CanIssueItem
  <2>3. t \in Row(Nat)
    BY <1>1, <2>1, <2>2 DEF Row, IssueItem
  <2>4. /\ t.total = s.total - broken /\ t.available = s.available
        /\ t.reserved = s.reserved - accepted /\ t.issued = s.issued + (accepted - broken)
        /\ t.damaged = s.damaged /\ t.lost = s.lost
        /\ t.needs_fix = s.needs_fix
    BY <1>1, <2>1, <2>2 DEF Row, IssueItem
  <2>5. Sound(t)
    <3> HIDE DEF t
    <3> QED
      BY <2>1, <2>2, <2>3, <2>4 DEF Sound, Row, BucketSum, CanIssueItem
  <2>6. Aside(t) = Aside(s)
    BY <2>4 DEF Aside
  <2>7. Aside(s) = Aside(s) + 0
    BY <2>1 DEF Aside, Row
  <2> QED
    BY <1>1, <2>4, <2>5, <2>6, <2>7
<1>2. CASE disposition # "remove"
  <2> DEFINE t == IssueItem(s, accepted, broken, disposition)
  <2>1. s \in Row(Nat) /\ BucketSum(s) <= s.total
    BY DEF Sound
  <2>2. (s.reserved - accepted) \in Nat /\ (s.issued + (accepted - broken)) \in Nat /\ (s.needs_fix + broken) \in Nat
    BY <2>1 DEF Row, BucketSum, CanIssueItem
  <2>3. t \in Row(Nat)
    BY <1>2, <2>1, <2>2 DEF Row, IssueItem
  <2>4. /\ t.total = s.total /\ t.available = s.available
        /\ t.reserved = s.reserved - accepted /\ t.issued = s.issued + (accepted - broken)
        /\ t.damaged = s.damaged /\ t.lost = s.lost
        /\ t.needs_fix = s.needs_fix + broken
    BY <1>2, <2>1, <2>2 DEF Row, IssueItem
  <2>5. Sound(t)
    <3> HIDE DEF t
    <3> QED
      BY <2>1, <2>2, <2>3, <2>4 DEF Sound, Row, BucketSum, CanIssueItem
  <2>6. Aside(t) = Aside(s) + broken
    <3> HIDE DEF t
    <3> QED
      BY <2>1, <2>4 DEF Aside, Row
  <2> QED
    BY <1>2, <2>4, <2>5, <2>6
<1> QED
  BY <1>1, <1>2


LEMMA IssueAvailableSound ==
    ASSUME NEW s, Sound(s), NEW q \in Nat, CanIssueAvailable(s, q)
    PROVE  /\ Sound(IssueAvailable(s, q))
           /\ IssueAvailable(s, q).reserved = s.reserved
           /\ IssueAvailable(s, q).available = s.available - q /\ Aside(IssueAvailable(s, q)) = Aside(s)
           /\ IssueAvailable(s, q).issued = s.issued + q
<1> DEFINE t == IssueAvailable(s, q)
<1>1. s \in Row(Nat) /\ BucketSum(s) <= s.total
  BY DEF Sound
<1>2. (s.available - q) \in Nat /\ (s.issued + q) \in Nat
  BY <1>1 DEF Row, BucketSum, CanIssueAvailable
<1>3. t \in Row(Nat)
  BY <1>1, <1>2 DEF Row, IssueAvailable
<1>4. /\ t.total = s.total /\ t.available = s.available - q
      /\ t.reserved = s.reserved /\ t.issued = s.issued + q
      /\ t.damaged = s.damaged /\ t.lost = s.lost
      /\ t.needs_fix = s.needs_fix
  BY <1>1, <1>2 DEF Row, IssueAvailable
<1>5. Sound(t)
  <2> HIDE DEF t
  <2> QED
    BY <1>1, <1>2, <1>3, <1>4 DEF Sound, Row, BucketSum, CanIssueAvailable
<1>6. Aside(t) = Aside(s)
  BY <1>4 DEF Aside
<1> QED
  BY <1>4, <1>5, <1>6


LEMMA ReturnToAvailableSound ==
    ASSUME NEW s, Sound(s), NEW q \in Nat, CanReturnToAvailable(s, q)
    PROVE  /\ Sound(ReturnToAvailable(s, q))
           /\ ReturnToAvailable(s, q).reserved = s.reserved
           /\ ReturnToAvailable(s, q).available = s.available + q /\ Aside(ReturnToAvailable(s, q)) = Aside(s)
           /\ ReturnToAvailable(s, q).issued = s.issued - q
<1> DEFINE t == ReturnToAvailable(s, q)
<1>1. s \in Row(Nat) /\ BucketSum(s) <= s.total
  BY DEF Sound
<1>2. (s.issued - q) \in Nat /\ (s.available + q) \in Nat
  BY <1>1 DEF Row, BucketSum, CanReturnToAvailable
<1>3. t \in Row(Nat)
  BY <1>1, <1>2 DEF Row, ReturnToAvailable
<1>4. /\ t.total = s.total /\ t.available = s.available + q
      /\ t.reserved = s.reserved /\ t.issued = s.issued - q
      /\ t.damaged = s.damaged /\ t.lost = s.lost
      /\ t.needs_fix = s.needs_fix
  BY <1>1, <1>2 DEF Row, ReturnToAvailable
<1>5. Sound(t)
  <2> HIDE DEF t
  <2> QED
    BY <1>1, <1>2, <1>3, <1>4 DEF Sound, Row, BucketSum, CanReturnToAvailable
<1>6. Aside(t) = Aside(s)
  BY <1>4 DEF Aside
<1> QED
  BY <1>4, <1>5, <1>6


LEMMA ReturnItemSound ==
    ASSUME NEW s, Sound(s),
           NEW returned \in Nat, NEW damaged \in Nat, NEW missing \in Nat,
           CanReturnItem(s, returned, damaged, missing)
    PROVE  LET t == ReturnItem(s, returned, damaged, missing)
           IN  /\ Sound(t)
               /\ t.available = s.available + returned
               /\ Aside(t) = Aside(s) + (damaged + missing)
               /\ t.reserved = s.reserved
               /\ t.issued = s.issued - (returned + damaged + missing)
<1> DEFINE t == ReturnItem(s, returned, damaged, missing)
<1>1. s \in Row(Nat) /\ BucketSum(s) <= s.total
  BY DEF Sound
<1>2. (s.issued - (returned + damaged + missing)) \in Nat /\ (s.available + returned) \in Nat /\ (s.damaged + damaged) \in Nat /\ (s.lost + missing) \in Nat
  BY <1>1 DEF Row, BucketSum, CanReturnItem
<1>3. t \in Row(Nat)
  BY <1>1, <1>2 DEF Row, ReturnItem
<1>4. /\ t.total = s.total /\ t.available = s.available + returned
      /\ t.reserved = s.reserved /\ t.issued = s.issued - (returned + damaged + missing)
      /\ t.damaged = s.damaged + damaged /\ t.lost = s.lost + missing
      /\ t.needs_fix = s.needs_fix
  BY <1>1, <1>2 DEF Row, ReturnItem
<1>5. Sound(t)
  <2> HIDE DEF t
  <2> QED
    BY <1>1, <1>2, <1>3, <1>4 DEF Sound, Row, BucketSum, CanReturnItem
<1>6. Aside(t) = Aside(s) + (damaged + missing)
  <2> HIDE DEF t
  <2> QED
    BY <1>1, <1>4 DEF Aside, Row
<1> QED
  BY <1>4, <1>5, <1>6


LEMMA AdjustSound ==
    ASSUME NEW s, Sound(s), NEW da \in Int, NEW dd \in Int, NEW dl \in Int,
           CanAdjust(s, da, dd, dl)
    PROVE  /\ Sound(Adjust(s, da, dd, dl))
           /\ Adjust(s, da, dd, dl).reserved = s.reserved
           /\ Adjust(s, da, dd, dl).issued = s.issued
<1> DEFINE t == [s EXCEPT !.available = @ + da, !.damaged = @ + dd, !.lost = @ + dl]
<1> s \in Row(Nat)
  BY DEF Sound
<1>0. s.available + da \in Nat /\ s.damaged + dd \in Nat /\ s.lost + dl \in Nat
  BY DEF Row, CanAdjust
<1>1. t \in Row(Nat) /\ t.reserved = s.reserved /\ t.issued = s.issued
  BY <1>0 DEF Row
<1>2. Adjust(s, da, dd, dl) = Retotal(t)
  BY DEF Adjust
<1>3. Retotal(t).reserved = t.reserved /\ Retotal(t).issued = t.issued
  BY <1>1 DEF Retotal, Row
<1> QED
  BY <1>1, <1>2, <1>3, RetotalSound

LEMMA TriageSound ==
    ASSUME NEW s, Sound(s), NEW q \in Nat, CanTriage(s, q),
           NEW outcome \in {"damaged", "missing", "needs_fix"}
    PROVE  /\ Sound(Triage(s, q, outcome))
           /\ Triage(s, q, outcome).reserved = s.reserved
           /\ Triage(s, q, outcome).issued = s.issued
<1>1. CASE outcome = "damaged"
  <2>1. CanAdjust(s, -q, q, 0)
    BY DEF CanTriage, CanAdjust, Sound, Row
  <2>2. Triage(s, q, outcome) = Adjust(s, -q, q, 0)
    BY <1>1 DEF Triage
  <2> QED
    BY <2>1, <2>2, AdjustSound
<1>2. CASE outcome = "missing"
  <2>1. CanAdjust(s, -q, 0, q)
    BY DEF CanTriage, CanAdjust, Sound, Row
  <2>2. Triage(s, q, outcome) = Adjust(s, -q, 0, q)
    BY <1>2 DEF Triage
  <2> QED
    BY <2>1, <2>2, AdjustSound
<1>3. CASE outcome = "needs_fix"
  <2> DEFINE t == [s EXCEPT !.available = @ - q, !.needs_fix = @ + q]
  <2> s \in Row(Nat)
    BY DEF Sound
  <2>0. s.available - q \in Nat /\ s.needs_fix + q \in Nat
    BY DEF CanTriage, Row
  <2>1. t \in Row(Nat) /\ t.reserved = s.reserved /\ t.issued = s.issued
    BY <2>0 DEF Row
  <2>2. Triage(s, q, outcome) = Retotal(t)
    BY <1>3 DEF Triage
  <2>3. Retotal(t).reserved = t.reserved /\ Retotal(t).issued = t.issued
    BY <2>1 DEF Retotal, Row
  <2> QED
    BY <2>1, <2>2, <2>3, RetotalSound
<1> QED
  BY <1>1, <1>2, <1>3

LEMMA ShelveSound ==
    ASSUME NEW s, Sound(s), NEW q \in Nat, CanShelve(s, q)
    PROVE  /\ Sound(Shelve(s, q))
           /\ Shelve(s, q).reserved = s.reserved
           /\ Shelve(s, q).issued = s.issued
<1> DEFINE t == Shelve(s, q)
<1>1. s \in Row(Nat) /\ BucketSum(s) <= s.total
  BY DEF Sound
<1>2. (s.available - q) \in Nat /\ (s.needs_fix + q) \in Nat
  BY <1>1 DEF Row, BucketSum, CanShelve
<1>3. t \in Row(Nat)
  BY <1>1, <1>2 DEF Row, Shelve
<1>4. /\ t.total = s.total /\ t.available = s.available - q
      /\ t.reserved = s.reserved /\ t.issued = s.issued
      /\ t.damaged = s.damaged /\ t.lost = s.lost
      /\ t.needs_fix = s.needs_fix + q
  BY <1>1, <1>2 DEF Row, Shelve
<1>5. Sound(t)
  <2> HIDE DEF t
  <2> QED
    BY <1>1, <1>2, <1>3, <1>4 DEF Sound, Row, BucketSum, CanShelve
<1> QED
  BY <1>4, <1>5


LEMMA RepairSound ==
    ASSUME NEW s, Sound(s), NEW q \in Nat, CanRepair(s, q)
    PROVE  /\ Sound(Repair(s, q))
           /\ Repair(s, q).reserved = s.reserved
           /\ Repair(s, q).issued = s.issued
<1> DEFINE t == Repair(s, q)
<1>1. s \in Row(Nat) /\ BucketSum(s) <= s.total
  BY DEF Sound
<1>2. (s.needs_fix - q) \in Nat /\ (s.available + q) \in Nat
  BY <1>1 DEF Row, BucketSum, CanRepair
<1>3. t \in Row(Nat)
  BY <1>1, <1>2 DEF Row, Repair
<1>4. /\ t.total = s.total /\ t.available = s.available + q
      /\ t.reserved = s.reserved /\ t.issued = s.issued
      /\ t.damaged = s.damaged /\ t.lost = s.lost
      /\ t.needs_fix = s.needs_fix - q
  BY <1>1, <1>2 DEF Row, Repair
<1>5. Sound(t)
  <2> HIDE DEF t
  <2> QED
    BY <1>1, <1>2, <1>3, <1>4 DEF Sound, Row, BucketSum, CanRepair
<1> QED
  BY <1>4, <1>5

LEMMA ScrapSound ==
    ASSUME NEW s, Sound(s), NEW q \in Nat, CanRepair(s, q)
    PROVE  /\ Sound(Scrap(s, q))
           /\ Scrap(s, q).reserved = s.reserved
           /\ Scrap(s, q).issued = s.issued
<1> DEFINE t == Scrap(s, q)
<1>1. s \in Row(Nat) /\ BucketSum(s) <= s.total
  BY DEF Sound
<1>2. (s.needs_fix - q) \in Nat /\ (s.total - q) \in Nat
  BY <1>1 DEF Row, BucketSum, CanRepair
<1>3. t \in Row(Nat)
  BY <1>1, <1>2 DEF Row, Scrap
<1>4. /\ t.total = s.total - q /\ t.available = s.available
      /\ t.reserved = s.reserved /\ t.issued = s.issued
      /\ t.damaged = s.damaged /\ t.lost = s.lost
      /\ t.needs_fix = s.needs_fix - q
  BY <1>1, <1>2 DEF Row, Scrap
<1>5. Sound(t)
  <2> HIDE DEF t
  <2> QED
    BY <1>1, <1>2, <1>3, <1>4 DEF Sound, Row, BucketSum, CanRepair
<1> QED
  BY <1>4, <1>5

\* A reconciled row counts rows, so it is sound whatever the statuses are.
LEMMA ReconcileSound ==
    ASSUME NEW statuses, IsFiniteSet(DOMAIN statuses)
    PROVE  Sound(Reconcile(statuses))
<1> DEFINE Count(b) == Cardinality({a \in DOMAIN statuses :
                        /\ statuses[a] \in DOMAIN AssetBucket
                        /\ AssetBucket[statuses[a]] = b})
<1>1. \A b : Count(b) \in Nat
  <2> TAKE b
  <2> DEFINE T == {a \in DOMAIN statuses :
                        /\ statuses[a] \in DOMAIN AssetBucket
                        /\ AssetBucket[statuses[a]] = b}
  <2>1. T \in SUBSET DOMAIN statuses
    OBVIOUS
  <2>2. IsFiniteSet(T)
    BY <2>1, FS_Subset
  <2> QED
    BY <2>2, FS_CardinalityType
<1> DEFINE t == [total     |-> 0,
                 available |-> Count("available"),
                 reserved  |-> Count("reserved"),
                 issued    |-> Count("issued"),
                 damaged   |-> Count("damaged"),
                 lost      |-> Count("lost"),
                 needs_fix |-> Count("needs_fix")]
<1>2. t \in Row(Nat)
  <2> HIDE DEF Count
  <2> QED
    BY <1>1 DEF Row
<1>3. Reconcile(statuses) = Retotal(t)
  BY DEF Reconcile
<1> QED
  BY <1>2, <1>3, RetotalSound

-----------------------------------------------------------------------------
(* Sums over the requests. *)

LEMMA TotalUnitsChange ==
    ASSUME NEW f \in [Requests -> Nat], NEW g \in [Requests -> Nat],
           NEW r \in Requests, \A x \in Requests : x # r => g[x] = f[x]
    PROVE  /\ TotalUnits(f) \in Nat
           /\ TotalUnits(g) = TotalUnits(f) - f[r] + g[r]
<1>1. IsFiniteSet(Requests)
  BY LendingAssumption DEF LendingAssumption
<1>2. Units(f) = PieceSet(f) /\ Units(g) = PieceSet(g)
  BY DEF Units, PieceSet
<1> QED
  BY <1>1, <1>2, OnePieceChanges, PiecesFinite, FS_CardinalityType DEF TotalUnits

LEMMA TotalUnitsZero ==
    ASSUME NEW f, \A r \in Requests : f[r] = 0
    PROVE  TotalUnits(f) = 0
<1>1. Units(f) = {}
  BY DEF Units
<1> QED
  BY <1>1, FS_EmptySet DEF TotalUnits

-----------------------------------------------------------------------------
(* Types and sound rows. *)

TypesAndRows == TypeOK /\ \A p \in Products : Sound(stock[p])

\* The conjuncts, one per variable, so that a step's proof names the variables
\* it touches and leaves the others folded.
TrackingType(x) == x \in [Products -> TrackingModes]
AssetType(x) == x \in [Assets -> AssetStatuses]
RequestType(x) ==
    x \in [Requests -> [status : Statuses,
                        assigned_box : Boxes \cup {None},
                        issue_evidence : IssuePhotos \cup {None}]]
ItemType(x) == x \in [Requests -> [Products -> Item(Nat)]]
LinkType(x) ==
    x \in [Requests -> [Assets -> {"none", "issued", "returned", "damaged", "lost"}]]
LoanRow ==
    [status : {"none", "checked_out", "returned"},
     source : {"none", "public_self_checkout", "admin_direct"},
     qr_code : QRs \cup {None},
     qr_ids : SUBSET QRs,
     container : Boxes \cup {None},
     asset_ids : SUBSET Assets,
     return_evidence : ReturnPhotos \cup {None}]
LoanType(x) == x \in [Requests -> LoanRow]
EventsType(x) == x \in [Requests -> [ReturnPhotos -> Nat]]
ReportType(x) == x \in [Requests -> {"none", "open", "triaged"}]
StockType(x) == /\ x = [p \in Products |-> x[p]]
                /\ \A p \in Products : Sound(x[p])

LEMMA TypesSplit ==
    TypesAndRows <=>
        /\ StockType(stock) /\ TrackingType(tracking) /\ AssetType(asset)
        /\ RequestType(request) /\ ItemType(item) /\ LinkType(link)
        /\ LoanType(loan) /\ EventsType(returnEvents) /\ ReportType(report)
<1>1. StockType(stock) <=> /\ stock \in [Products -> Row(Nat)]
                           /\ \A p \in Products : Sound(stock[p])
  BY DEF StockType, Sound
<1> QED
  BY <1>1 DEF TypesAndRows, TypeOK, TrackingType, AssetType, RequestType,
     ItemType, LinkType, LoanType, LoanRow, EventsType, ReportType

LEMMA TypesSplitPrime ==
    TypesAndRows' <=>
        /\ StockType(stock') /\ TrackingType(tracking') /\ AssetType(asset')
        /\ RequestType(request') /\ ItemType(item') /\ LinkType(link')
        /\ LoanType(loan') /\ EventsType(returnEvents') /\ ReportType(report')
<1>1. StockType(stock') <=> /\ stock' \in [Products -> Row(Nat)]
                            /\ \A p \in Products : Sound(stock'[p])
  BY DEF StockType, Sound
<1> QED
  BY <1>1 DEF TypesAndRows, TypeOK, TrackingType, AssetType, RequestType,
     ItemType, LinkType, LoanType, LoanRow, EventsType, ReportType

LEMMA InitTypes == Init => TypesAndRows
<1> SUFFICES ASSUME Init PROVE TypesAndRows
  OBVIOUS
<1> USE LendingAssumption DEF LendingAssumption
<1>2. \A p \in Products : Sound(stock[p])
  <2> TAKE p \in Products
  <2>1. /\ InitialStock[p].total \in Nat /\ InitialStock[p].available \in Nat
        /\ InitialStock[p].available <= InitialStock[p].total
    BY DEF Row
  <2>2. stock[p] = NewRow(InitialStock[p].total, InitialStock[p].available)
    BY DEF Init
  <2> QED
    BY <2>1, <2>2, NewRowSound
<1>3. StockType(stock)
  BY <1>2 DEF Init, StockType
<1>4. TrackingType(tracking) /\ AssetType(asset)
  BY DEF Init, TrackingType, AssetType, AssetStatuses
<1>5. RequestType(request)
  BY DEF Init, RequestType, NoRequest, Statuses
<1>6. ItemType(item)
  BY DEF Init, ItemType, NoItem, Item
<1>7. LinkType(link) /\ EventsType(returnEvents) /\ ReportType(report)
  BY DEF Init, LinkType, EventsType, ReportType
<1>8. LoanType(loan)
  BY DEF Init, LoanType, LoanRow, NoLoan
<1> QED
  BY <1>3, <1>4, <1>5, <1>6, <1>7, <1>8, TypesSplit

\* A product's assets are finitely many, so a reconciled row is sound.
LEMMA ReconcileAssets ==
    ASSUME NEW p, NEW f, DOMAIN f = AssetsOf(p)
    PROVE  Sound(Reconcile(f))
<1>1. IsFiniteSet(AssetsOf(p))
  BY LendingAssumption, FS_Subset DEF LendingAssumption, AssetsOf
<1> QED
  BY <1>1, ReconcileSound

LEMMA MoveAssetsSound ==
    ASSUME NEW p, NEW f, DOMAIN f = AssetsOf(p), NEW S, NEW new
    PROVE  Sound(MoveAssets(f, S, new))
BY ReconcileAssets DEF MoveAssets

\* Only the items of one request change.
LEMMA ItemUpdate ==
    ASSUME ItemType(item), NEW r \in Requests,
           NEW items \in [Products -> Item(Nat)]
    PROVE  ItemType([item EXCEPT ![r] = items])
BY DEF ItemType

LEMMA StatusUpdate ==
    ASSUME RequestType(request), NEW r \in Requests, NEW st \in Statuses
    PROVE  RequestType([request EXCEPT ![r].status = st])
BY DEF RequestType

LEMMA IssueUpdate ==
    ASSUME RequestType(request), NEW r \in Requests, NEW st \in Statuses,
           NEW photo \in IssuePhotos
    PROVE  RequestType([request EXCEPT ![r].status = st,
                                       ![r].issue_evidence = photo])
BY DEF RequestType

LEMMA QuantityType ==
    ASSUME NEW quantity \in Quantities, NEW p \in Products
    PROVE  quantity[p] \in Nat
BY LendingAssumption DEF Quantities, LendingAssumption

LEMMA SubmitTypes ==
    ASSUME TypesAndRows, NEW r \in Requests, NEW quantity \in Quantities,
           submit_request(r, quantity)
    PROVE  TypesAndRows'
<1>1. RequestType(request')
  BY StatusUpdate, TypesSplit DEF submit_request, Statuses
<1>2. [p \in Products |-> [NoItem EXCEPT !.requested = quantity[p]]]
         \in [Products -> Item(Nat)]
  BY QuantityType DEF NoItem, Item
<1>3. ItemType(item')
  BY <1>2, ItemUpdate, TypesSplit DEF submit_request
<1> QED
  BY <1>1, <1>3, TypesSplit, TypesSplitPrime DEF submit_request

LEMMA AcceptTypes ==
    ASSUME TypesAndRows, NEW r \in Requests, NEW accepted \in Quantities,
           accept_request(r, accepted)
    PROVE  TypesAndRows'
<1>1. RequestType(request')
  BY StatusUpdate, TypesSplit DEF accept_request, Statuses
<1>2. [p \in Products |-> [item[r][p] EXCEPT !.accepted = accepted[p]]]
         \in [Products -> Item(Nat)]
  BY QuantityType, TypesSplit DEF ItemType, Item
<1>3. ItemType(item')
  BY <1>2, ItemUpdate, TypesSplit DEF accept_request
<1>4. StockType(stock')
  BY QuantityType, ReserveSound, TypesSplit DEF accept_request, StockType
<1> QED
  BY <1>1, <1>3, <1>4, TypesSplit, TypesSplitPrime DEF accept_request

LEMMA RejectTypes ==
    ASSUME TypesAndRows, NEW r \in Requests, reject_request(r)
    PROVE  TypesAndRows'
<1>1. RequestType(request')
  BY StatusUpdate, TypesSplit DEF reject_request, Statuses
<1> QED
  BY <1>1, TypesSplit, TypesSplitPrime DEF reject_request

LEMMA AssignBoxTypes ==
    ASSUME TypesAndRows, NEW r \in Requests, NEW b \in Boxes, assign_box(r, b)
    PROVE  TypesAndRows'
<1>1. RequestType(request')
  BY TypesSplit DEF assign_box, RequestType
<1> QED
  BY <1>1, TypesSplit, TypesSplitPrime DEF assign_box

LEMMA IssueTypes ==
    ASSUME TypesAndRows, NEW r \in Requests, NEW photo \in IssuePhotos,
           NEW scans \in SUBSET Assets, NEW broken \in Quantities,
           NEW disposition \in Dispositions(broken),
           issue_request(r, photo, scans, broken, disposition)
    PROVE  TypesAndRows'
<1>1. ASSUME NEW p \in Products
      PROVE  /\ item[r][p].accepted \in Nat /\ broken[p] \in Nat
             /\ CanIssueItem(stock[p], item[r][p].accepted, broken[p])
  BY QuantityType, TypesSplit DEF issue_request, ItemType, Item
<1>2. RequestType(request')
  BY IssueUpdate, TypesSplit DEF issue_request, Statuses
<1>3. AssetType(asset')
  BY TypesSplit DEF issue_request, AssetType, AssetStatuses
<1>4. LinkType(link')
  BY TypesSplit DEF issue_request, LinkType
<1>5. StockType(stock')
  BY <1>1, IssueItemSound, TypesSplit DEF issue_request, StockType
<1>6. ASSUME NEW p \in Products
      PROVE  item[r][p].accepted - broken[p] \in Nat
  BY <1>1 DEF CanIssueItem
<1> DEFINE items == [p \in Products |->
                      [item[r][p] EXCEPT
                         !.issued = item[r][p].accepted - broken[p],
                         !.needs_fix = IF disposition[p] = "remove"
                                       THEN 0 ELSE broken[p]]]
<1>7. items \in [Products -> Item(Nat)]
  <2> SUFFICES ASSUME NEW p \in Products PROVE items[p] \in Item(Nat)
    OBVIOUS
  <2>1. (IF disposition[p] = "remove" THEN 0 ELSE broken[p]) \in Nat
    BY <1>1
  <2>2. item[r][p] \in Item(Nat)
    BY TypesSplit DEF ItemType
  <2> QED
    BY <1>6, <2>1, <2>2 DEF Item
<1>8. ItemType(item')
  <2> HIDE DEF items
  <2>1. ItemType([item EXCEPT ![r] = items])
    BY <1>7, ItemUpdate, TypesSplit
  <2> QED
    BY <2>1 DEF issue_request, items
<1> QED
  BY <1>2, <1>3, <1>4, <1>5, <1>8, TypesSplit, TypesSplitPrime DEF issue_request

-----------------------------------------------------------------------------
(* Returns. *)

LEMMA ResolvedNat ==
    ASSUME NEW r, NEW counts \in Counts(r), NEW outcome, NEW p \in Products,
           NEW o \in Outcomes
    PROVE  Resolved(p, counts, outcome)[o] \in Nat
<1>1. CASE tracking[p] = "individual"
  <2> DEFINE T == {a \in AssetsOf(p) : outcome[a] = o}
  <2>1. IsFiniteSet(T)
    BY LendingAssumption, FS_Subset DEF LendingAssumption, AssetsOf
  <2>2. Cardinality(T) \in Nat
    BY <2>1, FS_CardinalityType
  <2> QED
    BY <1>1, <2>2 DEF Resolved
<1>2. CASE tracking[p] # "individual"
  BY <1>2, LendingAssumption DEF Resolved, Counts, LendingAssumption
<1> QED
  BY <1>1, <1>2

LEMMA ItemsAfterReturnType ==
    ASSUME ItemType(item), NEW r \in Requests, NEW counts \in Counts(r),
           NEW outcome
    PROVE  ItemsAfterReturn(r, counts, outcome) \in [Products -> Item(Nat)]
<1> SUFFICES ASSUME NEW p \in Products
             PROVE  ItemsAfterReturn(r, counts, outcome)[p] \in Item(Nat)
  BY DEF ItemsAfterReturn
<1> DEFINE c == Resolved(p, counts, outcome)
<1>1. c["returned"] \in Nat /\ c["damaged"] \in Nat /\ c["missing"] \in Nat
  BY ResolvedNat DEF Outcomes
<1>2. item[r][p] \in Item(Nat)
  BY DEF ItemType
<1> HIDE DEF c
<1>4. /\ item[r][p].returned + c["returned"] \in Nat
      /\ item[r][p].damaged + c["damaged"] \in Nat
      /\ item[r][p].missing + c["missing"] \in Nat
  BY <1>1, <1>2 DEF Item
<1>3. [item[r][p] EXCEPT !.returned = @ + c["returned"],
                         !.damaged  = @ + c["damaged"],
                         !.missing  = @ + c["missing"]] \in Item(Nat)
  BY <1>2, <1>4 DEF Item
<1> QED
  BY <1>3 DEF ItemsAfterReturn, c

\* A return that resolves no more than what is in the issued bucket.
LEMMA StockAfterReturnSound ==
    ASSUME StockType(stock), NEW r \in Requests, NEW counts \in Counts(r),
           NEW outcome,
           \A p \in Products :
              LET c == Resolved(p, counts, outcome)
              IN  CanReturnItem(stock[p], c["returned"], c["damaged"], c["missing"])
    PROVE  /\ StockType(StockAfterReturn(counts, outcome))
           /\ \A p \in Products :
                /\ StockAfterReturn(counts, outcome)[p].reserved = stock[p].reserved
                /\ StockAfterReturn(counts, outcome)[p].issued =
                      stock[p].issued - ResolvedUnits(Resolved(p, counts, outcome))
                /\ LET c == Resolved(p, counts, outcome)
                   IN  /\ StockAfterReturn(counts, outcome)[p].available =
                             stock[p].available + c["returned"]
                       /\ Aside(StockAfterReturn(counts, outcome)[p]) =
                             Aside(stock[p]) + (c["damaged"] + c["missing"])
<1>1. ASSUME NEW p \in Products
      PROVE  LET c == Resolved(p, counts, outcome)
                 t == ReturnItem(stock[p], c["returned"], c["damaged"], c["missing"])
             IN  /\ Sound(t) /\ t.reserved = stock[p].reserved
                 /\ t.issued = stock[p].issued - ResolvedUnits(c)
                 /\ t.available = stock[p].available + c["returned"]
                 /\ Aside(t) = Aside(stock[p]) + (c["damaged"] + c["missing"])
  <2> DEFINE c == Resolved(p, counts, outcome)
  <2>1. c["returned"] \in Nat /\ c["damaged"] \in Nat /\ c["missing"] \in Nat
    BY ResolvedNat DEF Outcomes
  <2>2. Sound(stock[p])
    BY DEF StockType
  <2>3. CanReturnItem(stock[p], c["returned"], c["damaged"], c["missing"])
    OBVIOUS
  <2> HIDE DEF c
  <2> QED
    BY <2>1, <2>2, <2>3, ReturnItemSound DEF ResolvedUnits, c
<1> QED
  BY <1>1 DEF StockAfterReturn, StockType

LEMMA AssetsAfterReturnType ==
    ASSUME AssetType(asset), NEW outcome
    PROVE  AssetType(AssetsAfterReturn(outcome))
BY DEF AssetType, AssetsAfterReturn, AssetOutcome, Outcomes, AssetStatuses

LEMMA StatusAfterReturnType ==
    ASSUME NEW items PROVE StatusAfterReturn(items) \in Statuses
BY DEF StatusAfterReturn, Statuses

LEMMA ReturnTypes ==
    ASSUME TypesAndRows, NEW r \in Requests, NEW photo \in ReturnPhotos,
           NEW counts \in Counts(r), NEW outcome \in AssetOutcomes(r),
           return_items(r, photo, counts, outcome)
    PROVE  TypesAndRows'
<1>1. StockType(stock')
  BY StockAfterReturnSound, TypesSplit DEF return_items, ResolutionsValid
<1>2. ItemType(item')
  BY ItemsAfterReturnType, ItemUpdate, TypesSplit DEF return_items
<1>3. EventsType(returnEvents')
  BY TypesSplit DEF return_items, EventsType
<1>4. AssetType(asset')
  BY AssetsAfterReturnType, TypesSplit DEF return_items
<1>5. LinkType(link')
  BY TypesSplit DEF return_items, LinkType, LinkOutcome, Outcomes
<1>6. RequestType(request')
  BY StatusAfterReturnType, StatusUpdate, TypesSplit DEF return_items
<1> QED
  BY <1>1, <1>2, <1>3, <1>4, <1>5, <1>6, TypesSplit, TypesSplitPrime
     DEF return_items

-----------------------------------------------------------------------------
(* Handouts without a reviewed request, and their returns. *)

LEMMA HandedUnitsNat ==
    ASSUME NEW qrs, NEW manual \in Quantities, NEW p \in Products
    PROVE  HandedUnits(qrs, manual, p) \in Nat
<1>1. IsFiniteSet(HandedAssets(qrs) \cap AssetsOf(p))
  <2>1. HandedAssets(qrs) \cap AssetsOf(p) \in SUBSET Assets
    BY DEF AssetsOf
  <2> QED
    BY <2>1, LendingAssumption, FS_Subset DEF LendingAssumption
<1>2. Cardinality(HandedAssets(qrs) \cap AssetsOf(p)) \in Nat
  BY <1>1, FS_CardinalityType
<1> QED
  BY <1>2, QuantityType DEF HandedUnits, ScannedUnits

LEMMA CreateIssuedLoanTypes ==
    ASSUME TypesAndRows, NEW r \in Requests, NEW photo \in IssuePhotos,
           NEW source \in {"public_self_checkout", "admin_direct"},
           NEW first \in QRs \cup {None}, NEW qrs \in SUBSET QRs,
           NEW container \in Boxes \cup {None}, NEW manual \in Quantities,
           CreateIssuedLoan(r, photo, source, first, qrs, container, manual)
    PROVE  TypesAndRows'
<1>1. ASSUME NEW p \in Products
      PROVE  /\ HandedUnits(qrs, manual, p) \in Nat
             /\ CanIssueAvailable(stock[p], HandedUnits(qrs, manual, p))
  BY HandedUnitsNat DEF CreateIssuedLoan, HandoutValid
<1>2. StockType(stock')
  BY <1>1, IssueAvailableSound, TypesSplit DEF CreateIssuedLoan, StockType
<1>3. AssetType(asset')
  BY TypesSplit DEF CreateIssuedLoan, AssetType, AssetStatuses
<1>4. RequestType(request')
  BY IssueUpdate, TypesSplit DEF CreateIssuedLoan, Statuses
<1> DEFINE items == [p \in Products |->
                      LET n == HandedUnits(qrs, manual, p)
                      IN  [NoItem EXCEPT !.requested = n, !.accepted = n,
                                         !.issued = n]]
<1>5. items \in [Products -> Item(Nat)]
  BY <1>1 DEF NoItem, Item
<1>6. ItemType(item')
  <2> HIDE DEF items
  <2>1. ItemType([item EXCEPT ![r] = items])
    BY <1>5, ItemUpdate, TypesSplit
  <2> QED
    BY <2>1 DEF CreateIssuedLoan, items
<1>7. LoanType(loan')
  <2> DEFINE row == [status |-> "checked_out", source |-> source,
                     qr_code |-> first, qr_ids |-> qrs, container |-> container,
                     asset_ids |-> HandedAssets(qrs), return_evidence |-> None]
  <2>1. HandedAssets(qrs) \in SUBSET Assets
    BY DEF HandedAssets
  <2>2. row \in LoanRow
    BY <2>1 DEF LoanRow
  <2> HIDE DEF row
  <2>3. LoanType([loan EXCEPT ![r] = row])
    BY <2>2, TypesSplit DEF LoanType
  <2> QED
    BY <2>3 DEF CreateIssuedLoan, row
<1> QED
  BY <1>2, <1>3, <1>4, <1>6, <1>7, TypesSplit, TypesSplitPrime
     DEF CreateIssuedLoan

LEMMA NoManualType == NoManual \in Quantities
BY LendingAssumption DEF NoManual, Quantities, LendingAssumption

LEMMA CheckoutTypes ==
    ASSUME TypesAndRows, NEW r \in Requests, NEW q \in QRs,
           NEW photo \in IssuePhotos, checkout_tool(r, q, photo)
    PROVE  TypesAndRows'
BY NoManualType, CreateIssuedLoanTypes DEF checkout_tool

LEMMA DirectLoanTypes ==
    ASSUME TypesAndRows, NEW r \in Requests, NEW photo \in IssuePhotos,
           NEW qrs \in SUBSET QRs, NEW manual \in Quantities,
           NEW container \in Boxes \cup {None}, NEW first \in qrs \cup {None},
           issue_direct_loan(r, photo, first, qrs, manual, container)
    PROVE  TypesAndRows'
<1> DEFINE box == IF qrs \cap Boxes = {} THEN container
                  ELSE CHOOSE b \in qrs \cap Boxes : TRUE
<1>1. box \in Boxes \cup {None}
  OBVIOUS
<1>2. first \in QRs \cup {None}
  OBVIOUS
<1> HIDE DEF box
<1>3. CreateIssuedLoan(r, photo, "admin_direct", first, qrs, box, manual)
  BY DEF issue_direct_loan, box
<1> QED
  BY <1>1, <1>2, <1>3, CreateIssuedLoanTypes

LEMMA LoanClosed ==
    ASSUME LoanType(loan), NEW r \in Requests, NEW photo \in ReturnPhotos
    PROVE  LoanType([loan EXCEPT ![r].status = "returned",
                                 ![r].return_evidence = photo])
<1> DEFINE row == [loan[r] EXCEPT !.status = "returned", !.return_evidence = photo]
<1>1. loan[r] \in LoanRow
  BY DEF LoanType
<1>2. row \in LoanRow
  BY <1>1 DEF LoanRow
<1>3. [loan EXCEPT ![r].status = "returned", ![r].return_evidence = photo]
         = [loan EXCEPT ![r] = row]
  BY DEF LoanType
<1> HIDE DEF row
<1>4. LoanType([loan EXCEPT ![r] = row])
  BY <1>2 DEF LoanType
<1> QED
  BY <1>3, <1>4

LEMMA ReturnToolTypes ==
    ASSUME TypesAndRows, NEW r \in Requests, NEW photo \in ReturnPhotos,
           NEW problem \in BOOLEAN, return_tool(r, photo, problem)
    PROVE  TypesAndRows'
<1> DEFINE outstanding(p) ==
               IF item[r][p].issued > item[r][p].returned
               THEN item[r][p].issued - item[r][p].returned ELSE 0
           items == [p \in Products |->
                        [item[r][p] EXCEPT !.returned = @ + outstanding(p)]]
<1>1. ASSUME NEW p \in Products
      PROVE  /\ outstanding(p) \in Nat /\ item[r][p] \in Item(Nat)
             /\ item[r][p].returned + outstanding(p) \in Nat
             /\ CanReturnToAvailable(stock[p], outstanding(p))
  BY TypesSplit DEF return_tool, ItemType, Item
<1>2. stock' = [p \in Products |-> ReturnToAvailable(stock[p], outstanding(p))]
  BY DEF return_tool
<1>3. item' = [item EXCEPT ![r] = items]
  BY DEF return_tool
<1>4. items \in [Products -> Item(Nat)]
  <2> HIDE DEF outstanding
  <2> QED
    BY <1>1 DEF Item
<1> HIDE DEF outstanding, items
<1>5. StockType(stock')
  BY <1>1, <1>2, ReturnToAvailableSound, TypesSplit DEF StockType
<1>6. ItemType(item')
  BY <1>3, <1>4, ItemUpdate, TypesSplit
<1>7. AssetType(asset')
  BY TypesSplit DEF return_tool, AssetType, AssetStatuses
<1>8. LoanType(loan')
  BY LoanClosed, TypesSplit DEF return_tool
<1>9. RequestType(request')
  BY StatusUpdate, TypesSplit DEF return_tool, Statuses
<1>10. ReportType(report')
  BY TypesSplit DEF return_tool, ReportType
<1> QED
  BY <1>5, <1>6, <1>7, <1>8, <1>9, <1>10, TypesSplit, TypesSplitPrime
     DEF return_tool

\* A loan with nothing outstanding resolves nothing, which stock always allows.
LEMMA DirectReturnable ==
    ASSUME TypesAndRows, NEW r \in Requests, NEW counts \in Counts(r),
           NEW outcome, FullyResolved(r, counts, outcome),
           (\E p \in Products : Remaining(item[r][p]) > 0)
              => ResolutionsValid(r, counts, outcome)
    PROVE  \A p \in Products :
              LET c == Resolved(p, counts, outcome)
              IN  CanReturnItem(stock[p], c["returned"], c["damaged"], c["missing"])
<1>1. CASE \E p \in Products : Remaining(item[r][p]) > 0
  BY <1>1 DEF ResolutionsValid
<1>2. CASE ~ \E p \in Products : Remaining(item[r][p]) > 0
  <2> TAKE p \in Products
  <2> DEFINE c == Resolved(p, counts, outcome)
  <2>1. c["returned"] \in Nat /\ c["damaged"] \in Nat /\ c["missing"] \in Nat
    BY ResolvedNat DEF Outcomes
  <2>2. ResolvedUnits(c) = Remaining(item[r][p])
    BY DEF FullyResolved
  <2>3. item[r][p] \in Item(Nat) /\ stock[p] \in Row(Nat)
    BY TypesSplit DEF ItemType, StockType, Sound
  <2> HIDE DEF c
  <2>4. c["returned"] + c["damaged"] + c["missing"] = 0
    BY <1>2, <2>1, <2>2, <2>3 DEF ResolvedUnits, Remaining, Item
  <2>5. CanReturnItem(stock[p], c["returned"], c["damaged"], c["missing"])
    BY <2>1, <2>3, <2>4 DEF CanReturnItem, Row
  <2> QED
    BY <2>5 DEF c
<1> QED
  BY <1>1, <1>2

LEMMA DirectReturnTypes ==
    ASSUME TypesAndRows, NEW r \in Requests, NEW photo \in ReturnPhotos,
           NEW counts \in Counts(r), NEW outcome \in AssetOutcomes(r),
           return_direct_loan(r, photo, counts, outcome)
    PROVE  TypesAndRows'
<1>1. StockType(stock')
  BY DirectReturnable, StockAfterReturnSound, TypesSplit DEF return_direct_loan
<1>2. ItemType(item')
  BY ItemsAfterReturnType, ItemUpdate, TypesSplit DEF return_direct_loan
<1>3. EventsType(returnEvents')
  BY TypesSplit DEF return_direct_loan, EventsType
<1>4. AssetType(asset')
  BY AssetsAfterReturnType, TypesSplit DEF return_direct_loan
<1>5. LoanType(loan')
  BY LoanClosed, TypesSplit DEF return_direct_loan
<1>6. RequestType(request')
  BY StatusAfterReturnType, StatusUpdate, TypesSplit DEF return_direct_loan
<1> QED
  BY <1>1, <1>2, <1>3, <1>4, <1>5, <1>6, TypesSplit, TypesSplitPrime
     DEF return_direct_loan

-----------------------------------------------------------------------------
(* Stock corrections, and all steps together. *)

LEMMA TriageTypes ==
    ASSUME TypesAndRows, NEW r \in Requests, NEW outcome \in ReportOutcomes,
           NEW quantity \in Quantities, NEW moved \in SUBSET Assets,
           triage_problem_report(r, outcome, quantity, moved)
    PROVE  TypesAndRows'
<1>1. ReportType(report')
  BY TypesSplit DEF triage_problem_report, ReportType
<1>2. CASE outcome = "no_issue"
  BY <1>1, <1>2, TypesSplit, TypesSplitPrime DEF triage_problem_report
<1>3. CASE outcome # "no_issue"
  <2>1. outcome \in {"damaged", "missing", "needs_fix"}
    BY <1>3 DEF ReportOutcomes
  <2>2. AssetType(asset')
    BY <1>3, <2>1, TypesSplit
       DEF triage_problem_report, AssetType, AssetStatuses, TriageStatus
  <2>3. stock' = [p \in Products |-> stock'[p]]
    BY <1>3 DEF triage_problem_report
  <2>4. ASSUME NEW p \in Products
        PROVE  Sound(stock'[p])
    <3>1. Sound(stock[p]) /\ tracking[p] \in TrackingModes
      BY TypesSplit DEF StockType, TrackingType
    <3>2. CASE quantity[p] = 0
      BY <1>3, <3>1, <3>2 DEF triage_problem_report
    <3>3. CASE quantity[p] # 0 /\ tracking[p] = "individual"
      <4>1. stock'[p] = MoveAssets([a \in AssetsOf(p) |-> asset[a]], moved,
                                   TriageStatus[outcome])
        BY <1>3, <3>3 DEF triage_problem_report
      <4> QED
        BY <4>1, MoveAssetsSound
    <3>4. CASE quantity[p] # 0 /\ tracking[p] = "quantity"
      <4>1. quantity[p] \in Nat
        BY QuantityType
      <4>a. quantity[p] > 0
        BY <3>4, <4>1
      <4>b. quantity[p] > 0 => CanTriage(stock[p], quantity[p])
        BY <1>3, <3>4, Zenon DEF triage_problem_report
      <4>2. CanTriage(stock[p], quantity[p])
        BY <4>a, <4>b
      <4>3. stock'[p] = Triage(stock[p], quantity[p], outcome)
        BY <1>3, <3>4 DEF triage_problem_report
      <4> QED
        BY <2>1, <3>1, <4>1, <4>2, <4>3, TriageSound
    <3> QED
      BY <3>1, <3>2, <3>3, <3>4 DEF TrackingModes
  <2>5. StockType(stock')
    BY <2>3, <2>4 DEF StockType
  <2> QED
    BY <1>1, <1>3, <2>2, <2>5, TypesSplit, TypesSplitPrime
       DEF triage_problem_report
<1> QED
  BY <1>2, <1>3

LEMMA StockStepTypes ==
    ASSUME TypesAndRows, NEW p \in Products, NEW row, Sound(row),
           StockStep(p, row)
    PROVE  TypesAndRows'
<1>1. StockType(stock')
  BY TypesSplit DEF StockStep, StockType
<1> QED
  BY <1>1, TypesSplit, TypesSplitPrime DEF StockStep

LEMMA AdjustTypes ==
    ASSUME TypesAndRows, NEW p \in Products,
           NEW da \in Deltas, NEW dd \in Deltas, NEW dl \in Deltas,
           adjust_quantities(p, da, dd, dl)
    PROVE  TypesAndRows'
<1>1. da \in Int /\ dd \in Int /\ dl \in Int
  BY LendingAssumption DEF Deltas, LendingAssumption
<1>2. Sound(stock[p])
  BY TypesSplit DEF StockType
<1>3. Sound(Adjust(stock[p], da, dd, dl))
  BY <1>1, <1>2, AdjustSound DEF adjust_quantities
<1> QED
  BY <1>3, StockStepTypes DEF adjust_quantities

LEMMA NeedsFixTypes ==
    ASSUME TypesAndRows, NEW p \in Products, NEW action, NEW q \in 1..MaxQty,
           needs_fix_action(p, action, q)
    PROVE  TypesAndRows'
<1>1. q \in Nat
  BY LendingAssumption DEF LendingAssumption
<1>2. Sound(stock[p])
  BY TypesSplit DEF StockType
<1>3. CASE CanShelve(stock[p], q) /\ StockStep(p, Shelve(stock[p], q))
  BY <1>1, <1>2, <1>3, ShelveSound, StockStepTypes
<1>4. CASE CanRepair(stock[p], q) /\ StockStep(p, Repair(stock[p], q))
  BY <1>1, <1>2, <1>4, RepairSound, StockStepTypes
<1>5. CASE CanRepair(stock[p], q) /\ StockStep(p, Scrap(stock[p], q))
  BY <1>1, <1>2, <1>5, ScrapSound, StockStepTypes
<1> QED
  BY <1>3, <1>4, <1>5 DEF needs_fix_action

LEMMA GenerateTypes ==
    ASSUME TypesAndRows, NEW p \in Products, NEW new \in SUBSET Assets,
           generate_assets_with_qr(p, new)
    PROVE  TypesAndRows'
<1>1. TrackingType(tracking')
  BY TypesSplit DEF generate_assets_with_qr, TrackingType, TrackingModes
<1>2. AssetType(asset')
  BY TypesSplit DEF generate_assets_with_qr, AssetType, AssetStatuses
<1>3. Sound(Reconcile([a \in AssetsOf(p) |-> asset'[a]]))
  BY ReconcileAssets
<1>4. StockType(stock')
  BY <1>3, TypesSplit DEF generate_assets_with_qr, StockType
<1> QED
  BY <1>1, <1>2, <1>4, TypesSplit, TypesSplitPrime DEF generate_assets_with_qr

LEMMA StepTypes ==
    ASSUME TypesAndRows, [Next]_vars
    PROVE  TypesAndRows'
<1>1. CASE ReviewedSteps
  BY <1>1, SubmitTypes, AcceptTypes, RejectTypes, AssignBoxTypes, IssueTypes,
     ReturnTypes DEF ReviewedSteps
<1>2. CASE HandoutSteps
  BY <1>2, CheckoutTypes, ReturnToolTypes, DirectLoanTypes, DirectReturnTypes,
     TriageTypes DEF HandoutSteps
<1>3. CASE StockSteps
  BY <1>3, AdjustTypes, NeedsFixTypes, GenerateTypes DEF StockSteps
<1>4. CASE UNCHANGED vars
  BY <1>4, TypesSplit, TypesSplitPrime DEF vars
<1> QED
  BY <1>1, <1>2, <1>3, <1>4 DEF Next

-----------------------------------------------------------------------------
\* Every reachable state is well typed: in particular no bucket of a product
\* and no count of an item is ever negative (the database checks
\* qty_*_nonneg of inventory/models.py never have to reject a save).
THEOREM TypesHold == Spec => []TypesAndRows
<1>1. Init => TypesAndRows
  BY InitTypes
<1>2. TypesAndRows /\ [Next]_vars => TypesAndRows'
  BY StepTypes
<1> QED
  BY <1>1, <1>2, PTL DEF Spec

\* The types of the lending rows, as the model states them.
THEOREM TypeCorrect == Spec => []TypeOK
<1>1. TypesAndRows => TypeOK
  BY DEF TypesAndRows
<1> QED
  BY <1>1, TypesHold, PTL

\* The buckets of a product never outgrow its total, whatever order of
\* reservations, handovers, rejects, returns, triages and corrections is run.
THEOREM BucketsFit == Spec => []BucketsWithinTotal
<1>1. TypesAndRows => BucketsWithinTotal
  BY DEF TypesAndRows, BucketsWithinTotal, Sound
<1> QED
  BY <1>1, TypesHold, PTL
=============================================================================
