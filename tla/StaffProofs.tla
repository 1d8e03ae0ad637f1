------------------------------ MODULE StaffProofs ------------------------------
(***************************************************************************)
(* Staff beside the lending services, for every catalog and any number of  *)
(* calls.  First the console: its handlers write back rows they read       *)
(* before, and what they can damage by that is the stock and the assets,   *)
(* never the story of a request.  Then what applying a stocktake does, for *)
(* any number of lines and whatever order they come in.  The rows after    *)
(* each line are a recursive function of the number of lines; what is      *)
(* shown of them is shown by induction on that number (SetInduction).      *)
(***************************************************************************)
EXTENDS Stocktake, StaffConsole, CustodyProofs

(* The console. *)

\* The types, and drafts that were sound when they were read.
ConsoleInv ==
    /\ TypesAndRows /\ ConsoleTypeOK
    /\ \A d \in EditSessions : editing[d] # NoEdit => Sound(editing[d].row)

\* One unit leaves a bucket, one enters a bucket.
LEMMA TakeUnit ==
    ASSUME NEW s, Sound(s), NEW b \in Buckets, s[b] >= 1
    PROVE  /\ [s EXCEPT ![b] = @ - 1] \in Row(Nat)
           /\ [s EXCEPT ![b] = @ - 1].total = s.total
           /\ BucketSum([s EXCEPT ![b] = @ - 1]) = BucketSum(s) - 1
<1>1. s \in Row(Nat)
  BY DEF Sound
<1> USE <1>1 DEF Row, BucketSum
<1>2. CASE b = "available"
  BY <1>2
<1>3. CASE b = "reserved"
  BY <1>3
<1>4. CASE b = "issued"
  BY <1>4
<1>5. CASE b = "damaged"
  BY <1>5
<1>6. CASE b = "lost"
  BY <1>6
<1>7. CASE b = "needs_fix"
  BY <1>7
<1> QED
  BY <1>2, <1>3, <1>4, <1>5, <1>6, <1>7 DEF Buckets

LEMMA PutUnit ==
    ASSUME NEW s \in Row(Nat), NEW b \in Buckets
    PROVE  /\ [s EXCEPT ![b] = @ + 1] \in Row(Nat)
           /\ [s EXCEPT ![b] = @ + 1].total = s.total
           /\ BucketSum([s EXCEPT ![b] = @ + 1]) = BucketSum(s) + 1
<1> USE DEF Row, BucketSum
<1>2. CASE b = "available"
  BY <1>2
<1>3. CASE b = "reserved"
  BY <1>3
<1>4. CASE b = "issued"
  BY <1>4
<1>5. CASE b = "damaged"
  BY <1>5
<1>6. CASE b = "lost"
  BY <1>6
<1>7. CASE b = "needs_fix"
  BY <1>7
<1> QED
  BY <1>2, <1>3, <1>4, <1>5, <1>6, <1>7 DEF Buckets

LEMMA MoveUnitSound ==
    ASSUME NEW s, Sound(s), NEW old, NEW new, CanMoveAsset(old, new),
           old # new, s[AssetBucket[old]] >= 1
    PROVE  Sound(MoveUnit(s, old, new))
<1>1. AssetBucket[old] \in Buckets /\ AssetBucket[new] \in Buckets
  BY DEF CanMoveAsset, AssetBucket, Buckets
<1> DEFINE mid == [s EXCEPT ![AssetBucket[old]] = @ - 1]
           end == [mid EXCEPT ![AssetBucket[new]] = @ + 1]
<1>2. MoveUnit(s, old, new) = end
  <2> DEFINE from == AssetBucket[old]
             to == AssetBucket[new]
  <2>1. MoveUnit(s, old, new) = [s EXCEPT ![from] = @ - 1, ![to] = @ + 1]
    BY DEF MoveUnit
  <2>2. s = [x \in DOMAIN s |-> s[x]] /\ from \in DOMAIN s
    BY <1>1 DEF Sound, Row, Buckets
  <2>3. from # to
    BY DEF CanMoveAsset, AssetBucket
  <2> HIDE DEF from, to
  <2>4. [s EXCEPT ![from] = @ - 1, ![to] = @ + 1]
           = [[s EXCEPT ![from] = @ - 1] EXCEPT ![to] = @ + 1]
    BY <2>2, <2>3
  <2> QED
    BY <2>1, <2>4 DEF from, to
<1>3. mid \in Row(Nat) /\ mid.total = s.total /\ BucketSum(mid) = BucketSum(s) - 1
  BY <1>1, TakeUnit
<1> HIDE DEF mid
<1>4. end \in Row(Nat) /\ end.total = mid.total /\ BucketSum(end) = BucketSum(mid) + 1
  BY <1>1, <1>3, PutUnit
<1> HIDE DEF end
<1>5. BucketSum(s) \in Int /\ s.total \in Int /\ BucketSum(s) <= s.total
  BY DEF Sound, Row, BucketSum
<1> QED
  BY <1>2, <1>3, <1>4, <1>5 DEF Sound

LEMMA MoveStatusTypes ==
    ASSUME TypesAndRows, NEW a \in Assets, NEW new \in AssetStatuses,
           CanMoveStatus(a, new), MoveStatus(a, new)
    PROVE  StockType(stock') /\ AssetType(asset')
<1>1. AssetProduct[a] \in Products
  BY LendingAssumption DEF LendingAssumption
<1>2. Sound(Reconciled(AssetProduct[a]))
  <2>1. Sound(Reconcile([x \in AssetsOf(AssetProduct[a]) |-> asset[x]]))
    BY ReconcileAssets
  <2> QED
    BY <1>1, <2>1, TypesSplit DEF Reconciled, StockType
<1>3. Sound(MoveUnit(Reconciled(AssetProduct[a]), asset[a], new))
  BY <1>2, MoveUnitSound DEF CanMoveStatus
<1>4. StockType(stock')
  BY <1>1, <1>3, TypesSplit DEF MoveStatus, StockType
<1>5. AssetType(asset')
  BY TypesSplit DEF MoveStatus, AssetType
<1> QED
  BY <1>4, <1>5

LEMMA ConsoleStart == ConsoleInit => ConsoleInv
BY InitTypes DEF ConsoleInit, ConsoleInv, ConsoleTypeOK, TypesAndRows

\* A step of the console changes no row of a request.
LEMMA ConsoleLeavesRequests ==
    ASSUME ConsoleSteps
    PROVE  UNCHANGED <<request, item, link, loan, returnEvents, report>>
BY DEF ConsoleSteps, asset_fix_read, asset_fix_apply, transfer_asset, product_patch_read,
       product_patch_save, vars

LEMMA RowsTyped ==
    ASSUME TypesAndRows, UNCHANGED <<request, item, link, loan, returnEvents, report>>,
           StockType(stock'), TrackingType(tracking'), AssetType(asset')
    PROVE  TypesAndRows'
BY TypesSplit, TypesSplitPrime

LEMMA ConsoleStep ==
    ASSUME ConsoleInv, [ConsoleNext]_allVars
    PROVE  ConsoleInv'
<1> USE DEF ConsoleInv
<1>1. CASE Next /\ UNCHANGED console
  <2>1. TypesAndRows'
    BY <1>1, StepTypes
  <2> QED
    BY <1>1, <2>1 DEF ConsoleTypeOK, TypesAndRows, console
<1>2. CASE UNCHANGED allVars
  <2>1. TypesAndRows'
    BY <1>2, TypesSplit, TypesSplitPrime DEF allVars, vars
  <2> QED
    BY <1>2, <2>1 DEF ConsoleTypeOK, TypesAndRows, allVars, console
<1>3. ASSUME NEW a \in Assets, NEW to_status \in AssetStatuses, transfer_asset(a, to_status)
      PROVE  ConsoleInv'
  <2>1. StockType(stock') /\ AssetType(asset')
    BY <1>3, MoveStatusTypes DEF transfer_asset
  <2>2. TypesAndRows'
    BY <1>3, <2>1, RowsTyped, TypesSplit DEF transfer_asset
  <2> QED
    BY <1>3, <2>2 DEF ConsoleTypeOK, TypesAndRows, transfer_asset, console
<1>4. ASSUME NEW s \in FixSessions, NEW a \in Assets,
             NEW target \in {"maintenance", "available"}, asset_fix_read(s, a, target)
      PROVE  ConsoleInv'
  <2>1. TypesAndRows'
    BY <1>4, TypesSplit, TypesSplitPrime DEF asset_fix_read, vars
  <2> QED
    BY <1>4, <2>1 DEF ConsoleTypeOK, TypesAndRows, asset_fix_read
<1>5. ASSUME NEW s \in FixSessions, asset_fix_apply(s)
      PROVE  ConsoleInv'
  <2>1. fixing[s].asset \in Assets /\ fixing[s].target \in AssetStatuses
    BY <1>5 DEF ConsoleTypeOK, asset_fix_apply, AssetStatuses
  <2>2. StockType(stock') /\ AssetType(asset')
    BY <1>5, <2>1, MoveStatusTypes, TypesSplit DEF asset_fix_apply
  <2>3. TypesAndRows'
    BY <1>5, <2>2, RowsTyped, TypesSplit DEF asset_fix_apply
  <2> QED
    BY <1>5, <2>3 DEF ConsoleTypeOK, TypesAndRows, asset_fix_apply
<1>6. ASSUME NEW d \in EditSessions, NEW p \in Products, product_patch_read(d, p)
      PROVE  ConsoleInv'
  <2>1. TypesAndRows'
    BY <1>6, TypesSplit, TypesSplitPrime DEF product_patch_read, vars
  <2>2. [product |-> p, row |-> stock[p], tracking |-> tracking[p]] \in Edits
        /\ Sound(stock[p])
    BY TypesSplit DEF Edits, StockType, TrackingType, Sound
  <2> QED
    BY <1>6, <2>1, <2>2 DEF ConsoleTypeOK, TypesAndRows, product_patch_read, NoEdit
<1>7. ASSUME NEW d \in EditSessions, NEW mode \in TrackingModes, product_patch_save(d, mode)
      PROVE  ConsoleInv'
  <2>1. editing[d] \in Edits /\ Sound(editing[d].row)
    BY <1>7 DEF ConsoleTypeOK, product_patch_save
  <2>2. StockType(stock') /\ TrackingType(tracking')
    BY <1>7, <2>1, TypesSplit DEF product_patch_save, StockType, TrackingType, Edits
  <2>3. AssetType(asset')
    BY <1>7, TypesSplit DEF product_patch_save
  <2>4. TypesAndRows'
    BY <1>7, <2>2, <2>3, RowsTyped DEF product_patch_save
  <2> QED
    BY <1>7, <2>4 DEF ConsoleTypeOK, TypesAndRows, product_patch_save
<1> QED
  BY <1>1, <1>2, <1>3, <1>4, <1>5, <1>6, <1>7 DEF ConsoleNext, ConsoleSteps

\* The console keeps its types, and what a PATCH will write back fits in its
\* total.
THEOREM ConsoleHolds == ConsoleSpec => []ConsoleInv
BY ConsoleStart, ConsoleStep, PTL DEF ConsoleSpec

\* Whatever rows the unlocked handlers write back, and whatever statuses they
\* set, the buckets of a product never outgrow its total
\* (qty_total_gte_buckets of inventory/models.py).
THEOREM ConsoleBucketsFit == ConsoleSpec => []BucketsWithinTotal
<1>1. ConsoleInv => BucketsWithinTotal
  BY DEF ConsoleInv, TypesAndRows, BucketsWithinTotal, Sound
<1> QED
  BY <1>1, ConsoleHolds, PTL

-----------------------------------------------------------------------------
(* Requests beside staff. *)

\* What the rows of a request tell of it, without a look at stock or assets.
RequestsInv == Shapes /\ Progress /\ QrOnOneLoan

LEMMA RequestsStart == Init => RequestsInv
<1>1. Init => QrOnOneLoan
  BY DEF Init, NoLoan, QrOnOneLoan
<1> QED
  BY <1>1, InitCustody, InitProgress DEF RequestsInv

LEMMA RequestsStep ==
    ASSUME TypesAndRows, RequestsInv,
           [Next]_vars \/ UNCHANGED <<request, item, loan>>
    PROVE  RequestsInv'
<1>1. CASE [Next]_vars
  BY <1>1, StepCustody, StepProgress, StepQrs DEF RequestsInv, CustodyKept
<1>2. CASE UNCHANGED <<request, item, loan>>
  <2>1. Shapes'
    BY <1>2 DEF RequestsInv, Shapes, RequestShape
  <2>2. Progress'
    BY <1>2 DEF RequestsInv, Progress, RequestProgress
  <2>3. QrOnOneLoan'
    BY <1>2 DEF RequestsInv, QrOnOneLoan
  <2> QED
    BY <2>1, <2>2, <2>3 DEF RequestsInv
<1> QED
  BY <1>1, <1>2

LEMMA RequestsTell ==
    RequestsInv => ItemsMatchStatus /\ LoanMatchesRequest /\ QrOnOneLoan
BY ItemsMatch DEF RequestsInv, Shapes, RequestShape, LoanMatchesRequest

\* What staff do beside lending is a correction of the ledger.
LEMMA LedgerBesideStaff ==
    ASSUME TypesAndRows, TypesAndRows', RequestsInv,
           [Next]_vars \/ UNCHANGED <<request, item, loan>>
    PROVE  LedgerStep
<1>1. CASE [Next]_vars
  BY <1>1, StepCustody DEF RequestsInv, CustodyKept
<1>2. CASE UNCHANGED <<request, item, loan>>
  BY <1>2, LedgerCorrects
<1> QED
  BY <1>1, <1>2

LEMMA ConsoleRequests == ConsoleSpec => []RequestsInv
<1>1. ConsoleInit => RequestsInv
  BY RequestsStart DEF ConsoleInit
<1>2. ASSUME ConsoleInv, RequestsInv, [ConsoleNext]_allVars
      PROVE  RequestsInv'
  <2>1. [Next]_vars \/ UNCHANGED <<request, item, loan>>
    BY <1>2, ConsoleLeavesRequests DEF ConsoleNext, allVars, vars
  <2> QED
    BY <1>2, <2>1, RequestsStep DEF ConsoleInv
<1> QED
  BY <1>1, <1>2, ConsoleHolds, PTL DEF ConsoleSpec

\* However wrong the stock and the statuses of assets become through the
\* unlocked handlers, items, loans and codes go on telling the story of their
\* request: no lending service trusts the buckets for that.
THEOREM ConsoleSparesRequests ==
    ConsoleSpec => [](ItemsMatchStatus /\ LoanMatchesRequest /\ QrOnOneLoan)
BY ConsoleRequests, RequestsTell, PTL

\* ... and a request that is over stays over.
THEOREM ConsoleReopensNothing == ConsoleSpec => ClosedIsFinal
<1>1. ASSUME ConsoleInv, RequestsInv, [ConsoleNext]_allVars
      PROVE  [\A r \in Requests :
                request[r].status \in {"rejected", "returned", "closed_with_issue"} =>
                   request'[r] = request[r] /\ item'[r] = item[r]]_vars
  <2>1. [Next]_vars \/ UNCHANGED <<request, item, loan>>
    BY <1>1, ConsoleLeavesRequests DEF ConsoleNext, allVars, vars
  <2> QED
    BY <1>1, <2>1, ClosedStays DEF ConsoleInv, RequestsInv, Closed
<1> QED
  BY <1>1, ConsoleHolds, ConsoleRequests, PTL DEF ConsoleSpec, ClosedIsFinal

\* The console implements module Custody as well: a row it writes back may be
\* wrong, yet whatever lending moves from there on, it moves between that row
\* and the items of one request, unit by unit.
THEOREM ConsoleRefinesCustody == ConsoleSpec => UnitsInCustody
<1>1. ConsoleInit => Ledger!Init
  BY LedgerInit DEF ConsoleInit
<1>2. ASSUME ConsoleInv, ConsoleInv', RequestsInv, [ConsoleNext]_allVars
      PROVE  LedgerStep
  <2>1. [Next]_vars \/ UNCHANGED <<request, item, loan>>
    BY <1>2, ConsoleLeavesRequests DEF ConsoleNext, allVars, vars
  <2>2. TypesAndRows /\ TypesAndRows'
    BY <1>2 DEF ConsoleInv
  <2> QED
    BY <1>2, <2>1, <2>2, LedgerBesideStaff
<1> QED
  BY <1>1, <1>2, ConsoleHolds, ConsoleRequests, PTL
     DEF ConsoleSpec, UnitsInCustody, Ledger!Spec, LedgerStep

-----------------------------------------------------------------------------
(* Stocktakes. *)

\* The types, and lines that can be counted off one by one.
TakesInv ==
    /\ TypesAndRows
    /\ session \in [Sessions -> [status : SessionStatuses, container : Boxes \cup {None}]]
    /\ lines \in [Sessions -> SUBSET Line]
    /\ \A t \in Sessions : IsFiniteSet(lines[t])

\* What the loop carries from line to line.
LoopState == [ok : BOOLEAN, stock : [Products -> {s \in Row(Nat) : Sound(s)}],
              asset : [Assets -> AssetStatuses]]

LoopStart == [ok |-> TRUE, stock |-> stock, asset |-> asset]

\* c is the loop over n lines.
Loop(c, order, n) ==
    c = [i \in 0..n |-> IF i = 0 THEN LoopStart ELSE ApplyLine(c[i - 1], order[i])]

\* The recursive function of RowsAfter exists.
LEMMA LoopRuns ==
    ASSUME NEW order, NEW n \in Nat
    PROVE  \E c : Loop(c, order, n) /\ RowsAfter(order, n) = c[n]
<1> DEFINE Good == {m \in Nat : \E c : Loop(c, order, m)}
<1>1. 0 \in Good
  <2> DEFINE c == [i \in 0..0 |-> LoopStart]
  <2>1. Loop(c, order, 0)
    BY DEF Loop
  <2> QED
    BY <2>1
<1>2. ASSUME NEW m \in Nat, m \in Good PROVE m + 1 \in Good
  <2>1. PICK c : Loop(c, order, m)
    BY <1>2
  <2> DEFINE d == [i \in 0..m + 1 |-> IF i <= m THEN c[i] ELSE ApplyLine(c[m], order[m + 1])]
  <2>2. Loop(d, order, m + 1)
    BY <2>1 DEF Loop
  <2> HIDE DEF d
  <2> QED
    BY <2>2
<1>3. n \in Good
  <2> HIDE DEF Good
  <2> QED
    BY <1>1, <1>2, SetInduction
<1> DEFINE d == CHOOSE c : Loop(c, order, n)
<1>4. Loop(d, order, n)
  BY <1>3
<1>5. RowsAfter(order, n) = d[n]
  BY DEF RowsAfter, Loop, LoopStart
<1> QED
  BY <1>4, <1>5

-----------------------------------------------------------------------------
(* One line. *)

LEMMA EntrySound ==
    ASSUME NEW s, Sound(s), NEW b \in Countable, NEW delta \in Int, CanEntry(s, b, delta)
    PROVE  /\ Sound(Entry(s, b, delta))
           /\ \A x \in Countable :
                 Entry(s, b, delta)[x] = IF x = b THEN s[x] + delta ELSE s[x]
<1> DEFINE da == IF b = "available" THEN delta ELSE 0
           dd == IF b = "damaged" THEN delta ELSE 0
           dl == IF b = "lost" THEN delta ELSE 0
<1>1. da \in Int /\ dd \in Int /\ dl \in Int
  OBVIOUS
<1>2. Entry(s, b, delta) = Adjust(s, da, dd, dl)
  BY DEF Entry, Countable
<1>3. s \in Row(Nat)
  BY DEF Sound
<1>4. CanAdjust(s, da, dd, dl)
  BY <1>3 DEF CanAdjust, CanEntry, Row, Countable
<1>5. /\ Adjust(s, da, dd, dl).available = s.available + da
      /\ Adjust(s, da, dd, dl).damaged = s.damaged + dd
      /\ Adjust(s, da, dd, dl).lost = s.lost + dl
  BY <1>1, <1>3 DEF Adjust, Retotal, Row
<1> HIDE DEF da, dd, dl
<1>6. Sound(Entry(s, b, delta))
  BY <1>1, <1>2, <1>4, AdjustSound
<1>7. ASSUME NEW x \in Countable
      PROVE  Entry(s, b, delta)[x] = IF x = b THEN s[x] + delta ELSE s[x]
  BY <1>2, <1>3, <1>5 DEF Countable, Row, da, dd, dl
<1> QED
  BY <1>6, <1>7

LEMMA LineTypes ==
    ASSUME NEW l \in Line
    PROVE  /\ l.target \in Products \/ l.target \in Assets
           /\ l.target \in Products => l.target \notin Assets /\ ProductOf(l.target) = l.target
           /\ l.target \in Assets => /\ l.target \notin Products
                                     /\ ProductOf(l.target) = AssetProduct[l.target]
           /\ ProductOf(l.target) \in Products
           /\ l.condition \in Conditions /\ l.counted \in Nat /\ l.expected \in Nat
BY LendingAssumption DEF LendingAssumption, Line, ProductOf

\* By how many units bucket b changes when a unit goes from one to another.
Shift(b, from, to) == (IF b = to THEN 1 ELSE 0) - (IF b = from THEN 1 ELSE 0)

\* By how many units a line moves a bucket of its product.
Moves(statuses, l, b) ==
    IF l.target \in Products
    THEN IF b = l.condition THEN l.counted - l.expected ELSE 0
    ELSE Shift(b, statuses[l.target], CountedStatus(l))

LEMMA RowOfLine ==
    ASSUME NEW rows, NEW s, Sound(s), NEW statuses, NEW l \in Line,
           Fresh(rows, statuses, l), CanApplyTo(s, statuses, l)
    PROVE  /\ Sound(RowAfter(s, statuses, l))
           /\ \A b \in Countable : RowAfter(s, statuses, l)[b] = s[b] + Moves(statuses, l, b)
           /\ l.target \in Assets => CountedStatus(l) \in Countable
                                     /\ statuses[l.target] \in Countable
<1>1. /\ l.target \in Products \/ l.target \in Assets
      /\ l.target \in Products => l.target \notin Assets
      /\ l.condition \in Countable /\ l.counted \in Nat /\ l.expected \in Nat
  BY LineTypes DEF Fresh, Conditions, Countable
<1>2. s \in Row(Nat) /\ \A b \in Countable : s[b] \in Nat
  BY DEF Sound, Row, Countable
<1>3. CASE l.target \in Products
  <2>1. CASE l.counted = l.expected
    BY <1>1, <1>2, <1>3, <2>1 DEF RowAfter, Moves
  <2>2. CASE l.counted # l.expected
    <3> DEFINE delta == l.counted - l.expected
    <3>1. delta \in Int /\ CanEntry(s, l.condition, delta)
      BY <1>1, <1>3, <2>2 DEF CanApplyTo
    <3>2. RowAfter(s, statuses, l) = Entry(s, l.condition, delta)
      BY <1>3, <2>2 DEF RowAfter
    <3>3. \A b \in Countable : Moves(statuses, l, b) = IF b = l.condition THEN delta ELSE 0
      BY <1>3 DEF Moves
    <3> HIDE DEF delta
    <3>4. /\ Sound(Entry(s, l.condition, delta))
          /\ \A x \in Countable :
                Entry(s, l.condition, delta)[x] = IF x = l.condition THEN s[x] + delta ELSE s[x]
      BY <1>1, <3>1, EntrySound
    <3> QED
      BY <1>1, <1>2, <1>3, <3>2, <3>3, <3>4
  <2> QED
    BY <2>1, <2>2
<1>4. CASE l.target \in Assets
  <2> DEFINE old == statuses[l.target]
             new == CountedStatus(l)
  <2>1. old \in Countable /\ new \in Countable /\ l.target \notin Products
    BY <1>1, <1>4 DEF Fresh, CountedStatus, Countable
  <2>2. \A b \in Countable : Moves(statuses, l, b)
           = (IF b = new THEN 1 ELSE 0) - (IF b = old THEN 1 ELSE 0)
    BY <2>1 DEF Moves, Shift
  <2>3. old = new => RowAfter(s, statuses, l) = s
    BY <2>1 DEF RowAfter
  <2>4. old # new => /\ RowAfter(s, statuses, l) = Entry(Entry(s, old, -1), new, 1)
                     /\ CanEntry(s, old, -1)
    BY <2>1 DEF RowAfter, CanApplyTo
  <2> HIDE DEF old, new
  <2>5. CASE old = new
    BY <1>2, <1>4, <2>1, <2>2, <2>3, <2>5 DEF old, new
  <2>6. CASE old # new
    <3> DEFINE mid == Entry(s, old, -1)
    <3>1. /\ Sound(mid)
          /\ \A x \in Countable : mid[x] = IF x = old THEN s[x] + (-1) ELSE s[x]
      BY <2>1, <2>4, <2>6, EntrySound
    <3>2. RowAfter(s, statuses, l) = Entry(mid, new, 1)
      BY <2>4, <2>6
    <3> HIDE DEF mid
    <3>3. CanEntry(mid, new, 1)
      BY <1>2, <2>1, <2>6, <3>1 DEF CanEntry
    <3>4. /\ Sound(Entry(mid, new, 1))
          /\ \A x \in Countable : Entry(mid, new, 1)[x] = IF x = new THEN mid[x] + 1 ELSE mid[x]
      BY <2>1, <3>1, <3>3, EntrySound
    <3>5. ASSUME NEW b \in Countable
          PROVE  Entry(mid, new, 1)[b]
                    = s[b] + ((IF b = new THEN 1 ELSE 0) - (IF b = old THEN 1 ELSE 0))
      BY <1>2, <2>6, <3>1, <3>4
    <3> QED
      BY <1>4, <2>1, <2>2, <3>2, <3>4, <3>5 DEF old, new
  <2> QED
    BY <2>5, <2>6
<1> QED
  BY <1>1, <1>3, <1>4

\* A line that goes through: every row but its product's stays.
LEMMA LineApplies ==
    ASSUME NEW c \in LoopState, NEW l \in Line
    PROVE  /\ ApplyLine(c, l) \in LoopState
           /\ ApplyLine(c, l).ok =>
                 /\ c.ok /\ Fresh(c.stock, c.asset, l)
                 /\ \A x \in Products, b \in Countable :
                       ApplyLine(c, l).stock[x][b] = c.stock[x][b]
                          + (IF x = ProductOf(l.target) THEN Moves(c.asset, l, b) ELSE 0)
                 /\ ApplyLine(c, l).asset = IF l.target \in Assets
                       THEN [c.asset EXCEPT ![l.target] = CountedStatus(l)] ELSE c.asset
                 /\ l.target \in Assets => CountedStatus(l) \in Countable
<1> DEFINE owner == ProductOf(l.target)
           row == RowAfter(c.stock[owner], c.asset, l)
           rows == [c.stock EXCEPT ![owner] = row]
           statuses == IF l.target \in Assets
                       THEN [c.asset EXCEPT ![l.target] = CountedStatus(l)] ELSE c.asset
<1>1. /\ c.stock \in [Products -> {s \in Row(Nat) : Sound(s)}] /\ c.ok \in BOOLEAN
      /\ c.asset \in [Assets -> AssetStatuses] /\ owner \in Products
      /\ c = [ok |-> c.ok, stock |-> c.stock, asset |-> c.asset]
  BY LineTypes DEF LoopState
<1>2. \A x \in Products, b \in Countable : c.stock[x][b] \in Nat
  BY <1>1 DEF Row, Countable
<1>3. CASE c.ok /\ Fresh(c.stock, c.asset, l) /\ CanApplyTo(c.stock[owner], c.asset, l)
  <2>1. ApplyLine(c, l) = [ok |-> TRUE, stock |-> rows, asset |-> statuses]
    BY <1>3 DEF ApplyLine
  <2>2. /\ Sound(row)
        /\ \A b \in Countable : row[b] = c.stock[owner][b] + Moves(c.asset, l, b)
        /\ l.target \in Assets => CountedStatus(l) \in Countable
    <3> DEFINE was == c.stock[owner]
    <3>1. Sound(was) /\ CanApplyTo(was, c.asset, l) /\ row = RowAfter(was, c.asset, l)
      BY <1>1, <1>3
    <3> HIDE DEF was, row
    <3>2. /\ Sound(RowAfter(was, c.asset, l))
          /\ \A b \in Countable : RowAfter(was, c.asset, l)[b] = was[b] + Moves(c.asset, l, b)
          /\ l.target \in Assets => CountedStatus(l) \in Countable
      BY <1>3, <3>1, RowOfLine
    <3> QED
      BY <3>1, <3>2 DEF was
  <2> HIDE DEF row
  <2>3. rows \in [Products -> {s \in Row(Nat) : Sound(s)}]
    BY <1>1, <2>2 DEF Sound
  <2>4. statuses \in [Assets -> AssetStatuses]
    BY <1>1, <2>2 DEF Countable, AssetStatuses
  <2>5. \A x \in Products, b \in Countable :
           rows[x][b] = c.stock[x][b] + (IF x = owner THEN Moves(c.asset, l, b) ELSE 0)
    BY <1>1, <1>2, <2>2
  <2> HIDE DEF rows, owner
  <2>6. ApplyLine(c, l) \in LoopState
    BY <2>1, <2>3, <2>4 DEF LoopState
  <2>7. ApplyLine(c, l).stock = rows /\ ApplyLine(c, l).asset = statuses
    BY <2>1
  <2> QED
    BY <1>3, <2>2, <2>5, <2>6, <2>7 DEF owner
<1>4. CASE ~(c.ok /\ Fresh(c.stock, c.asset, l) /\ CanApplyTo(c.stock[owner], c.asset, l))
  <2>1. ApplyLine(c, l) = [c EXCEPT !.ok = FALSE]
    BY <1>4 DEF ApplyLine
  <2>2. [c EXCEPT !.ok = FALSE] \in LoopState /\ [c EXCEPT !.ok = FALSE].ok = FALSE
    BY DEF LoopState
  <2> QED
    BY <2>1, <2>2
<1> QED
  BY <1>3, <1>4

-----------------------------------------------------------------------------
(* The loop. *)

\* If the last line goes through, every line did, on rows that are sound.
LEMMA LoopGoesThrough ==
    ASSUME TypesAndRows, NEW n \in Nat, NEW L \in SUBSET Line, NEW order \in [1..n -> L],
           NEW c, Loop(c, order, n), c[n].ok
    PROVE  /\ c[0] = LoopStart
           /\ \A i \in 0..n : c[i] \in LoopState /\ c[i].ok
           /\ \A i \in 1..n : c[i] = ApplyLine(c[i - 1], order[i])
<1>1. c[0] = LoopStart /\ \A i \in 1..n : c[i] = ApplyLine(c[i - 1], order[i])
  BY DEF Loop
<1>2. LoopStart \in LoopState
  BY DEF LoopStart, LoopState, TypesAndRows, TypeOK
<1>3. \A i \in 0..n : c[i] \in LoopState
  <2> DEFINE Good == {i \in Nat : i <= n => c[i] \in LoopState}
  <2>1. 0 \in Good
    BY <1>1, <1>2
  <2>2. ASSUME NEW i \in Nat, i \in Good PROVE i + 1 \in Good
    <3>1. SUFFICES ASSUME i + 1 <= n PROVE c[i + 1] \in LoopState
      OBVIOUS
    <3>2. c[i] \in LoopState /\ i + 1 \in 1..n
      BY <2>2, <3>1
    <3>3. c[i + 1] = ApplyLine(c[i], order[i + 1]) /\ order[i + 1] \in Line
      BY <1>1, <3>2
    <3> QED
      BY <3>2, <3>3, LineApplies
  <2>3. Nat \subseteq Good
    <3> HIDE DEF Good
    <3> QED
      BY <2>1, <2>2, SetInduction
  <2> QED
    BY <2>3
<1>4. \A i \in 0..n : c[i].ok
  <2> DEFINE Good == {i \in Nat : i <= n => c[n - i].ok}
  <2>1. 0 \in Good
    OBVIOUS
  <2>2. ASSUME NEW i \in Nat, i \in Good PROVE i + 1 \in Good
    <3>1. SUFFICES ASSUME i + 1 <= n PROVE c[n - (i + 1)].ok
      OBVIOUS
    <3>2. PICK j \in 1..n : j = n - i
      BY <3>1
    <3>3. c[j].ok /\ n - (i + 1) = j - 1 /\ j - 1 \in 0..n
      BY <2>2, <3>1, <3>2
    <3>4. order[j] \in Line /\ c[j - 1] \in LoopState
      BY <1>3, <3>3
    <3>5. c[j] = ApplyLine(c[j - 1], order[j])
      BY <1>1
    <3>6. ApplyLine(c[j - 1], order[j]).ok => c[j - 1].ok
      BY <3>4, LineApplies
    <3>7. c[j - 1].ok
      BY <3>3, <3>5, <3>6
    <3> QED
      BY <3>3, <3>7
  <2>3. Nat \subseteq Good
    <3> HIDE DEF Good
    <3> QED
      BY <2>1, <2>2, SetInduction
  <2> SUFFICES ASSUME NEW i \in 0..n PROVE c[i].ok
    OBVIOUS
  <2>4. n - i \in Nat /\ n - (n - i) = i /\ n - i <= n
    OBVIOUS
  <2> QED
    BY <2>3, <2>4
<1> QED
  BY <1>1, <1>3, <1>4

\* What one line of the loop does to the rows.
LEMMA LoopLine ==
    ASSUME TypesAndRows, NEW n \in Nat, NEW L \in SUBSET Line, NEW order \in [1..n -> L],
           NEW c, Loop(c, order, n), c[n].ok, NEW i \in 1..n
    PROVE  /\ Fresh(c[i - 1].stock, c[i - 1].asset, order[i])
           /\ \A x \in Products, b \in Countable :
                 c[i].stock[x][b] = c[i - 1].stock[x][b]
                    + (IF x = ProductOf(order[i].target)
                       THEN Moves(c[i - 1].asset, order[i], b) ELSE 0)
           /\ c[i].asset = IF order[i].target \in Assets
                 THEN [c[i - 1].asset EXCEPT ![order[i].target] = CountedStatus(order[i])]
                 ELSE c[i - 1].asset
           /\ order[i].target \in Assets => CountedStatus(order[i]) \in Countable
           /\ c[i - 1].asset \in [Assets -> AssetStatuses]
           /\ \A x \in Products, b \in Countable :
                 c[i - 1].stock[x][b] \in Nat /\ c[i].stock[x][b] \in Nat
<1>1. /\ c[i] = ApplyLine(c[i - 1], order[i]) /\ c[i].ok
      /\ c[i - 1] \in LoopState /\ c[i] \in LoopState /\ order[i] \in Line
  <2>1. i - 1 \in 0..n /\ i \in 0..n
    OBVIOUS
  <2> QED
    BY <2>1, LoopGoesThrough
<1>2. PICK was \in LoopState, l \in Line : was = c[i - 1] /\ l = order[i]
  BY <1>1
<1>3. ApplyLine(was, l).ok /\ c[i] = ApplyLine(was, l)
  BY <1>1, <1>2
<1>4. /\ Fresh(was.stock, was.asset, l)
      /\ \A x \in Products, b \in Countable :
            ApplyLine(was, l).stock[x][b] = was.stock[x][b]
               + (IF x = ProductOf(l.target) THEN Moves(was.asset, l, b) ELSE 0)
      /\ ApplyLine(was, l).asset = IF l.target \in Assets
            THEN [was.asset EXCEPT ![l.target] = CountedStatus(l)] ELSE was.asset
      /\ l.target \in Assets => CountedStatus(l) \in Countable
  BY <1>3, LineApplies
<1>5. \A d \in LoopState : /\ d.asset \in [Assets -> AssetStatuses]
                          /\ \A x \in Products, b \in Countable : d.stock[x][b] \in Nat
  BY DEF LoopState, Row, Countable
<1> QED
  BY <1>1, <1>2, <1>3, <1>4, <1>5

\* Where another line counts another bucket, the bucket of l stays.
LEMMA OthersPassBy ==
    ASSUME NEW t \in Sessions, lines[t] \in SUBSET Line, NEW l \in lines[t],
           NEW m \in lines[t], l # m, Alone(t, l), l.target \in Products,
           l.condition \in Countable, NEW statuses,
           ProductOf(m.target) = l.target
    PROVE  Moves(statuses, m, l.condition) = 0
<1>1. ProductOf(l.target) = l.target
  BY LineTypes
<1>2. m.target = l.target /\ m.condition # l.condition
  BY <1>1 DEF Alone
<1> QED
  BY <1>2 DEF Moves

\* A product's bucket that one line counts ends at what was counted.
LEMMA LoopStocksCounted ==
    ASSUME TypesAndRows, NEW t \in Sessions, lines[t] \in SUBSET Line, NEW n \in Nat,
           NEW order \in Bijection(1..n, lines[t]),
           NEW c, Loop(c, order, n), c[n].ok,
           NEW l \in lines[t], l.target \in Products, Alone(t, l)
    PROVE  c[n].stock[l.target][l.condition] = l.counted
<1> DEFINE x == l.target
           b == l.condition
<1>0. PICK L \in SUBSET Line : L = lines[t]
  OBVIOUS
<1>1. order \in [1..n -> L] /\ \A i, j \in 1..n : order[i] = order[j] => i = j
  BY <1>0 DEF Bijection, Injection, IsInjective
<1>2. PICK k \in 1..n : order[k] = l
  BY DEF Bijection, Surjection
<1>3. l \in L /\ l \in Line
  BY <1>0
<1>4. ASSUME NEW i \in 1..n
      PROVE  /\ Fresh(c[i - 1].stock, c[i - 1].asset, order[i])
             /\ \A y \in Products, d \in Countable :
                   /\ c[i].stock[y][d] = c[i - 1].stock[y][d]
                         + (IF y = ProductOf(order[i].target)
                            THEN Moves(c[i - 1].asset, order[i], d) ELSE 0)
                   /\ c[i - 1].stock[y][d] \in Nat
  <2>1. /\ Fresh(c[i - 1].stock, c[i - 1].asset, order[i])
        /\ \A y \in Products, d \in Countable :
              c[i].stock[y][d] = c[i - 1].stock[y][d]
                 + (IF y = ProductOf(order[i].target)
                    THEN Moves(c[i - 1].asset, order[i], d) ELSE 0)
        /\ c[i].asset = IF order[i].target \in Assets
              THEN [c[i - 1].asset EXCEPT ![order[i].target] = CountedStatus(order[i])]
              ELSE c[i - 1].asset
        /\ order[i].target \in Assets => CountedStatus(order[i]) \in Countable
        /\ c[i - 1].asset \in [Assets -> AssetStatuses]
        /\ \A y \in Products, d \in Countable :
              c[i - 1].stock[y][d] \in Nat /\ c[i].stock[y][d] \in Nat
    BY <1>1, LoopLine
  <2> QED
    BY <2>1
<1>5. b \in Countable /\ x \in Products /\ ProductOf(l.target) = x
      /\ l.counted \in Nat /\ l.expected \in Nat
  <2>1. l.condition # "unknown"
    BY <1>2, <1>4 DEF Fresh
  <2> QED
    BY <1>3, <2>1, LineTypes DEF Conditions, Countable
<1>6. c[k].stock[x][b] = l.counted
  <2>1. l.expected = c[k - 1].stock[x][b]
    BY <1>2, <1>4, <1>5 DEF Fresh, Expected
  <2>2. Moves(c[k - 1].asset, l, b) = l.counted - l.expected
    BY <1>5 DEF Moves
  <2>3. c[k].stock[x][b] = c[k - 1].stock[x][b] + (l.counted - l.expected)
    BY <1>2, <1>4, <1>5, <2>2
  <2> QED
    BY <1>5, <2>1, <2>3
<1> DEFINE Good == {i \in Nat : k + i <= n => c[k + i].stock[x][b] = l.counted}
<1>7. 0 \in Good
  BY <1>6
<1>8. ASSUME NEW i \in Nat, i \in Good PROVE i + 1 \in Good
  <2>1. SUFFICES ASSUME k + (i + 1) <= n PROVE c[k + (i + 1)].stock[x][b] = l.counted
    OBVIOUS
  <2>2. PICK j \in 1..n : j = k + (i + 1) /\ j - 1 = k + i /\ j # k
    BY <2>1
  <2>3. c[j - 1].stock[x][b] = l.counted
    BY <1>8, <2>1, <2>2
  <2>4. order[j] \in L /\ order[j] # l
    BY <1>1, <1>2, <2>2
  <2>5. x = ProductOf(order[j].target) => Moves(c[j - 1].asset, order[j], b) = 0
    BY <1>0, <1>3, <1>5, <2>4, OthersPassBy
  <2>6. c[j].stock[x][b] = c[j - 1].stock[x][b]
            + (IF x = ProductOf(order[j].target)
               THEN Moves(c[j - 1].asset, order[j], b) ELSE 0)
    BY <1>4, <1>5
  <2> QED
    BY <1>5, <2>2, <2>3, <2>5, <2>6
<1>9. Nat \subseteq Good
  <2> HIDE DEF Good
  <2> QED
    BY <1>7, <1>8, SetInduction
<1>10. n - k \in Nat /\ k + (n - k) = n
  OBVIOUS
<1> QED
  BY <1>9, <1>10

-----------------------------------------------------------------------------
(* Units that are counted one by one. *)

HowMany(S, statuses, b) == Cardinality({x \in S : statuses[x] = b})
Reset(statuses, a, new) == [statuses EXCEPT ![a] = new]

\* One asset in a set goes from one status to another.
LEMMA OneStatusChanges ==
    ASSUME NEW S \in SUBSET Assets, NEW statuses \in [Assets -> AssetStatuses],
           NEW a \in S, NEW new \in AssetStatuses, NEW b
    PROVE  /\ HowMany(S, statuses, b) \in Nat
           /\ HowMany(S, Reset(statuses, a, new), b)
                 = HowMany(S, statuses, b) + Shift(b, statuses[a], new)
<1> DEFINE after == [statuses EXCEPT ![a] = new]
           was == {x \in S : statuses[x] = b}
           is == {x \in S : after[x] = b}
           rest == was \ {a}
<1>0. /\ HowMany(S, statuses, b) = Cardinality(was)
      /\ HowMany(S, Reset(statuses, a, new), b) = Cardinality(is)
  BY DEF HowMany, Reset
<1>1. IsFiniteSet(was) /\ IsFiniteSet(rest) /\ a \notin rest
  BY LendingAssumption, FS_Subset DEF LendingAssumption
<1>2. /\ Cardinality(rest) \in Nat /\ Cardinality(was) \in Nat
      /\ Cardinality(rest \cup {a}) = Cardinality(rest) + 1
  BY <1>1, FS_AddElement, FS_CardinalityType
<1>3. was = IF b = statuses[a] THEN rest \cup {a} ELSE rest
  OBVIOUS
<1>4. is = IF b = new THEN rest \cup {a} ELSE rest
  OBVIOUS
<1> HIDE DEF was, is, rest
<1>5. Cardinality(was) = Cardinality(rest) + (IF b = statuses[a] THEN 1 ELSE 0)
  BY <1>2, <1>3
<1>6. Cardinality(is) = Cardinality(rest) + (IF b = new THEN 1 ELSE 0)
  BY <1>2, <1>4
<1>7. Cardinality(is) = Cardinality(was)
                     + ((IF b = new THEN 1 ELSE 0) - (IF b = statuses[a] THEN 1 ELSE 0))
  BY <1>2, <1>5, <1>6
<1> QED
  BY <1>0, <1>2, <1>7 DEF Shift

\* A line that counts an asset: the rows and the bucket move together.
LEMMA AssetsMoveTogether ==
    ASSUME NEW statuses \in [Assets -> AssetStatuses], NEW l \in Line, l.target \in Assets,
           CountedStatus(l) \in Countable, NEW x \in Products, NEW b \in Countable
    PROVE  /\ AssetsIn(statuses, x, b) \in Nat
           /\ AssetsIn(Reset(statuses, l.target, CountedStatus(l)), x, b)
                  = AssetsIn(statuses, x, b)
                      + (IF x = ProductOf(l.target) THEN Moves(statuses, l, b) ELSE 0)
<1> DEFINE S == AssetsOf(x)
<1>0. PICK a \in Assets, new \in Countable : a = l.target /\ new = CountedStatus(l)
  OBVIOUS
<1> DEFINE after == Reset(statuses, a, new)
<1>1. S \in SUBSET Assets /\ new \in AssetStatuses
  BY <1>0 DEF AssetsOf, Countable, AssetStatuses
<1>2. ProductOf(a) = AssetProduct[a] /\ a \notin Products
  BY <1>0, LineTypes
<1>3. /\ AssetsIn(statuses, x, b) = HowMany(S, statuses, b)
      /\ AssetsIn(Reset(statuses, l.target, CountedStatus(l)), x, b) = HowMany(S, after, b)
  BY <1>0 DEF AssetsIn, HowMany
<1>4. CASE x = ProductOf(a)
  <2>1. a \in S
    BY <1>2, <1>4 DEF AssetsOf
  <2>2. Moves(statuses, l, b) = Shift(b, statuses[a], new)
    BY <1>0, <1>2 DEF Moves
  <2> HIDE DEF S
  <2>3. /\ HowMany(S, statuses, b) \in Nat
        /\ HowMany(S, Reset(statuses, a, new), b)
              = HowMany(S, statuses, b) + Shift(b, statuses[a], new)
    BY <1>1, <2>1, OneStatusChanges
  <2> QED
    BY <1>0, <1>3, <1>4, <2>2, <2>3
<1>5. CASE x # ProductOf(a)
  <2>1. \A y \in S : after[y] = statuses[y]
    BY <1>1, <1>2, <1>5 DEF AssetsOf, Reset
  <2>2. {y \in S : after[y] = b} = {y \in S : statuses[y] = b}
    BY <2>1
  <2>3. IsFiniteSet({y \in S : statuses[y] = b})
    BY <1>1, LendingAssumption, FS_Subset DEF LendingAssumption
  <2>4. /\ HowMany(S, statuses, b) \in Nat
        /\ HowMany(S, after, b) = HowMany(S, statuses, b)
    BY <2>2, <2>3, FS_CardinalityType DEF HowMany
  <2> HIDE DEF S
  <2> QED
    BY <1>0, <1>3, <1>5, <2>4
<1> QED
  BY <1>4, <1>5

\* Where only assets were counted, the buckets and the rows end in step.
LEMMA LoopFollowsAssets ==
    ASSUME TypesAndRows, NEW t \in Sessions, lines[t] \in SUBSET Line, NEW n \in Nat,
           NEW order \in [1..n -> lines[t]],
           NEW c, Loop(c, order, n), c[n].ok,
           \A l \in lines[t] : l.target \in Assets,
           NEW x \in Products, NEW b \in Countable
    PROVE  c[n].stock[x][b] - stock[x][b] = AssetsIn(c[n].asset, x, b) - AssetsIn(asset, x, b)
<1>0. PICK L \in SUBSET Line : L = lines[t]
  OBVIOUS
<1>1. order \in [1..n -> L] /\ \A l \in L : l.target \in Assets
  BY <1>0
<1> DEFINE InStep(i) ==
              c[i].stock[x][b] - stock[x][b] = AssetsIn(c[i].asset, x, b) - AssetsIn(asset, x, b)
           Good == {i \in Nat : i <= n => InStep(i)}
<1>2. c[0] = LoopStart /\ stock[x][b] \in Nat /\ AssetsIn(asset, x, b) \in Nat
  <2>1. AssetsOf(x) \in SUBSET Assets /\ IsFiniteSet(Assets)
    BY LendingAssumption DEF AssetsOf, LendingAssumption
  <2>2. AssetsIn(asset, x, b) \in Nat
    BY <2>1, FS_Subset, FS_CardinalityType DEF AssetsIn
  <2> QED
    BY <2>2 DEF Loop, TypesAndRows, TypeOK, Row, Countable
<1>3. 0 \in Good
  BY <1>2 DEF LoopStart
<1>4. ASSUME NEW i \in Nat, i \in Good PROVE i + 1 \in Good
  <2>1. SUFFICES ASSUME i + 1 <= n PROVE InStep(i + 1)
    OBVIOUS
  <2>2. PICK j \in 1..n : j = i + 1 /\ j - 1 = i
    BY <2>1
  <2>3. /\ Fresh(c[j - 1].stock, c[j - 1].asset, order[j])
        /\ \A y \in Products, d \in Countable :
              c[j].stock[y][d] = c[j - 1].stock[y][d]
                 + (IF y = ProductOf(order[j].target)
                    THEN Moves(c[j - 1].asset, order[j], d) ELSE 0)
        /\ c[j].asset = IF order[j].target \in Assets
              THEN [c[j - 1].asset EXCEPT ![order[j].target] = CountedStatus(order[j])]
              ELSE c[j - 1].asset
        /\ order[j].target \in Assets => CountedStatus(order[j]) \in Countable
        /\ c[j - 1].asset \in [Assets -> AssetStatuses]
        /\ \A y \in Products, d \in Countable :
              c[j - 1].stock[y][d] \in Nat /\ c[j].stock[y][d] \in Nat
    BY <1>1, LoopLine
  <2>4. PICK l \in Line : l = order[j] /\ l.target \in Assets
    BY <1>1
  <2>5. PICK statuses \in [Assets -> AssetStatuses] : statuses = c[j - 1].asset
    BY <2>3
  <2>15. PICK moved : moved = IF x = ProductOf(l.target) THEN Moves(statuses, l, b) ELSE 0
    OBVIOUS
  <2>6. CountedStatus(l) \in Countable
        /\ c[j].asset = [statuses EXCEPT ![l.target] = CountedStatus(l)]
        /\ c[j].stock[x][b] = c[j - 1].stock[x][b] + moved
    BY <2>3, <2>4, <2>5, <2>15
  <2>7. PICK after : after = c[j].asset
    OBVIOUS
  <2>11. /\ AssetsIn(statuses, x, b) \in Nat
         /\ AssetsIn(after, x, b) = AssetsIn(statuses, x, b) + moved
    <3>1. after = Reset(statuses, l.target, CountedStatus(l))
      BY <2>6, <2>7 DEF Reset
    <3>2. /\ AssetsIn(statuses, x, b) \in Nat
          /\ AssetsIn(Reset(statuses, l.target, CountedStatus(l)), x, b)
                = AssetsIn(statuses, x, b)
                    + (IF x = ProductOf(l.target) THEN Moves(statuses, l, b) ELSE 0)
      BY <2>4, <2>6, AssetsMoveTogether
    <3> QED
      BY <2>15, <3>1, <3>2
  <2>8. moved \in Int
    BY <2>4, <2>15, LineTypes DEF Moves, Shift
  <2>9. InStep(i)
    BY <1>4, <2>1
  <2>10. c[i].stock[x][b] \in Nat /\ c[j].stock[x][b] = c[i].stock[x][b] + moved
         /\ AssetsIn(c[j].asset, x, b) = AssetsIn(c[i].asset, x, b) + moved
         /\ AssetsIn(c[i].asset, x, b) \in Nat
    BY <2>2, <2>3, <2>5, <2>6, <2>7, <2>11
  <2>12. PICK u, v, y, z : /\ u = c[i].stock[x][b] /\ v = stock[x][b]
                          /\ y = AssetsIn(c[i].asset, x, b) /\ z = AssetsIn(asset, x, b)
    OBVIOUS
  <2>13. u \in Nat /\ v \in Nat /\ y \in Nat /\ z \in Nat /\ u - v = y - z
    BY <1>2, <2>9, <2>10, <2>12
  <2>14. (u + moved) - v = (y + moved) - z
    BY <2>8, <2>13
  <2> QED
    BY <2>2, <2>10, <2>12, <2>14
<1>5. Nat \subseteq Good
  <2> HIDE DEF Good
  <2> QED
    BY <1>3, <1>4, SetInduction
<1> QED
  BY <1>5

-----------------------------------------------------------------------------
(* Steps. *)

\* What is known when a session is applied.
LEMMA AppliedBy ==
    ASSUME TakesInv, NEW t \in Sessions, apply_stocktake_adjustments(t)
    PROVE  \E n \in Nat : \E order \in Bijection(1..n, lines[t]) : \E c :
              /\ Loop(c, order, n) /\ c[n].ok
              /\ stock' = c[n].stock /\ asset' = c[n].asset
<1>1. PICK n \in Nat : n = Cardinality(lines[t])
  BY FS_CardinalityType DEF TakesInv
<1>2. PICK order \in Bijection(1..n, lines[t]) :
         /\ RowsAfter(order, n).ok
         /\ stock' = RowsAfter(order, n).stock /\ asset' = RowsAfter(order, n).asset
  BY <1>1 DEF apply_stocktake_adjustments
<1>3. PICK c : Loop(c, order, n) /\ RowsAfter(order, n) = c[n]
  BY LoopRuns
<1> QED
  BY <1>2, <1>3

LEMMA ApplyTypes ==
    ASSUME TakesInv, NEW t \in Sessions, apply_stocktake_adjustments(t)
    PROVE  TypesAndRows'
<1>1. PICK n \in Nat : \E order \in Bijection(1..n, lines[t]) : \E c :
         /\ Loop(c, order, n) /\ c[n].ok
         /\ stock' = c[n].stock /\ asset' = c[n].asset
  BY AppliedBy
<1>2. PICK order \in Bijection(1..n, lines[t]) : \E c :
         /\ Loop(c, order, n) /\ c[n].ok
         /\ stock' = c[n].stock /\ asset' = c[n].asset
  BY <1>1
<1>3. PICK c : /\ Loop(c, order, n) /\ c[n].ok
               /\ stock' = c[n].stock /\ asset' = c[n].asset
  BY <1>2
<1>4. PICK L \in SUBSET Line : L = lines[t]
  BY DEF TakesInv
<1>5. order \in [1..n -> L] /\ n \in 0..n
  BY <1>4 DEF Bijection, Injection
<1>6. TypesAndRows
  BY DEF TakesInv
<1>7. \A i \in 0..n : c[i] \in LoopState /\ c[i].ok
  BY <1>3, <1>5, <1>6, LoopGoesThrough
<1>8. stock' = c[n].stock /\ asset' = c[n].asset /\ c[n] \in LoopState
  BY <1>3, <1>5, <1>7
<1>9. StockType(stock') /\ asset' \in [Assets -> AssetStatuses]
  BY <1>8 DEF LoopState, StockType
<1>10. AssetType(asset')
  BY <1>9 DEF AssetType
<1>11. /\ TrackingType(tracking') /\ RequestType(request') /\ ItemType(item')
       /\ LinkType(link') /\ LoanType(loan') /\ EventsType(returnEvents')
       /\ ReportType(report')
  BY <1>6, TypesSplit DEF apply_stocktake_adjustments
<1> QED
  BY <1>9, <1>10, <1>11, TypesSplitPrime

LEMMA StartTakes == StocktakeInit => TakesInv
<1> SUFFICES ASSUME StocktakeInit PROVE TakesInv
  OBVIOUS
<1>1. TypesAndRows
  BY InitTypes DEF StocktakeInit
<1>2. session \in [Sessions -> [status : SessionStatuses, container : Boxes \cup {None}]]
  BY DEF StocktakeInit, NoSession, SessionStatuses
<1>3. lines \in [Sessions -> SUBSET Line] /\ \A t \in Sessions : IsFiniteSet(lines[t])
  BY FS_EmptySet DEF StocktakeInit
<1> QED
  BY <1>1, <1>2, <1>3 DEF TakesInv

LEMMA TypesKept ==
    ASSUME TypesAndRows, UNCHANGED vars
    PROVE  TypesAndRows'
BY TypesSplit, TypesSplitPrime DEF vars

LEMMA AddLineTakes ==
    ASSUME TakesInv, NEW t \in Sessions, NEW x \in Products \cup Assets,
           NEW condition \in Conditions, NEW container \in Boxes \cup {None},
           NEW counted \in 0..MaxQty,
           add_stocktake_line(t, x, condition, container, counted)
    PROVE  TakesInv'
<1> DEFINE l == [target |-> x, condition |-> condition, container |-> container,
                 expected |-> Expected(stock, asset, x, condition), counted |-> counted]
<1>1. TypesAndRows'
  BY TypesKept DEF TakesInv, add_stocktake_line
<1>2. Expected(stock, asset, x, condition) \in Nat
  BY DEF TakesInv, TypesAndRows, TypeOK, Row, Expected, Countable
<1>3. l \in Line
  BY <1>2, LendingAssumption DEF Line, LendingAssumption
<1> HIDE DEF l
<1>4. lines' = [lines EXCEPT ![t] = @ \cup {l}]
  BY DEF add_stocktake_line, l
<1>5. lines' \in [Sessions -> SUBSET Line]
  BY <1>3, <1>4 DEF TakesInv
<1>6. \A u \in Sessions : IsFiniteSet(lines'[u])
  BY <1>4, FS_AddElement DEF TakesInv
<1> QED
  BY <1>1, <1>5, <1>6 DEF TakesInv, add_stocktake_line

LEMMA StocktakeStep ==
    ASSUME TakesInv, [StocktakeNext]_takeVars
    PROVE  TakesInv'
<1>1. CASE Next /\ UNCHANGED takes
  <2>1. TypesAndRows'
    BY <1>1, StepTypes DEF TakesInv
  <2> QED
    BY <1>1, <2>1 DEF TakesInv, takes
<1>2. CASE StocktakeSteps
  <2>1. PICK t \in Sessions :
          \/ \E container \in Boxes \cup {None} : create_stocktake(t, container)
          \/ \E x \in Products \cup Assets, condition \in Conditions,
                container \in Boxes \cup {None}, counted \in 0..MaxQty :
                   add_stocktake_line(t, x, condition, container, counted)
          \/ complete_stocktake(t)
          \/ approve_stocktake(t)
          \/ apply_stocktake_adjustments(t)
    BY <1>2 DEF StocktakeSteps
  <2>2. ASSUME NEW container \in Boxes \cup {None}, create_stocktake(t, container)
        PROVE  TakesInv'
    <3>1. TypesAndRows'
      BY <2>2, TypesKept DEF TakesInv, create_stocktake
    <3> QED
      BY <2>2, <3>1 DEF TakesInv, create_stocktake, SessionStatuses
  <2>3. CASE complete_stocktake(t)
    <3>1. TypesAndRows'
      BY <2>3, TypesKept DEF TakesInv, complete_stocktake
    <3> QED
      BY <2>3, <3>1 DEF TakesInv, complete_stocktake, SessionStatuses
  <2>4. CASE approve_stocktake(t)
    <3>1. TypesAndRows'
      BY <2>4, TypesKept DEF TakesInv, approve_stocktake
    <3> QED
      BY <2>4, <3>1 DEF TakesInv, approve_stocktake, SessionStatuses
  <2>5. CASE apply_stocktake_adjustments(t)
    <3>1. TypesAndRows'
      BY <2>5, ApplyTypes
    <3> QED
      BY <2>5, <3>1 DEF TakesInv, apply_stocktake_adjustments, SessionStatuses
  <2> QED
    BY <2>1, <2>2, <2>3, <2>4, <2>5, AddLineTakes
<1>3. CASE UNCHANGED takeVars
  <2>1. TypesAndRows'
    BY <1>3, TypesKept DEF TakesInv, takeVars
  <2> QED
    BY <1>3, <2>1 DEF TakesInv, takeVars, takes
<1> QED
  BY <1>1, <1>2, <1>3 DEF StocktakeNext

\* A session is only ever applied by apply_stocktake_adjustments.
LEMMA OnlyApplyApplies ==
    ASSUME TakesInv, [StocktakeNext]_takeVars, NEW t \in Sessions, Applied(t)
    PROVE  apply_stocktake_adjustments(t)
<1>1. session[t].status = "approved" /\ session'[t].status = "applied"
  BY DEF Applied
<1>2. StocktakeSteps
  BY <1>1 DEF StocktakeNext, takes, takeVars
<1>3. PICK u \in Sessions :
          \/ \E container \in Boxes \cup {None} : create_stocktake(u, container)
          \/ \E x \in Products \cup Assets, condition \in Conditions,
                container \in Boxes \cup {None}, counted \in 0..MaxQty :
                   add_stocktake_line(u, x, condition, container, counted)
          \/ complete_stocktake(u)
          \/ approve_stocktake(u)
          \/ apply_stocktake_adjustments(u)
  BY <1>2 DEF StocktakeSteps
<1>4. ASSUME NEW container \in Boxes \cup {None}, create_stocktake(u, container)
      PROVE  FALSE
  BY <1>1, <1>4 DEF TakesInv, create_stocktake
<1>5. ASSUME NEW x \in Products \cup Assets, NEW condition \in Conditions,
             NEW container \in Boxes \cup {None}, NEW counted \in 0..MaxQty,
             add_stocktake_line(u, x, condition, container, counted)
      PROVE  FALSE
  BY <1>1, <1>5 DEF add_stocktake_line
<1>6. ~complete_stocktake(u)
  BY <1>1 DEF TakesInv, complete_stocktake
<1>7. ~approve_stocktake(u)
  BY <1>1 DEF TakesInv, approve_stocktake
<1>8. apply_stocktake_adjustments(u) => u = t
  BY <1>1 DEF TakesInv, apply_stocktake_adjustments
<1> QED
  BY <1>3, <1>4, <1>5, <1>6, <1>7, <1>8

-----------------------------------------------------------------------------
\* Sessions, lines, rows and assets stay well typed, and no bucket ever goes
\* below zero or outgrows its total, with stocktakes among the lending steps.
THEOREM TakesHold == StocktakeSpec => []TakesInv
<1>1. StocktakeInit => TakesInv
  BY StartTakes
<1>2. TakesInv /\ [StocktakeNext]_takeVars => TakesInv'
  BY StocktakeStep
<1> QED
  BY <1>1, <1>2, PTL DEF StocktakeSpec

\* However much was lent, returned or repaired between a count and its
\* application, and in whatever order the lines of the session are applied, the
\* bucket of a product that one line counted ends at the number counted
\* (_validate_line_fresh and apply_stocktake_delta).
THEOREM CountsAreStocked == StocktakeSpec => CountedIsStocked
<1>1. ASSUME TakesInv, [StocktakeNext]_takeVars
      PROVE  [\A t \in Sessions : Applied(t) =>
                \A l \in lines[t] : l.target \in Products /\ Alone(t, l) =>
                   stock'[l.target][l.condition] = l.counted]_takeVars
  <2> SUFFICES ASSUME NEW t \in Sessions, Applied(t), NEW l \in lines[t],
                      l.target \in Products, Alone(t, l)
               PROVE  stock'[l.target][l.condition] = l.counted
    OBVIOUS
  <2>1. apply_stocktake_adjustments(t)
    BY <1>1, OnlyApplyApplies
  <2>2. PICK n \in Nat : \E order \in Bijection(1..n, lines[t]) : \E c :
           /\ Loop(c, order, n) /\ c[n].ok
           /\ stock' = c[n].stock /\ asset' = c[n].asset
    BY <1>1, <2>1, AppliedBy
  <2>3. PICK order \in Bijection(1..n, lines[t]) : \E c :
           /\ Loop(c, order, n) /\ c[n].ok
           /\ stock' = c[n].stock /\ asset' = c[n].asset
    BY <2>2
  <2>4. PICK c : /\ Loop(c, order, n) /\ c[n].ok
                 /\ stock' = c[n].stock /\ asset' = c[n].asset
    BY <2>3
  <2>5. TypesAndRows /\ lines[t] \in SUBSET Line
    BY <1>1 DEF TakesInv
  <2>6. c[n].stock[l.target][l.condition] = l.counted
    BY <2>4, <2>5, LoopStocksCounted
  <2> QED
    BY <2>4, <2>6
<1> QED
  BY <1>1, TakesHold, PTL DEF StocktakeSpec, CountedIsStocked

\* A session that counts assets only moves the buckets of every product by as
\* many units as asset rows of that product enter and leave each status
\* (_ledger_entries_for_line and the asset update beside it).
THEOREM BucketsMoveWithAssets == StocktakeSpec => BucketsFollowAssets
<1>1. ASSUME TakesInv, [StocktakeNext]_takeVars
      PROVE  [\A t \in Sessions :
                Applied(t) /\ (\A l \in lines[t] : l.target \in Assets) =>
                   \A x \in Products, b \in Countable :
                      stock'[x][b] - stock[x][b] =
                         AssetsIn(asset', x, b) - AssetsIn(asset, x, b)]_takeVars
  <2> SUFFICES ASSUME NEW t \in Sessions, Applied(t),
                      \A l \in lines[t] : l.target \in Assets,
                      NEW x \in Products, NEW b \in Countable
               PROVE  stock'[x][b] - stock[x][b] =
                         AssetsIn(asset', x, b) - AssetsIn(asset, x, b)
    OBVIOUS
  <2>1. apply_stocktake_adjustments(t)
    BY <1>1, OnlyApplyApplies
  <2>2. PICK n \in Nat : \E order \in Bijection(1..n, lines[t]) : \E c :
           /\ Loop(c, order, n) /\ c[n].ok
           /\ stock' = c[n].stock /\ asset' = c[n].asset
    BY <1>1, <2>1, AppliedBy
  <2>3. PICK order \in Bijection(1..n, lines[t]) : \E c :
           /\ Loop(c, order, n) /\ c[n].ok
           /\ stock' = c[n].stock /\ asset' = c[n].asset
    BY <2>2
  <2>4. PICK c : /\ Loop(c, order, n) /\ c[n].ok
                 /\ stock' = c[n].stock /\ asset' = c[n].asset
    BY <2>3
  <2>5. TypesAndRows /\ lines[t] \in SUBSET Line /\ order \in [1..n -> lines[t]]
    BY <1>1 DEF TakesInv, Bijection, Injection
  <2>6. c[n].stock[x][b] - stock[x][b] = AssetsIn(c[n].asset, x, b) - AssetsIn(asset, x, b)
    BY <2>4, <2>5, LoopFollowsAssets
  <2> QED
    BY <2>4, <2>6
<1> QED
  BY <1>1, TakesHold, PTL DEF StocktakeSpec, BucketsFollowAssets

\* A step of a stocktake changes no row of a request.
LEMMA StocktakeLeavesRequests ==
    ASSUME [StocktakeNext]_takeVars
    PROVE  [Next]_vars \/ UNCHANGED <<request, item, loan>>
<1>1. StocktakeSteps => UNCHANGED <<request, item, loan>>
  BY DEF StocktakeSteps, create_stocktake, add_stocktake_line, complete_stocktake,
     approve_stocktake, apply_stocktake_adjustments, vars
<1> QED
  BY <1>1 DEF StocktakeNext, takeVars, vars

LEMMA StocktakeRequests == StocktakeSpec => []RequestsInv
<1>1. StocktakeInit => RequestsInv
  BY RequestsStart DEF StocktakeInit
<1>2. ASSUME TakesInv, RequestsInv, [StocktakeNext]_takeVars
      PROVE  RequestsInv'
  BY <1>2, StocktakeLeavesRequests, RequestsStep DEF TakesInv
<1> QED
  BY <1>1, <1>2, TakesHold, PTL DEF StocktakeSpec

\* A stocktake, whatever it corrects, leaves requests, loans and codes as they
\* are, and the services that run between its count and its application do not
\* need the stock to be right for them.
THEOREM StocktakesSpareRequests ==
    StocktakeSpec => [](ItemsMatchStatus /\ LoanMatchesRequest /\ QrOnOneLoan)
BY StocktakeRequests, RequestsTell, PTL

\* Stocktakes implement module Custody: applying one is a correction of the
\* stock, however many lines it has.
THEOREM StocktakesRefineCustody == StocktakeSpec => UnitsInCustody
<1>1. StocktakeInit => Ledger!Init
  BY LedgerInit DEF StocktakeInit
<1>2. ASSUME TakesInv, TakesInv', RequestsInv, [StocktakeNext]_takeVars
      PROVE  LedgerStep
  <2>1. TypesAndRows /\ TypesAndRows'
    BY <1>2 DEF TakesInv
  <2> QED
    BY <1>2, <2>1, StocktakeLeavesRequests, LedgerBesideStaff
<1> QED
  BY <1>1, <1>2, TakesHold, StocktakeRequests, PTL
     DEF StocktakeSpec, UnitsInCustody, Ledger!Spec, LedgerStep
=============================================================================
