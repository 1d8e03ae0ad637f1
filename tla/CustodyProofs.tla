---------------------------- MODULE CustodyProofs ----------------------------
(***************************************************************************)
(* The reserved and issued buckets of HardwareLending, for every catalog,  *)
(* every number of requests and every bound.  Both are sums over the       *)
(* requests; Shapes says what the rows of one request look like in each of *)
(* its states, and Shapes /\ Sums is inductive given the types of module   *)
(* LendingProofs.  A step of one request changes one summand by what it    *)
(* moves between the buckets (SumsStep); a stock correction changes none.  *)
(*                                                                         *)
(* Relative to the types and to Shapes, who holds what: the item rows      *)
(* follow the status of their request (Progress), a closed request is      *)
(* final, a QR is on one open loan and a serialized asset in the hands of  *)
(* one borrower.                                                           *)
(***************************************************************************)
EXTENDS LendingProofs

\* What one request contributes to Promised(p) and OnLoan(p).
Owed(r, p) == IF request[r].status = "accepted" THEN item[r][p].accepted ELSE 0
Held(r, p) == IF request[r].status \in Active THEN Remaining(item[r][p]) ELSE 0

\* What the rows of a request look like in each of its states; nothing of an
\* open loan has been resolved yet.
RequestShape(r) ==
    /\ \A p \in Products :
          /\ item[r][p].issued <= item[r][p].accepted
          /\ Remaining(item[r][p]) >= 0
          /\ request[r].status \in {"absent", "pending_approval", "rejected", "accepted"}
                => item[r][p].issued = 0 /\ item[r][p].needs_fix = 0
          /\ loan[r].status = "checked_out" =>
                /\ item[r][p].returned = 0
                /\ item[r][p].damaged = 0
                /\ item[r][p].missing = 0
    /\ loan[r].status = "checked_out" => request[r].status = "issued"
    /\ loan[r].status = "returned" =>
          request[r].status \in {"returned", "closed_with_issue"}
    /\ loan[r].status # "none" => request[r].assigned_box = None
    /\ request[r].status = "absent" => request[r].assigned_box = None

Shapes == \A r \in Requests : RequestShape(r)

Sums == ReservationsBacked /\ LoansBacked

-----------------------------------------------------------------------------
(* The ledger: lending as a step of module Custody. *)

SpoiltOf(it) == it.damaged + it.missing + it.needs_fix

\* What a request was promised or has out of a product.
Has(r, p) == Owed(r, p) + Held(r, p)

LedgerStep == [Ledger!Next]_(Ledger!custodyVars)

\* A step of request r leaves the rows of the others alone.
OnlyOf(r) ==
    \A x \in Requests : x # r => request'[x] = request[x] /\ item'[x] = item[x]

LEMMA LedgerRows ==
    ASSUME NEW r \in Requests, NEW p \in Products
    PROVE  /\ InHand[r][p] = Has(r, p) /\ BroughtBack[r][p] = item[r][p].returned
           /\ Spoilt[r][p] = SpoiltOf(item[r][p])
           /\ OnShelf[p] = stock[p].available /\ SetAside[p] = Aside(stock[p])
           /\ InHand'[r][p] = Has(r, p)' /\ BroughtBack'[r][p] = item'[r][p].returned
           /\ Spoilt'[r][p] = SpoiltOf(item'[r][p])
           /\ OnShelf'[p] = stock'[p].available /\ SetAside'[p] = Aside(stock'[p])
BY DEF InHand, Promised, OnLoan, Has, Owed, Held, BroughtBack, Spoilt, SpoiltOf,
       OnShelf, SetAside, Aside

LEMMA LedgerGoes ==
    ASSUME NEW r \in Requests, OnlyOf(r)
    PROVE  Ledger!Goes(r, PhaseOf[request[r].status], PhaseOf[request'[r].status])
<1>1. ASSUME NEW x \in Requests, x # r
      PROVE  /\ InHand'[x] = InHand[x] /\ BroughtBack'[x] = BroughtBack[x]
             /\ Spoilt'[x] = Spoilt[x] /\ PhaseNow'[x] = PhaseNow[x]
  <2>1. request'[x] = request[x] /\ item'[x] = item[x]
    BY <1>1 DEF OnlyOf
  <2> QED
    BY <2>1 DEF InHand, Promised, OnLoan, BroughtBack, Spoilt, PhaseNow
<1>2. PhaseNow' = [PhaseNow EXCEPT ![r] = PhaseOf[request'[r].status]]
  <2>1. PhaseNow'[r] = PhaseOf[request'[r].status]
    BY DEF PhaseNow
  <2>2. /\ PhaseNow = [x \in Requests |-> PhaseNow[x]]
        /\ PhaseNow' = [x \in Requests |-> PhaseNow'[x]]
    BY DEF PhaseNow
  <2> QED
    BY <1>1, <2>1, <2>2
<1>3. PhaseNow[r] = PhaseOf[request[r].status]
  BY DEF PhaseNow
<1> QED
  BY <1>1, <1>2, <1>3 DEF Ledger!Goes

LEMMA SameRowsOfLedger ==
    ASSUME NEW r \in Requests, OnlyOf(r)
    PROVE  /\ (\A p \in Products : Has(r, p)' = Has(r, p)) => InHand' = InHand
           /\ (\A p \in Products : item'[r][p].returned = item[r][p].returned)
                 => BroughtBack' = BroughtBack
           /\ (\A p \in Products : SpoiltOf(item'[r][p]) = SpoiltOf(item[r][p]))
                 => Spoilt' = Spoilt
<1>1. ASSUME NEW x \in Requests, x # r
      PROVE  request'[x] = request[x] /\ item'[x] = item[x]
  BY <1>1 DEF OnlyOf
<1>2. ASSUME \A p \in Products : Has(r, p)' = Has(r, p)
      PROVE  InHand' = InHand
  <2>1. ASSUME NEW x \in Requests, NEW p \in Products
        PROVE  Has(x, p)' = Has(x, p)
    BY <1>1, <1>2 DEF Has, Owed, Held
  <2>2. /\ InHand = [x \in Requests |-> [p \in Products |-> Has(x, p)]]
        /\ InHand' = [x \in Requests |-> [p \in Products |-> Has(x, p)']]
    BY DEF InHand, Promised, OnLoan, Has, Owed, Held
  <2> QED
    BY <2>1, <2>2
<1>3. ASSUME \A p \in Products : item'[r][p].returned = item[r][p].returned
      PROVE  BroughtBack' = BroughtBack
  BY <1>1, <1>3 DEF BroughtBack
<1>4. ASSUME \A p \in Products : SpoiltOf(item'[r][p]) = SpoiltOf(item[r][p])
      PROVE  Spoilt' = Spoilt
  <2>1. ASSUME NEW x \in Requests, NEW p \in Products
        PROVE  SpoiltOf(item'[x][p]) = SpoiltOf(item[x][p])
    BY <1>1, <1>4
  <2> QED
    BY <2>1 DEF Spoilt, SpoiltOf
<1> QED
  BY <1>2, <1>3, <1>4

\* Stock corrections, and steps that only read or write other rows.
LEMMA LedgerCorrects ==
    ASSUME TypesAndRows', item' = item,
           \A x \in Requests : request'[x].status = request[x].status
    PROVE  LedgerStep
<1>1. ASSUME NEW p \in Products
      PROVE  stock'[p].available \in Nat /\ Aside(stock'[p]) \in Nat
  <2>1. stock'[p] \in Row(Nat)
    BY TypesSplitPrime DEF StockType, Sound
  <2> QED
    BY <2>1 DEF Row, Aside
<1>2. OnShelf' \in [Products -> Nat]
  BY <1>1 DEF OnShelf
<1>3. SetAside' \in [Products -> Nat]
  <2>1. SetAside' = [p \in Products |-> Aside(stock'[p])]
    BY DEF SetAside, Aside
  <2> QED
    BY <1>1, <2>1
<1>4. PhaseNow' = PhaseNow /\ BroughtBack' = BroughtBack /\ Spoilt' = Spoilt
  BY DEF PhaseNow, BroughtBack, Spoilt
<1>5. InHand' = InHand
  BY DEF InHand, Promised, OnLoan
<1> QED
  BY <1>2, <1>3, <1>4, <1>5 DEF LedgerStep, Ledger!Next, Ledger!Correct

\* A request is made, or turned down.
LEMMA LedgerAsks ==
    ASSUME NEW r \in Requests, OnlyOf(r), stock' = stock,
           \/ request[r].status = "absent" /\ request'[r].status = "pending_approval"
           \/ request[r].status = "pending_approval" /\ request'[r].status = "rejected",
           \A p \in Products :
              /\ Has(r, p)' = Has(r, p)
              /\ item'[r][p].returned = item[r][p].returned
              /\ SpoiltOf(item'[r][p]) = SpoiltOf(item[r][p])
    PROVE  LedgerStep
<1>1. InHand' = InHand /\ BroughtBack' = BroughtBack /\ Spoilt' = Spoilt
  BY SameRowsOfLedger
<1>2. OnShelf' = OnShelf /\ SetAside' = SetAside
  BY DEF OnShelf, SetAside
<1>3. Ledger!Goes(r, PhaseOf[request[r].status], PhaseOf[request'[r].status])
  BY LedgerGoes
<1>4. Ledger!Goes(r, "none", "asked") \/ Ledger!Goes(r, "asked", "over")
  BY <1>3 DEF PhaseOf
<1>5. Ledger!Ask(r) \/ Ledger!Decline(r)
  BY <1>1, <1>2, <1>4 DEF Ledger!Ask, Ledger!Decline
<1> QED
  BY <1>5 DEF LedgerStep, Ledger!Next

\* Units are promised, or lent without a promise.
LEMMA LedgerTakesOff ==
    ASSUME NEW r \in Requests, OnlyOf(r),
           \/ request[r].status = "pending_approval" /\ request'[r].status = "accepted"
           \/ request[r].status = "absent" /\ request'[r].status = "issued",
           \A p \in Products :
              /\ Has(r, p) = 0 /\ Has(r, p)' \in 0..stock[p].available
              /\ stock'[p].available = stock[p].available - Has(r, p)'
              /\ Aside(stock'[p]) = Aside(stock[p])
              /\ item'[r][p].returned = item[r][p].returned
              /\ SpoiltOf(item'[r][p]) = SpoiltOf(item[r][p])
    PROVE  LedgerStep
<1>1. BroughtBack' = BroughtBack /\ Spoilt' = Spoilt
  BY SameRowsOfLedger
<1>2. SetAside' = SetAside
  BY DEF SetAside, Aside
<1>3. Ledger!Goes(r, PhaseOf[request[r].status], PhaseOf[request'[r].status])
  BY LedgerGoes
<1>4. Ledger!Goes(r, "asked", "promised") \/ Ledger!Goes(r, "none", "out")
  BY <1>3 DEF PhaseOf
<1>5. Ledger!TakeOff(r)
  BY <1>1, <1>2, LedgerRows DEF Ledger!TakeOff
<1>6. Ledger!Promise(r) \/ Ledger!Lend(r)
  BY <1>4, <1>5 DEF Ledger!Promise, Ledger!Lend
<1> QED
  BY <1>6 DEF LedgerStep, Ledger!Next

\* What was promised is handed over, but for the broken units.
LEMMA LedgerHandsOver ==
    ASSUME NEW r \in Requests, OnlyOf(r),
           request[r].status = "accepted", request'[r].status = "issued",
           \A p \in Products :
              /\ Has(r, p)' \in 0..Has(r, p)
              /\ SpoiltOf(item'[r][p]) - SpoiltOf(item[r][p])
                    \in {0, Has(r, p) - Has(r, p)'}
              /\ Aside(stock'[p]) - Aside(stock[p])
                    = SpoiltOf(item'[r][p]) - SpoiltOf(item[r][p])
              /\ stock'[p].available = stock[p].available
              /\ item'[r][p].returned = item[r][p].returned
    PROVE  LedgerStep
<1>1. BroughtBack' = BroughtBack
  BY SameRowsOfLedger
<1>2. OnShelf' = OnShelf
  BY DEF OnShelf
<1>3. Ledger!Goes(r, PhaseOf[request[r].status], PhaseOf[request'[r].status])
  BY LedgerGoes
<1>4. Ledger!Goes(r, "promised", "out")
  BY <1>3 DEF PhaseOf
<1>5. Ledger!HandOver(r)
  BY <1>1, <1>2, <1>4, LedgerRows DEF Ledger!HandOver
<1> QED
  BY <1>5 DEF LedgerStep, Ledger!Next

\* Units come back, or are found not to.
LEMMA LedgerTakesBack ==
    ASSUME NEW r \in Requests, OnlyOf(r), request[r].status \in Active,
           request'[r].status \in {"partially_returned", "returned", "closed_with_issue"},
           request'[r].status = "partially_returned"
              <=> \E p \in Products : Has(r, p)' # 0,
           \A p \in Products :
              /\ Has(r, p)' \in 0..Has(r, p)
              /\ item'[r][p].returned >= item[r][p].returned
              /\ SpoiltOf(item'[r][p]) >= SpoiltOf(item[r][p])
              /\ Has(r, p) - Has(r, p)' =
                    (item'[r][p].returned - item[r][p].returned)
                       + (SpoiltOf(item'[r][p]) - SpoiltOf(item[r][p]))
              /\ stock'[p].available - stock[p].available
                    = item'[r][p].returned - item[r][p].returned
              /\ Aside(stock'[p]) - Aside(stock[p])
                    = SpoiltOf(item'[r][p]) - SpoiltOf(item[r][p])
    PROVE  LedgerStep
<1>1. Ledger!Goes(r, PhaseOf[request[r].status], PhaseOf[request'[r].status])
  BY LedgerGoes
<1>2. PhaseOf[request[r].status] = "out"
  BY DEF PhaseOf, Active
<1>3. PhaseOf[request'[r].status]
         = IF \A p \in Products : InHand'[r][p] = 0 THEN "over" ELSE "out"
  BY LedgerRows DEF PhaseOf
<1>4. Ledger!TakeBack(r)
  BY <1>1, <1>2, <1>3, LedgerRows DEF Ledger!TakeBack
<1> QED
  BY <1>4 DEF LedgerStep, Ledger!Next

-----------------------------------------------------------------------------
\* What every lending step keeps: the shapes whatever the buckets say, the sums
\* if they were right before it, and the ledger, of which it is a step.
CustodyKept == Shapes' /\ (Sums => Sums') /\ LedgerStep

\* A step of request r leaves the rows of the others alone.
LEMMA ShapesStep ==
    ASSUME Shapes, NEW r \in Requests, RequestShape(r)',
           \A x \in Requests : x # r =>
              /\ request'[x] = request[x] /\ item'[x] = item[x]
              /\ loan'[x] = loan[x]
    PROVE  Shapes'
<1> SUFFICES ASSUME NEW x \in Requests, x # r PROVE RequestShape(x)'
  BY DEF Shapes
<1>1. RequestShape(x)
  BY DEF Shapes
<1> QED
  BY <1>1 DEF RequestShape

LEMMA OwedNat ==
    ASSUME TypesAndRows, Shapes
    PROVE  \A p \in Products :
              /\ Promised(p) \in [Requests -> Nat]
              /\ OnLoan(p) \in [Requests -> Nat]
              /\ \A r \in Requests : /\ Promised(p)[r] = Owed(r, p)
                                     /\ OnLoan(p)[r] = Held(r, p)
              /\ stock[p].reserved \in Nat /\ stock[p].issued \in Nat
<1>1. ASSUME NEW r \in Requests, NEW p \in Products
      PROVE  Owed(r, p) \in Nat /\ Held(r, p) \in Nat
  <2>1. item[r][p] \in Item(Nat)
    BY TypesSplit DEF ItemType
  <2>2. Remaining(item[r][p]) \in Nat
    BY <2>1 DEF Shapes, RequestShape, Remaining, Item
  <2> QED
    BY <2>1, <2>2 DEF Owed, Held, Item
<1>2. \A p \in Products : stock[p] \in Row(Nat)
  BY TypesSplit DEF StockType, Sound
<1> QED
  BY <1>1, <1>2 DEF Promised, OnLoan, Owed, Held, Row

LEMMA OwedNatPrime ==
    ASSUME TypesAndRows', Shapes'
    PROVE  \A p \in Products :
              /\ Promised(p)' \in [Requests -> Nat]
              /\ OnLoan(p)' \in [Requests -> Nat]
              /\ \A r \in Requests : /\ Promised(p)'[r] = Owed(r, p)'
                                     /\ OnLoan(p)'[r] = Held(r, p)'
<1>1. ASSUME NEW r \in Requests, NEW p \in Products
      PROVE  Owed(r, p)' \in Nat /\ Held(r, p)' \in Nat
  <2>1. item'[r][p] \in Item(Nat)
    BY TypesSplitPrime DEF ItemType
  <2>2. Remaining(item'[r][p]) \in Nat
    BY <2>1 DEF Shapes, RequestShape, Remaining, Item
  <2> QED
    BY <2>1, <2>2 DEF Owed, Held, Item
<1> QED
  BY <1>1 DEF Promised, OnLoan, Owed, Held

\* A step that changes what one request r is owed and holds keeps the sums if
\* it moves the buckets of every quantity-tracked product by the same amounts.
LEMMA SumsStep ==
    ASSUME TypesAndRows, TypesAndRows', Shapes, Shapes', Sums,
           NEW r \in Requests,
           \A x \in Requests : x # r =>
              request'[x].status = request[x].status /\ item'[x] = item[x],
           \A p \in Products : tracking'[p] = "quantity" =>
              /\ tracking[p] = "quantity"
              /\ stock'[p].reserved = stock[p].reserved - Owed(r, p) + Owed(r, p)'
              /\ stock'[p].issued = stock[p].issued - Held(r, p) + Held(r, p)'
    PROVE  Sums'
<1> SUFFICES ASSUME NEW p \in Products, tracking'[p] = "quantity"
             PROVE  /\ stock'[p].reserved = TotalUnits(Promised(p))'
                    /\ stock'[p].issued = TotalUnits(OnLoan(p))'
  BY DEF Sums, ReservationsBacked, LoansBacked
<1> DEFINE f == Promised(p)
           g == OnLoan(p)
           f1 == Promised(p)'
           g1 == OnLoan(p)'
<1>1. /\ f \in [Requests -> Nat] /\ g \in [Requests -> Nat]
      /\ f[r] = Owed(r, p) /\ g[r] = Held(r, p)
  BY OwedNat
<1>2. /\ f1 \in [Requests -> Nat] /\ g1 \in [Requests -> Nat]
      /\ f1[r] = Owed(r, p)' /\ g1[r] = Held(r, p)'
  BY OwedNatPrime
<1>3. \A x \in Requests : x # r => f1[x] = f[x] /\ g1[x] = g[x]
  BY DEF Promised, OnLoan
<1>4. stock[p].reserved = TotalUnits(f) /\ stock[p].issued = TotalUnits(g)
  BY DEF Sums, ReservationsBacked, LoansBacked
<1>5. TotalUnits(Promised(p))' = TotalUnits(f1) /\ TotalUnits(OnLoan(p))' = TotalUnits(g1)
  BY DEF TotalUnits, Units
<1> HIDE DEF f, g, f1, g1
<1>6. TotalUnits(f1) = TotalUnits(f) - f[r] + f1[r]
  BY <1>1, <1>2, <1>3, TotalUnitsChange
<1>7. TotalUnits(g1) = TotalUnits(g) - g[r] + g1[r]
  BY <1>1, <1>2, <1>3, TotalUnitsChange
<1> QED
  BY <1>1, <1>2, <1>4, <1>5, <1>6, <1>7

\* A step of request r, as the shape of its rows after it and the units it
\* moves between the buckets.
LEMMA CustodyStep ==
    ASSUME TypesAndRows, TypesAndRows', Shapes, LedgerStep,
           NEW r \in Requests, RequestShape(r)',
           \A x \in Requests : x # r =>
              /\ request'[x] = request[x] /\ item'[x] = item[x]
              /\ loan'[x] = loan[x],
           \A p \in Products : tracking'[p] = "quantity" =>
              /\ tracking[p] = "quantity"
              /\ stock'[p].reserved = stock[p].reserved - Owed(r, p) + Owed(r, p)'
              /\ stock'[p].issued = stock[p].issued - Held(r, p) + Held(r, p)'
    PROVE  CustodyKept
<1>1. Shapes'
  BY ShapesStep
<1>2. \A x \in Requests : x # r =>
         request'[x].status = request[x].status /\ item'[x] = item[x]
  OBVIOUS
<1> QED
  BY <1>1, <1>2, SumsStep DEF CustodyKept

\* A step that touches no request moves nothing in or out of the two buckets
\* of a product that is quantity-tracked after it.
LEMMA CorrectionStep ==
    ASSUME TypesAndRows', Shapes, UNCHANGED <<request, item, loan>>,
           \A p \in Products : tracking'[p] = "quantity" =>
              /\ tracking[p] = "quantity"
              /\ stock'[p].reserved = stock[p].reserved
              /\ stock'[p].issued = stock[p].issued
    PROVE  CustodyKept
<1>1. Shapes'
  BY DEF Shapes, RequestShape
<1>2. ASSUME NEW p \in Products
      PROVE  /\ TotalUnits(Promised(p))' = TotalUnits(Promised(p))
             /\ TotalUnits(OnLoan(p))' = TotalUnits(OnLoan(p))
  BY DEF TotalUnits, Units, Promised, OnLoan
<1>3. LedgerStep
  BY LedgerCorrects
<1> QED
  BY <1>1, <1>2, <1>3 DEF CustodyKept, Sums, ReservationsBacked, LoansBacked

-----------------------------------------------------------------------------
(* Reviewed requests. *)

\* The rows of one request, typed.
LEMMA RequestRows ==
    ASSUME TypesAndRows, NEW r \in Requests
    PROVE  /\ request[r].status \in Statuses
           /\ request[r].assigned_box \in Boxes \cup {None}
           /\ loan[r].status \in {"none", "checked_out", "returned"}
           /\ request = [x \in Requests |-> request[x]]
           /\ DOMAIN item = Requests /\ DOMAIN loan = Requests
           /\ \A p \in Products :
                /\ item[r][p] \in Item(Nat) /\ stock[p] \in Row(Nat)
                /\ tracking[p] \in TrackingModes /\ Sound(stock[p])
<1>1. /\ RequestType(request) /\ ItemType(item) /\ LoanType(loan)
      /\ StockType(stock) /\ TrackingType(tracking)
  BY TypesSplit
<1> QED
  BY <1>1 DEF RequestType, ItemType, LoanType, LoanRow, StockType,
     TrackingType, Sound

\* Nothing can be resolved of what was not issued.
LEMMA Unresolved ==
    ASSUME NEW it \in Item(Nat), it.issued = 0, Remaining(it) >= 0
    PROVE  it.returned = 0 /\ it.damaged = 0 /\ it.missing = 0
<1>1. it.returned \in Nat /\ it.damaged \in Nat /\ it.missing \in Nat
  BY DEF Item
<1>2. 0 - (it.returned + it.damaged + it.missing) >= 0
  BY DEF Remaining
<1>3. \A a, b, c \in Nat : 0 - (a + b + c) >= 0 => a = 0 /\ b = 0 /\ c = 0
  OBVIOUS
<1> QED
  BY <1>1, <1>2, <1>3

\* Nor has anything been booked on a request of which nothing was handed over.
LEMMA NothingBooked ==
    ASSUME TypesAndRows, Shapes, NEW r \in Requests, NEW p \in Products,
           request[r].status \in {"absent", "pending_approval", "accepted"}
    PROVE  item[r][p].returned = 0 /\ SpoiltOf(item[r][p]) = 0
<1>1. /\ item[r][p].issued = 0 /\ item[r][p].needs_fix = 0
      /\ Remaining(item[r][p]) >= 0
  BY DEF Shapes, RequestShape
<1>2. item[r][p].returned = 0 /\ item[r][p].damaged = 0 /\ item[r][p].missing = 0
  BY <1>1, Unresolved, RequestRows
<1> QED
  BY <1>1, <1>2 DEF SpoiltOf

LEMMA SubmitCustody ==
    ASSUME TypesAndRows, TypesAndRows', Shapes, NEW r \in Requests,
           NEW quantity \in Quantities, submit_request(r, quantity)
    PROVE  CustodyKept
<1>1. /\ request[r].status = "absent" /\ request'[r].status = "pending_approval"
      /\ request'[r].assigned_box = request[r].assigned_box
      /\ loan' = loan /\ stock' = stock /\ tracking' = tracking
  BY RequestRows, TypesSplit DEF submit_request, RequestType
<1>2. \A p \in Products : item'[r][p] = [NoItem EXCEPT !.requested = quantity[p]]
  BY RequestRows DEF submit_request
<1>3. \A p \in Products : /\ item'[r][p].issued = 0 /\ item'[r][p].accepted = 0
                          /\ item'[r][p].returned = 0
                          /\ item'[r][p].damaged = 0 /\ item'[r][p].missing = 0
                          /\ item'[r][p].needs_fix = 0
  BY <1>2 DEF NoItem
<1>4. loan[r].status = "none"
  BY <1>1, RequestRows DEF Shapes, RequestShape
<1>5. RequestShape(r)'
  BY <1>1, <1>3, <1>4 DEF RequestShape, Remaining
<1>6. \A x \in Requests : x # r => /\ request'[x] = request[x]
                                   /\ item'[x] = item[x] /\ loan'[x] = loan[x]
  BY <1>1, RequestRows DEF submit_request
<1>7. \A p \in Products : /\ Owed(r, p) = 0 /\ Owed(r, p)' = 0
                          /\ Held(r, p) = 0 /\ Held(r, p)' = 0
  BY <1>1 DEF Owed, Held, Active
<1>8. \A p \in Products : stock[p].reserved \in Nat /\ stock[p].issued \in Nat
  BY RequestRows DEF Row
<1>9. ASSUME NEW p \in Products
      PROVE  /\ Has(r, p)' = Has(r, p)
             /\ item'[r][p].returned = item[r][p].returned
             /\ SpoiltOf(item'[r][p]) = SpoiltOf(item[r][p])
  BY <1>1, <1>3, <1>7, NothingBooked DEF Has, SpoiltOf
<1>10. LedgerStep
  BY <1>1, <1>6, <1>9, LedgerAsks DEF OnlyOf
<1> QED
  BY <1>1, <1>5, <1>6, <1>7, <1>8, <1>10, CustodyStep

LEMMA NothingResolved ==
    ASSUME NEW it, it.issued \in Nat, it.returned = 0, it.damaged = 0,
           it.missing = 0
    PROVE  Remaining(it) = it.issued
<1>1. \A a \in Nat : a - (0 + 0 + 0) = a
  OBVIOUS
<1> QED
  BY <1>1 DEF Remaining

LEMMA AcceptCustody ==
    ASSUME TypesAndRows, TypesAndRows', Shapes, NEW r \in Requests,
           NEW accepted \in Quantities, accept_request(r, accepted)
    PROVE  CustodyKept
<1>1. /\ request[r].status = "pending_approval" /\ request'[r].status = "accepted"
      /\ request'[r].assigned_box = request[r].assigned_box
      /\ loan' = loan /\ tracking' = tracking
  BY RequestRows, TypesSplit DEF accept_request, RequestType
<1>2. ASSUME NEW p \in Products
      PROVE  /\ accepted[p] \in Nat
             /\ item[r][p] \in Item(Nat)
             /\ item'[r][p] = [item[r][p] EXCEPT !.accepted = accepted[p]]
  BY RequestRows, QuantityType DEF accept_request
<1>3. ASSUME NEW p \in Products
      PROVE  /\ item'[r][p].accepted = accepted[p]
             /\ item'[r][p].issued = item[r][p].issued
             /\ item'[r][p].returned = item[r][p].returned
             /\ item'[r][p].damaged = item[r][p].damaged
             /\ item'[r][p].missing = item[r][p].missing
             /\ item'[r][p].needs_fix = item[r][p].needs_fix
  BY <1>2 DEF Item
<1>4. ASSUME NEW p \in Products
      PROVE  /\ item[r][p].issued = 0 /\ item[r][p].returned = 0
             /\ item[r][p].damaged = 0 /\ item[r][p].missing = 0
             /\ item[r][p].needs_fix = 0
  <2>1. /\ item[r][p].issued = 0 /\ item[r][p].needs_fix = 0
        /\ Remaining(item[r][p]) >= 0
    BY <1>1 DEF Shapes, RequestShape
  <2> QED
    BY <1>2, <2>1, Unresolved
<1>a. ASSUME NEW p \in Products
      PROVE  /\ item'[r][p].issued = 0 /\ Remaining(item'[r][p]) = 0
             /\ item'[r][p].accepted \in Nat /\ item'[r][p].needs_fix = 0
  <2>1. /\ item'[r][p].issued = 0 /\ item'[r][p].returned = 0
        /\ item'[r][p].damaged = 0 /\ item'[r][p].missing = 0
        /\ item'[r][p].accepted \in Nat /\ item'[r][p].needs_fix = 0
    BY <1>2, <1>3, <1>4
  <2> QED
    BY <2>1, NothingResolved
<1>5. loan[r].status = "none"
  BY <1>1, RequestRows DEF Shapes, RequestShape
<1>6. RequestShape(r)'
  BY <1>1, <1>a, <1>5 DEF RequestShape
<1>7. \A x \in Requests : x # r => /\ request'[x] = request[x]
                                   /\ item'[x] = item[x] /\ loan'[x] = loan[x]
  BY <1>1, RequestRows DEF accept_request
<1>8. \A p \in Products : /\ Owed(r, p) = 0 /\ Owed(r, p)' = accepted[p]
                          /\ Held(r, p) = 0 /\ Held(r, p)' = 0
  BY <1>1, <1>3 DEF Owed, Held, Active
<1>9. ASSUME NEW p \in Products
      PROVE  /\ stock'[p].reserved = stock[p].reserved + accepted[p]
             /\ stock'[p].issued = stock[p].issued
             /\ stock[p].reserved \in Nat /\ stock[p].issued \in Nat
             /\ stock'[p].available = stock[p].available - accepted[p]
             /\ accepted[p] \in 0..stock[p].available
             /\ Aside(stock'[p]) = Aside(stock[p])
  <2>1. stock'[p] = Reserve(stock[p], accepted[p]) /\ CanReserve(stock[p], accepted[p])
    BY DEF accept_request
  <2>2. /\ Sound(stock[p]) /\ stock[p].available \in Nat
        /\ stock[p].reserved \in Nat /\ stock[p].issued \in Nat
    BY RequestRows DEF Row
  <2>3. accepted[p] \in 0..stock[p].available
    <3>1. \A a, b \in Nat : b >= a => a \in 0..b
      OBVIOUS
    <3>2. accepted[p] \in Nat
      BY <1>2
    <3>3. stock[p].available >= accepted[p]
      BY <2>1 DEF CanReserve
    <3> QED
      BY <2>2, <3>1, <3>2, <3>3
  <2>4. /\ Reserve(stock[p], accepted[p]).reserved = stock[p].reserved + accepted[p]
        /\ Reserve(stock[p], accepted[p]).issued = stock[p].issued
        /\ Reserve(stock[p], accepted[p]).available = stock[p].available - accepted[p]
        /\ Aside(Reserve(stock[p], accepted[p])) = Aside(stock[p])
    BY <1>2, <2>1, <2>2, ReserveSound
  <2> QED
    BY <2>1, <2>2, <2>3, <2>4
<1>10. ASSUME NEW p \in Products
       PROVE  /\ Has(r, p) = 0 /\ Has(r, p)' = accepted[p]
              /\ item'[r][p].returned = item[r][p].returned
              /\ SpoiltOf(item'[r][p]) = SpoiltOf(item[r][p])
  <2>1. Has(r, p) = 0 + 0 /\ Has(r, p)' = accepted[p] + 0
    BY <1>8 DEF Has
  <2>2. accepted[p] + 0 = accepted[p]
    <3>1. accepted[p] \in Nat
      BY <1>2
    <3> QED
      BY <3>1
  <2> QED
    BY <1>3, <2>1, <2>2 DEF SpoiltOf
<1>11. LedgerStep
  BY <1>1, <1>7, <1>9, <1>10, LedgerTakesOff DEF OnlyOf
<1> QED
  BY <1>1, <1>2, <1>6, <1>7, <1>8, <1>9, <1>11, CustodyStep

LEMMA RejectCustody ==
    ASSUME TypesAndRows, TypesAndRows', Shapes, NEW r \in Requests,
           reject_request(r)
    PROVE  CustodyKept
<1>1. /\ request[r].status = "pending_approval" /\ request'[r].status = "rejected"
      /\ request'[r].assigned_box = request[r].assigned_box
      /\ loan' = loan /\ stock' = stock /\ tracking' = tracking /\ item' = item
  BY RequestRows, TypesSplit DEF reject_request, RequestType
<1>2. loan[r].status = "none"
  BY <1>1, RequestRows DEF Shapes, RequestShape
<1>3. RequestShape(r)'
  BY <1>1, <1>2 DEF Shapes, RequestShape
<1>4. \A x \in Requests : x # r => /\ request'[x] = request[x]
                                   /\ item'[x] = item[x] /\ loan'[x] = loan[x]
  BY <1>1, RequestRows DEF reject_request
<1>5. \A p \in Products : /\ Owed(r, p) = 0 /\ Owed(r, p)' = 0
                          /\ Held(r, p) = 0 /\ Held(r, p)' = 0
  BY <1>1 DEF Owed, Held, Active
<1>6. \A p \in Products : stock[p].reserved \in Nat /\ stock[p].issued \in Nat
  BY RequestRows DEF Row
<1>7. LedgerStep
  <2>1. \A p \in Products : Has(r, p)' = Has(r, p)
    BY <1>5 DEF Has
  <2> QED
    BY <1>1, <1>4, <2>1, LedgerAsks DEF OnlyOf
<1> QED
  BY <1>1, <1>3, <1>4, <1>5, <1>6, <1>7, CustodyStep

LEMMA AssignBoxCustody ==
    ASSUME TypesAndRows, TypesAndRows', Shapes, NEW r \in Requests,
           NEW b \in Boxes, assign_box(r, b)
    PROVE  CustodyKept
<1>1. /\ request[r].status = "accepted" /\ request'[r].status = "accepted"
      /\ loan' = loan /\ stock' = stock /\ tracking' = tracking /\ item' = item
  BY RequestRows, TypesSplit DEF assign_box, RequestType
<1>2. loan[r].status = "none"
  BY <1>1, RequestRows DEF Shapes, RequestShape
<1>3. RequestShape(r)'
  BY <1>1, <1>2 DEF Shapes, RequestShape
<1>4. \A x \in Requests : x # r => /\ request'[x] = request[x]
                                   /\ item'[x] = item[x] /\ loan'[x] = loan[x]
  BY <1>1, RequestRows DEF assign_box
<1>5. \A p \in Products : /\ Owed(r, p)' = Owed(r, p) /\ Owed(r, p) \in Nat
                          /\ Held(r, p) = 0 /\ Held(r, p)' = 0
  BY <1>1, RequestRows DEF Owed, Held, Active, Item
<1>6. \A p \in Products : stock[p].reserved \in Nat /\ stock[p].issued \in Nat
  BY RequestRows DEF Row
<1>7. LedgerStep
  BY <1>1, <1>4, LedgerCorrects
<1> QED
  BY <1>1, <1>3, <1>4, <1>5, <1>6, <1>7, CustodyStep

\* A handover empties the reservation; what is not rejected as broken is held.
LEMMA IssueCustody ==
    ASSUME TypesAndRows, TypesAndRows', Shapes, NEW r \in Requests,
           NEW photo \in IssuePhotos, NEW scans \in SUBSET Assets,
           NEW broken \in Quantities, NEW disposition \in Dispositions(broken),
           issue_request(r, photo, scans, broken, disposition)
    PROVE  CustodyKept
<1>1. /\ request[r].status = "accepted" /\ request'[r].status = "issued"
      /\ request'[r].assigned_box = request[r].assigned_box
      /\ loan' = loan /\ tracking' = tracking
  BY RequestRows, TypesSplit DEF issue_request, RequestType
<1>2. ASSUME NEW p \in Products
      PROVE  /\ broken[p] \in Nat /\ item[r][p] \in Item(Nat)
             /\ CanIssueItem(stock[p], item[r][p].accepted, broken[p])
             /\ item'[r][p] = [item[r][p] EXCEPT
                                 !.issued = item[r][p].accepted - broken[p],
                                 !.needs_fix = IF disposition[p] = "remove"
                                               THEN 0 ELSE broken[p]]
  BY RequestRows, QuantityType DEF issue_request
<1>3. ASSUME NEW p \in Products
      PROVE  /\ item'[r][p].accepted = item[r][p].accepted
             /\ item'[r][p].issued = item[r][p].accepted - broken[p]
             /\ item'[r][p].returned = item[r][p].returned
             /\ item'[r][p].damaged = item[r][p].damaged
             /\ item'[r][p].missing = item[r][p].missing
             /\ item'[r][p].needs_fix =
                   (IF disposition[p] = "remove" THEN 0 ELSE broken[p])
             /\ item[r][p].accepted \in Nat
             /\ broken[p] <= item[r][p].accepted
  BY <1>2, ZenonT(60) DEF Item, CanIssueItem
<1>4. ASSUME NEW p \in Products
      PROVE  /\ item[r][p].returned = 0 /\ item[r][p].damaged = 0
             /\ item[r][p].missing = 0
  <2>1. item[r][p].issued = 0 /\ Remaining(item[r][p]) >= 0
    BY <1>1 DEF Shapes, RequestShape
  <2> QED
    BY <1>2, <2>1, Unresolved
<1>5. loan[r].status = "none"
  BY <1>1, RequestRows DEF Shapes, RequestShape
<1>a. ASSUME NEW p \in Products
      PROVE  /\ item[r][p].accepted - broken[p] \in Nat
             /\ item'[r][p].issued <= item'[r][p].accepted
             /\ Remaining(item'[r][p]) = item[r][p].accepted - broken[p]
  <2>0. \A a, b \in Nat : b <= a => a - b \in Nat /\ a - b <= a
    OBVIOUS
  <2>a. /\ item[r][p].accepted \in Nat /\ broken[p] \in Nat
        /\ broken[p] <= item[r][p].accepted
    BY <1>2, <1>3
  <2>1. /\ item[r][p].accepted - broken[p] \in Nat
        /\ item[r][p].accepted - broken[p] <= item[r][p].accepted
    BY <2>0, <2>a
  <2>2. /\ item'[r][p].issued = item[r][p].accepted - broken[p]
        /\ item'[r][p].returned = 0 /\ item'[r][p].damaged = 0
        /\ item'[r][p].missing = 0
        /\ item'[r][p].accepted = item[r][p].accepted
    BY <1>3, <1>4
  <2>3. item'[r][p].issued <= item'[r][p].accepted
    BY <2>1, <2>2
  <2> QED
    BY <2>1, <2>2, <2>3, NothingResolved
<1>6. RequestShape(r)'
  BY <1>1, <1>a, <1>5 DEF RequestShape
<1>7. \A x \in Requests : x # r => /\ request'[x] = request[x]
                                   /\ item'[x] = item[x] /\ loan'[x] = loan[x]
  BY <1>1, RequestRows DEF issue_request
<1>8. \A p \in Products :
         /\ Owed(r, p) = item[r][p].accepted /\ Owed(r, p)' = 0
         /\ Held(r, p) = 0 /\ Held(r, p)' = item[r][p].accepted - broken[p]
  BY <1>1, <1>a DEF Owed, Held, Active
<1>9. ASSUME NEW p \in Products
      PROVE  /\ stock'[p].reserved = stock[p].reserved - item[r][p].accepted
             /\ stock'[p].issued = stock[p].issued + (item[r][p].accepted - broken[p])
             /\ stock[p].reserved \in Nat /\ stock[p].issued \in Nat
             /\ stock'[p].available = stock[p].available
             /\ Aside(stock'[p]) = Aside(stock[p])
                   + (IF disposition[p] = "remove" THEN 0 ELSE broken[p])
             /\ Aside(stock[p]) \in Nat
  <2>1. stock'[p] = IssueItem(stock[p], item[r][p].accepted, broken[p],
                              disposition[p])
    BY DEF issue_request
  <2>2. Sound(stock[p]) /\ stock[p] \in Row(Nat)
    BY RequestRows
  <2>3. /\ stock[p].reserved \in Nat /\ stock[p].issued \in Nat
        /\ Aside(stock[p]) \in Nat
    BY <2>2 DEF Row, Aside
  <2>4. /\ item[r][p].accepted \in Nat /\ broken[p] \in Nat
        /\ CanIssueItem(stock[p], item[r][p].accepted, broken[p])
    BY <1>2, <1>3
  <2>5. LET t == IssueItem(stock[p], item[r][p].accepted, broken[p], disposition[p])
        IN  /\ t.available = stock[p].available
            /\ Aside(t) = Aside(stock[p])
                  + (IF disposition[p] = "remove" THEN 0 ELSE broken[p])
            /\ t.reserved = stock[p].reserved - item[r][p].accepted
            /\ t.issued = stock[p].issued + (item[r][p].accepted - broken[p])
    BY <2>2, <2>4, IssueItemSound
  <2> QED
    BY <2>1, <2>3, <2>5
<1>10. ASSUME NEW p \in Products
       PROVE  /\ Has(r, p)' \in 0..Has(r, p)
              /\ SpoiltOf(item'[r][p]) - SpoiltOf(item[r][p])
                    \in {0, Has(r, p) - Has(r, p)'}
              /\ Aside(stock'[p]) - Aside(stock[p])
                    = SpoiltOf(item'[r][p]) - SpoiltOf(item[r][p])
              /\ item'[r][p].returned = item[r][p].returned
  <2> DEFINE fixed == IF disposition[p] = "remove" THEN 0 ELSE broken[p]
  <2>1. SpoiltOf(item[r][p]) = 0 /\ SpoiltOf(item'[r][p]) = fixed
    <3>1. /\ item'[r][p].damaged = 0 /\ item'[r][p].missing = 0
          /\ item'[r][p].needs_fix = fixed
      BY <1>3, <1>4
    <3>2. fixed \in Nat
      BY <1>2
    <3> HIDE DEF fixed
    <3>3. SpoiltOf(item'[r][p]) = fixed
      BY <3>1, <3>2 DEF SpoiltOf
    <3> QED
      BY <1>1, <3>3, NothingBooked
  <2>2. /\ Has(r, p) = item[r][p].accepted
        /\ Has(r, p)' = item[r][p].accepted - broken[p]
        /\ item[r][p].accepted \in Nat /\ broken[p] \in Nat
        /\ broken[p] <= item[r][p].accepted
    <3>1. item[r][p].accepted - broken[p] \in Nat
      BY <1>a
    <3>2. /\ Has(r, p) = item[r][p].accepted + 0
          /\ Has(r, p)' = 0 + (item[r][p].accepted - broken[p])
      BY <1>8 DEF Has
    <3>3. /\ item[r][p].accepted \in Nat /\ broken[p] \in Nat
          /\ broken[p] <= item[r][p].accepted
      BY <1>2, <1>3
    <3> QED
      BY <3>1, <3>2, <3>3
  <2>3. fixed \in {0, broken[p]}
    OBVIOUS
  <2>4. Aside(stock'[p]) = Aside(stock[p]) + fixed /\ Aside(stock[p]) \in Nat
    BY <1>9
  <2> HIDE DEF fixed
  <2>5. Has(r, p)' \in 0..Has(r, p) /\ Has(r, p) - Has(r, p)' = broken[p]
    BY <2>2
  <2>6. Aside(stock'[p]) - Aside(stock[p]) = fixed /\ fixed - 0 = fixed
    BY <2>2, <2>3, <2>4
  <2> QED
    BY <1>3, <2>1, <2>3, <2>5, <2>6
<1>11. LedgerStep
  BY <1>1, <1>7, <1>9, <1>10, LedgerHandsOver DEF OnlyOf
<1> QED
  BY <1>1, <1>3, <1>6, <1>7, <1>8, <1>9, <1>11, <1>a, CustodyStep

-----------------------------------------------------------------------------
(* Returns. *)

LEMMA ResolvedItem ==
    ASSUME TypesAndRows, NEW r \in Requests, NEW counts \in Counts(r),
           NEW outcome, NEW p \in Products
    PROVE  LET c  == Resolved(p, counts, outcome)
               it == ItemsAfterReturn(r, counts, outcome)[p]
           IN  /\ ResolvedUnits(c) \in Nat
               /\ it.issued = item[r][p].issued /\ it.accepted = item[r][p].accepted
               /\ Remaining(it) = Remaining(item[r][p]) - ResolvedUnits(c)
               /\ Remaining(item[r][p]) \in Int
               /\ it.returned = item[r][p].returned + c["returned"]
               /\ SpoiltOf(it) = SpoiltOf(item[r][p]) + (c["damaged"] + c["missing"])
<1> DEFINE c == Resolved(p, counts, outcome)
<1>1. c["returned"] \in Nat /\ c["damaged"] \in Nat /\ c["missing"] \in Nat
  BY ResolvedNat DEF Outcomes
<1>2. item[r][p] \in Item(Nat)
  BY RequestRows
<1>3. ItemsAfterReturn(r, counts, outcome)[p]
         = [item[r][p] EXCEPT !.returned = @ + c["returned"],
                              !.damaged  = @ + c["damaged"],
                              !.missing  = @ + c["missing"]]
  BY DEF ItemsAfterReturn
<1> HIDE DEF c
<1>4. ResolvedUnits(c) \in Nat
  BY <1>1 DEF ResolvedUnits
<1>5. LET it == ItemsAfterReturn(r, counts, outcome)[p]
      IN  /\ it.issued = item[r][p].issued /\ it.accepted = item[r][p].accepted
          /\ Remaining(it) = Remaining(item[r][p]) - ResolvedUnits(c)
          /\ Remaining(item[r][p]) \in Int
  BY <1>1, <1>2, <1>3 DEF Item, Remaining, ResolvedUnits
<1>6. LET it == ItemsAfterReturn(r, counts, outcome)[p]
      IN  /\ it.returned = item[r][p].returned + c["returned"]
          /\ SpoiltOf(it) = SpoiltOf(item[r][p]) + (c["damaged"] + c["missing"])
  BY <1>1, <1>2, <1>3 DEF Item, SpoiltOf
<1> QED
  BY <1>4, <1>5, <1>6 DEF c

\* What a return books on an item, and what it moves in the buckets.
LEMMA ReturnBooked ==
    ASSUME TypesAndRows, NEW r \in Requests, NEW counts \in Counts(r),
           NEW outcome, NEW p \in Products,
           \A x \in Products :
              LET c == Resolved(x, counts, outcome)
              IN  CanReturnItem(stock[x], c["returned"], c["damaged"], c["missing"])
    PROVE  LET it == ItemsAfterReturn(r, counts, outcome)[p]
               row == StockAfterReturn(counts, outcome)[p]
               old == item[r][p]
           IN  /\ it.returned >= old.returned /\ SpoiltOf(it) >= SpoiltOf(old)
               /\ (it.returned - old.returned) + (SpoiltOf(it) - SpoiltOf(old))
                     = ResolvedUnits(Resolved(p, counts, outcome))
               /\ row.available - stock[p].available = it.returned - old.returned
               /\ Aside(row) - Aside(stock[p]) = SpoiltOf(it) - SpoiltOf(old)
<1> DEFINE c == Resolved(p, counts, outcome)
           it == ItemsAfterReturn(r, counts, outcome)[p]
           row == StockAfterReturn(counts, outcome)[p]
<1>1. c["returned"] \in Nat /\ c["damaged"] \in Nat /\ c["missing"] \in Nat
  BY ResolvedNat DEF Outcomes
<1>2. /\ it.returned = item[r][p].returned + c["returned"]
      /\ SpoiltOf(it) = SpoiltOf(item[r][p]) + (c["damaged"] + c["missing"])
  BY ResolvedItem
<1>3. StockType(stock)
  BY TypesSplit
<1>4. /\ row.available = stock[p].available + c["returned"]
      /\ Aside(row) = Aside(stock[p]) + (c["damaged"] + c["missing"])
  BY <1>3, StockAfterReturnSound
<1>5. item[r][p].returned \in Nat /\ SpoiltOf(item[r][p]) \in Nat
  BY RequestRows DEF Item, SpoiltOf
<1>6. stock[p].available \in Nat /\ Aside(stock[p]) \in Nat
  BY RequestRows DEF Row, Aside
<1>7. ResolvedUnits(c) = c["returned"] + (c["damaged"] + c["missing"])
  BY <1>1 DEF ResolvedUnits
<1> HIDE DEF c, it, row
<1>8. /\ it.returned >= item[r][p].returned
      /\ SpoiltOf(it) >= SpoiltOf(item[r][p])
      /\ (it.returned - item[r][p].returned) + (SpoiltOf(it) - SpoiltOf(item[r][p]))
            = ResolvedUnits(c)
      /\ row.available - stock[p].available = it.returned - item[r][p].returned
      /\ Aside(row) - Aside(stock[p]) = SpoiltOf(it) - SpoiltOf(item[r][p])
  BY <1>1, <1>2, <1>4, <1>5, <1>6, <1>7
<1> QED
  BY <1>8 DEF c, it, row

\* Both return services that take resolutions: what is resolved leaves the
\* issued bucket and what the borrower holds.
LEMMA ReturnCustody ==
    ASSUME TypesAndRows, TypesAndRows', Shapes, NEW r \in Requests,
           NEW counts \in Counts(r), NEW outcome,
           request[r].status \in Active,
           \A p \in Products :
              /\ ResolvedUnits(Resolved(p, counts, outcome)) <= Remaining(item[r][p])
              /\ LET c == Resolved(p, counts, outcome)
                 IN  CanReturnItem(stock[p], c["returned"], c["damaged"], c["missing"]),
           stock' = StockAfterReturn(counts, outcome),
           item' = [item EXCEPT ![r] = ItemsAfterReturn(r, counts, outcome)],
           request' = [request EXCEPT ![r].status =
                         StatusAfterReturn(ItemsAfterReturn(r, counts, outcome))],
           tracking' = tracking,
           \A x \in Requests : x # r => loan'[x] = loan[x],
           loan'[r].status # "checked_out",
           loan'[r].status = "returned" =>
              request'[r].status \in {"returned", "closed_with_issue"},
           loan'[r].status # "none" => request[r].assigned_box = None
    PROVE  CustodyKept
<1> DEFINE items == ItemsAfterReturn(r, counts, outcome)
           u(p) == ResolvedUnits(Resolved(p, counts, outcome))
<1>1. /\ item'[r] = items
      /\ request'[r].status = StatusAfterReturn(items)
      /\ request'[r].assigned_box = request[r].assigned_box
      /\ \A x \in Requests : x # r => item'[x] = item[x] /\ request'[x] = request[x]
  BY RequestRows, TypesSplit DEF RequestType
<1>2. ASSUME NEW p \in Products
      PROVE  /\ u(p) \in Nat /\ u(p) <= Remaining(item[r][p])
             /\ items[p].issued = item[r][p].issued
             /\ items[p].accepted = item[r][p].accepted
             /\ Remaining(items[p]) = Remaining(item[r][p]) - u(p)
             /\ Remaining(item[r][p]) \in Int
  BY ResolvedItem
<1>3. ASSUME NEW p \in Products
      PROVE  /\ stock'[p].reserved = stock[p].reserved
             /\ stock'[p].issued = stock[p].issued - u(p)
             /\ stock[p].reserved \in Nat /\ stock[p].issued \in Nat
  <2>1. StockType(stock)
    BY TypesSplit
  <2>2. stock[p].reserved \in Nat /\ stock[p].issued \in Nat
    BY RequestRows DEF Row
  <2> QED
    BY <2>1, <2>2, StockAfterReturnSound
<1> HIDE DEF items, u
<1>4. StatusAfterReturn(items) \in {"partially_returned", "returned", "closed_with_issue"}
  BY DEF StatusAfterReturn
<1>5. \A p \in Products : item[r][p].issued <= item[r][p].accepted
  BY DEF Shapes, RequestShape
<1>6. RequestShape(r)'
  BY <1>1, <1>2, <1>4, <1>5 DEF RequestShape
<1>7. StatusAfterReturn(items) # "partially_returned" =>
         \A p \in Products : Remaining(items[p]) = 0
  BY DEF StatusAfterReturn
<1>8. \A p \in Products :
         /\ Owed(r, p) = 0 /\ Owed(r, p)' = 0
         /\ Held(r, p) = Remaining(item[r][p])
         /\ Held(r, p)' = Remaining(items[p])
  BY <1>1, <1>2, <1>4, <1>7 DEF Owed, Held, Active
<1>9. ASSUME NEW p \in Products
      PROVE  /\ Has(r, p)' \in 0..Has(r, p) /\ Has(r, p)' = Remaining(items[p])
             /\ Has(r, p) - Has(r, p)' = u(p)
  <2>1. Has(r, p) = 0 + Remaining(item[r][p]) /\ Has(r, p)' = 0 + Remaining(items[p])
    BY <1>8 DEF Has
  <2>2. /\ u(p) \in Nat /\ u(p) <= Remaining(item[r][p])
        /\ Remaining(items[p]) = Remaining(item[r][p]) - u(p)
        /\ Remaining(item[r][p]) \in Int
    BY <1>2
  <2> QED
    BY <2>1, <2>2
<1>10. request'[r].status = "partially_returned"
          <=> \E p \in Products : Has(r, p)' # 0
  BY <1>1, <1>9 DEF StatusAfterReturn
<1>11. ASSUME NEW p \in Products
       PROVE  /\ item'[r][p].returned >= item[r][p].returned
              /\ SpoiltOf(item'[r][p]) >= SpoiltOf(item[r][p])
              /\ Has(r, p) - Has(r, p)' =
                    (item'[r][p].returned - item[r][p].returned)
                       + (SpoiltOf(item'[r][p]) - SpoiltOf(item[r][p]))
              /\ stock'[p].available - stock[p].available
                    = item'[r][p].returned - item[r][p].returned
              /\ Aside(stock'[p]) - Aside(stock[p])
                    = SpoiltOf(item'[r][p]) - SpoiltOf(item[r][p])
  BY <1>1, <1>9, ReturnBooked DEF items, u
<1>12. LedgerStep
  BY <1>1, <1>4, <1>9, <1>10, <1>11, LedgerTakesBack DEF OnlyOf
<1> QED
  BY <1>1, <1>2, <1>3, <1>6, <1>8, <1>12, CustodyStep

LEMMA ReturnItemsCustody ==
    ASSUME TypesAndRows, TypesAndRows', Shapes, NEW r \in Requests,
           NEW photo \in ReturnPhotos, NEW counts \in Counts(r),
           NEW outcome \in AssetOutcomes(r),
           return_items(r, photo, counts, outcome)
    PROVE  CustodyKept
<1>1. /\ request[r].status \in Active /\ loan' = loan /\ tracking' = tracking
      /\ request[r].assigned_box # None
      /\ stock' = StockAfterReturn(counts, outcome)
      /\ item' = [item EXCEPT ![r] = ItemsAfterReturn(r, counts, outcome)]
      /\ request' = [request EXCEPT ![r].status =
                        StatusAfterReturn(ItemsAfterReturn(r, counts, outcome))]
      /\ ResolutionsValid(r, counts, outcome)
  BY DEF return_items
<1>2. loan[r].status = "none"
  BY <1>1 DEF Shapes, RequestShape
<1>3. \A p \in Products :
         /\ ResolvedUnits(Resolved(p, counts, outcome)) <= Remaining(item[r][p])
         /\ LET c == Resolved(p, counts, outcome)
            IN  CanReturnItem(stock[p], c["returned"], c["damaged"], c["missing"])
  BY <1>1 DEF ResolutionsValid
<1> QED
  BY <1>1, <1>2, <1>3, ReturnCustody

LEMMA DirectReturnCustody ==
    ASSUME TypesAndRows, TypesAndRows', Shapes, NEW r \in Requests,
           NEW photo \in ReturnPhotos, NEW counts \in Counts(r),
           NEW outcome \in AssetOutcomes(r),
           return_direct_loan(r, photo, counts, outcome)
    PROVE  CustodyKept
<1> DEFINE items == ItemsAfterReturn(r, counts, outcome)
<1>1. /\ loan[r].status = "checked_out" /\ tracking' = tracking
      /\ stock' = StockAfterReturn(counts, outcome)
      /\ item' = [item EXCEPT ![r] = items]
      /\ request' = [request EXCEPT ![r].status = StatusAfterReturn(items)]
      /\ FullyResolved(r, counts, outcome)
      /\ (\E p \in Products : Remaining(item[r][p]) > 0)
            => ResolutionsValid(r, counts, outcome)
  BY DEF return_direct_loan, CheckedOut
<1>2. /\ \A x \in Requests : x # r => loan'[x] = loan[x]
      /\ loan'[r].status = "returned"
  BY TypesSplit DEF return_direct_loan, LoanType, LoanRow
<1>3. request[r].status = "issued" /\ request[r].assigned_box = None
  BY <1>1 DEF Shapes, RequestShape
<1>4. ASSUME NEW p \in Products
      PROVE  /\ ResolvedUnits(Resolved(p, counts, outcome)) = Remaining(item[r][p])
             /\ ResolvedUnits(Resolved(p, counts, outcome)) \in Nat
             /\ Remaining(items[p]) = 0
  <2>1. LET u == ResolvedUnits(Resolved(p, counts, outcome))
        IN  /\ u = Remaining(item[r][p]) /\ u \in Nat
            /\ Remaining(items[p]) = Remaining(item[r][p]) - u
    BY <1>1, ResolvedItem DEF FullyResolved
  <2> QED
    BY <2>1
<1> HIDE DEF items
<1>5. StatusAfterReturn(items) \in {"returned", "closed_with_issue"}
  BY <1>4 DEF StatusAfterReturn
<1>6. request'[r].status \in {"returned", "closed_with_issue"}
  BY <1>1, <1>5, RequestRows, TypesSplit DEF RequestType
<1>7. \A p \in Products :
         LET c == Resolved(p, counts, outcome)
         IN  CanReturnItem(stock[p], c["returned"], c["damaged"], c["missing"])
  BY <1>1, DirectReturnable
<1>8. \A p \in Products :
         ResolvedUnits(Resolved(p, counts, outcome)) <= Remaining(item[r][p])
  BY <1>4
<1>9. request[r].status \in Active
  BY <1>3 DEF Active
<1> QED
  BY <1>1, <1>2, <1>3, <1>6, <1>7, <1>8, <1>9, ReturnCustody DEF items

\* A handout that is born issued: what leaves the shelf is what is held.
LEMMA HandoutCustody ==
    ASSUME TypesAndRows, TypesAndRows', Shapes, NEW r \in Requests,
           NEW photo, NEW source, NEW first, NEW qrs, NEW container,
           NEW manual \in Quantities,
           CreateIssuedLoan(r, photo, source, first, qrs, container, manual)
    PROVE  CustodyKept
<1> DEFINE n(p) == HandedUnits(qrs, manual, p)
<1>a. /\ request[r].status = "absent"
      /\ request' = [request EXCEPT ![r].status = "issued",
                                    ![r].issue_evidence = photo]
      /\ tracking' = tracking
  BY DEF CreateIssuedLoan
<1>b. loan'[r].status = "checked_out"
  BY RequestRows DEF CreateIssuedLoan
<1>c. RequestType(request)
  BY TypesSplit
<1>d. /\ request'[r].status = "issued"
      /\ request'[r].assigned_box = request[r].assigned_box
      /\ \A x \in Requests : x # r => request'[x] = request[x]
  BY <1>a, <1>c DEF RequestType
<1>e. request[r].assigned_box = None
  BY <1>a DEF Shapes, RequestShape
<1>1. /\ request[r].status = "absent" /\ request'[r].status = "issued"
      /\ request'[r].assigned_box = None /\ loan'[r].status = "checked_out"
      /\ tracking' = tracking
  BY <1>a, <1>b, <1>d, <1>e
<1>2. ASSUME NEW p \in Products
      PROVE  /\ n(p) \in Nat /\ CanIssueAvailable(stock[p], n(p))
             /\ item'[r][p] = [NoItem EXCEPT !.requested = n(p), !.accepted = n(p),
                                             !.issued = n(p)]
             /\ stock'[p] = IssueAvailable(stock[p], n(p))
  BY HandedUnitsNat, RequestRows DEF CreateIssuedLoan, HandoutValid
<1> HIDE DEF n
<1>3. ASSUME NEW p \in Products
      PROVE  /\ item'[r][p].accepted = n(p) /\ item'[r][p].issued = n(p)
             /\ item'[r][p].returned = 0 /\ item'[r][p].damaged = 0
             /\ item'[r][p].missing = 0 /\ Remaining(item'[r][p]) = n(p)
             /\ item'[r][p].needs_fix = 0
  <2>1. /\ item'[r][p].accepted = n(p) /\ item'[r][p].issued = n(p)
        /\ item'[r][p].returned = 0 /\ item'[r][p].damaged = 0
        /\ item'[r][p].missing = 0 /\ item'[r][p].needs_fix = 0
    BY <1>2 DEF NoItem
  <2> QED
    BY <1>2, <2>1, NothingResolved
<1>f. ASSUME NEW p \in Products
      PROVE  /\ item'[r][p].issued <= item'[r][p].accepted
             /\ Remaining(item'[r][p]) >= 0
  <2>1. n(p) \in Nat /\ item'[r][p].accepted = n(p) /\ item'[r][p].issued = n(p)
        /\ Remaining(item'[r][p]) = n(p)
    BY <1>2, <1>3
  <2> QED
    BY <2>1
<1>4. RequestShape(r)'
  BY <1>1, <1>3, <1>f DEF RequestShape
<1>5. \A x \in Requests : x # r => /\ request'[x] = request[x]
                                   /\ item'[x] = item[x] /\ loan'[x] = loan[x]
  BY RequestRows DEF CreateIssuedLoan
<1>6. \A p \in Products : /\ Owed(r, p) = 0 /\ Owed(r, p)' = 0
                          /\ Held(r, p) = 0 /\ Held(r, p)' = n(p)
  BY <1>1, <1>3 DEF Owed, Held, Active
<1>7. ASSUME NEW p \in Products
      PROVE  /\ stock'[p].reserved = stock[p].reserved
             /\ stock'[p].issued = stock[p].issued + n(p)
             /\ stock[p].reserved \in Nat /\ stock[p].issued \in Nat
             /\ stock'[p].available = stock[p].available - n(p)
             /\ Aside(stock'[p]) = Aside(stock[p])
             /\ n(p) \in 0..stock[p].available
  <2>1. n(p) \in Nat /\ CanIssueAvailable(stock[p], n(p))
        /\ stock'[p] = IssueAvailable(stock[p], n(p))
    BY <1>2
  <2>2. /\ Sound(stock[p]) /\ stock[p].available \in Nat
        /\ stock[p].reserved \in Nat /\ stock[p].issued \in Nat
    BY RequestRows DEF Row
  <2>3. n(p) \in 0..stock[p].available
    <3>1. \A a, b \in Nat : b >= a => a \in 0..b
      OBVIOUS
    <3>2. stock[p].available >= n(p) /\ n(p) \in Nat
      BY <2>1 DEF CanIssueAvailable
    <3> QED
      BY <2>2, <3>1, <3>2
  <2>4. /\ IssueAvailable(stock[p], n(p)).reserved = stock[p].reserved
        /\ IssueAvailable(stock[p], n(p)).issued = stock[p].issued + n(p)
        /\ IssueAvailable(stock[p], n(p)).available = stock[p].available - n(p)
        /\ Aside(IssueAvailable(stock[p], n(p))) = Aside(stock[p])
    BY <2>1, <2>2, IssueAvailableSound
  <2> QED
    BY <2>1, <2>2, <2>3, <2>4
<1>8. \A p \in Products : n(p) \in Nat
  BY <1>2
<1>9. ASSUME NEW p \in Products
      PROVE  /\ Has(r, p) = 0 /\ Has(r, p)' = n(p)
             /\ item'[r][p].returned = item[r][p].returned
             /\ SpoiltOf(item'[r][p]) = SpoiltOf(item[r][p])
  <2>1. Has(r, p) = 0 + 0 /\ Has(r, p)' = 0 + n(p)
    BY <1>6 DEF Has
  <2>2. n(p) \in Nat
    BY <1>8
  <2>3. item[r][p].returned = 0 /\ SpoiltOf(item[r][p]) = 0
    BY <1>1, NothingBooked
  <2>4. item'[r][p].returned = 0 /\ SpoiltOf(item'[r][p]) = 0
    BY <1>3 DEF SpoiltOf
  <2> QED
    BY <2>1, <2>2, <2>3, <2>4
<1>10. LedgerStep
  BY <1>1, <1>5, <1>7, <1>9, LedgerTakesOff DEF OnlyOf
<1> QED
  BY <1>1, <1>8, <1>4, <1>5, <1>6, <1>7, <1>10, CustodyStep

LEMMA CheckoutCustody ==
    ASSUME TypesAndRows, TypesAndRows', Shapes, NEW r \in Requests,
           NEW q \in QRs, NEW photo \in IssuePhotos, checkout_tool(r, q, photo)
    PROVE  CustodyKept
BY NoManualType, HandoutCustody DEF checkout_tool

LEMMA DirectLoanCustody ==
    ASSUME TypesAndRows, TypesAndRows', Shapes, NEW r \in Requests,
           NEW photo \in IssuePhotos, NEW qrs \in SUBSET QRs,
           NEW manual \in Quantities, NEW container, NEW first,
           issue_direct_loan(r, photo, first, qrs, manual, container)
    PROVE  CustodyKept
<1> DEFINE box == IF qrs \cap Boxes = {} THEN container
                  ELSE CHOOSE b \in qrs \cap Boxes : TRUE
<1>1. CreateIssuedLoan(r, photo, "admin_direct", first, qrs, box, manual)
  BY DEF issue_direct_loan
<1> HIDE DEF box
<1> QED
  BY <1>1, HandoutCustody

\* Everything out comes back: an open loan has no unit resolved yet, so what
\* the code computes as issued minus returned is what the borrower holds.
LEMMA ReturnToolCustody ==
    ASSUME TypesAndRows, TypesAndRows', Shapes, NEW r \in Requests,
           NEW photo \in ReturnPhotos, NEW problem \in BOOLEAN,
           return_tool(r, photo, problem)
    PROVE  CustodyKept
<1> DEFINE outstanding(p) ==
               IF item[r][p].issued > item[r][p].returned
               THEN item[r][p].issued - item[r][p].returned ELSE 0
<1>1. /\ loan[r].status = "checked_out" /\ tracking' = tracking
      /\ stock' = [p \in Products |-> ReturnToAvailable(stock[p], outstanding(p))]
      /\ item' = [item EXCEPT ![r] =
                    [p \in Products |->
                       [item[r][p] EXCEPT !.returned = @ + outstanding(p)]]]
      /\ \A p \in Products : CanReturnToAvailable(stock[p], outstanding(p))
      /\ request' = [request EXCEPT ![r].status = "returned"]
  BY DEF return_tool, CheckedOut
<1>2. /\ \A x \in Requests : x # r => loan'[x] = loan[x]
      /\ loan'[r].status = "returned"
  BY TypesSplit DEF return_tool, LoanType, LoanRow
<1>3. request[r].status = "issued" /\ request[r].assigned_box = None
  BY <1>1 DEF Shapes, RequestShape
<1>4. /\ request'[r].status = "returned"
      /\ request'[r].assigned_box = request[r].assigned_box
      /\ \A x \in Requests : x # r => request'[x] = request[x]
  BY <1>1, TypesSplit DEF RequestType
<1>5. ASSUME NEW p \in Products
      PROVE  /\ item[r][p] \in Item(Nat)
             /\ item[r][p].issued \in Nat
             /\ item[r][p].issued <= item[r][p].accepted
             /\ item[r][p].returned = 0 /\ item[r][p].damaged = 0
             /\ item[r][p].missing = 0
             /\ outstanding(p) = item[r][p].issued
             /\ Remaining(item[r][p]) = item[r][p].issued
             /\ SpoiltOf(item[r][p]) \in Nat
  <2>1. /\ item[r][p] \in Item(Nat) /\ item[r][p].issued \in Nat
        /\ item[r][p].issued <= item[r][p].accepted
        /\ item[r][p].returned = 0 /\ item[r][p].damaged = 0
        /\ item[r][p].missing = 0
    BY <1>1, RequestRows DEF Shapes, RequestShape, Item
  <2>2. \A a \in Nat : (IF a > 0 THEN a - 0 ELSE 0) = a
    OBVIOUS
  <2>3. SpoiltOf(item[r][p]) \in Nat
    BY <2>1 DEF Item, SpoiltOf
  <2> QED
    BY <2>1, <2>2, <2>3, NothingResolved
<1> HIDE DEF outstanding
<1>6. ASSUME NEW p \in Products
      PROVE  /\ item'[r][p].issued = item[r][p].issued
             /\ item'[r][p].accepted = item[r][p].accepted
             /\ item'[r][p].damaged = 0 /\ item'[r][p].missing = 0
             /\ item'[r][p].returned = item[r][p].issued
             /\ Remaining(item'[r][p]) = 0
             /\ SpoiltOf(item'[r][p]) = SpoiltOf(item[r][p])
  <2>1. item'[r][p] = [item[r][p] EXCEPT !.returned = @ + outstanding(p)]
    BY <1>1, RequestRows
  <2>2. \A a \in Nat : 0 + a = a /\ a - (a + 0 + 0) = 0
    OBVIOUS
  <2>3. /\ item'[r][p].issued = item[r][p].issued
        /\ item'[r][p].accepted = item[r][p].accepted
        /\ item'[r][p].damaged = 0 /\ item'[r][p].missing = 0
        /\ item'[r][p].returned = item[r][p].issued
    BY <1>5, <2>1, <2>2 DEF Item
  <2>4. SpoiltOf(item'[r][p]) = SpoiltOf(item[r][p])
    BY <1>5, <2>1 DEF Item, SpoiltOf
  <2>5. Remaining(item'[r][p]) = 0
    BY <1>5, <2>2, <2>3 DEF Remaining
  <2> QED
    BY <2>3, <2>4, <2>5
<1>7. RequestShape(r)'
  <2>1. \A p \in Products : /\ item'[r][p].issued <= item'[r][p].accepted
                            /\ Remaining(item'[r][p]) >= 0
    BY <1>5, <1>6
  <2> QED
    BY <1>2, <1>3, <1>4, <2>1 DEF RequestShape
<1>8. \A x \in Requests : x # r => /\ request'[x] = request[x]
                                   /\ item'[x] = item[x] /\ loan'[x] = loan[x]
  BY <1>1, <1>2, <1>4, RequestRows
<1>9. \A p \in Products :
         /\ Owed(r, p) = 0 /\ Owed(r, p)' = 0
         /\ Held(r, p) = item[r][p].issued /\ Held(r, p)' = 0
  BY <1>3, <1>4, <1>5 DEF Owed, Held, Active
<1>10. ASSUME NEW p \in Products
       PROVE  /\ stock'[p].reserved = stock[p].reserved
              /\ stock'[p].issued = stock[p].issued - item[r][p].issued
              /\ stock[p].reserved \in Nat /\ stock[p].issued \in Nat
              /\ stock'[p].available - stock[p].available = item[r][p].issued
              /\ Aside(stock'[p]) - Aside(stock[p]) = 0
  <2>1. /\ stock'[p] = ReturnToAvailable(stock[p], item[r][p].issued)
        /\ CanReturnToAvailable(stock[p], item[r][p].issued)
        /\ item[r][p].issued \in Nat
    BY <1>1, <1>5
  <2>2. /\ Sound(stock[p]) /\ stock[p].available \in Nat
        /\ stock[p].reserved \in Nat /\ stock[p].issued \in Nat
        /\ Aside(stock[p]) \in Nat
    BY RequestRows DEF Row, Aside
  <2>3. LET t == ReturnToAvailable(stock[p], item[r][p].issued)
        IN  /\ t.reserved = stock[p].reserved
            /\ t.issued = stock[p].issued - item[r][p].issued
            /\ t.available = stock[p].available + item[r][p].issued
            /\ Aside(t) = Aside(stock[p])
    BY <2>1, <2>2, ReturnToAvailableSound
  <2> QED
    BY <2>1, <2>2, <2>3
<1>11. \A p \in Products : item[r][p].issued \in Nat
  BY <1>5
<1>12. ASSUME NEW p \in Products
       PROVE  /\ Has(r, p)' = 0 /\ Has(r, p)' \in 0..Has(r, p)
              /\ Has(r, p) = item[r][p].issued
  <2>1. Has(r, p) = 0 + item[r][p].issued /\ Has(r, p)' = 0 + 0
    BY <1>9 DEF Has
  <2>2. item[r][p].issued \in Nat
    BY <1>11
  <2> QED
    BY <2>1, <2>2
<1>13. ASSUME NEW p \in Products
       PROVE  /\ item'[r][p].returned >= item[r][p].returned
              /\ SpoiltOf(item'[r][p]) >= SpoiltOf(item[r][p])
              /\ Has(r, p) - Has(r, p)' =
                    (item'[r][p].returned - item[r][p].returned)
                       + (SpoiltOf(item'[r][p]) - SpoiltOf(item[r][p]))
              /\ stock'[p].available - stock[p].available
                    = item'[r][p].returned - item[r][p].returned
              /\ Aside(stock'[p]) - Aside(stock[p])
                    = SpoiltOf(item'[r][p]) - SpoiltOf(item[r][p])
  <2>1. /\ item[r][p].returned = 0 /\ item'[r][p].returned = item[r][p].issued
        /\ SpoiltOf(item'[r][p]) = SpoiltOf(item[r][p])
        /\ SpoiltOf(item[r][p]) \in Nat /\ item[r][p].issued \in Nat
    BY <1>5, <1>6
  <2>2. Has(r, p)' = 0 /\ Has(r, p) = item[r][p].issued
    BY <1>12
  <2>3. /\ stock'[p].available - stock[p].available = item[r][p].issued
        /\ Aside(stock'[p]) - Aside(stock[p]) = 0
    BY <1>10
  <2> QED
    BY <2>1, <2>2, <2>3
<1>14. LedgerStep
  <2>1. request[r].status \in Active
    BY <1>3 DEF Active
  <2>2. OnlyOf(r)
    BY <1>8 DEF OnlyOf
  <2> QED
    BY <1>4, <1>12, <1>13, <2>1, <2>2, LedgerTakesBack
<1> QED
  BY <1>1, <1>7, <1>8, <1>9, <1>10, <1>11, <1>14, CustodyStep

-----------------------------------------------------------------------------
(* Stock corrections. *)

LEMMA TriageCustody ==
    ASSUME TypesAndRows, TypesAndRows', Shapes, NEW r \in Requests,
           NEW outcome \in ReportOutcomes, NEW quantity \in Quantities,
           NEW moved \in SUBSET Assets,
           triage_problem_report(r, outcome, quantity, moved)
    PROVE  CustodyKept
<1>1. UNCHANGED <<tracking, request, item, loan>>
  BY DEF triage_problem_report
<1>2. ASSUME NEW p \in Products, tracking[p] = "quantity"
      PROVE  /\ stock'[p].reserved = stock[p].reserved
             /\ stock'[p].issued = stock[p].issued
  <2>1. CASE outcome = "no_issue" \/ quantity[p] = 0
    BY <2>1 DEF triage_problem_report
  <2>2. CASE outcome # "no_issue" /\ quantity[p] # 0
    <3>1. quantity[p] \in Nat /\ quantity[p] > 0
      BY <2>2, QuantityType
    <3>2. quantity[p] > 0 => CanTriage(stock[p], quantity[p])
      BY <1>2, <2>2, Zenon DEF triage_problem_report
    <3>3. stock'[p] = Triage(stock[p], quantity[p], outcome)
      BY <1>2, <2>2 DEF triage_problem_report
    <3>4. outcome \in {"damaged", "missing", "needs_fix"} /\ Sound(stock[p])
      BY <2>2, RequestRows DEF ReportOutcomes
    <3> QED
      BY <3>1, <3>2, <3>3, <3>4, TriageSound
  <2> QED
    BY <2>1, <2>2
<1> QED
  BY <1>1, <1>2, CorrectionStep

LEMMA AdjustCustody ==
    ASSUME TypesAndRows, TypesAndRows', Shapes, NEW p \in Products,
           NEW da \in Deltas, NEW dd \in Deltas, NEW dl \in Deltas,
           adjust_quantities(p, da, dd, dl)
    PROVE  CustodyKept
<1>1. da \in Int /\ dd \in Int /\ dl \in Int
  BY LendingAssumption DEF Deltas, LendingAssumption
<1>2. stock' = [stock EXCEPT ![p] = Adjust(stock[p], da, dd, dl)]
      /\ UNCHANGED <<tracking, request, item, loan>>
  BY DEF adjust_quantities, StockStep
<1>3. /\ Adjust(stock[p], da, dd, dl).reserved = stock[p].reserved
      /\ Adjust(stock[p], da, dd, dl).issued = stock[p].issued
  BY <1>1, TypesSplit, AdjustSound DEF adjust_quantities, StockType
<1>4. \A x \in Products : /\ stock'[x].reserved = stock[x].reserved
                          /\ stock'[x].issued = stock[x].issued
  BY <1>2, <1>3, TypesSplit DEF StockType
<1> QED
  BY <1>2, <1>4, CorrectionStep

LEMMA NeedsFixCustody ==
    ASSUME TypesAndRows, TypesAndRows', Shapes, NEW p \in Products, NEW action,
           NEW q \in 1..MaxQty, needs_fix_action(p, action, q)
    PROVE  CustodyKept
<1>1. q \in Nat /\ Sound(stock[p])
  BY TypesSplit, LendingAssumption DEF LendingAssumption, StockType
<1>2. PICK row : /\ StockStep(p, row)
                 /\ row.reserved = stock[p].reserved
                 /\ row.issued = stock[p].issued
  <2>1. CASE CanShelve(stock[p], q) /\ StockStep(p, Shelve(stock[p], q))
    BY <1>1, <2>1, ShelveSound
  <2>2. CASE CanRepair(stock[p], q) /\ StockStep(p, Repair(stock[p], q))
    BY <1>1, <2>2, RepairSound
  <2>3. CASE CanRepair(stock[p], q) /\ StockStep(p, Scrap(stock[p], q))
    BY <1>1, <2>3, ScrapSound
  <2> QED
    BY <2>1, <2>2, <2>3 DEF needs_fix_action
<1>3. \A x \in Products : /\ stock'[x].reserved = stock[x].reserved
                          /\ stock'[x].issued = stock[x].issued
  BY <1>2, TypesSplit DEF StockStep, StockType
<1> QED
  BY <1>2, <1>3, CorrectionStep DEF StockStep

\* The product generated for leaves the quantity-tracked ones.
LEMMA GenerateCustody ==
    ASSUME TypesAndRows, TypesAndRows', Shapes, NEW p \in Products,
           NEW new \in SUBSET Assets, generate_assets_with_qr(p, new)
    PROVE  CustodyKept
<1>1. /\ UNCHANGED <<request, item, loan>>
      /\ tracking' = [tracking EXCEPT ![p] = "individual"]
      /\ stock' = [stock EXCEPT ![p] = Reconcile([a \in AssetsOf(p) |-> asset'[a]])]
  BY DEF generate_assets_with_qr
<1>2. \A x \in Products : tracking'[x] = "quantity" =>
         tracking[x] = "quantity" /\ stock'[x] = stock[x]
  BY <1>1, TypesSplit DEF TrackingType, StockType
<1> QED
  BY <1>1, <1>2, CorrectionStep

-----------------------------------------------------------------------------
(* The theorems. *)

LEMMA InitCustody ==
    ASSUME Init
    PROVE  Shapes /\ Sums
<1>1. ASSUME NEW r \in Requests
      PROVE  /\ request[r].status = "absent" /\ request[r].assigned_box = None
             /\ loan[r].status = "none"
             /\ \A p \in Products : item[r][p] = NoItem
  BY DEF Init, NoRequest, NoLoan
<1>2. /\ NoItem.issued = 0 /\ NoItem.accepted = 0 /\ NoItem.needs_fix = 0
      /\ Remaining(NoItem) = 0
  BY DEF NoItem, Remaining
<1>3. Shapes
  BY <1>1, <1>2 DEF Shapes, RequestShape
<1>4. ASSUME NEW p \in Products
      PROVE  TotalUnits(Promised(p)) = 0 /\ TotalUnits(OnLoan(p)) = 0
  <2>1. \A r \in Requests : Promised(p)[r] = 0 /\ OnLoan(p)[r] = 0
    BY <1>1 DEF Promised, OnLoan, Active
  <2> QED
    BY <2>1, TotalUnitsZero
<1>5. \A p \in Products : stock[p].reserved = 0 /\ stock[p].issued = 0
  BY LendingAssumption DEF Init, LendingAssumption, NewRow
<1> QED
  BY <1>3, <1>4, <1>5 DEF Sums, ReservationsBacked, LoansBacked

LEMMA StepCustody ==
    ASSUME TypesAndRows, Shapes, [Next]_vars
    PROVE  CustodyKept
<1> TypesAndRows'
  BY StepTypes
<1>1. CASE ReviewedSteps
  BY <1>1, SubmitCustody, AcceptCustody, RejectCustody, AssignBoxCustody,
     IssueCustody, ReturnItemsCustody DEF ReviewedSteps
<1>2. CASE HandoutSteps
  BY <1>2, CheckoutCustody, ReturnToolCustody, DirectLoanCustody,
     DirectReturnCustody, TriageCustody DEF HandoutSteps
<1>3. CASE StockSteps
  BY <1>3, AdjustCustody, NeedsFixCustody, GenerateCustody DEF StockSteps
<1>4. CASE UNCHANGED vars
  BY <1>4, CorrectionStep DEF vars
<1> QED
  BY <1>1, <1>2, <1>3, <1>4 DEF Next

\* In every reachable state the buckets and the request rows agree.
THEOREM CustodyHolds == Spec => [](Shapes /\ Sums)
<1>1. Init => Shapes /\ Sums
  BY InitCustody
<1>2. TypesAndRows /\ (Shapes /\ Sums) /\ [Next]_vars => (Shapes /\ Sums)'
  BY StepCustody DEF CustodyKept
<1> QED
  BY <1>1, <1>2, TypesHold, PTL DEF Spec

\* The reserved bucket of a quantity-tracked product is the sum of what its
\* accepted requests were promised, whatever ran before: the handover of an
\* accepted request (issue_items) never lacks reserved stock.
THEOREM ReservedIsPromised == Spec => []ReservationsBacked
<1>1. Sums => ReservationsBacked
  BY DEF Sums
<1> QED
  BY <1>1, CustodyHolds, PTL

\* The issued bucket of a quantity-tracked product is the sum of what the
\* borrowers of all three flows still hold, so that no return is refused for
\* lack of issued stock.
THEOREM IssuedIsOnLoan == Spec => []LoansBacked
<1>1. Sums => LoansBacked
  BY DEF Sums
<1> QED
  BY <1>1, CustodyHolds, PTL

\* An open loan sits on an issued request, both close together, and a request
\* with a loan has no box, so that return_items never takes a loan apart.
THEOREM LoanAndRequestAgree == Spec => []LoanMatchesRequest
<1>1. Shapes => LoanMatchesRequest
  BY DEF Shapes, RequestShape, LoanMatchesRequest
<1> QED
  BY <1>1, CustodyHolds, PTL

LEMMA LedgerInit ==
    ASSUME Init
    PROVE  Ledger!Init
<1>1. ASSUME NEW r \in Requests
      PROVE  /\ PhaseNow[r] = "none"
             /\ \A p \in Products : /\ InHand[r][p] = 0 /\ BroughtBack[r][p] = 0
                                    /\ Spoilt[r][p] = 0
  <2>1. request[r].status = "absent" /\ \A p \in Products : item[r][p] = NoItem
    BY DEF Init, NoRequest
  <2>2. \A p \in Products : /\ item[r][p].returned = 0 /\ item[r][p].damaged = 0
                            /\ item[r][p].missing = 0 /\ item[r][p].needs_fix = 0
    BY <2>1 DEF NoItem
  <2>3. \A p \in Products : Promised(p)[r] = 0 /\ OnLoan(p)[r] = 0
    BY <2>1 DEF Promised, OnLoan, Active
  <2>4. \A p \in Products : InHand[r][p] = 0
    BY <2>3 DEF InHand
  <2> QED
    BY <2>1, <2>2, <2>4 DEF PhaseNow, PhaseOf, BroughtBack, Spoilt
<1>2. PhaseNow = [r \in Requests |-> "none"]
  BY <1>1 DEF PhaseNow
<1>3. InHand = Ledger!Nothing /\ BroughtBack = Ledger!Nothing /\ Spoilt = Ledger!Nothing
  <2>1. Ledger!Nothing = [r \in Requests |-> [p \in Products |-> 0]]
    BY DEF Ledger!Nothing
  <2>2. /\ InHand = [r \in Requests |-> [p \in Products |-> 0]]
        /\ BroughtBack = [r \in Requests |-> [p \in Products |-> 0]]
        /\ Spoilt = [r \in Requests |-> [p \in Products |-> 0]]
    BY <1>1 DEF InHand, Promised, OnLoan, BroughtBack, Spoilt
  <2> QED
    BY <2>1, <2>2
<1>4. OnShelf \in [Products -> Nat] /\ SetAside = [p \in Products |-> 0]
  <2>1. ASSUME NEW p \in Products
        PROVE  OnShelf[p] \in Nat /\ SetAside[p] = 0
    <3>1. stock[p].available \in Nat
      BY InitTypes, TypesSplit DEF StockType, Sound, Row
    <3>2. stock[p].damaged = 0 /\ stock[p].lost = 0 /\ stock[p].needs_fix = 0
      BY LendingAssumption DEF Init, LendingAssumption, NewRow
    <3> QED
      BY <3>1, <3>2 DEF OnShelf, SetAside
  <2> QED
    BY <2>1 DEF OnShelf, SetAside
<1> QED
  BY <1>2, <1>3, <1>4 DEF Ledger!Init

\* Lending implements module Custody: every step of every flow books on the
\* item rows of its request what it moves between the product buckets, and
\* every stock correction leaves the requests alone.
THEOREM LendingRefinesCustody == Spec => UnitsInCustody
<1>1. Init => Ledger!Init
  BY LedgerInit
<1>2. TypesAndRows /\ (Shapes /\ Sums) /\ [Next]_vars => LedgerStep
  BY StepCustody DEF CustodyKept
<1> QED
  BY <1>1, <1>2, TypesHold, CustodyHolds, PTL
     DEF Spec, UnitsInCustody, Ledger!Spec, LedgerStep

-----------------------------------------------------------------------------
(* Progress, codes and units. *)

Closed == {"rejected", "returned", "closed_with_issue"}

\* What the items of a request say of its progress, beside RequestShape.
RequestProgress(r) ==
    /\ \A p \in Products :
          /\ item[r][p].accepted <= item[r][p].requested
          /\ request[r].status \in {"absent", "pending_approval", "rejected"}
                => item[r][p].accepted = 0
          /\ request[r].status \in {"returned", "closed_with_issue"}
                => Remaining(item[r][p]) = 0
    /\ request[r].status = "partially_returned" =>
          /\ \E p \in Products : Remaining(item[r][p]) > 0
          /\ \E p \in Products : Remaining(item[r][p]) < item[r][p].issued
    /\ request[r].status \in {"returned", "closed_with_issue"} =>
          ((\E p \in Products : item[r][p].damaged > 0 \/ item[r][p].missing > 0)
              <=> request[r].status = "closed_with_issue")

Progress == \A r \in Requests : RequestProgress(r)

\* Links and asset_ids against the asset rows.  A link that is still out sits
\* on a request that is still out; the units an item has outstanding cover its
\* links, and the units of an open loan cover the assets it names, so that the
\* return that resolves the last unit has named every asset.
Out(r, a) ==
    \/ link[r][a] = "issued"
    \/ loan[r].status = "checked_out" /\ a \in loan[r].asset_ids

Linked(r, p) == {a \in AssetsOf(p) : link[r][a] = "issued"}
Carried(r, p) == loan[r].asset_ids \cap AssetsOf(p)

AssetRows(r) ==
    /\ \A a \in Assets : link[r][a] = "issued" =>
          request[r].status \in Active /\ loan[r].status = "none"
    /\ \A p \in Products :
          /\ Cardinality(Linked(r, p)) <= Remaining(item[r][p])
          /\ loan[r].status = "checked_out" =>
                Cardinality(Carried(r, p)) <= item[r][p].issued

Serialized ==
    \A a \in Assets : asset[a] # "absent" => tracking[AssetProduct[a]] = "individual"
OneHolder ==
    \A a \in Assets, r1, r2 \in Requests : Out(r1, a) /\ Out(r2, a) => r1 = r2
HeldIsIssued == \A a \in Assets, r \in Requests : Out(r, a) => asset[a] = "issued"
IssuedIsHeld == \A a \in Assets : asset[a] = "issued" => \E r \in Requests : Out(r, a)

AssetInv ==
    /\ \A r \in Requests : AssetRows(r)
    /\ Serialized /\ OneHolder /\ HeldIsIssued /\ IssuedIsHeld

-----------------------------------------------------------------------------
(* A step acts on the rows of one request, and never on a closed one. *)

Others(r) ==
    \A x \in Requests : x # r => /\ request'[x] = request[x]
                                 /\ item'[x] = item[x] /\ loan'[x] = loan[x]

\* The steps of one request: of its review and handover, of its return, of a
\* handout that is born with its loan, and of the return of that loan.
Reviewed(r) ==
    \/ \E quantity \in Quantities : submit_request(r, quantity)
    \/ \E accepted \in Quantities : accept_request(r, accepted)
    \/ reject_request(r)
    \/ \E b \in Boxes : assign_box(r, b)
Issued(r) ==
    \E photo \in IssuePhotos, scans \in SUBSET Assets, broken \in Quantities :
        \E d \in Dispositions(broken) : issue_request(r, photo, scans, broken, d)
Returned(r) ==
    \E photo \in ReturnPhotos, counts \in Counts(r), outcome \in AssetOutcomes(r) :
        return_items(r, photo, counts, outcome)
Created(r) ==
    \E photo \in IssuePhotos, qrs \in SUBSET QRs, manual \in Quantities :
        \E source, first, container :
            CreateIssuedLoan(r, photo, source, first, qrs, container, manual)
ToolReturned(r) ==
    \E photo \in ReturnPhotos, problem \in BOOLEAN : return_tool(r, photo, problem)
LoanReturned(r) ==
    \E photo \in ReturnPhotos, counts \in Counts(r), outcome \in AssetOutcomes(r) :
        return_direct_loan(r, photo, counts, outcome)
Triaged(r) ==
    \E outcome \in ReportOutcomes, quantity \in Quantities, moved \in SUBSET Assets :
        triage_problem_report(r, outcome, quantity, moved)

LEMMA ReviewedActsOnOne ==
    ASSUME TypesAndRows, NEW r \in Requests, Reviewed(r) \/ Issued(r) \/ Returned(r)
    PROVE  request[r].status \notin Closed /\ loan' = loan /\ Others(r)
<1> USE RequestRows DEF Closed, Others
<1>1. ASSUME NEW quantity, submit_request(r, quantity)
      PROVE  request[r].status \notin Closed /\ loan' = loan /\ Others(r)
  BY <1>1 DEF submit_request
<1>2. ASSUME NEW accepted, accept_request(r, accepted)
      PROVE  request[r].status \notin Closed /\ loan' = loan /\ Others(r)
  BY <1>2 DEF accept_request
<1>3. ASSUME reject_request(r)
      PROVE  request[r].status \notin Closed /\ loan' = loan /\ Others(r)
  BY <1>3 DEF reject_request
<1>4. ASSUME NEW b, assign_box(r, b)
      PROVE  request[r].status \notin Closed /\ loan' = loan /\ Others(r)
  BY <1>4 DEF assign_box
<1>5. ASSUME NEW photo, NEW scans, NEW broken, NEW d,
             issue_request(r, photo, scans, broken, d)
      PROVE  request[r].status \notin Closed /\ loan' = loan /\ Others(r)
  BY <1>5 DEF issue_request
<1>6. ASSUME NEW photo, NEW counts, NEW outcome,
             return_items(r, photo, counts, outcome)
      PROVE  request[r].status \notin Closed /\ loan' = loan /\ Others(r)
  BY <1>6 DEF return_items, Active
<1> HIDE DEF Closed, Others
<1> QED
  BY <1>1, <1>2, <1>3, <1>4, <1>5, <1>6, Zenon DEF Reviewed, Issued, Returned

\* The rows a handout creates.
HandoutRows(r, qrs, manual) ==
    /\ request[r].status = "absent" /\ request'[r].status = "issued"
    /\ loan'[r].status = "checked_out" /\ loan'[r].qr_ids = qrs
    /\ loan'[r].asset_ids = HandedAssets(qrs)
    /\ \A p \in Products :
          /\ item'[r][p].requested = HandedUnits(qrs, manual, p)
          /\ item'[r][p].accepted = HandedUnits(qrs, manual, p)
          /\ item'[r][p].issued = HandedUnits(qrs, manual, p)
    /\ Others(r)

LEMMA CreatedRows ==
    ASSUME TypesAndRows, NEW r \in Requests, NEW photo, NEW source, NEW first,
           NEW qrs, NEW container, NEW manual,
           CreateIssuedLoan(r, photo, source, first, qrs, container, manual)
    PROVE  HandoutRows(r, qrs, manual)
<1>1. /\ request[r].status = "absent"
      /\ request' = [request EXCEPT ![r].status = "issued", ![r].issue_evidence = photo]
      /\ item' = [item EXCEPT ![r] =
                    [p \in Products |->
                       LET n == HandedUnits(qrs, manual, p)
                       IN  [NoItem EXCEPT !.requested = n, !.accepted = n,
                                          !.issued = n]]]
      /\ loan' = [loan EXCEPT ![r] =
                    [status |-> "checked_out", source |-> source,
                     qr_code |-> first, qr_ids |-> qrs, container |-> container,
                     asset_ids |-> HandedAssets(qrs), return_evidence |-> None]]
  BY DEF CreateIssuedLoan
<1>2. RequestType(request) /\ DOMAIN item = Requests /\ DOMAIN loan = Requests
  BY TypesSplit, RequestRows
<1>3. request'[r].status = "issued"
  BY <1>1, <1>2 DEF RequestType
<1>4. Others(r)
  BY <1>1, <1>2 DEF Others, RequestType
<1>5. \A p \in Products :
         /\ item'[r][p].requested = HandedUnits(qrs, manual, p)
         /\ item'[r][p].accepted = HandedUnits(qrs, manual, p)
         /\ item'[r][p].issued = HandedUnits(qrs, manual, p)
  BY <1>1, <1>2 DEF NoItem
<1> QED
  BY <1>1, <1>2, <1>3, <1>4, <1>5 DEF HandoutRows

LEMMA CreatedActsOnOne ==
    ASSUME TypesAndRows, NEW r \in Requests, Created(r)
    PROVE  request[r].status = "absent" /\ Others(r)
BY CreatedRows DEF Created, HandoutRows

LEMMA LoanClosesOnce ==
    ASSUME TypesAndRows, Shapes, NEW r \in Requests,
           ToolReturned(r) \/ LoanReturned(r)
    PROVE  /\ loan[r].status = "checked_out" /\ loan'[r].status = "returned"
           /\ request[r].status = "issued" /\ link' = link /\ Others(r)
<1> USE TypesSplit, RequestRows DEF LoanType, LoanRow, Others, CheckedOut
<1>1. loan[r].status = "checked_out" => request[r].status = "issued"
  BY DEF Shapes, RequestShape
<1>2. ASSUME NEW photo, NEW problem, return_tool(r, photo, problem)
      PROVE  /\ loan[r].status = "checked_out" /\ loan'[r].status = "returned"
             /\ link' = link /\ Others(r)
  BY <1>2 DEF return_tool
<1>3. ASSUME NEW photo, NEW counts, NEW outcome,
             return_direct_loan(r, photo, counts, outcome)
      PROVE  /\ loan[r].status = "checked_out" /\ loan'[r].status = "returned"
             /\ link' = link /\ Others(r)
  BY <1>3 DEF return_direct_loan
<1> QED
  BY <1>1, <1>2, <1>3, Zenon DEF ToolReturned, LoanReturned

LEMMA CorrectionsLeaveRequests ==
    ASSUME \/ \E r \in Requests : Triaged(r)
           \/ StockSteps
           \/ UNCHANGED vars
    PROVE  UNCHANGED <<request, item, link, loan>>
<1>1. ASSUME NEW r \in Requests, Triaged(r)
      PROVE  UNCHANGED <<request, item, link, loan>>
  BY <1>1 DEF Triaged, triage_problem_report
<1>2. CASE StockSteps
  BY <1>2 DEF StockSteps, adjust_quantities, needs_fix_action,
              generate_assets_with_qr, StockStep
<1>3. CASE UNCHANGED vars
  BY <1>3 DEF vars
<1> QED
  BY <1>1, <1>2, <1>3

\* Next, by the request a step acts on.
LEMMA StepCases ==
    ASSUME [Next]_vars
    PROVE  \/ \E r \in Requests :
                 \/ Reviewed(r) \/ Issued(r) \/ Returned(r) \/ Created(r)
                 \/ ToolReturned(r) \/ LoanReturned(r) \/ Triaged(r)
           \/ StockSteps
           \/ UNCHANGED vars
<1>1. CASE ReviewedSteps
  BY <1>1, Zenon DEF ReviewedSteps, Reviewed, Issued, Returned
<1>2. CASE HandoutSteps
  <2>1. ASSUME NEW r \in Requests, NEW q \in QRs, NEW photo \in IssuePhotos,
               checkout_tool(r, q, photo)
        PROVE  Created(r)
    BY <2>1, NoManualType DEF checkout_tool, Created
  <2>2. ASSUME NEW r \in Requests, NEW photo \in IssuePhotos,
               NEW qrs \in SUBSET QRs, NEW manual \in Quantities, NEW container,
               NEW first, issue_direct_loan(r, photo, first, qrs, manual, container)
        PROVE  Created(r)
    BY <2>2, Zenon DEF issue_direct_loan, Created
  <2> QED
    BY <1>2, <2>1, <2>2, Zenon DEF HandoutSteps, ToolReturned, LoanReturned, Triaged
<1> QED
  BY <1>1, <1>2 DEF Next

LEMMA ClosedStays ==
    ASSUME TypesAndRows, Shapes, [Next]_vars, NEW r \in Requests,
           request[r].status \in Closed
    PROVE  request'[r] = request[r] /\ item'[r] = item[r]
<1>1. ASSUME NEW x \in Requests, request[x].status \notin Closed, Others(x)
      PROVE  request'[r] = request[r] /\ item'[r] = item[r]
  BY <1>1 DEF Others
<1>2. ASSUME NEW x \in Requests,
             \/ request[x].status = "absent" /\ Others(x)
             \/ request[x].status = "issued" /\ Others(x)
      PROVE  request'[r] = request[r] /\ item'[r] = item[r]
  BY <1>1, <1>2 DEF Closed
<1> QED
  BY <1>1, <1>2, StepCases, ReviewedActsOnOne, CreatedActsOnOne,
     LoanClosesOnce, CorrectionsLeaveRequests

\* A closed or rejected request is final: no call of any of the workflows
\* writes its row, its items or its issue photo again.
THEOREM RequestsEnd == Spec => ClosedIsFinal
<1>1. TypesAndRows /\ (Shapes /\ Sums) /\ [Next]_vars =>
         [\A r \in Requests :
             request[r].status \in {"rejected", "returned", "closed_with_issue"} =>
                request'[r] = request[r] /\ item'[r] = item[r]]_vars
  BY ClosedStays DEF Closed
<1> QED
  BY <1>1, TypesHold, CustodyHolds, PTL DEF Spec, ClosedIsFinal

-----------------------------------------------------------------------------
(* Every QR of a bundle is on at most one open loan. *)

\* qr_has_active_loan is asked of every QR of the handout before its loan is
\* created, and a loan that is open keeps its QRs.
LEMMA StepQrs ==
    ASSUME TypesAndRows, Shapes, QrOnOneLoan, [Next]_vars
    PROVE  QrOnOneLoan'
<1>1. ASSUME \A r \in Requests :
                loan'[r].status = "checked_out" => loan'[r] = loan[r]
      PROVE  QrOnOneLoan'
  BY <1>1, Zenon DEF QrOnOneLoan
<1>2. ASSUME NEW r \in Requests, Created(r)
      PROVE  QrOnOneLoan'
  <2>1. PICK qrs \in SUBSET QRs :
           \E photo, manual, source, first, container :
              CreateIssuedLoan(r, photo, source, first, qrs, container, manual)
    BY <1>2 DEF Created
  <2>2. /\ loan'[r].qr_ids = qrs
        /\ \A q \in qrs, x \in Requests :
              ~(loan[x].status = "checked_out" /\ q \in loan[x].qr_ids)
    <3> PICK photo, manual, source, first, container :
           CreateIssuedLoan(r, photo, source, first, qrs, container, manual)
      BY <2>1
    <3>1. loan'[r].qr_ids = qrs
      BY CreatedRows DEF HandoutRows
    <3>2. \A q \in qrs, x \in Requests :
             ~(loan[x].status = "checked_out" /\ q \in loan[x].qr_ids)
      BY DEF CreateIssuedLoan, HandoutValid, QrHasActiveLoan
    <3> QED
      BY <3>1, <3>2
  <2> SUFFICES ASSUME NEW q \in QRs, NEW r1 \in Requests, NEW r2 \in Requests,
                      loan'[r1].status = "checked_out", q \in loan'[r1].qr_ids,
                      loan'[r2].status = "checked_out", q \in loan'[r2].qr_ids
               PROVE  r1 = r2
    BY DEF QrOnOneLoan
  <2> Others(r)
    BY <1>2, CreatedActsOnOne
  <2>3. CASE r1 # r /\ r2 # r
    BY <2>3, Zenon DEF Others, QrOnOneLoan
  <2>4. CASE r1 = r \/ r2 = r
    BY <2>2, <2>4 DEF Others
  <2> QED
    BY <2>3, <2>4
<1>3. ASSUME NEW r \in Requests, Reviewed(r) \/ Issued(r) \/ Returned(r)
      PROVE  QrOnOneLoan'
  BY <1>1, <1>3, ReviewedActsOnOne
<1>4. ASSUME NEW r \in Requests, ToolReturned(r) \/ LoanReturned(r)
      PROVE  QrOnOneLoan'
  BY <1>1, <1>4, LoanClosesOnce DEF Others
<1>5. ASSUME UNCHANGED <<request, item, link, loan>>
      PROVE  QrOnOneLoan'
  BY <1>1, <1>5
<1> QED
  BY <1>2, <1>3, <1>4, <1>5, StepCases, CorrectionsLeaveRequests, Zenon

\* No QR, the first of a bundle or another, is on two open loans: neither the
\* self-checkout nor the direct handout hands out again what is still out.
THEOREM QrsOnOneLoan == Spec => []QrOnOneLoan
<1>1. Init => QrOnOneLoan
  BY DEF Init, NoLoan, QrOnOneLoan
<1>2. TypesAndRows /\ (Shapes /\ Sums) /\ QrOnOneLoan /\ [Next]_vars => QrOnOneLoan'
  BY StepQrs
<1> QED
  BY <1>1, <1>2, TypesHold, CustodyHolds, PTL DEF Spec

-----------------------------------------------------------------------------
(* The items of a request follow its status. *)

LEMMA ProgressStep ==
    ASSUME Progress, NEW r \in Requests, RequestProgress(r)', Others(r)
    PROVE  Progress'
<1> SUFFICES ASSUME NEW x \in Requests, x # r PROVE RequestProgress(x)'
  BY DEF Progress
<1>1. RequestProgress(x)
  BY DEF Progress
<1> QED
  BY <1>1 DEF RequestProgress, Others

\* A step that only moves the status on, to one that is neither partly
\* returned nor closed with items, and leaves what was accepted within what
\* was requested.
LEMMA OpenProgress ==
    ASSUME NEW r \in Requests,
           request'[r].status \in {"pending_approval", "rejected", "accepted", "issued"},
           \A p \in Products :
              /\ item'[r][p].accepted <= item'[r][p].requested
              /\ request'[r].status \in {"pending_approval", "rejected"}
                    => item'[r][p].accepted = 0
    PROVE  RequestProgress(r)'
BY DEF RequestProgress

LEMMA ReviewedProgress ==
    ASSUME TypesAndRows, Shapes, Progress, NEW r \in Requests,
           Reviewed(r) \/ Issued(r)
    PROVE  RequestProgress(r)'
<1>a. /\ RequestType(request)
      /\ \A p \in Products : item[r][p] \in Item(Nat)
      /\ DOMAIN item = Requests
      /\ \A p \in Products : item[r][p].accepted <= item[r][p].requested
      /\ request[r].status = "pending_approval" =>
            \A p \in Products : item[r][p].accepted = 0
  BY RequestRows, TypesSplit DEF Progress, RequestProgress
<1>1. ASSUME NEW quantity \in Quantities, submit_request(r, quantity)
      PROVE  RequestProgress(r)'
  <2>1. request'[r].status = "pending_approval"
    BY <1>1, <1>a DEF submit_request, RequestType
  <2>2. ASSUME NEW p \in Products
        PROVE  item'[r][p].accepted <= item'[r][p].requested /\ item'[r][p].accepted = 0
    <3>1. item'[r][p] = [NoItem EXCEPT !.requested = quantity[p]]
      BY <1>1, <1>a DEF submit_request
    <3>2. quantity[p] \in Nat
      BY QuantityType
    <3> QED
      BY <3>1, <3>2 DEF NoItem
  <2> QED
    BY <2>1, <2>2, OpenProgress
<1>2. ASSUME NEW accepted \in Quantities, accept_request(r, accepted)
      PROVE  RequestProgress(r)'
  <2>1. request'[r].status = "accepted"
    BY <1>2, <1>a DEF accept_request, RequestType
  <2>2. ASSUME NEW p \in Products
        PROVE  item'[r][p].accepted <= item'[r][p].requested
    <3>1. item'[r][p] = [item[r][p] EXCEPT !.accepted = accepted[p]]
      BY <1>2, <1>a DEF accept_request
    <3>2. accepted[p] <= item[r][p].requested
      BY <1>2 DEF accept_request
    <3> QED
      BY <3>1, <3>2, <1>a DEF Item
  <2> QED
    BY <2>1, <2>2, OpenProgress
<1>3. ASSUME reject_request(r)
      PROVE  RequestProgress(r)'
  <2>1. request'[r].status = "rejected" /\ request[r].status = "pending_approval"
        /\ item' = item
    BY <1>3, <1>a DEF reject_request, RequestType
  <2> QED
    BY <1>a, <2>1, OpenProgress
<1>4. ASSUME NEW b \in Boxes, assign_box(r, b)
      PROVE  RequestProgress(r)'
  <2>1. request'[r].status = "accepted" /\ item' = item
    BY <1>4, <1>a DEF assign_box, RequestType
  <2> QED
    BY <1>a, <2>1, OpenProgress
<1>5. ASSUME NEW photo, NEW scans, NEW broken, NEW d,
             issue_request(r, photo, scans, broken, d)
      PROVE  RequestProgress(r)'
  <2>1. request'[r].status = "issued"
    BY <1>5, <1>a DEF issue_request, RequestType
  <2>2. ASSUME NEW p \in Products
        PROVE  item'[r][p].accepted <= item'[r][p].requested
    <3>1. item'[r][p] = [item[r][p] EXCEPT
                           !.issued = item[r][p].accepted - broken[p],
                           !.needs_fix = IF d[p] = "remove" THEN 0 ELSE broken[p]]
      BY <1>5, <1>a DEF issue_request
    <3> QED
      BY <3>1, <1>a DEF Item
  <2> QED
    BY <2>1, <2>2, OpenProgress
<1> QED
  BY <1>1, <1>2, <1>3, <1>4, <1>5, Zenon DEF Reviewed, Issued

\* Both returns that take resolutions: finalize_return_status reads the status
\* off the rows it has just written, and what is not yet returned was issued.
LEMMA ReturnProgress ==
    ASSUME TypesAndRows, Shapes, Progress, NEW r \in Requests,
           NEW counts \in Counts(r), NEW outcome,
           \A p \in Products :
              ResolvedUnits(Resolved(p, counts, outcome)) <= Remaining(item[r][p]),
           \/ \E p \in Products : ResolvedUnits(Resolved(p, counts, outcome)) > 0
           \/ \A p \in Products : ResolvedUnits(Resolved(p, counts, outcome))
                                     = Remaining(item[r][p]),
           item' = [item EXCEPT ![r] = ItemsAfterReturn(r, counts, outcome)],
           request' = [request EXCEPT ![r].status =
                         StatusAfterReturn(ItemsAfterReturn(r, counts, outcome))]
    PROVE  RequestProgress(r)'
<1> DEFINE items == ItemsAfterReturn(r, counts, outcome)
           u(p) == ResolvedUnits(Resolved(p, counts, outcome))
<1>1. item'[r] = items /\ request'[r].status = StatusAfterReturn(items)
  BY RequestRows, TypesSplit DEF RequestType
<1>2. ASSUME NEW p \in Products
      PROVE  /\ u(p) \in Nat /\ u(p) <= Remaining(item[r][p])
             /\ items[p].issued = item[r][p].issued
             /\ items[p].accepted = item[r][p].accepted
             /\ Remaining(items[p]) = Remaining(item[r][p]) - u(p)
             /\ Remaining(item[r][p]) \in Int
  BY ResolvedItem
<1>3. ASSUME NEW p \in Products
      PROVE  /\ items[p].requested = item[r][p].requested
             /\ item[r][p].accepted <= item[r][p].requested
             /\ item[r][p].issued \in Nat
             /\ Remaining(item[r][p]) <= item[r][p].issued
  <2>1. item[r][p] \in Item(Nat)
    BY RequestRows
  <2>2. items[p].requested = item[r][p].requested
    BY <2>1 DEF ItemsAfterReturn, Item
  <2>3. item[r][p].issued \in Nat /\ Remaining(item[r][p]) <= item[r][p].issued
    BY <2>1 DEF Item, Remaining
  <2> QED
    BY <2>2, <2>3 DEF Progress, RequestProgress
<1> HIDE DEF items, u
<1>4. StatusAfterReturn(items) \in {"partially_returned", "returned", "closed_with_issue"}
  BY DEF StatusAfterReturn
<1>5. ASSUME NEW p \in Products
      PROVE  items[p].accepted <= items[p].requested
  BY <1>2, <1>3
<1>6. CASE StatusAfterReturn(items) = "partially_returned"
  <2>1. PICK p \in Products : Remaining(items[p]) # 0
    BY <1>6 DEF StatusAfterReturn
  <2>2. Remaining(items[p]) > 0
    BY <1>2, <2>1
  <2>3. ~ \A x \in Products : u(x) = Remaining(item[r][x])
    BY <1>2, <2>1
  <2>4. PICK x \in Products : u(x) > 0
    BY <2>3 DEF u
  <2>5. Remaining(items[x]) < items[x].issued
    BY <1>2, <1>3, <2>4
  <2> QED
    BY <1>1, <1>5, <1>6, <2>2, <2>5 DEF RequestProgress
<1>7. CASE StatusAfterReturn(items) # "partially_returned"
  <2>1. \A p \in Products : Remaining(items[p]) = 0
    BY <1>7 DEF StatusAfterReturn
  <2>2. (\E p \in Products : items[p].damaged > 0 \/ items[p].missing > 0)
           <=> StatusAfterReturn(items) = "closed_with_issue"
    BY <1>7 DEF StatusAfterReturn
  <2> QED
    BY <1>1, <1>4, <1>5, <1>7, <2>1, <2>2 DEF RequestProgress
<1> QED
  BY <1>6, <1>7

LEMMA ReturnItemsProgress ==
    ASSUME TypesAndRows, Shapes, Progress, NEW r \in Requests, NEW photo,
           NEW counts \in Counts(r), NEW outcome,
           return_items(r, photo, counts, outcome)
    PROVE  RequestProgress(r)'
BY ReturnProgress DEF return_items, ResolutionsValid

LEMMA DirectReturnProgress ==
    ASSUME TypesAndRows, Shapes, Progress, NEW r \in Requests, NEW photo,
           NEW counts \in Counts(r), NEW outcome,
           return_direct_loan(r, photo, counts, outcome)
    PROVE  RequestProgress(r)'
<1>1. /\ item' = [item EXCEPT ![r] = ItemsAfterReturn(r, counts, outcome)]
      /\ request' = [request EXCEPT ![r].status =
                        StatusAfterReturn(ItemsAfterReturn(r, counts, outcome))]
  BY DEF return_direct_loan
<1>2. ASSUME NEW p \in Products
      PROVE  /\ ResolvedUnits(Resolved(p, counts, outcome)) = Remaining(item[r][p])
             /\ ResolvedUnits(Resolved(p, counts, outcome)) <= Remaining(item[r][p])
  <2>1. ResolvedUnits(Resolved(p, counts, outcome)) = Remaining(item[r][p])
    BY DEF return_direct_loan, FullyResolved
  <2>2. Remaining(item[r][p]) \in Int
    BY ResolvedItem
  <2> QED
    BY <2>1, <2>2
<1> QED
  BY <1>1, <1>2, ReturnProgress

LEMMA ReturnToolProgress ==
    ASSUME TypesAndRows, Shapes, Progress, NEW r \in Requests, NEW photo,
           NEW problem, return_tool(r, photo, problem)
    PROVE  RequestProgress(r)'
<1>1. request'[r].status = "returned" /\ loan[r].status = "checked_out"
  BY TypesSplit DEF return_tool, RequestType, CheckedOut
<1>2. ASSUME NEW p \in Products
      PROVE  /\ item'[r][p].accepted <= item'[r][p].requested
             /\ Remaining(item'[r][p]) = 0
             /\ ~(item'[r][p].damaged > 0) /\ ~(item'[r][p].missing > 0)
  <2> DEFINE out == IF item[r][p].issued > item[r][p].returned
                    THEN item[r][p].issued - item[r][p].returned ELSE 0
  <2>1. item'[r][p] = [item[r][p] EXCEPT !.returned = @ + out]
    BY RequestRows DEF return_tool
  <2>2. item[r][p] \in Item(Nat)
    BY RequestRows
  <2>3. item[r][p].returned = 0 /\ item[r][p].damaged = 0 /\ item[r][p].missing = 0
    BY <1>1 DEF Shapes, RequestShape
  <2>4. out = item[r][p].issued
    BY <2>2, <2>3 DEF Item
  <2>5. item[r][p].accepted <= item[r][p].requested
    BY DEF Progress, RequestProgress
  <2> HIDE DEF out
  <2> QED
    BY <2>1, <2>2, <2>3, <2>4, <2>5 DEF Item, Remaining
<1> QED
  BY <1>1, <1>2 DEF RequestProgress

LEMMA HandoutProgress ==
    ASSUME TypesAndRows, NEW r \in Requests, Created(r)
    PROVE  RequestProgress(r)'
<1> PICK qrs \in SUBSET QRs, manual \in Quantities, photo \in IssuePhotos :
       \E source, first, container :
          CreateIssuedLoan(r, photo, source, first, qrs, container, manual)
  BY DEF Created
<1>0. PICK source, first, container :
         CreateIssuedLoan(r, photo, source, first, qrs, container, manual)
  OBVIOUS
<1> HandoutRows(r, qrs, manual)
  BY <1>0, CreatedRows
<1>1. request'[r].status = "issued"
  BY DEF HandoutRows
<1>2. ASSUME NEW p \in Products
      PROVE  item'[r][p].accepted <= item'[r][p].requested
  <2>1. HandedUnits(qrs, manual, p) \in Nat
    BY HandedUnitsNat
  <2>2. /\ item'[r][p].requested = HandedUnits(qrs, manual, p)
        /\ item'[r][p].accepted = HandedUnits(qrs, manual, p)
    BY DEF HandoutRows
  <2> QED
    BY <2>1, <2>2
<1> QED
  BY <1>1, <1>2, OpenProgress

LEMMA StepProgress ==
    ASSUME TypesAndRows, Shapes, Progress, [Next]_vars
    PROVE  Progress'
<1>1. ASSUME NEW r \in Requests, Reviewed(r) \/ Issued(r)
      PROVE  Progress'
  BY <1>1, ReviewedActsOnOne, ReviewedProgress, ProgressStep
<1>2. ASSUME NEW r \in Requests, Returned(r)
      PROVE  Progress'
  <2>1. RequestProgress(r)'
    BY <1>2, ReturnItemsProgress DEF Returned
  <2> QED
    BY <1>2, <2>1, ReviewedActsOnOne, ProgressStep
<1>3. ASSUME NEW r \in Requests, Created(r)
      PROVE  Progress'
  BY <1>3, CreatedActsOnOne, HandoutProgress, ProgressStep
<1>4. ASSUME NEW r \in Requests, ToolReturned(r) \/ LoanReturned(r)
      PROVE  Progress'
  <2>1. RequestProgress(r)'
    BY <1>4, ReturnToolProgress, DirectReturnProgress DEF ToolReturned, LoanReturned
  <2> QED
    BY <1>4, <2>1, LoanClosesOnce, ProgressStep
<1>5. ASSUME UNCHANGED <<request, item, link, loan>>
      PROVE  Progress'
  BY <1>5 DEF Progress, RequestProgress
<1> QED
  BY <1>1, <1>2, <1>3, <1>4, <1>5, StepCases, CorrectionsLeaveRequests, Zenon

LEMMA InitProgress == Init => Progress
<1> SUFFICES ASSUME Init, NEW r \in Requests PROVE RequestProgress(r)
  BY DEF Progress
<1>1. request[r].status = "absent" /\ \A p \in Products : item[r][p] = NoItem
  BY DEF Init, NoRequest
<1> QED
  BY <1>1 DEF RequestProgress, NoItem

\* The status of a request bounds how far its items, its box and its codes have
\* come, in every flow (request_workflow.py, handover_workflow.py,
\* return_workflow.py).
THEOREM ProgressHolds == Spec => []Progress
<1>1. TypesAndRows /\ (Shapes /\ Sums) /\ Progress /\ [Next]_vars => Progress'
  BY StepProgress
<1> QED
  BY <1>1, InitProgress, TypesHold, CustodyHolds, PTL DEF Spec

LEMMA ItemsMatch == Shapes /\ Progress => ItemsMatchStatus
<1>1. ASSUME Shapes, Progress, NEW r \in Requests
      PROVE  LET st == request[r].status
                 it == item[r]
             IN  /\ \A p \in Products :
                       /\ it[p].issued <= it[p].accepted
                       /\ it[p].accepted <= it[p].requested
                       /\ Remaining(it[p]) >= 0
                       /\ st \in {"absent", "pending_approval", "rejected"} =>
                             it[p].accepted = 0
                       /\ st = "accepted" => it[p].issued = 0
                       /\ st \in {"returned", "closed_with_issue"} =>
                             Remaining(it[p]) = 0
                 /\ st = "partially_returned" =>
                       /\ \E p \in Products : Remaining(it[p]) > 0
                       /\ \E p \in Products : Remaining(it[p]) < it[p].issued
                 /\ st \in {"returned", "closed_with_issue"} =>
                       ((\E p \in Products : it[p].damaged > 0 \/ it[p].missing > 0)
                           <=> st = "closed_with_issue")
  <2>1. RequestShape(r) /\ RequestProgress(r)
    BY <1>1 DEF Shapes, Progress
  <2> QED
    BY <2>1 DEF RequestShape, RequestProgress
<1> QED
  BY <1>1 DEF ItemsMatchStatus

\* The item rows agree with the state of their request: nothing is issued
\* beyond what was accepted nor resolved beyond what was issued, a closed
\* request has nothing outstanding, a partly returned one has, and the closing
\* status says whether units came back damaged or not at all.
THEOREM ItemsFollowStatus == Spec => []ItemsMatchStatus
BY ItemsMatch, CustodyHolds, ProgressHolds, PTL

-----------------------------------------------------------------------------
(* Counting assets. *)

LEMMA AssetSets ==
    ASSUME NEW S, NEW p
    PROVE  /\ IsFiniteSet(S \cap AssetsOf(p))
           /\ Cardinality(S \cap AssetsOf(p)) \in Nat
<1>1. S \cap AssetsOf(p) \in SUBSET Assets
  BY DEF AssetsOf
<1>2. IsFiniteSet(S \cap AssetsOf(p))
  BY <1>1, LendingAssumption, FS_Subset DEF LendingAssumption
<1> QED
  BY <1>2, FS_CardinalityType

LEMMA LinkedCard ==
    ASSUME NEW r, NEW p
    PROVE  IsFiniteSet(Linked(r, p)) /\ Cardinality(Linked(r, p)) \in Nat
<1>1. Linked(r, p) = {a \in Assets : link[r][a] = "issued"} \cap AssetsOf(p)
  BY DEF Linked, AssetsOf
<1> QED
  BY <1>1, AssetSets

LEMMA CarriedCard ==
    ASSUME NEW r, NEW p
    PROVE  IsFiniteSet(Carried(r, p)) /\ Cardinality(Carried(r, p)) \in Nat
BY AssetSets DEF Carried

LEMMA CardinalityLess ==
    ASSUME NEW S, IsFiniteSet(S), NEW T \in SUBSET S
    PROVE  Cardinality(S \ T) = Cardinality(S) - Cardinality(T)
<1>1. /\ IsFiniteSet(T) /\ IsFiniteSet(S \ T)
      /\ S = (S \ T) \cup T /\ (S \ T) \cap T = {}
  <2>1. S \ T \in SUBSET S
    OBVIOUS
  <2> QED
    BY <2>1, FS_Subset
<1>2. Cardinality(S) = Cardinality(S \ T) + Cardinality(T) - Cardinality({})
  BY <1>1, FS_Union
<1>3. /\ Cardinality({}) = 0 /\ Cardinality(T) \in Nat
      /\ Cardinality(S \ T) \in Nat /\ Cardinality(S) \in Nat
  BY <1>1, FS_EmptySet, FS_CardinalityType
<1> QED
  BY <1>2, <1>3

\* A set no two members of which differ has at most one.
LEMMA AtMostOne ==
    ASSUME NEW S, \A x, y \in S : x = y
    PROVE  Cardinality(S) <= 1
<1>1. CASE S = {}
  BY <1>1, FS_EmptySet
<1>2. CASE S # {}
  <2>1. PICK x \in S : S = {x}
    BY <1>2
  <2> QED
    BY <2>1, FS_Singleton
<1> QED
  BY <1>1, <1>2

\* What a return names, and that an individually tracked item is resolved by
\* exactly the assets named of it.
Named(outcome) == {a \in Assets : outcome[a] \in Outcomes}

LEMMA NamedUnits ==
    ASSUME NEW p, tracking[p] = "individual", NEW counts, NEW outcome
    PROVE  ResolvedUnits(Resolved(p, counts, outcome))
              = Cardinality(Named(outcome) \cap AssetsOf(p))
<1> DEFINE W(o) == {a \in Assets : outcome[a] = o} \cap AssetsOf(p)
<1>1. \A o \in Outcomes : {a \in AssetsOf(p) : outcome[a] = o} = W(o)
  BY DEF AssetsOf
<1>2. ResolvedUnits(Resolved(p, counts, outcome))
         = Cardinality(W("returned")) + Cardinality(W("damaged"))
              + Cardinality(W("missing"))
  BY <1>1 DEF ResolvedUnits, Resolved, Outcomes
<1>3. /\ Named(outcome) \cap AssetsOf(p)
            = (W("returned") \cup W("damaged")) \cup W("missing")
      /\ W("returned") \cap W("damaged") = {}
      /\ (W("returned") \cup W("damaged")) \cap W("missing") = {}
  BY DEF Named, Outcomes
<1>4. \A o \in Outcomes : IsFiniteSet(W(o)) /\ Cardinality(W(o)) \in Nat
  BY AssetSets
<1> HIDE DEF W
<1>5. /\ IsFiniteSet(W("returned")) /\ Cardinality(W("returned")) \in Nat
      /\ IsFiniteSet(W("damaged")) /\ Cardinality(W("damaged")) \in Nat
      /\ IsFiniteSet(W("missing")) /\ Cardinality(W("missing")) \in Nat
  BY <1>4 DEF Outcomes
<1>6. Cardinality({}) = 0
  BY FS_EmptySet
<1>7. /\ IsFiniteSet(W("returned") \cup W("damaged"))
      /\ Cardinality(W("returned") \cup W("damaged"))
            = Cardinality(W("returned")) + Cardinality(W("damaged"))
  BY <1>3, <1>5, <1>6, FS_Union
<1>8. Cardinality((W("returned") \cup W("damaged")) \cup W("missing"))
         = Cardinality(W("returned") \cup W("damaged")) + Cardinality(W("missing"))
  <2> DEFINE two == W("returned") \cup W("damaged")
  <2>1. IsFiniteSet(two) /\ Cardinality(two) \in Nat /\ two \cap W("missing") = {}
    BY <1>3, <1>7, FS_CardinalityType
  <2> HIDE DEF two
  <2>2. Cardinality(two \cup W("missing"))
           = Cardinality(two) + Cardinality(W("missing")) - Cardinality({})
    BY <1>5, <2>1, FS_Union
  <2>3. Cardinality(two \cup W("missing")) = Cardinality(two) + Cardinality(W("missing"))
    BY <1>5, <1>6, <2>1, <2>2
  <2> QED
    BY <2>3 DEF two
<1> QED
  BY <1>2, <1>3, <1>5, <1>7, <1>8

-----------------------------------------------------------------------------
(* Assets change hands in three ways: a request takes available ones, gives *)
(* back some of what it holds, or nobody's assets are set aside.            *)

OthersHold(r) ==
    \A x \in Requests : x # r => \A a \in Assets : Out(x, a)' <=> Out(x, a)

Takes(r, S) ==
    /\ \A a \in Assets : ~Out(r, a)
    /\ \A a \in Assets : Out(r, a)' <=> a \in S
    /\ \A a \in Assets : asset'[a] = IF a \in S THEN "issued" ELSE asset[a]
    /\ \A a \in Assets : a \in S => asset[a] = "available"
    /\ OthersHold(r) /\ tracking' = tracking

GivesBack(r, S) ==
    /\ \A a \in Assets : a \in S => Out(r, a)
    /\ \A a \in Assets : Out(r, a)' <=> Out(r, a) /\ a \notin S
    /\ \A a \in Assets :
          IF a \in S THEN asset'[a] \in {"available", "damaged", "lost"}
                     ELSE asset'[a] = asset[a]
    /\ OthersHold(r) /\ tracking' = tracking

SetsAside ==
    /\ \A r \in Requests, a \in Assets : Out(r, a)' <=> Out(r, a)
    /\ \A a \in Assets : asset'[a] = "issued" <=> asset[a] = "issued"
    /\ \A a \in Assets : asset'[a] # "absent" =>
          \/ tracking'[AssetProduct[a]] = "individual"
          \/ asset[a] # "absent" /\ tracking' = tracking

Custodies == Serialized /\ OneHolder /\ HeldIsIssued /\ IssuedIsHeld

LEMMA TakesStep ==
    ASSUME Custodies, NEW r \in Requests, NEW S, Takes(r, S)
    PROVE  Custodies'
<1> USE DEF Custodies, Takes, OthersHold
<1>1. Serialized'
  BY DEF Serialized
<1>2. OneHolder'
  BY DEF OneHolder, HeldIsIssued
<1>3. HeldIsIssued'
  BY DEF HeldIsIssued
<1>4. IssuedIsHeld'
  BY DEF IssuedIsHeld
<1> QED
  BY <1>1, <1>2, <1>3, <1>4

LEMMA GivesBackStep ==
    ASSUME Custodies, NEW r \in Requests, NEW S, GivesBack(r, S)
    PROVE  Custodies'
<1> USE DEF Custodies, GivesBack, OthersHold
<1>1. Serialized'
  BY DEF Serialized, HeldIsIssued
<1>2. OneHolder'
  BY DEF OneHolder
<1>3. HeldIsIssued'
  BY DEF HeldIsIssued, OneHolder
<1>4. IssuedIsHeld'
  BY DEF IssuedIsHeld
<1> QED
  BY <1>1, <1>2, <1>3, <1>4

LEMMA SetsAsideStep ==
    ASSUME Custodies, SetsAside
    PROVE  Custodies'
<1> USE DEF Custodies, SetsAside
<1>1. Serialized'
  BY DEF Serialized
<1>2. OneHolder'
  BY DEF OneHolder
<1>3. HeldIsIssued'
  BY DEF HeldIsIssued
<1>4. IssuedIsHeld'
  BY DEF IssuedIsHeld
<1> QED
  BY <1>1, <1>2, <1>3, <1>4

\* The links of the other requests stay, too.
OtherLinks(r) == \A x \in Requests : x # r => link'[x] = link[x]

LEMMA AssetRowsStep ==
    ASSUME \A x \in Requests : AssetRows(x), NEW r \in Requests, AssetRows(r)',
           Others(r), OtherLinks(r)
    PROVE  (\A x \in Requests : AssetRows(x)) ' /\ OthersHold(r)
<1>1. ASSUME NEW x \in Requests, x # r
      PROVE  AssetRows(x)' /\ \A a \in Assets : Out(x, a)' <=> Out(x, a)
  <2>1. /\ request'[x] = request[x] /\ item'[x] = item[x]
        /\ loan'[x] = loan[x] /\ link'[x] = link[x] /\ AssetRows(x)
    BY <1>1 DEF Others, OtherLinks
  <2> QED
    BY <2>1 DEF AssetRows, Linked, Carried, Out
<1> QED
  BY <1>1 DEF OthersHold

-----------------------------------------------------------------------------
(* The steps of the reviewed requests. *)

\* A request that is not out holds no asset.
LEMMA NotOut ==
    ASSUME Shapes, AssetInv, NEW r \in Requests,
           request[r].status \notin Active
    PROVE  /\ \A a \in Assets : ~Out(r, a) /\ link[r][a] # "issued"
           /\ \A p \in Products : Linked(r, p) = {}
<1>1. \A a \in Assets : link[r][a] # "issued"
  BY DEF AssetInv, AssetRows
<1>2. loan[r].status # "checked_out"
  BY DEF Shapes, RequestShape, Active
<1> QED
  BY <1>1, <1>2 DEF Out, Linked, AssetsOf

\* A quantity-tracked product has no asset out.
LEMMA LinkedIsIndividual ==
    ASSUME AssetInv, NEW r \in Requests, NEW p \in Products,
           tracking[p] # "individual"
    PROVE  Linked(r, p) = {}
BY DEF AssetInv, HeldIsIssued, Serialized, Linked, AssetsOf, Out

LEMMA ReviewedAssets ==
    ASSUME TypesAndRows, Shapes, Shapes', AssetInv, NEW r \in Requests, Reviewed(r)
    PROVE  AssetInv'
<1>1. /\ link' = link /\ asset' = asset /\ loan' = loan /\ tracking' = tracking
      /\ request[r].status \in {"absent", "pending_approval", "accepted"}
  BY Zenon DEF Reviewed, submit_request, accept_request, reject_request, assign_box
<1>2. Others(r)
  BY ReviewedActsOnOne
<1>3. /\ \A a \in Assets : link[r][a] # "issued"
      /\ loan[r].status # "checked_out"
  BY <1>1, NotOut DEF Active, Shapes, RequestShape
<1>4. \A p \in Products : Linked(r, p)' = {} /\ Cardinality({}) = 0
  BY <1>1, <1>3, FS_EmptySet DEF Linked, AssetsOf
<1>5. \A p \in Products : Remaining(item'[r][p]) >= 0
  BY DEF Shapes, RequestShape
<1>6. AssetRows(r)'
  BY <1>1, <1>3, <1>4, <1>5 DEF AssetRows
<1>7. /\ \A x \in Requests : AssetRows(x)'
      /\ OthersHold(r)
  BY <1>1, <1>2, <1>6, AssetRowsStep DEF OtherLinks, AssetInv
<1>8. SetsAside
  BY <1>1, Zenon DEF SetsAside, Out
<1> QED
  BY <1>7, <1>8, SetsAsideStep DEF AssetInv, Custodies

\* A handover takes the scanned assets, which are available ones.
LEMMA IssueAssets ==
    ASSUME TypesAndRows, Shapes, Shapes', AssetInv, NEW r \in Requests, Issued(r)
    PROVE  AssetInv'
<1> PICK photo \in IssuePhotos, scans \in SUBSET Assets, broken \in Quantities :
       \E d \in Dispositions(broken) : issue_request(r, photo, scans, broken, d)
  BY DEF Issued
<1> PICK d \in Dispositions(broken) : issue_request(r, photo, scans, broken, d)
  OBVIOUS
<1>1. /\ request[r].status = "accepted" /\ loan' = loan /\ tracking' = tracking
      /\ asset' = [a \in Assets |-> IF a \in scans THEN "issued" ELSE asset[a]]
      /\ link' = [link EXCEPT ![r] =
                    [a \in Assets |-> IF a \in scans THEN "issued" ELSE link[r][a]]]
      /\ request' = [request EXCEPT ![r].status = "issued",
                                    ![r].issue_evidence = photo]
      /\ ScansMatchItems(r, scans) /\ BrokenRejectsValid(r, broken)
  BY DEF issue_request
<1>2. request'[r].status = "issued" /\ Others(r)
  BY <1>1, TypesSplit, ReviewedActsOnOne DEF RequestType
<1>3. /\ \A a \in Assets : ~Out(r, a) /\ link[r][a] # "issued"
      /\ loan[r].status = "none"
  BY <1>1, NotOut, RequestRows DEF Active, Shapes, RequestShape
<1>4. LinkType(link)
  BY TypesSplit
<1>5. /\ \A a \in Assets : link'[r][a] = IF a \in scans THEN "issued" ELSE link[r][a]
      /\ OtherLinks(r)
  BY <1>1, <1>4 DEF LinkType, OtherLinks
<1>6. ASSUME NEW p \in Products
      PROVE  Cardinality(Linked(r, p)') <= Remaining(item'[r][p])
  <2>1. Linked(r, p)' = scans \cap AssetsOf(p)
    BY <1>3, <1>5 DEF Linked, AssetsOf
  <2>2. /\ item[r][p] \in Item(Nat) /\ tracking[p] \in TrackingModes
        /\ broken[p] \in Nat
        /\ item'[r][p] = [item[r][p] EXCEPT
                            !.issued = item[r][p].accepted - broken[p],
                            !.needs_fix = IF d[p] = "remove" THEN 0 ELSE broken[p]]
    BY RequestRows, QuantityType DEF issue_request
  <2>3. CASE tracking[p] = "individual"
    <3>1. Cardinality(scans \cap AssetsOf(p)) = item[r][p].accepted
      BY <1>1, <2>3 DEF ScansMatchItems
    <3>2. broken[p] = 0
      BY <1>1, <2>2, <2>3 DEF BrokenRejectsValid
    <3>3. item[r][p].returned = 0 /\ item[r][p].damaged = 0 /\ item[r][p].missing = 0
      <4>1. item[r][p].issued = 0 /\ Remaining(item[r][p]) >= 0
        BY <1>1 DEF Shapes, RequestShape
      <4> QED
        BY <2>2, <4>1, Unresolved
    <3>4. Remaining(item'[r][p]) = item[r][p].accepted
      BY <2>2, <3>2, <3>3 DEF Item, Remaining
    <3>5. item[r][p].accepted \in Nat
      BY <2>2 DEF Item
    <3> QED
      BY <2>1, <3>1, <3>4, <3>5
  <2>4. CASE tracking[p] # "individual"
    <3>1. scans \cap AssetsOf(p) = {}
      BY <1>1, <2>4 DEF ScansMatchItems, AssetsOf
    <3>2. Remaining(item'[r][p]) >= 0
      BY DEF Shapes, RequestShape
    <3> QED
      BY <2>1, <3>1, <3>2, FS_EmptySet
  <2> QED
    BY <2>3, <2>4
<1>7. AssetRows(r)'
  BY <1>1, <1>2, <1>3, <1>6 DEF AssetRows, Active
<1>8. /\ \A x \in Requests : AssetRows(x)'
      /\ OthersHold(r)
  BY <1>2, <1>5, <1>7, AssetRowsStep DEF AssetInv
<1>9. Takes(r, scans)
  BY <1>1, <1>3, <1>5, <1>8 DEF Takes, Out, ScansMatchItems
<1> QED
  BY <1>8, <1>9, TakesStep DEF AssetInv, Custodies

\* A return gives back the assets it names; the one that resolves the last
\* unit has named every asset that was still out.
LEMMA ReturnAssets ==
    ASSUME TypesAndRows, Shapes, Shapes', AssetInv, NEW r \in Requests, Returned(r)
    PROVE  AssetInv'
<1> PICK photo \in ReturnPhotos, counts \in Counts(r), outcome \in AssetOutcomes(r) :
       return_items(r, photo, counts, outcome)
  BY DEF Returned
<1> DEFINE items == ItemsAfterReturn(r, counts, outcome)
           S == Named(outcome)
<1>1. /\ request[r].status \in Active /\ loan' = loan /\ tracking' = tracking
      /\ request[r].assigned_box # None
      /\ \A a \in Assets : outcome[a] \in Outcomes => link[r][a] = "issued"
      /\ item' = [item EXCEPT ![r] = items]
      /\ asset' = AssetsAfterReturn(outcome)
      /\ link' = [link EXCEPT ![r] =
                    [a \in Assets |-> IF outcome[a] \in Outcomes
                                      THEN LinkOutcome[outcome[a]]
                                      ELSE link[r][a]]]
      /\ request' = [request EXCEPT ![r].status = StatusAfterReturn(items)]
  BY DEF return_items
<1>2. /\ item'[r] = items /\ request'[r].status = StatusAfterReturn(items)
      /\ Others(r) /\ loan[r].status = "none"
  BY <1>1, TypesSplit, RequestRows, ReviewedActsOnOne
     DEF RequestType, Shapes, RequestShape
<1>3. LinkType(link)
  BY TypesSplit
<1>4. /\ \A a \in Assets : link'[r][a] = "issued" <=> link[r][a] = "issued" /\ a \notin S
      /\ \A a \in S : link[r][a] = "issued" /\ a \in Assets
      /\ OtherLinks(r)
  BY <1>1, <1>3 DEF LinkType, OtherLinks, Named, Outcomes, LinkOutcome
<1>5. ASSUME NEW p \in Products
      PROVE  /\ Cardinality(Linked(r, p)') <= Remaining(items[p])
             /\ Linked(r, p)' # {} => Remaining(items[p]) # 0
  <2> DEFINE u == ResolvedUnits(Resolved(p, counts, outcome))
             T == S \cap AssetsOf(p)
  <2>1. Linked(r, p)' = Linked(r, p) \ T /\ T \in SUBSET Linked(r, p)
    BY <1>4 DEF Linked, AssetsOf
  <2>2. /\ u \in Nat /\ Remaining(items[p]) = Remaining(item[r][p]) - u
        /\ Remaining(item[r][p]) \in Int
    BY ResolvedItem
  <2>3. Remaining(items[p]) >= 0
    BY <1>2 DEF Shapes, RequestShape
  <2>4. /\ IsFiniteSet(Linked(r, p)) /\ Cardinality(Linked(r, p)) \in Nat
        /\ Cardinality(Linked(r, p)) <= Remaining(item[r][p])
    BY LinkedCard DEF AssetInv, AssetRows
  <2>5. CASE tracking[p] = "individual"
    <3>1. u = Cardinality(T)
      BY <2>5, NamedUnits
    <3>2. Cardinality(Linked(r, p) \ T) = Cardinality(Linked(r, p)) - Cardinality(T)
      BY <2>1, <2>4, CardinalityLess
    <3>3. IsFiniteSet(Linked(r, p) \ T) /\ Cardinality(Linked(r, p) \ T) \in Nat
      <4>1. Linked(r, p) \ T \in SUBSET Linked(r, p)
        OBVIOUS
      <4> QED
        BY <2>4, <4>1, FS_Subset, FS_CardinalityType
    <3>4. Linked(r, p) \ T # {} => Cardinality(Linked(r, p) \ T) # 0
      BY <3>3, FS_EmptySet
    <3> HIDE DEF u, T
    <3> QED
      BY <2>1, <2>2, <2>4, <3>1, <3>2, <3>3, <3>4
  <2>6. CASE tracking[p] # "individual"
    <3>1. Linked(r, p)' = {}
      BY <2>1, <2>6, LinkedIsIndividual
    <3> QED
      BY <2>2, <2>3, <3>1, FS_EmptySet
  <2> QED
    BY <2>5, <2>6
<1> HIDE DEF items
<1>6. ASSUME NEW a \in Assets, link'[r][a] = "issued"
      PROVE  request'[r].status \in Active
  <2>1. AssetProduct[a] \in Products /\ a \in Linked(r, AssetProduct[a])'
    BY <1>6, LendingAssumption DEF LendingAssumption, Linked, AssetsOf
  <2>2. Remaining(items[AssetProduct[a]]) # 0
    BY <1>5, <2>1
  <2> QED
    BY <1>2, <2>1, <2>2 DEF StatusAfterReturn, Active
<1>7. AssetRows(r)'
  BY <1>1, <1>2, <1>5, <1>6 DEF AssetRows
<1>8. /\ \A x \in Requests : AssetRows(x)'
      /\ OthersHold(r)
  BY <1>2, <1>4, <1>7, AssetRowsStep DEF AssetInv
<1>9. \A a \in Assets :
         IF a \in S THEN asset'[a] \in {"available", "damaged", "lost"}
                    ELSE asset'[a] = asset[a]
  BY <1>1 DEF AssetsAfterReturn, AssetOutcome, Outcomes, Named
<1>10. GivesBack(r, S)
  <2> HIDE DEF S
  <2> QED
    BY <1>1, <1>2, <1>4, <1>8, <1>9 DEF GivesBack, Out
<1> QED
  BY <1>8, <1>10, GivesBackStep DEF AssetInv, Custodies

-----------------------------------------------------------------------------
(* The steps of the handouts. *)

\* A handout takes the assets it names: scanned ones are available, and of the
\* scanned box only the available ones go along.
LEMMA CreatedAssets ==
    ASSUME TypesAndRows, Shapes, Shapes', AssetInv, NEW r \in Requests, Created(r)
    PROVE  AssetInv'
<1> PICK photo \in IssuePhotos, qrs \in SUBSET QRs, manual \in Quantities :
       \E source, first, container :
          CreateIssuedLoan(r, photo, source, first, qrs, container, manual)
  BY DEF Created
<1> PICK source, first, container :
       CreateIssuedLoan(r, photo, source, first, qrs, container, manual)
  OBVIOUS
<1> DEFINE S == HandedAssets(qrs)
<1>1. /\ link' = link /\ tracking' = tracking
      /\ asset' = [a \in Assets |-> IF a \in S THEN "issued" ELSE asset[a]]
      /\ \A a \in S : asset[a] = "available"
  BY DEF CreateIssuedLoan, HandoutValid, HandedAssets
<1>2. HandoutRows(r, qrs, manual)
  BY CreatedRows
<1>3. /\ \A a \in Assets : ~Out(r, a) /\ link[r][a] # "issued"
      /\ \A p \in Products : Linked(r, p) = {}
  BY <1>2, NotOut DEF HandoutRows, Active
<1>4. \A a \in Assets : Out(r, a)' <=> a \in S
  BY <1>1, <1>2, <1>3 DEF HandoutRows, Out
<1>5. ASSUME NEW p \in Products
      PROVE  /\ Cardinality(Linked(r, p)') <= Remaining(item'[r][p])
             /\ Cardinality(Carried(r, p)') <= item'[r][p].issued
  <2>1. Linked(r, p)' = {}
    BY <1>1, <1>3 DEF Linked, AssetsOf
  <2>2. Remaining(item'[r][p]) >= 0
    BY DEF Shapes, RequestShape
  <2>3. /\ Carried(r, p)' = S \cap AssetsOf(p)
        /\ item'[r][p].issued = HandedUnits(qrs, manual, p)
    BY <1>2 DEF HandoutRows, Carried, AssetsOf
  <2>4. Cardinality(S \cap AssetsOf(p)) \in Nat /\ manual[p] \in Nat
    BY AssetSets, QuantityType
  <2>5. Cardinality(S \cap AssetsOf(p)) <= HandedUnits(qrs, manual, p)
    BY <2>4 DEF HandedUnits, ScannedUnits
  <2> QED
    BY <2>1, <2>2, <2>3, <2>5, FS_EmptySet
<1>6. AssetRows(r)'
  BY <1>1, <1>3, <1>5 DEF AssetRows
<1>7. /\ \A x \in Requests : AssetRows(x)'
      /\ OthersHold(r)
  BY <1>1, <1>2, <1>6, AssetRowsStep DEF OtherLinks, HandoutRows, AssetInv
<1>8. Takes(r, S)
  <2> HIDE DEF S
  <2> QED
    BY <1>1, <1>3, <1>4, <1>7 DEF Takes
<1> QED
  BY <1>7, <1>8, TakesStep DEF AssetInv, Custodies

\* Both returns of a loan close it and leave its request without a link.
LEMMA LoanClosedRows ==
    ASSUME TypesAndRows, Shapes, Shapes', AssetInv, NEW r \in Requests,
           ToolReturned(r) \/ LoanReturned(r)
    PROVE  /\ \A x \in Requests : AssetRows(x)'
           /\ OthersHold(r)
           /\ \A a \in Assets : ~Out(r, a)'
           /\ \A a \in Assets : Out(r, a) <=> a \in loan[r].asset_ids
<1>1. /\ loan[r].status = "checked_out" /\ loan'[r].status = "returned"
      /\ link' = link /\ Others(r)
  BY LoanClosesOnce
<1>2. \A a \in Assets : link[r][a] # "issued"
  BY <1>1 DEF AssetInv, AssetRows
<1>3. \A p \in Products : Linked(r, p)' = {} /\ Remaining(item'[r][p]) >= 0
  BY <1>1, <1>2 DEF Linked, AssetsOf, Shapes, RequestShape
<1>4. AssetRows(r)'
  BY <1>1, <1>2, <1>3, FS_EmptySet DEF AssetRows
<1>5. /\ \A x \in Requests : AssetRows(x)'
      /\ OthersHold(r)
  BY <1>1, <1>4, AssetRowsStep DEF OtherLinks, AssetInv
<1> QED
  BY <1>1, <1>2, <1>5 DEF Out

LEMMA ToolReturnAssets ==
    ASSUME TypesAndRows, Shapes, Shapes', AssetInv, NEW r \in Requests,
           ToolReturned(r)
    PROVE  AssetInv'
<1>1. /\ tracking' = tracking
      /\ asset' = [a \in Assets |-> IF a \in loan[r].asset_ids THEN "available"
                                    ELSE asset[a]]
  BY DEF ToolReturned, return_tool
<1>2. GivesBack(r, loan[r].asset_ids)
  BY <1>1, LoanClosedRows DEF GivesBack
<1> QED
  BY <1>2, LoanClosedRows, GivesBackStep DEF AssetInv, Custodies

\* The full resolution of a loan names every asset it carries: of each
\* product it names as many as the loan has units of it, and only its own.
LEMMA LoanReturnAssets ==
    ASSUME TypesAndRows, Shapes, Shapes', AssetInv, NEW r \in Requests,
           LoanReturned(r)
    PROVE  AssetInv'
<1> PICK photo \in ReturnPhotos, counts \in Counts(r), outcome \in AssetOutcomes(r) :
       return_direct_loan(r, photo, counts, outcome)
  BY DEF LoanReturned
<1> DEFINE S == Named(outcome)
<1>1. /\ tracking' = tracking /\ asset' = AssetsAfterReturn(outcome)
      /\ loan[r].status = "checked_out"
      /\ FullyResolved(r, counts, outcome)
      /\ \A a \in Assets : outcome[a] \in Outcomes => a \in loan[r].asset_ids
  BY DEF return_direct_loan, CheckedOut
<1>2. S \subseteq loan[r].asset_ids
  BY <1>1 DEF Named
<1>3. \A a \in Assets : Out(r, a) <=> a \in loan[r].asset_ids
  BY LoanClosedRows
<1>4. ASSUME NEW a \in Assets, a \in loan[r].asset_ids
      PROVE  a \in S
  <2> DEFINE p == AssetProduct[a]
  <2>1. p \in Products /\ a \in Carried(r, p)
    BY <1>4, LendingAssumption DEF LendingAssumption, Carried, AssetsOf
  <2>2. tracking[p] = "individual"
    BY <1>3, <1>4 DEF AssetInv, HeldIsIssued, Serialized
  <2> HIDE DEF p
  <2>3. ResolvedUnits(Resolved(p, counts, outcome)) = Cardinality(S \cap AssetsOf(p))
    BY <2>2, NamedUnits
  <2>4. ResolvedUnits(Resolved(p, counts, outcome)) = Remaining(item[r][p])
    BY <1>1, <2>1 DEF FullyResolved
  <2>5. Remaining(item[r][p]) = item[r][p].issued /\ item[r][p].issued \in Nat
    <3>1. item[r][p] \in Item(Nat)
      BY <2>1, RequestRows
    <3>2. /\ item[r][p].returned = 0 /\ item[r][p].damaged = 0
          /\ item[r][p].missing = 0
      BY <1>1, <2>1 DEF Shapes, RequestShape
    <3>3. item[r][p].issued \in Nat
      BY <3>1 DEF Item
    <3> QED
      BY <3>2, <3>3, NothingResolved
  <2>6. /\ Cardinality(Carried(r, p)) <= item[r][p].issued
        /\ IsFiniteSet(Carried(r, p)) /\ Cardinality(Carried(r, p)) \in Nat
    BY <1>1, <2>1, CarriedCard DEF AssetInv, AssetRows
  <2>7. S \cap AssetsOf(p) \in SUBSET Carried(r, p)
    BY <1>2 DEF Carried
  <2>8. Cardinality(S \cap AssetsOf(p)) <= Cardinality(Carried(r, p))
    BY <2>6, <2>7, FS_Subset
  <2>9. Cardinality(S \cap AssetsOf(p)) = Cardinality(Carried(r, p))
    <3> HIDE DEF S
    <3> QED
      BY <2>3, <2>4, <2>5, <2>6, <2>8
  <2>10. S \cap AssetsOf(p) = Carried(r, p)
    BY <2>6, <2>7, <2>9, FS_Subset
  <2> QED
    BY <2>1, <2>10
<1>5. \A a \in Assets :
         IF a \in S THEN asset'[a] \in {"available", "damaged", "lost"}
                    ELSE asset'[a] = asset[a]
  BY <1>1 DEF AssetsAfterReturn, AssetOutcome, Outcomes, Named
<1> HIDE DEF S
<1>6. GivesBack(r, S)
  BY <1>1, <1>2, <1>3, <1>4, <1>5, LoanClosedRows DEF GivesBack
<1> QED
  BY <1>6, LoanClosedRows, GivesBackStep DEF AssetInv, Custodies

-----------------------------------------------------------------------------
(* Corrections, and all steps together. *)

LEMMA SetsAsideAssets ==
    ASSUME AssetInv, UNCHANGED <<request, item, link, loan>>, SetsAside
    PROVE  AssetInv'
<1>1. \A r \in Requests : AssetRows(r)'
  BY DEF AssetInv, AssetRows, Linked, Carried
<1> QED
  BY <1>1, SetsAsideStep DEF AssetInv, Custodies

\* A triage moves assets that are on the shelf.
LEMMA TriageAssets ==
    ASSUME AssetInv, NEW r \in Requests, Triaged(r)
    PROVE  AssetInv'
<1> PICK outcome \in ReportOutcomes, quantity \in Quantities, moved \in SUBSET Assets :
       triage_problem_report(r, outcome, quantity, moved)
  BY DEF Triaged
<1>1. UNCHANGED <<tracking, request, item, link, loan>>
  BY DEF triage_problem_report
<1>2. \A x \in Requests, a \in Assets : Out(x, a)' <=> Out(x, a)
  BY <1>1 DEF Out
<1>3. CASE outcome = "no_issue"
  <2>1. asset' = asset
    BY <1>3 DEF triage_problem_report
  <2>2. SetsAside
    BY <1>1, <1>2, <2>1, Zenon DEF SetsAside
  <2> QED
    BY <1>1, <2>2, SetsAsideAssets
<1>4. CASE outcome # "no_issue"
  <2>1. /\ asset' = [a \in Assets |->
                       IF a \in moved THEN TriageStatus[outcome] ELSE asset[a]]
        /\ \A a \in moved : asset[a] = "available"
    BY <1>4 DEF triage_problem_report
  <2>2. TriageStatus[outcome] \in {"damaged", "maintenance"}
    BY <1>4 DEF ReportOutcomes, TriageStatus
  <2>3. SetsAside
    BY <1>1, <1>2, <2>1, <2>2 DEF SetsAside
  <2> QED
    BY <1>1, <2>3, SetsAsideAssets
<1> QED
  BY <1>3, <1>4

\* New rows are of a product that is individually tracked from then on.
LEMMA StockAssets ==
    ASSUME TypesAndRows, AssetInv, StockSteps
    PROVE  AssetInv'
<1>1. UNCHANGED <<request, item, link, loan>>
  BY CorrectionsLeaveRequests
<1>2. \A x \in Requests, a \in Assets : Out(x, a)' <=> Out(x, a)
  BY <1>1 DEF Out
<1>3. ASSUME tracking' = tracking, asset' = asset
      PROVE  SetsAside
  BY <1>2, <1>3, Zenon DEF SetsAside
<1>4. ASSUME NEW p \in Products, NEW new \in SUBSET Assets,
             generate_assets_with_qr(p, new)
      PROVE  SetsAside
  <2>1. /\ new \subseteq AssetsOf(p)
        /\ tracking' = [tracking EXCEPT ![p] = "individual"]
        /\ asset' = [a \in Assets |-> IF a \in new THEN "available" ELSE asset[a]]
        /\ \A a \in new : asset[a] = "absent"
    BY <1>4 DEF generate_assets_with_qr
  <2>2. TrackingType(tracking)
    BY TypesSplit
  <2>3. ASSUME NEW a \in Assets, asset'[a] # "absent"
        PROVE  tracking'[AssetProduct[a]] = "individual"
    <3>1. AssetProduct[a] \in Products
      BY LendingAssumption DEF LendingAssumption
    <3>2. CASE a \in new
      BY <2>1, <2>2, <3>1, <3>2 DEF TrackingType, AssetsOf
    <3>3. CASE a \notin new
      BY <2>1, <2>2, <2>3, <3>1, <3>3 DEF TrackingType, AssetInv, Serialized
    <3> QED
      BY <3>2, <3>3
  <2> QED
    BY <1>2, <2>1, <2>3 DEF SetsAside
<1>5. SetsAside
  BY <1>3, <1>4, Zenon
     DEF StockSteps, adjust_quantities, needs_fix_action, StockStep
<1> QED
  BY <1>1, <1>5, SetsAsideAssets

LEMMA StepAssets ==
    ASSUME TypesAndRows, Shapes, AssetInv, [Next]_vars
    PROVE  AssetInv'
<1>1. Shapes'
  BY StepCustody DEF CustodyKept
<1>2. CASE UNCHANGED vars
  <2>1. UNCHANGED <<request, item, link, loan>> /\ asset' = asset /\ tracking' = tracking
    BY <1>2 DEF vars
  <2>2. SetsAside
    BY <2>1, Zenon DEF SetsAside, Out
  <2> QED
    BY <2>1, <2>2, SetsAsideAssets
<1> QED
  BY <1>1, <1>2, StepCases, ReviewedAssets, IssueAssets, ReturnAssets,
     CreatedAssets, ToolReturnAssets, LoanReturnAssets, TriageAssets, StockAssets

LEMMA InitAssets ==
    ASSUME SerializedCatalog, Init
    PROVE  AssetInv
<1>1. \A a \in Assets : asset[a] # "issued"
  BY LendingAssumption DEF LendingAssumption, Init
<1>2. \A r \in Requests, a \in Assets : ~Out(r, a) /\ link[r][a] # "issued"
  BY DEF Init, Out, NoLoan
<1>3. ASSUME NEW r \in Requests
      PROVE  AssetRows(r)
  <2>1. \A p \in Products : Linked(r, p) = {} /\ Remaining(item[r][p]) = 0
    BY <1>2 DEF Linked, AssetsOf, Init, NoItem, Remaining
  <2>2. loan[r].status = "none"
    BY DEF Init, NoLoan
  <2> QED
    BY <1>2, <2>1, <2>2, FS_EmptySet DEF AssetRows
<1>4. Serialized
  BY DEF Serialized, SerializedCatalog, Init
<1>5. OneHolder /\ HeldIsIssued /\ IssuedIsHeld
  BY <1>1, <1>2 DEF OneHolder, HeldIsIssued, IssuedIsHeld
<1> QED
  BY <1>3, <1>4, <1>5 DEF AssetInv

LEMMA AssetsHeldOnce ==
    ASSUME AssetInv
    PROVE  AssetOnOneLoan
<1>1. \A a \in Assets : Holders(a) = {r \in Requests : Out(r, a)}
  BY DEF Holders, Out, AssetInv, AssetRows
<1>2. ASSUME NEW a \in Assets
      PROVE  Cardinality(Holders(a)) <= 1
  <2>1. \A x, y \in Holders(a) : x = y
    BY <1>1 DEF AssetInv, OneHolder
  <2> QED
    BY <2>1, AtMostOne
<1>3. ASSUME NEW a \in Assets
      PROVE  Holders(a) # {} <=> asset[a] = "issued"
  BY <1>1 DEF AssetInv, HeldIsIssued, IssuedIsHeld
<1> QED
  BY <1>2, <1>3 DEF AssetOnOneLoan

\* A serialized asset is in the hands of at most one borrower, over reviewed
\* loans, self-checkouts and direct handouts together, and its row says ISSUED
\* exactly while somebody has it.
THEOREM AssetsOnOneLoan ==
    ASSUME SerializedCatalog
    PROVE  Spec => []AssetOnOneLoan
<1>1. Init => AssetInv
  BY InitAssets
<1>2. TypesAndRows /\ (Shapes /\ Sums) /\ AssetInv /\ [Next]_vars => AssetInv'
  BY StepAssets
<1>3. AssetInv => AssetOnOneLoan
  BY AssetsHeldOnce
<1> QED
  BY <1>1, <1>2, <1>3, TypesHold, CustodyHolds, PTL DEF Spec
=============================================================================
