---------------------------- MODULE CommunityProofs ----------------------------
(***************************************************************************)
(* Theorems about Events, Bookings and Memberships, each for all values of *)
(* its constants.  The three share no state and no lemma.                  *)
(*                                                                         *)
(* Events: the order of the waitlist follows from NoIdleSeat, as whoever   *)
(* registers finds a free seat only when nobody waits.                     *)
(*                                                                         *)
(* Bookings: NoDoubleBooking needs two facts more: an ended booking's time *)
(* is over, and nobody was approved in the future.  A booking that is      *)
(* confirmed now meets no confirmed one, and the ended ones were over when *)
(* it was.                                                                 *)
(*                                                                         *)
(* Memberships: revocation closes the requests of an account only.  That   *)
(* suffices as a person with a membership has an account, so what is       *)
(* opened later is linked to it, and what was open at an earlier           *)
(* activation was decided by it: no unlinked request is left unless staff  *)
(* attached the person.                                                    *)
(***************************************************************************)
EXTENDS Events, Bookings, Memberships, FiniteSetTheorems, TLAPS

Types ==
    /\ event \in EventRow
    /\ registration \in [People -> RegistrationStatuses]
    /\ ahead \in [People -> SUBSET People]
    /\ charge \in [People -> Charges]

\* Publishing finds no waitlist: a draft takes no registrations.
NobodyInDraft == event.status = "draft" => Rows = {}

IInv == Types /\ NobodyInDraft /\ CapacityKept /\ NoIdleSeat

-----------------------------------------------------------------------------
LEMMA PeopleFinite ==
    ASSUME NEW S, S \subseteq People
    PROVE  IsFiniteSet(S) /\ Cardinality(S) \in Nat
BY EventsAssumption, FS_Subset, FS_CardinalityType DEF EventsAssumption

LEMMA ConfirmedFinite == IsFiniteSet(Confirmed) /\ Cardinality(Confirmed) \in Nat
<1>1. Confirmed \subseteq People
  BY DEF Confirmed, With
<1> QED
  BY <1>1, PeopleFinite

\* r gives up a seat and S take theirs.
LEMMA SeatsMove ==
    ASSUME NEW C, NEW S, NEW r, IsFiniteSet(C), IsFiniteSet(S),
           C \cap S = {}, r \in C
    PROVE  Cardinality((C \ {r}) \cup S) = Cardinality(C) - 1 + Cardinality(S)
<1> DEFINE D == C \ {r}
<1>1. IsFiniteSet(D) /\ Cardinality(D) = Cardinality(C) - 1
  BY FS_RemoveElement
<1>2. Cardinality(D \cap S) = 0
  <2>1. D \cap S = {}
    OBVIOUS
  <2> QED
    BY <2>1, FS_EmptySet
<1>3. Cardinality(D) \in Nat /\ Cardinality(S) \in Nat
  BY <1>1, FS_CardinalityType
<1>4. Cardinality(D \cup S) = Cardinality(D) + Cardinality(S) - Cardinality(D \cap S)
  BY <1>1, FS_Union
<1> HIDE DEF D
<1>5. Cardinality(D \cup S) = Cardinality(D) + Cardinality(S)
  BY <1>2, <1>3, <1>4
<1> QED
  BY <1>1, <1>5 DEF D

LEMMA ChargesTyped ==
    ASSUME Types, NEW e, NEW S \in SUBSET People, NEW c \in ChargesFor(e, S)
    PROVE  c \in [People -> Charges]
BY DEF Types, ChargesFor, Charges

-----------------------------------------------------------------------------
LEMMA TypesKept ==
    ASSUME Types, Next
    PROVE  Types'
<1>1. ASSUME NEW e \in EventRow, update_event(e)
      PROVE  Types'
  <2>1. PICK S \in SUBSET Waiters :
           registration' = Seat(S) /\ charge' \in ChargesFor(e, S)
    BY <1>1 DEF update_event
  <2>2. S \in SUBSET People
    BY DEF Waiters, With
  <2>3. charge' \in [People -> Charges]
    BY <2>1, <2>2, ChargesTyped
  <2>4. registration' \in [People -> RegistrationStatuses]
    BY <2>1 DEF Seat, Types, RegistrationStatuses
  <2> QED
    BY <1>1, <2>3, <2>4 DEF update_event, Types
<1>2. CASE publish \/ cancel \/ complete \/ event_ends
  BY <1>2 DEF publish, cancel, complete, event_ends, Transition, Types,
     EventRow, EventStatuses
<1>3. ASSUME NEW r \in People, register(r)
      PROVE  Types'
  <2>1. ahead' \in [People -> SUBSET People]
    BY <1>3 DEF register, PlaceAtEnd, Types, Rows, With
  <2>2. registration' \in [People -> RegistrationStatuses]
    BY <1>3 DEF register, Types, RegistrationStatuses
  <2>3. charge' \in [People -> Charges]
    <3>1. CASE SpotsLeft
      BY <1>3, <3>1, ChargesTyped DEF register
    <3>2. CASE ~SpotsLeft
      BY <1>3, <3>2 DEF register, Types
    <3> QED
      BY <3>1, <3>2
  <2> QED
    BY <1>3, <2>1, <2>2, <2>3 DEF register, Types
<1>4. ASSUME NEW r \in People, cancel_registration(r)
      PROVE  Types'
  <2>1. PICK S \in SUBSET Waiters :
           /\ registration' = [Seat(S) EXCEPT ![r] = "cancelled"]
           /\ \E c \in ChargesWithout(r) : \E d \in ChargesFor(event, S) :
                 charge' = [d EXCEPT ![r] = c[r]]
    BY <1>4 DEF cancel_registration
  <2>2. PICK c \in ChargesWithout(r), d \in ChargesFor(event, S) :
           charge' = [d EXCEPT ![r] = c[r]]
    BY <2>1
  <2>3. S \in SUBSET People
    BY DEF Waiters, With
  <2>4. d \in [People -> Charges]
    BY <2>3, ChargesTyped
  <2>5. c[r] \in Charges
    BY DEF ChargesWithout, Types, Charges
  <2>6. charge' \in [People -> Charges]
    BY <2>2, <2>4, <2>5
  <2>7. registration' \in [People -> RegistrationStatuses]
    BY <2>1 DEF Seat, Types, RegistrationStatuses
  <2> QED
    BY <1>4, <2>6, <2>7 DEF cancel_registration, Types
<1>5. ASSUME NEW r \in People, mark_attended(r) \/ charge_settled(r)
      PROVE  Types'
  BY <1>5 DEF mark_attended, charge_settled, Types, RegistrationStatuses, Charges
<1> QED
  BY <1>1, <1>2, <1>3, <1>4, <1>5 DEF Next

-----------------------------------------------------------------------------
\* The seats and the waitlist after the steps that move people.

LEMMA SeatsAfterUpdate ==
    ASSUME Types, NEW e \in EventRow, NEW S \in SUBSET Waiters,
           registration' = Seat(S)
    PROVE  Confirmed' = Confirmed \cup S /\ Waiters' = Waiters \ S
BY DEF Types, Seat, Confirmed, Waiters, With

LEMMA UpdateKeeps ==
    ASSUME IInv, NEW e \in EventRow, update_event(e)
    PROVE  (CapacityKept /\ NoIdleSeat)'
<1>1. PICK S \in SUBSET Waiters :
         /\ registration' = Seat(S)
         /\ IF ~MayPromote(e) THEN S = {}
            ELSE IF e.capacity = 0 THEN S = Waiters
            ELSE \/ S = Waiters /\ Cardinality(S) + Cardinality(Confirmed) <= e.capacity
                 \/ Cardinality(S) + Cardinality(Confirmed) = e.capacity
  BY DEF update_event
<1>2. Confirmed' = Confirmed \cup S /\ Waiters' = Waiters \ S
  BY <1>1, SeatsAfterUpdate DEF IInv
<1>3. event' = e /\ Fits(e.capacity)
  BY DEF update_event
<1>4. S \subseteq People /\ Confirmed \cap S = {}
  BY DEF Waiters, Confirmed, With
<1>5. IsFiniteSet(S) /\ Cardinality(S) \in Nat
  BY <1>4, PeopleFinite
<1>6. Cardinality(Confirmed') = Cardinality(Confirmed) + Cardinality(S)
  <2>1. Cardinality(Confirmed \cup S) =
          Cardinality(Confirmed) + Cardinality(S) - Cardinality(Confirmed \cap S)
    BY <1>5, ConfirmedFinite, FS_Union
  <2>2. Cardinality(Confirmed \cap S) = 0
    BY <1>4, FS_EmptySet
  <2> QED
    BY <1>2, <1>5, <2>1, <2>2, ConfirmedFinite
<1>7. S = {} => Cardinality(S) = 0
  BY FS_EmptySet
<1>8. e.capacity \in Nat
  BY EventsAssumption DEF EventRow, EventsAssumption
<1>9. CapacityKept'
  <2>1. e.capacity = 0 \/ Cardinality(Confirmed) + Cardinality(S) <= e.capacity
    BY <1>1, <1>3, <1>5, <1>7, <1>8, ConfirmedFinite DEF Fits
  <2> QED
    BY <1>3, <1>6, <2>1 DEF CapacityKept
<1>10. NoIdleSeat'
  <2>1. SUFFICES ASSUME MayPromote(e), Waiters' # {}
                 PROVE  /\ e.capacity # 0
                        /\ ~(Cardinality(Confirmed)' < e.capacity)
    BY <1>3 DEF NoIdleSeat, SpotsLeft, MayPromote
  <2>2. S # Waiters
    BY <1>2, <2>1
  <2> QED
    BY <1>1, <1>5, <1>6, <1>8, <2>1, <2>2, ConfirmedFinite
<1> QED
  BY <1>9, <1>10

LEMMA RegisterKeeps ==
    ASSUME IInv, NEW r \in People, register(r)
    PROVE  (CapacityKept /\ NoIdleSeat)'
<1>1. event' = event /\ MayPromote(event)
  BY DEF register, MayPromote
<1>2. r \notin Confirmed /\ r \notin Waiters
  BY DEF register, Confirmed, Waiters, With
<1>3. event.capacity \in Nat
  BY EventsAssumption DEF EventRow, EventsAssumption, IInv, Types
<1>4. CASE SpotsLeft
  <2>1. Confirmed' = Confirmed \cup {r} /\ Waiters' = Waiters
    BY <1>2, <1>4 DEF register, Confirmed, Waiters, With, IInv, Types
  <2>2. Waiters = {}
    BY <1>1, <1>4 DEF IInv, NoIdleSeat
  <2>3. Cardinality(Confirmed') = Cardinality(Confirmed) + 1
    BY <1>2, <2>1, ConfirmedFinite, FS_AddElement
  <2>4. event.capacity = 0 \/ Cardinality(Confirmed) + 1 <= event.capacity
    BY <1>3, <1>4, ConfirmedFinite DEF SpotsLeft
  <2> QED
    BY <1>1, <2>1, <2>2, <2>3, <2>4 DEF CapacityKept, NoIdleSeat
<1>5. CASE ~SpotsLeft
  <2>1. Confirmed' = Confirmed
    BY <1>2, <1>5 DEF register, Confirmed, With, IInv, Types
  <2> QED
    BY <1>1, <1>5, <2>1 DEF CapacityKept, NoIdleSeat, SpotsLeft, IInv
<1> QED
  BY <1>4, <1>5

LEMMA CancelKeeps ==
    ASSUME IInv, NEW r \in People, cancel_registration(r)
    PROVE  (CapacityKept /\ NoIdleSeat)'
<1>1. PICK S \in SUBSET Waiters :
         /\ Cardinality(S) = IF FreesSeat(r) THEN 1 ELSE 0
         /\ registration' = [Seat(S) EXCEPT ![r] = "cancelled"]
  BY DEF cancel_registration
<1>2. S \subseteq People /\ Confirmed \cap S = {}
  BY DEF Waiters, Confirmed, With
<1>3. IsFiniteSet(S) /\ Cardinality(S) \in Nat
  BY <1>2, PeopleFinite
<1>4. event' = event /\ event.capacity \in Nat
  BY EventsAssumption DEF cancel_registration, EventRow, EventsAssumption, IInv, Types
<1>5. Confirmed' = (Confirmed \ {r}) \cup (S \ {r}) /\ Waiters' = Waiters \ (S \cup {r})
  BY <1>1 DEF Seat, Confirmed, Waiters, With, IInv, Types
<1>6. CASE registration[r] = "registered"
  <2>1. r \in Confirmed /\ r \notin Waiters
    BY <1>6 DEF Confirmed, Waiters, With
  <2>2. Cardinality(Confirmed') = Cardinality(Confirmed) - 1 + Cardinality(S)
    <3>1. Confirmed' = (Confirmed \ {r}) \cup S
      BY <1>5, <2>1
    <3>2. IsFiniteSet(Confirmed)
      BY ConfirmedFinite
    <3> QED
      BY <1>2, <1>3, <2>1, <3>1, <3>2, SeatsMove
  <2>3. CASE FreesSeat(r)
    <3>1. Cardinality(Confirmed') = Cardinality(Confirmed)
      BY <1>1, <2>2, <2>3, ConfirmedFinite
    <3>2. Waiters # {} /\ MayPromote(event)
      BY <2>3 DEF FreesSeat
    <3> QED
      BY <1>4, <3>1, <3>2 DEF IInv, CapacityKept, NoIdleSeat, SpotsLeft
  <2>4. CASE ~FreesSeat(r)
    <3>1. S = {} /\ Cardinality(Confirmed') = Cardinality(Confirmed) - 1
      BY <1>1, <1>3, <2>2, <2>4, ConfirmedFinite, FS_EmptySet
    <3>2. MayPromote(event) => Waiters = {}
      BY <1>4, <1>6, <2>4 DEF FreesSeat, IInv, NoIdleSeat, SpotsLeft
    <3>3. CapacityKept'
      BY <1>4, <3>1, ConfirmedFinite DEF IInv, CapacityKept
    <3> QED
      BY <1>4, <1>5, <3>2, <3>3 DEF NoIdleSeat
  <2> QED
    BY <2>3, <2>4
<1>7. CASE registration[r] = "waitlisted"
  <2>1. S = {}
    BY <1>1, <1>3, <1>7, FS_EmptySet DEF FreesSeat
  <2>2. Confirmed' = Confirmed /\ Waiters' \subseteq Waiters
    BY <1>5, <1>7, <2>1 DEF Confirmed, With
  <2> QED
    BY <1>4, <2>2 DEF IInv, CapacityKept, NoIdleSeat, SpotsLeft
<1> QED
  BY <1>6, <1>7 DEF cancel_registration

LEMMA OthersKeep ==
    ASSUME IInv,
           \/ publish \/ cancel \/ complete \/ event_ends
           \/ \E r \in People : mark_attended(r) \/ charge_settled(r)
    PROVE  (CapacityKept /\ NoIdleSeat)'
<1>1. CASE publish \/ cancel \/ complete \/ event_ends
  <2>1. UNCHANGED registration /\ event'.capacity = event.capacity
    BY <1>1 DEF publish, cancel, complete, event_ends, Transition, IInv, Types, EventRow
  <2>2. Confirmed' = Confirmed /\ Waiters' = Waiters
    BY <2>1 DEF Confirmed, Waiters, With
  <2>3. CASE publish
    <3>1. Waiters = {}
      BY <2>3 DEF publish, IInv, NobodyInDraft, Rows, Waiters, With
    <3> QED
      BY <2>1, <2>2, <3>1 DEF IInv, CapacityKept, NoIdleSeat
  <2>4. CASE cancel \/ complete \/ event_ends
    <3>1. MayPromote(event') => MayPromote(event)
      BY <2>4 DEF cancel, complete, event_ends, Transition, IInv, Types,
         EventRow, MayPromote
    <3> QED
      BY <2>1, <2>2, <3>1 DEF IInv, CapacityKept, NoIdleSeat, SpotsLeft
  <2> QED
    BY <1>1, <2>3, <2>4
<1>2. ASSUME NEW r \in People, mark_attended(r) \/ charge_settled(r)
      PROVE  (CapacityKept /\ NoIdleSeat)'
  <2>1. event' = event
    BY <1>2 DEF mark_attended, charge_settled
  <2>2. Confirmed' = Confirmed /\ Waiters' = Waiters
    BY <1>2 DEF mark_attended, charge_settled, Confirmed, Waiters, With, IInv, Types
  <2> QED
    BY <2>1, <2>2 DEF IInv, CapacityKept, NoIdleSeat, SpotsLeft
<1> QED
  BY <1>1, <1>2

LEMMA DraftKept ==
    ASSUME Types, NobodyInDraft, Next
    PROVE  NobodyInDraft'
<1>1. ASSUME NEW e \in EventRow, update_event(e)
      PROVE  NobodyInDraft'
  <2>1. PICK S \in SUBSET Waiters : registration' = Seat(S)
    BY <1>1 DEF update_event
  <2>2. e.status = event.status /\ event' = e
    BY <1>1 DEF update_event
  <2>3. S \subseteq Rows
    BY DEF Waiters, Rows, With
  <2> QED
    BY <2>1, <2>2, <2>3 DEF NobodyInDraft, Seat, Rows, With, Types
<1>2. CASE publish \/ cancel \/ complete
  BY <1>2 DEF publish, cancel, complete, Transition, NobodyInDraft, Types, EventRow
<1>3. CASE event_ends
  BY <1>3 DEF event_ends, NobodyInDraft, Rows, With, Types, EventRow
<1>4. ASSUME NEW r \in People, register(r) \/ mark_attended(r) \/ charge_settled(r)
      PROVE  NobodyInDraft'
  BY <1>4 DEF register, mark_attended, charge_settled, NobodyInDraft, Rows, With
<1>5. ASSUME NEW r \in People, cancel_registration(r)
      PROVE  NobodyInDraft'
  <2>1. event' = event /\ r \in Rows
    BY <1>5 DEF cancel_registration, Rows, With
  <2> QED
    BY <2>1 DEF NobodyInDraft
<1> QED
  BY <1>1, <1>2, <1>3, <1>4, <1>5 DEF Next

-----------------------------------------------------------------------------
LEMMA Invariant == Spec => []IInv
<1>1. Init => IInv
  <2> SUFFICES ASSUME Init
               PROVE  IInv
    OBVIOUS
  <2>1. Types
    BY DEF Init, Types, RegistrationStatuses, Charges
  <2>2. Rows = {} /\ Confirmed = {} /\ Waiters = {}
    BY DEF Init, Rows, Confirmed, Waiters, With
  <2>3. event.capacity \in Nat /\ Cardinality(Confirmed) = 0
    BY <2>2, EventsAssumption, FS_EmptySet DEF Init, EventRow, EventsAssumption
  <2> QED
    BY <2>1, <2>2, <2>3 DEF IInv, NobodyInDraft, CapacityKept, NoIdleSeat
<1>2. IInv /\ [Next]_vars => IInv'
  <2> SUFFICES ASSUME IInv, [Next]_vars
               PROVE  IInv'
    OBVIOUS
  <2>1. CASE Next
    <3>1. Types' /\ NobodyInDraft'
      BY <2>1, TypesKept, DraftKept DEF IInv
    <3>2. (CapacityKept /\ NoIdleSeat)'
      BY <2>1, UpdateKeeps, RegisterKeeps, CancelKeeps, OthersKeep DEF Next
    <3> QED
      BY <3>1, <3>2 DEF IInv
  <2>2. CASE UNCHANGED vars
    BY <2>2 DEF vars, IInv, Types, NobodyInDraft, Rows, With, CapacityKept,
       NoIdleSeat, SpotsLeft, Confirmed, Waiters
  <2> QED
    BY <2>1, <2>2
<1> QED
  BY <1>1, <1>2, PTL DEF Spec

\* However registrations, cancellations, promotions and changes of the capacity
\* follow one another, no event seats more people than it has room for.
THEOREM CapacityIsKept == Spec => []CapacityKept
BY Invariant, PTL DEF IInv

\* Nobody waits beside a free seat of an event that takes people.
THEOREM NobodyWaitsBesideAFreeSeat == Spec => []NoIdleSeat
BY Invariant, PTL DEF IInv

-----------------------------------------------------------------------------
\* Promoting an initial part S of the waiters passes nobody over.
LEMMA PromotionIsFair ==
    ASSUME Types, NEW S, FirstOf(S), NEW r \in S, NEW q \in ahead[r]
    PROVE  q \notin Waiters \ S
BY DEF FirstOf

FairStep ==
    \A r \in People :
       registration[r] # "registered" /\ registration'[r] = "registered" =>
          \A q \in ahead'[r] : registration'[q] # "waitlisted"

LEMMA StepIsFair == IInv /\ [Next]_vars => FairStep
<1> SUFFICES ASSUME IInv, [Next]_vars, NEW r \in People,
                    registration[r] # "registered", registration'[r] = "registered",
                    NEW q \in ahead'[r], registration'[q] = "waitlisted"
             PROVE  FALSE
  BY DEF FairStep
<1>1. ASSUME NEW e \in EventRow, update_event(e)
      PROVE  FALSE
  <2>1. PICK S \in SUBSET Waiters : FirstOf(S) /\ registration' = Seat(S)
    BY <1>1 DEF update_event
  <2>2. ahead' = ahead /\ q \in People
    BY <1>1 DEF update_event, IInv, Types
  <2>3. r \in S /\ q \in Waiters \ S
    BY <2>1, <2>2 DEF Seat, Waiters, With
  <2> QED
    BY <2>1, <2>2, <2>3, PromotionIsFair DEF IInv
<1>2. ASSUME NEW p \in People, cancel_registration(p)
      PROVE  FALSE
  <2>1. PICK S \in SUBSET Waiters :
           FirstOf(S) /\ registration' = [Seat(S) EXCEPT ![p] = "cancelled"]
    BY <1>2 DEF cancel_registration
  <2>2. ahead' = ahead /\ q \in People
    BY <1>2 DEF cancel_registration, IInv, Types
  <2>3. r \in S /\ q \in Waiters \ S
    BY <2>1, <2>2 DEF Seat, Waiters, With
  <2> QED
    BY <2>1, <2>2, <2>3, PromotionIsFair DEF IInv
<1>3. ASSUME NEW p \in People, register(p)
      PROVE  FALSE
  <2>1. SpotsLeft /\ registration' = [registration EXCEPT ![p] = "registered"]
    BY <1>3 DEF register, IInv, Types
  <2>2. MayPromote(event)
    BY <1>3 DEF register, MayPromote
  <2>3. Waiters = {}
    BY <2>1, <2>2 DEF IInv, NoIdleSeat
  <2>4. q \in People
    BY <1>3 DEF register, PlaceAtEnd, IInv, Types, Rows
  <2> QED
    BY <2>1, <2>3, <2>4 DEF Waiters, With, IInv, Types
<1>4. CASE \/ publish \/ cancel \/ complete \/ event_ends
           \/ \E p \in People : charge_settled(p)
           \/ UNCHANGED vars
  BY <1>4 DEF publish, cancel, complete, event_ends, Transition, charge_settled, vars
<1>5. ASSUME NEW p \in People, mark_attended(p)
      PROVE  FALSE
  BY <1>5 DEF mark_attended, IInv, Types
<1> QED
  BY <1>1, <1>2, <1>3, <1>4, <1>5 DEF Next

\* Whoever gets a seat, by registering or from the waitlist, passes nobody who
\* came earlier and goes on waiting.
THEOREM WaitlistIsFair == Spec => FirstComeFirstSeated
<1>1. IInv /\ [Next]_vars => [FairStep]_vars
  BY StepIsFair
<1>2. Spec => [][FairStep]_vars
  BY <1>1, Invariant, PTL DEF Spec
<1> QED
  BY <1>2 DEF FirstComeFirstSeated, FairStep

-----------------------------------------------------------------------------
Ordered == \A q, r \in Rows : q \in ahead[r] <=> q # r /\ r \notin ahead[q]

LEMMA OrderKept ==
    ASSUME Types, Ordered, [Next]_vars
    PROVE  Ordered'
<1>1. ASSUME NEW x \in People, register(x)
      PROVE  Ordered'
  <2>1. Rows' = Rows \cup {x}
    BY <1>1 DEF register, Rows, With, Types
  <2>2. \A q \in People : ahead'[q] = IF q = x THEN Rows \ {x} ELSE ahead[q] \ {x}
    BY <1>1 DEF register, PlaceAtEnd
  <2>3. Rows \subseteq People
    BY DEF Rows
  <2> SUFFICES ASSUME NEW q \in Rows \cup {x}, NEW r \in Rows \cup {x}
               PROVE  q \in ahead'[r] <=> q # r /\ r \notin ahead'[q]
    BY <2>1 DEF Ordered
  <2>4. q \in People /\ r \in People
    BY <2>3
  <2>5. CASE q = x \/ r = x
    BY <2>2, <2>4, <2>5
  <2>6. CASE q # x /\ r # x
    BY <2>2, <2>4, <2>6, ZenonT(60) DEF Ordered
  <2> QED
    BY <2>5, <2>6
<1>2. ASSUME NEW e \in EventRow, update_event(e)
      PROVE  Ordered'
  <2>1. PICK S \in SUBSET Waiters : registration' = Seat(S)
    BY <1>2 DEF update_event
  <2>2. Rows' = Rows
    BY <2>1 DEF Seat, Rows, With, Waiters, Types
  <2> QED
    BY <1>2, <2>2 DEF Ordered, update_event
<1>3. ASSUME NEW x \in People, cancel_registration(x)
      PROVE  Ordered'
  <2>1. PICK S \in SUBSET Waiters : registration' = [Seat(S) EXCEPT ![x] = "cancelled"]
    BY <1>3 DEF cancel_registration
  <2>2. x \in Rows
    BY <1>3 DEF cancel_registration, Rows, With
  <2>3. Rows' = Rows
    BY <2>1, <2>2 DEF Seat, Rows, With, Waiters, Types
  <2> QED
    BY <1>3, <2>3 DEF Ordered, cancel_registration
<1>4. ASSUME NEW x \in People, mark_attended(x)
      PROVE  Ordered'
  <2>1. Rows' = Rows
    BY <1>4 DEF mark_attended, Rows, With, Types
  <2> QED
    BY <1>4, <2>1 DEF Ordered, mark_attended
<1>5. CASE \/ publish \/ cancel \/ complete \/ event_ends
           \/ \E p \in People : charge_settled(p)
           \/ UNCHANGED vars
  BY <1>5 DEF publish, cancel, complete, event_ends, Transition, charge_settled,
     vars, Ordered, Rows, With
<1> QED
  BY <1>1, <1>2, <1>3, <1>4, <1>5 DEF Next

\* Every variable keeps its type, and created_at puts the registrations of an
\* event in one order however often people cancel and come back.
THEOREM EventTypesAreKept == Spec => []EventsTypeOK
<1>1. Init => Ordered
  BY DEF Init, Ordered, Rows, With
<1>2. IInv /\ Ordered /\ [Next]_vars => Ordered'
  BY OrderKept DEF IInv
<1>3. IInv /\ Ordered => EventsTypeOK
  BY DEF IInv, Types, Ordered, EventsTypeOK
<1> QED
  BY <1>1, <1>2, <1>3, Invariant, PTL DEF Spec

-----------------------------------------------------------------------------
LEMMA NewCharges ==
    ASSUME Types, OnlySeatsOwe, NEW e, NEW S \in SUBSET People,
           NEW c \in ChargesFor(e, S), NEW r \in People \ Unreliable, c[r] = "pending"
    PROVE  r \in Confirmed \cup S
BY DEF ChargesFor, OnlySeatsOwe

LEMMA OwingKept ==
    ASSUME Types, OnlySeatsOwe, [Next]_vars
    PROVE  OnlySeatsOwe'
<1> SUFFICES ASSUME NEW r \in People \ Unreliable, charge'[r] = "pending"
             PROVE  r \in Confirmed'
  BY DEF OnlySeatsOwe
<1>1. ASSUME NEW e \in EventRow, update_event(e)
      PROVE  r \in Confirmed'
  <2>1. PICK S \in SUBSET Waiters :
           registration' = Seat(S) /\ charge' \in ChargesFor(e, S)
    BY <1>1 DEF update_event
  <2>2. Confirmed' = Confirmed \cup S
    BY <2>1, SeatsAfterUpdate
  <2>3. S \in SUBSET People
    BY DEF Waiters, With
  <2> QED
    BY <2>1, <2>2, <2>3, NewCharges
<1>2. ASSUME NEW p \in People, register(p)
      PROVE  r \in Confirmed'
  <2>1. CASE SpotsLeft
    <3>1. r \in Confirmed \cup {p}
      BY <1>2, <2>1, NewCharges DEF register
    <3> QED
      BY <1>2, <2>1, <3>1 DEF register, Confirmed, With, Types
  <2>2. CASE ~SpotsLeft
    <3>1. r \in Confirmed
      BY <1>2, <2>2 DEF register, OnlySeatsOwe
    <3> QED
      BY <1>2, <2>2, <3>1 DEF register, Confirmed, With, Types
  <2> QED
    BY <2>1, <2>2
<1>3. ASSUME NEW p \in People, cancel_registration(p)
      PROVE  r \in Confirmed'
  <2>1. PICK S \in SUBSET Waiters :
           /\ registration' = [Seat(S) EXCEPT ![p] = "cancelled"]
           /\ \E c \in ChargesWithout(p) : \E d \in ChargesFor(event, S) :
                 charge' = [d EXCEPT ![p] = c[p]]
    BY <1>3 DEF cancel_registration
  <2>2. PICK c \in ChargesWithout(p), d \in ChargesFor(event, S) :
           charge' = [d EXCEPT ![p] = c[p]]
    BY <2>1
  <2>3. S \in SUBSET People
    BY DEF Waiters, With
  <2>4. d \in [People -> Charges]
    BY <2>3, ChargesTyped
  <2>5. p \notin Unreliable => c[p] # "pending"
    BY DEF ChargesWithout, Types
  <2>6. r # p /\ d[r] = "pending"
    BY <2>2, <2>4, <2>5
  <2>7. r \in Confirmed \cup S
    BY <2>3, <2>6, NewCharges
  <2> QED
    BY <2>1, <2>6, <2>7 DEF Confirmed, With, Seat, Types
<1>4. CASE \E p \in People : mark_attended(p)
  BY <1>4 DEF mark_attended, OnlySeatsOwe, Confirmed, With, Types
<1>5. CASE \E p \in People : charge_settled(p)
  BY <1>5 DEF charge_settled, OnlySeatsOwe, Confirmed, With, Types
<1>6. CASE publish \/ cancel \/ complete \/ event_ends \/ UNCHANGED vars
  BY <1>6 DEF publish, cancel, complete, event_ends, Transition, vars,
     OnlySeatsOwe, Confirmed, With
<1> QED
  BY <1>1, <1>2, <1>3, <1>4, <1>5, <1>6 DEF Next

\* Where the payments app answers, whoever owes money for an event has a seat.
THEOREM OnlySeatsAreCharged == Spec => []OnlySeatsOwe
<1>1. Init => OnlySeatsOwe
  BY DEF Init, OnlySeatsOwe
<1>2. IInv /\ OnlySeatsOwe /\ [Next]_vars => OnlySeatsOwe'
  BY OwingKept DEF IInv
<1> QED
  BY <1>1, <1>2, Invariant, PTL DEF Spec

-----------------------------------------------------------------------------
Ended(k) == booking[k].status \in {"completed", "no_show"}

EndedIsOver == \A k \in BookingIds : Ended(k) => booking[k].ends_at <= clock

BookingsInv == BookingsTypeOK /\ EndedIsOver /\ NoDoubleBooking

-----------------------------------------------------------------------------
LEMMA BookingTypesStart == BookingsInit => BookingsTypeOK
<1> SUFFICES ASSUME BookingsInit PROVE BookingsTypeOK
  OBVIOUS
<1>1. 0 \in Times
  BY BookingsAssumption DEF BookingsAssumption, Times
<1>2. NoBooking \in BookingRow
  BY <1>1 DEF NoBooking, BookingRow, BookingStatuses
<1> QED
  BY <1>1, <1>2 DEF BookingsInit, BookingsTypeOK, NoBooking, Bills

\* What the payments app may leave behind.
LEMMA BillTypes ==
    ASSUME BookingsTypeOK, NEW k \in BookingIds
    PROVE  /\ \A b \in BillsFor(k) \cup BillsWithout(k) : b \in [BookingIds -> Bills]
           /\ \A b \in BillsFor(k) \cup BillsWithout(k) :
                 \A q \in BookingIds \ {k} : b[q] = bill[q]
BY DEF BookingsTypeOK, BillsFor, BillsWithout, Bills

\* The steps that change one booking, and what is left of it.
Confirms(k) ==
    /\ booking' = [booking EXCEPT ![k] = booking'[k]]
    /\ booking'[k] \in BookingRow
    /\ booking'[k].starts_at < booking'[k].ends_at
    /\ booking'[k].status = "confirmed" /\ booking'[k].approved_at = clock
    /\ ~ConfirmedOverlap(k, booking'[k].starts_at, booking'[k].ends_at)

Drops(k) ==
    /\ booking' = [booking EXCEPT ![k] = booking'[k]]
    /\ booking'[k] \in BookingRow
    /\ booking'[k].starts_at < booking'[k].ends_at
    /\ booking'[k].status \in {"pending", "rejected", "cancelled"}

Ends(k) ==
    /\ booking[k].status = "confirmed" /\ HasEnded(k)
    /\ \E to \in {"completed", "no_show"} :
          booking' = [booking EXCEPT ![k].status = to]

Changes(k) == Confirms(k) \/ Drops(k) \/ Ends(k)

LEMMA BookingSorts ==
    ASSUME BookingsTypeOK, NEW k \in BookingIds, BookingSteps(k)
    PROVE  /\ UNCHANGED <<space, clock>>
           /\ bill' \in [BookingIds -> Bills]
           /\ Changes(k) \/ UNCHANGED booking
<1> USE DEF BookingsTypeOK
<1>1. ASSUME NEW starts_at \in Times, NEW ends_at \in Times,
             create_booking(k, starts_at, ends_at)
      PROVE  /\ UNCHANGED <<space, clock>> /\ bill' \in [BookingIds -> Bills]
             /\ Changes(k)
  <2>1. bill' \in [BookingIds -> Bills] /\ UNCHANGED <<space, clock>>
    BY <1>1, BillTypes DEF create_booking
  <2>2. /\ booking'[k] \in BookingRow
        /\ booking' = [booking EXCEPT ![k] = booking'[k]]
        /\ booking'[k].starts_at = starts_at /\ booking'[k].ends_at = ends_at
        /\ booking'[k].approved_at = clock
        /\ booking'[k].status = IF space.instant THEN "confirmed" ELSE "pending"
    BY <1>1 DEF create_booking, BookingRow, BookingStatuses
  <2> QED
    BY <1>1, <2>1, <2>2 DEF create_booking, Changes, Confirms, Drops
<1>2. ASSUME approve_booking(k)
      PROVE  /\ UNCHANGED <<space, clock>> /\ bill' \in [BookingIds -> Bills]
             /\ Changes(k)
  <2>1. bill' \in [BookingIds -> Bills] /\ UNCHANGED <<space, clock>>
    BY <1>2, BillTypes DEF approve_booking
  <2>2. /\ booking'[k] \in BookingRow
        /\ booking' = [booking EXCEPT ![k] = booking'[k]]
        /\ booking'[k].starts_at = booking[k].starts_at
        /\ booking'[k].ends_at = booking[k].ends_at
        /\ booking'[k].approved_at = clock /\ booking'[k].status = "confirmed"
    BY <1>2 DEF approve_booking, BookingRow, BookingStatuses
  <2> QED
    BY <1>2, <2>1, <2>2 DEF approve_booking, Changes, Confirms
<1>3. ASSUME reject_booking(k) \/ cancel_booking(k)
      PROVE  /\ UNCHANGED <<space, clock>> /\ bill' \in [BookingIds -> Bills]
             /\ Changes(k)
  <2>1. bill' \in [BookingIds -> Bills] /\ UNCHANGED <<space, clock>>
    BY <1>3, BillTypes DEF reject_booking, cancel_booking
  <2>2. /\ booking'[k] \in BookingRow
        /\ booking' = [booking EXCEPT ![k] = booking'[k]]
        /\ booking'[k].starts_at = booking[k].starts_at
        /\ booking'[k].ends_at = booking[k].ends_at
        /\ booking'[k].status \in {"rejected", "cancelled"}
        /\ booking[k].status # "absent"
    BY <1>3 DEF reject_booking, cancel_booking, BookingRow, BookingStatuses
  <2> QED
    BY <2>1, <2>2 DEF Changes, Drops
<1>4. ASSUME complete_booking(k) \/ mark_no_show(k)
      PROVE  /\ UNCHANGED <<space, clock>> /\ bill' \in [BookingIds -> Bills]
             /\ Changes(k)
  BY <1>4 DEF complete_booking, mark_no_show, EndBooking, Changes, Ends
<1>5. CASE bill_settled(k)
  BY <1>5 DEF bill_settled, Bills
<1> QED
  BY <1>1, <1>2, <1>3, <1>4, <1>5 DEF BookingSteps

LEMMA ChangeKeepsTypes ==
    ASSUME BookingsTypeOK, NEW k \in BookingIds, Changes(k)
    PROVE  /\ booking' \in [BookingIds -> BookingRow]
           /\ \A q \in BookingIds : booking'[q].status # "absent" =>
                 booking'[q].starts_at < booking'[q].ends_at
<1> USE DEF BookingsTypeOK
<1>1. CASE Confirms(k) \/ Drops(k)
  BY <1>1 DEF Confirms, Drops
<1>2. CASE Ends(k)
  BY <1>2 DEF Ends, BookingRow, BookingStatuses
<1> QED
  BY <1>1, <1>2 DEF Changes

LEMMA BookingTypesStep == BookingsTypeOK /\ [BookingsNext]_bookingsVars => BookingsTypeOK'
<1> SUFFICES ASSUME BookingsTypeOK, [BookingsNext]_bookingsVars PROVE BookingsTypeOK'
  OBVIOUS
<1>1. ASSUME NEW k \in BookingIds, BookingSteps(k) PROVE BookingsTypeOK'
  BY <1>1, BookingSorts, ChangeKeepsTypes DEF BookingsTypeOK
<1>2. ASSUME NEW instant \in BOOLEAN, NEW paid \in BOOLEAN, update_space(instant, paid)
      PROVE  BookingsTypeOK'
  BY <1>2 DEF update_space, BookingsTypeOK
<1>3. CASE deactivate_space
  BY <1>3 DEF deactivate_space, BookingsTypeOK
<1>4. CASE time_passes
  BY <1>4, BookingsAssumption DEF time_passes, BookingsTypeOK, BookingsAssumption, Times
<1>5. CASE UNCHANGED bookingsVars
  BY <1>5 DEF bookingsVars, BookingsTypeOK
<1> QED
  BY <1>1, <1>2, <1>3, <1>4, <1>5 DEF BookingsNext

-----------------------------------------------------------------------------
LEMMA ChangeKeepsTimes ==
    ASSUME BookingsInv, NEW k \in BookingIds, Changes(k), UNCHANGED clock
    PROVE  EndedIsOver' /\ NoDoubleBooking'
<1>0. /\ booking \in [BookingIds -> BookingRow] /\ clock \in Int
      /\ \A q \in BookingIds : /\ booking[q].starts_at \in Int /\ booking[q].ends_at \in Int
                               /\ booking[q].approved_at \in Int
      /\ \A q \in BookingIds \ {k} : booking'[q] = booking[q]
  BY BookingsAssumption DEF BookingsInv, BookingsTypeOK, BookingRow, Times, Changes,
     Confirms, Drops, Ends, BookingsAssumption
<1>1. CASE Confirms(k)
  <2>1. /\ booking'[k].starts_at \in Int /\ booking'[k].ends_at \in Int
        /\ booking'[k].status = "confirmed" /\ booking'[k].approved_at = clock
    BY <1>1, BookingsAssumption DEF Confirms, BookingRow, Times, BookingsAssumption
  <2>2. EndedIsOver'
    BY <1>0, <2>1 DEF BookingsInv, EndedIsOver, Ended
  <2>3. ASSUME NEW q \in BookingIds \ {k}, Held(q),
               booking[q].starts_at < booking'[k].ends_at,
               booking'[k].starts_at < booking[q].ends_at
        PROVE  booking[q].ends_at <= booking'[k].approved_at
    <3>1. booking[q].status # "confirmed"
      BY <1>1, <2>3 DEF Confirms, ConfirmedOverlap
    <3> QED
      BY <2>1, <2>3, <3>1 DEF Held, BookingsInv, EndedIsOver, Ended
  <2>4. NoDoubleBooking'
    BY <1>0, <2>1, <2>3 DEF BookingsInv, NoDoubleBooking, Held
  <2> QED
    BY <2>2, <2>4
<1>2. CASE Drops(k)
  <2>1. booking'[k].status \in {"pending", "rejected", "cancelled"}
    BY <1>2 DEF Drops
  <2> QED
    BY <1>0, <2>1 DEF BookingsInv, EndedIsOver, Ended, NoDoubleBooking, Held
<1>3. CASE Ends(k)
  <2>1. /\ booking[k].status = "confirmed" /\ booking[k].ends_at <= clock
        /\ booking'[k].status \in {"completed", "no_show"}
        /\ booking'[k].starts_at = booking[k].starts_at
        /\ booking'[k].ends_at = booking[k].ends_at
        /\ booking'[k].approved_at = booking[k].approved_at
    BY <1>0, <1>3 DEF Ends, HasEnded, BookingRow
  <2>2. \A q \in BookingIds : Held(q)' = Held(q)
    BY <1>0, <2>1 DEF Held
  <2> QED
    BY <1>0, <2>1, <2>2 DEF BookingsInv, EndedIsOver, Ended, NoDoubleBooking
<1> QED
  BY <1>1, <1>2, <1>3 DEF Changes

LEMMA BookingTimesStep ==
    BookingsInv /\ [BookingsNext]_bookingsVars => EndedIsOver' /\ NoDoubleBooking'
<1> SUFFICES ASSUME BookingsInv, [BookingsNext]_bookingsVars
             PROVE  EndedIsOver' /\ NoDoubleBooking'
  OBVIOUS
<1>1. ASSUME NEW k \in BookingIds, BookingSteps(k)
      PROVE  EndedIsOver' /\ NoDoubleBooking'
  <2>1. CASE Changes(k)
    BY <1>1, <2>1, BookingSorts, ChangeKeepsTimes DEF BookingsInv
  <2>2. CASE UNCHANGED booking
    BY <1>1, <2>2, BookingSorts DEF BookingsInv, EndedIsOver, Ended, NoDoubleBooking, Held
  <2> QED
    BY <1>1, <2>1, <2>2, BookingSorts DEF BookingsInv
<1>2. CASE (\E instant, paid \in BOOLEAN : update_space(instant, paid))
           \/ deactivate_space \/ UNCHANGED bookingsVars
  BY <1>2 DEF update_space, deactivate_space, bookingsVars, BookingsInv, EndedIsOver,
     Ended, NoDoubleBooking, Held
<1>3. CASE time_passes
  <2>1. UNCHANGED booking /\ clock' = clock + 1 /\ clock \in Int
    BY <1>3, BookingsAssumption
    DEF time_passes, BookingsInv, BookingsTypeOK, Times, BookingsAssumption
  <2>2. \A k \in BookingIds : booking[k].ends_at \in Int
    BY BookingsAssumption
    DEF BookingsInv, BookingsTypeOK, BookingRow, Times, BookingsAssumption
  <2> QED
    BY <2>1, <2>2 DEF BookingsInv, EndedIsOver, Ended, NoDoubleBooking, Held
<1> QED
  BY <1>1, <1>2, <1>3 DEF BookingsNext

\* In every reachable state the space is promised to one person at a time.
THEOREM SpaceIsBookedOnce == BookingsSpec => []NoDoubleBooking
<1>1. BookingsInit => BookingsInv
  BY BookingTypesStart
  DEF BookingsInit, BookingsInv, EndedIsOver, Ended, NoDoubleBooking, Held, NoBooking
<1>2. BookingsInv /\ [BookingsNext]_bookingsVars => BookingsInv'
  BY BookingTypesStep, BookingTimesStep DEF BookingsInv
<1>3. BookingsInv => NoDoubleBooking
  BY DEF BookingsInv
<1> QED
  BY <1>1, <1>2, <1>3, PTL DEF BookingsSpec

-----------------------------------------------------------------------------
\* The bill of a booking is opened where it is confirmed and closed where it is
\* cancelled; nothing else makes a held booking one that is not.
LEMMA BillsStep ==
    ASSUME BookingsTypeOK, OnlyBookingsOwe, NEW k \in BookingIds, BookingSteps(k)
    PROVE  OnlyBookingsOwe'
<1> USE DEF BookingsTypeOK
<1>1. ASSUME NEW starts_at \in Times, NEW ends_at \in Times,
             create_booking(k, starts_at, ends_at)
      PROVE  OnlyBookingsOwe'
  BY <1>1 DEF create_booking, BillsFor, OnlyBookingsOwe, Held
<1>2. CASE approve_booking(k)
  BY <1>2 DEF approve_booking, BillsFor, OnlyBookingsOwe, Held
<1>3. CASE reject_booking(k)
  BY <1>3 DEF reject_booking, OnlyBookingsOwe, Held
<1>4. CASE cancel_booking(k)
  BY <1>4 DEF cancel_booking, BillsWithout, OnlyBookingsOwe, Held
<1>5. CASE complete_booking(k) \/ mark_no_show(k)
  <2>1. PICK to \in {"completed", "no_show"} : EndBooking(k, to)
    BY <1>5 DEF complete_booking, mark_no_show
  <2>2. \A q \in BookingIds : booking'[q].status = IF q = k THEN to ELSE booking[q].status
    BY <2>1 DEF EndBooking, BookingRow, BookingStatuses
  <2> QED
    BY <2>1, <2>2 DEF EndBooking, OnlyBookingsOwe, Held
<1>6. CASE bill_settled(k)
  BY <1>6 DEF bill_settled, OnlyBookingsOwe, Held
<1> QED
  BY <1>1, <1>2, <1>3, <1>4, <1>5, <1>6 DEF BookingSteps

\* Where the payments app answers, a pending charge belongs to a held booking.
THEOREM OnlyHeldBookingsAreCharged == BookingsSpec => []OnlyBookingsOwe
<1>1. BookingsInit => BookingsTypeOK /\ OnlyBookingsOwe
  BY BookingTypesStart DEF BookingsInit, OnlyBookingsOwe
<1>2. BookingsTypeOK /\ OnlyBookingsOwe /\ [BookingsNext]_bookingsVars
         => BookingsTypeOK' /\ OnlyBookingsOwe'
  <2> SUFFICES ASSUME BookingsTypeOK, OnlyBookingsOwe, [BookingsNext]_bookingsVars
               PROVE  OnlyBookingsOwe'
    BY BookingTypesStep
  <2>1. CASE \E k \in BookingIds : BookingSteps(k)
    BY <2>1, BillsStep
  <2>2. CASE UNCHANGED <<booking, bill>>
    BY <2>2 DEF OnlyBookingsOwe, Held
  <2> QED
    BY <2>1, <2>2 DEF BookingsNext, update_space, deactivate_space, time_passes, bookingsVars
<1> QED
  BY <1>1, <1>2, PTL DEF BookingsSpec

-----------------------------------------------------------------------------
HasRow(p) == membership[p].status # "absent"
Decided(r) == request[r].state \in {"active", "revoked"}

\* Memberships and linked requests belong to accounts.
RowsHaveAccounts ==
    /\ \A p \in Persons : HasRow(p) => account[p] # "none"
    /\ \A r \in MembershipRequests : request[r].linked => account[request[r].person] # "none"

\* Whoever came by a request or on their own has open requests of the account only.
NoStrayRequests ==
    \A p \in Persons, r \in MembershipRequests :
       HasRow(p) /\ membership[p].via # Staff /\ r \in OpenRequests(p) => request[r].linked

\* The request a member came by is decided, and so are stale ones.
UsedIsDecided ==
    /\ \A p \in Persons :
          IsMember(p) /\ membership[p].via \in MembershipRequests => Decided(membership[p].via)
    /\ \A r \in stale : Decided(r)

EntryInv == /\ MembershipsTypeOK /\ RowsHaveAccounts /\ NoStrayRequests
            /\ UsedIsDecided /\ RevokedStaysOut

-----------------------------------------------------------------------------
LEMMA MembershipsStart == MembershipsInit => EntryInv /\ PresentAreMembers
<1> SUFFICES ASSUME MembershipsInit PROVE EntryInv /\ PresentAreMembers
  OBVIOUS
<1>1. MembershipsTypeOK
  BY DEF MembershipsInit, MembershipsTypeOK, MembershipRow, NoMembership, RequestRow
<1>2. \A r \in MembershipRequests : ~IsOpen(r) /\ ~request[r].linked
  BY DEF MembershipsInit, IsOpen
<1>3. \A p \in Persons : HasRow(p) => account[p] # "none" /\ membership[p].via = Staff
  BY DEF MembershipsInit, HasRow, NoMembership
<1>4. stale = {} /\ \A p \in Persons : session[p] = "none"
  BY DEF MembershipsInit
<1>5. \A p \in Persons : IsMember(p) => HasRow(p)
  BY DEF IsMember, HasRow
<1>6. Staff \notin MembershipRequests
  BY MembershipsAssumption DEF MembershipsAssumption, Staff
<1> QED
  BY <1>1, <1>2, <1>3, <1>4, <1>5, <1>6
  DEF EntryInv, RowsHaveAccounts, NoStrayRequests, UsedIsDecided, RevokedStaysOut,
      PresentAreMembers

LEMMA RequestNames == NoRequest \notin MembershipRequests /\ Staff \notin MembershipRequests
BY MembershipsAssumption DEF MembershipsAssumption, NoRequest, Staff

-----------------------------------------------------------------------------
\* The rows after an activation that r drives.
LEMMA ActivateDoes ==
    ASSUME MembershipsTypeOK, NEW p \in Persons, NEW r \in MembershipRequests \cup {NoRequest},
           r # NoRequest => IsOpen(r), Activate(p, r)
    PROVE  /\ membership' \in [Persons -> MembershipRow]
           /\ request' \in [MembershipRequests -> RequestRow]
           /\ IsMember(p)'
           /\ IsMember(p) => membership' = membership
           /\ ~IsMember(p) => membership'[p].via = r
           /\ \A q \in Persons \ {p} : membership'[q] = membership[q]
           /\ \A q \in MembershipRequests :
                 /\ request'[q].person = request[q].person
                 /\ q # r => request'[q].linked = request[q].linked
                 /\ IF q \in OpenRequests(p) \cup {r} THEN request'[q].state = "active"
                    ELSE request'[q] = request[q]
<1> USE DEF MembershipsTypeOK
<1>1. /\ membership' \in [Persons -> MembershipRow]
      /\ IsMember(p)' /\ (IsMember(p) => membership' = membership)
      /\ ~IsMember(p) => membership'[p].via = r
      /\ \A q \in Persons \ {p} : membership'[q] = membership[q]
  BY DEF Activate, IsMember, MembershipRow
<1>2. \A S \in SUBSET MembershipRequests :
         /\ Decide(S, "active") \in [MembershipRequests -> RequestRow]
         /\ \A q \in MembershipRequests : Decide(S, "active")[q] =
               IF q \in S THEN [request[q] EXCEPT !.state = "active"] ELSE request[q]
  BY DEF Decide, RequestRow
<1>3. Activated(p) \cup ({r} \ {NoRequest}) \in SUBSET MembershipRequests
  BY DEF Activated, OpenRequests
<1>4. CASE r = NoRequest
  <2>1. request' = Decide(OpenRequests(p), "active")
    BY <1>4 DEF Activate, Activated
  <2>2. OpenRequests(p) \subseteq MembershipRequests
    BY DEF OpenRequests
  <2>3. request' \in [MembershipRequests -> RequestRow]
    BY <1>2, <2>1, <2>2
  <2>4. ASSUME NEW q \in MembershipRequests
        PROVE  /\ request'[q].person = request[q].person /\ request'[q].linked = request[q].linked
               /\ IF q \in OpenRequests(p) \cup {r} THEN request'[q].state = "active"
                  ELSE request'[q] = request[q]
    <3>1. request'[q] = IF q \in OpenRequests(p) THEN [request[q] EXCEPT !.state = "active"]
                        ELSE request[q]
      BY <1>2, <2>1, <2>2
    <3>2. q \in OpenRequests(p) \cup {r} <=> q \in OpenRequests(p)
      BY <1>4, RequestNames
    <3>3. request[q] \in RequestRow
      OBVIOUS
    <3> QED
      BY <3>1, <3>2, <3>3 DEF RequestRow
  <2> QED
    BY <1>1, <2>3, <2>4
<1>5. CASE r # NoRequest
  <2> DEFINE closed == Decide(OpenRequests(p) \cup {r}, "active")
  <2>1. request' = [closed EXCEPT ![r].linked = TRUE] /\ r \in MembershipRequests
    BY <1>5 DEF Activate, Activated
  <2>2. OpenRequests(p) \cup {r} \in SUBSET MembershipRequests
    BY <2>1 DEF OpenRequests
  <2>3. /\ closed \in [MembershipRequests -> RequestRow]
        /\ \A q \in MembershipRequests : closed[q] =
              IF q \in OpenRequests(p) \cup {r} THEN [request[q] EXCEPT !.state = "active"]
              ELSE request[q]
    BY <1>2, <2>2
  <2> HIDE DEF closed
  <2>4. request' \in [MembershipRequests -> RequestRow]
    BY <2>1, <2>3, ZenonT(60) DEF RequestRow
  <2>5. ASSUME NEW q \in MembershipRequests
        PROVE  /\ request'[q].person = request[q].person
               /\ q # r => request'[q].linked = request[q].linked
               /\ IF q \in OpenRequests(p) \cup {r} THEN request'[q].state = "active"
                  ELSE request'[q] = request[q]
    <3>1. request'[q] = IF q = r THEN [closed[q] EXCEPT !.linked = TRUE] ELSE closed[q]
      BY <2>1, <2>3
    <3>2. request[q] \in RequestRow
      OBVIOUS
    <3>3. closed[q] = IF q \in OpenRequests(p) \cup {r}
                      THEN [request[q] EXCEPT !.state = "active"] ELSE request[q]
      BY <2>3
    <3>4. CASE q \in OpenRequests(p) \cup {r}
      BY <3>1, <3>2, <3>3, <3>4, ZenonT(60) DEF RequestRow
    <3>5. CASE q \notin OpenRequests(p) \cup {r}
      BY <3>1, <3>3, <3>5
    <3> QED
      BY <3>4, <3>5
  <2> QED
    BY <1>1, <2>4, <2>5
<1> QED
  BY <1>4, <1>5

\* An activation by an open request, or without one, keeps the invariant.
LEMMA ActivateKeeps ==
    ASSUME EntryInv, NEW p \in Persons, NEW r \in MembershipRequests \cup {NoRequest},
           r # NoRequest => IsOpen(r) /\ request[r].person = p,
           account[p] # "none", Activate(p, r), UNCHANGED <<makerspace, account, session, stale>>
    PROVE  EntryInv'
<1> DEFINE Touched == OpenRequests(p) \cup {r}
<1>0. /\ membership' \in [Persons -> MembershipRow]
      /\ request' \in [MembershipRequests -> RequestRow]
      /\ IsMember(p)'
      /\ IsMember(p) => membership' = membership
      /\ ~IsMember(p) => membership'[p].via = r
      /\ \A q \in Persons \ {p} : membership'[q] = membership[q]
      /\ \A q \in MembershipRequests :
            /\ request'[q].person = request[q].person
            /\ q # r => request'[q].linked = request[q].linked
            /\ IF q \in Touched THEN request'[q].state = "active" ELSE request'[q] = request[q]
  BY ActivateDoes DEF EntryInv
<1>1. MembershipsTypeOK'
  BY <1>0 DEF EntryInv, MembershipsTypeOK
<1>2. RowsHaveAccounts'
  <2>1. \A q \in Persons : HasRow(q)' => HasRow(q) \/ q = p
    BY <1>0 DEF HasRow
  <2>2. \A q \in MembershipRequests : q # r /\ request'[q].linked => request[q].linked
    BY <1>0
  <2>3. \A q \in MembershipRequests : request'[q].person = request[q].person
    BY <1>0
  <2>4. r \in MembershipRequests => request[r].person = p
    BY RequestNames
  <2> QED
    BY <2>1, <2>2, <2>3, <2>4 DEF EntryInv, RowsHaveAccounts
<1>3. \A q \in MembershipRequests : IsOpen(q)' => IsOpen(q) /\ q \notin Touched
  BY <1>0 DEF IsOpen
<1>4. \A q \in MembershipRequests : Decided(q) => Decided(q)'
  BY <1>0 DEF Decided
<1>5. r # NoRequest => Decided(r)'
  BY <1>0 DEF Decided
<1>6. OpenRequests(p)' = {}
  BY <1>0, <1>3 DEF OpenRequests
<1>7. NoStrayRequests'
  <2> SUFFICES ASSUME NEW s \in Persons, NEW q \in MembershipRequests,
                      HasRow(s)', membership'[s].via # Staff, q \in OpenRequests(s)'
               PROVE  request'[q].linked
    BY DEF NoStrayRequests
  <2>1. s # p
    BY <1>6
  <2>2. q \in OpenRequests(s) /\ request'[q] = request[q]
    BY <1>0, <1>3 DEF OpenRequests
  <2> QED
    BY <1>0, <2>1, <2>2 DEF EntryInv, NoStrayRequests, HasRow
<1>8. UsedIsDecided'
  <2>1. ASSUME NEW s \in Persons, IsMember(s)', membership'[s].via \in MembershipRequests
        PROVE  Decided(membership[s].via)'
    <3>1. CASE s = p /\ ~IsMember(p)
      BY <1>0, <1>5, <2>1, <3>1, RequestNames DEF Decided
    <3>2. CASE ~(s = p /\ ~IsMember(p))
      <4>1. IsMember(s) /\ membership'[s].via = membership[s].via
        BY <1>0, <2>1, <3>2 DEF IsMember
      <4> QED
        BY <1>4, <2>1, <4>1 DEF EntryInv, UsedIsDecided, Decided
    <3> QED
      BY <3>1, <3>2
  <2>2. \A q \in stale' : Decided(q)'
    BY <1>1, <1>4 DEF EntryInv, UsedIsDecided, MembershipsTypeOK, Decided
  <2> QED
    BY <2>1, <2>2 DEF UsedIsDecided
<1>9. RevokedStaysOut'
  <2>1. r \notin stale
    BY RequestNames DEF EntryInv, UsedIsDecided, Decided, IsOpen, MembershipsTypeOK
  <2> QED
    BY <1>0, <2>1 DEF EntryInv, RevokedStaysOut, IsMember
<1> QED
  BY <1>1, <1>2, <1>7, <1>8, <1>9 DEF EntryInv

\* So does a request or an invitation that is linked if there is an account.
LEMMA CreateKeeps ==
    ASSUME EntryInv, NEW r \in MembershipRequests, NEW row \in RequestRow,
           row.linked <=> account[row.person] # "none", CreateRequest(r, row),
           UNCHANGED <<makerspace, account, session, stale>>
    PROVE  EntryInv'
<1>0. /\ request[r].state = "absent" /\ UNCHANGED membership
      /\ request' \in [MembershipRequests -> RequestRow]
      /\ request'[r] = row
      /\ \A q \in MembershipRequests \ {r} : request'[q] = request[q]
  BY DEF CreateRequest, EntryInv, MembershipsTypeOK
<1>1. MembershipsTypeOK'
  BY <1>0 DEF EntryInv, MembershipsTypeOK
<1>2. RowsHaveAccounts'
  BY <1>0 DEF EntryInv, RowsHaveAccounts, HasRow, RequestRow
<1>3. NoStrayRequests'
  BY <1>0 DEF EntryInv, NoStrayRequests, RowsHaveAccounts, HasRow, OpenRequests, IsOpen,
     RequestRow
<1>4. UsedIsDecided' /\ RevokedStaysOut'
  BY <1>0 DEF EntryInv, UsedIsDecided, RevokedStaysOut, Decided, IsMember, MembershipsTypeOK
<1> QED
  BY <1>1, <1>2, <1>3, <1>4 DEF EntryInv

\* Requests that are decided or linked, nothing else.
LEMMA DecideKeeps ==
    ASSUME EntryInv, request' \in [MembershipRequests -> RequestRow],
           \A r \in MembershipRequests :
              /\ request'[r].person = request[r].person
              /\ request[r].linked => request'[r].linked
              /\ request'[r].linked => account[request[r].person] # "none"
              /\ request'[r].state = request[r].state
                    \/ (request[r].state # "absent" /\ request'[r].state = "revoked"),
           UNCHANGED <<makerspace, account, membership, session, stale>>
    PROVE  EntryInv'
<1>1. MembershipsTypeOK'
  BY DEF EntryInv, MembershipsTypeOK
<1>2. RowsHaveAccounts'
  BY DEF EntryInv, RowsHaveAccounts, HasRow
<1>3. NoStrayRequests'
  BY DEF EntryInv, NoStrayRequests, HasRow, OpenRequests, IsOpen
<1>4. UsedIsDecided' /\ RevokedStaysOut'
  BY DEF EntryInv, UsedIsDecided, RevokedStaysOut, Decided, IsMember, MembershipsTypeOK
<1> QED
  BY <1>1, <1>2, <1>3, <1>4 DEF EntryInv

LEMMA RevokeKeeps ==
    ASSUME EntryInv, NEW p \in Persons, HasRow(p), Revoke(p)
    PROVE  EntryInv'
<1> DEFINE Closed == OpenLinked(p)
<1>0. /\ membership' \in [Persons -> MembershipRow]
      /\ ~IsMember(p)' /\ membership'[p].via = membership[p].via
      /\ \A q \in Persons \ {p} : membership'[q] = membership[q]
      /\ UNCHANGED <<makerspace, account>>
      /\ session' \in [Persons -> {"none", "live", "over"}]
  BY DEF Revoke, EntryInv, MembershipsTypeOK, MembershipRow, IsMember, SessionsEnded
<1>1. /\ request' \in [MembershipRequests -> RequestRow]
      /\ \A q \in MembershipRequests :
            /\ request'[q].person = request[q].person
            /\ request'[q].linked = request[q].linked
            /\ request'[q].state = IF q \in Closed THEN "revoked" ELSE request[q].state
  BY DEF Revoke, Decide, EntryInv, MembershipsTypeOK, RequestRow
<1>2. stale' \subseteq MembershipRequests
  BY DEF Revoke, EntryInv, MembershipsTypeOK, OpenRequests
<1>3. MembershipsTypeOK'
  BY <1>0, <1>1, <1>2 DEF EntryInv, MembershipsTypeOK
<1>4. RowsHaveAccounts'
  BY <1>0, <1>1 DEF EntryInv, RowsHaveAccounts, HasRow
<1>5. NoStrayRequests'
  <2> SUFFICES ASSUME NEW s \in Persons, NEW q \in MembershipRequests,
                      HasRow(s)', membership'[s].via # Staff, q \in OpenRequests(s)'
               PROVE  request'[q].linked
    BY DEF NoStrayRequests
  <2>1. HasRow(s) /\ membership[s].via # Staff
    BY <1>0 DEF HasRow
  <2>2. q \in OpenRequests(s)
    BY <1>1 DEF OpenRequests, IsOpen
  <2> QED
    BY <1>1, <2>1, <2>2 DEF EntryInv, NoStrayRequests
<1>6. \A q \in MembershipRequests : Decided(q) => Decided(q)'
  BY <1>1 DEF Decided, OpenLinked
<1>7. \A q \in stale' \ stale : Decided(q)' /\ ~Decided(q)
  <2> SUFFICES ASSUME NEW q \in stale' \ stale PROVE Decided(q)' /\ ~Decided(q)
    OBVIOUS
  <2>1. membership[p].via # Staff /\ q \in OpenRequests(p)
    BY DEF Revoke
  <2>2. q \in MembershipRequests /\ IsOpen(q)
    BY <2>1 DEF OpenRequests
  <2>3. request[q].linked
    BY <2>1, <2>2 DEF EntryInv, NoStrayRequests
  <2>4. q \in Closed
    BY <2>1, <2>3 DEF OpenLinked
  <2> QED
    BY <1>1, <2>2, <2>4 DEF Decided, IsOpen
<1>8. UsedIsDecided'
  BY <1>0, <1>6, <1>7 DEF EntryInv, UsedIsDecided, IsMember, MembershipsTypeOK
<1>9. RevokedStaysOut'
  <2> SUFFICES ASSUME NEW s \in Persons, IsMember(s)', membership'[s].via \in stale'
               PROVE  FALSE
    BY DEF RevokedStaysOut
  <2>1. s # p /\ IsMember(s) /\ membership'[s].via = membership[s].via
    BY <1>0 DEF IsMember
  <2>2. membership[s].via \notin stale /\ membership[s].via \in MembershipRequests
    BY <1>2, <2>1 DEF EntryInv, RevokedStaysOut
  <2> QED
    BY <1>7, <2>1, <2>2 DEF EntryInv, UsedIsDecided
<1> QED
  BY <1>3, <1>4, <1>5, <1>8, <1>9 DEF EntryInv

-----------------------------------------------------------------------------
LEMMA RequestsKeep ==
    ASSUME EntryInv, NEW r \in MembershipRequests,
           \/ claim_invitation(r) \/ approve_request(r) \/ revoke_request(r)
           \/ \E p \in Persons :
                 \/ request_membership(p, r) \/ invite_membership(r, p)
                 \/ \E actor \in Persons : refer_membership(actor, r, p)
    PROVE  EntryInv'
<1>0. request[r].person \in Persons /\ request[r] \in RequestRow
      /\ request \in [MembershipRequests -> RequestRow]
  BY DEF EntryInv, MembershipsTypeOK, RequestRow
<1>1. CASE claim_invitation(r)
  <2>1. CASE Activate(request[r].person, r)
    BY <1>0, <1>1, <2>1, ActivateKeeps DEF claim_invitation, IsOpen
  <2>2. CASE request' = [request EXCEPT ![r].linked = TRUE] /\ UNCHANGED membership
    <3>1. /\ request' \in [MembershipRequests -> RequestRow]
          /\ \A q \in MembershipRequests :
                /\ request'[q].person = request[q].person
                /\ request'[q].state = request[q].state
                /\ request'[q].linked = IF q = r THEN TRUE ELSE request[q].linked
      BY <1>0, <2>2 DEF RequestRow
    <3> QED
      BY <1>1, <2>2, <3>1, DecideKeeps DEF claim_invitation, EntryInv, RowsHaveAccounts
  <2> QED
    BY <1>1, <2>1, <2>2 DEF claim_invitation
<1>2. CASE approve_request(r)
  BY <1>0, <1>2, ActivateKeeps DEF approve_request, EntryInv, RowsHaveAccounts
<1>3. CASE revoke_request(r)
  <2>1. CASE Revoke(request[r].person) /\ HasRow(request[r].person)
    BY <1>0, <2>1, RevokeKeeps
  <2>2. CASE request' = Decide({r}, "revoked")
             /\ UNCHANGED <<makerspace, account, membership, session, stale>>
    <3>1. /\ request' \in [MembershipRequests -> RequestRow]
          /\ \A q \in MembershipRequests :
                /\ request'[q].person = request[q].person
                /\ request'[q].linked = request[q].linked
                /\ request'[q].state = IF q = r THEN "revoked" ELSE request[q].state
      BY <1>0, <2>2 DEF Decide, RequestRow
    <3> QED
      BY <1>3, <2>2, <3>1, DecideKeeps DEF revoke_request, EntryInv, RowsHaveAccounts
  <2> QED
    BY <1>3, <2>1, <2>2 DEF revoke_request, HasRow
<1>4. ASSUME NEW p \in Persons, request_membership(p, r) PROVE EntryInv'
  <2>1. CASE Activate(p, NoRequest)
    BY <1>4, <2>1, ActivateKeeps DEF request_membership
  <2>2. CASE \E row \in RequestRow : row.linked /\ row.person = p /\ CreateRequest(r, row)
    BY <1>4, <2>2, CreateKeeps DEF request_membership
  <2>3. [state |-> "requested", person |-> p, linked |-> TRUE, auto |-> FALSE] \in RequestRow
    BY DEF RequestRow
  <2> QED
    BY <1>4, <2>1, <2>2, <2>3 DEF request_membership
<1>5. ASSUME NEW p \in Persons, NEW auto \in BOOLEAN, Invite(r, p, auto) PROVE EntryInv'
  <2> DEFINE row == [state |-> "invited", person |-> p, linked |-> account[p] # "none",
                     auto |-> auto]
  <2>1. row \in RequestRow /\ (row.linked <=> account[row.person] # "none")
    BY DEF RequestRow
  <2>2. CreateRequest(r, row) /\ UNCHANGED <<makerspace, account, session, stale>>
    BY <1>5 DEF Invite
  <2> QED
    BY <2>1, <2>2, CreateKeeps
<1> QED
  BY <1>1, <1>2, <1>3, <1>4, <1>5 DEF invite_membership, refer_membership

LEMMA MembersKeep ==
    ASSUME EntryInv, NEW p \in Persons,
           \/ revoke_membership(p) \/ attach_staff(p) \/ delete_membership(p)
           \/ \E value \in BOOLEAN : set_can_refer(p, value)
           \/ start_session(p) \/ end_session(p) \/ verify_email(p)
    PROVE  EntryInv'
<1> USE DEF EntryInv
<1>1. CASE revoke_membership(p)
  BY <1>1, RevokeKeeps DEF revoke_membership, HasRow
<1>2. CASE attach_staff(p)
  <2>1. /\ membership' \in [Persons -> MembershipRow] /\ IsMember(p)'
        /\ membership'[p].via = IF IsMember(p) THEN membership[p].via ELSE Staff
        /\ \A q \in Persons \ {p} : membership'[q] = membership[q]
        /\ account' \in [Persons -> {"none", "unverified", "verified"}]
        /\ account'[p] # "none" /\ \A q \in Persons \ {p} : account'[q] = account[q]
        /\ UNCHANGED <<makerspace, request, session, stale>>
    BY <1>2 DEF attach_staff, MembershipsTypeOK, MembershipRow, IsMember
  <2>2. MembershipsTypeOK'
    BY <2>1 DEF MembershipsTypeOK
  <2>3. RowsHaveAccounts'
    <3>1. \A q \in Persons : account[q] # "none" => account'[q] # "none"
      BY <2>1
    <3>2. \A r \in MembershipRequests : request[r].person \in Persons
      BY DEF MembershipsTypeOK, RequestRow
    <3> QED
      BY <2>1, <3>1, <3>2 DEF RowsHaveAccounts, HasRow
  <2>4. NoStrayRequests'
    BY <2>1 DEF NoStrayRequests, HasRow, IsMember, OpenRequests, IsOpen
  <2>5. UsedIsDecided' /\ RevokedStaysOut'
    BY <2>1, RequestNames DEF UsedIsDecided, RevokedStaysOut, Decided, IsMember,
       MembershipsTypeOK
  <2> QED
    BY <2>2, <2>3, <2>4, <2>5
<1>3. CASE delete_membership(p)
  <2>1. /\ membership' \in [Persons -> MembershipRow] /\ ~HasRow(p)'
        /\ \A q \in Persons \ {p} : membership'[q] = membership[q]
        /\ UNCHANGED <<makerspace, account, request, session, stale>>
    BY <1>3 DEF delete_membership, MembershipsTypeOK, MembershipRow, HasRow, NoMembership
  <2> QED
    BY <2>1 DEF MembershipsTypeOK, RowsHaveAccounts, NoStrayRequests, UsedIsDecided,
       RevokedStaysOut, Decided, IsMember, HasRow, OpenRequests, IsOpen
<1>4. ASSUME NEW value \in BOOLEAN, set_can_refer(p, value) PROVE EntryInv'
  <2>1. /\ membership' \in [Persons -> MembershipRow]
        /\ \A q \in Persons : membership'[q].status = membership[q].status
                              /\ membership'[q].via = membership[q].via
        /\ UNCHANGED <<makerspace, account, request, session, stale>>
    BY <1>4 DEF set_can_refer, MembershipsTypeOK, MembershipRow
  <2> QED
    BY <2>1 DEF MembershipsTypeOK, RowsHaveAccounts, NoStrayRequests, UsedIsDecided,
       RevokedStaysOut, Decided, IsMember, HasRow, OpenRequests, IsOpen
<1>5. CASE start_session(p) \/ end_session(p)
  <2>1. session' \in [Persons -> {"none", "live", "over"}]
        /\ UNCHANGED <<makerspace, account, membership, request, stale>>
    BY <1>5 DEF start_session, end_session, MembershipsTypeOK
  <2> QED
    BY <2>1 DEF MembershipsTypeOK, RowsHaveAccounts, NoStrayRequests, UsedIsDecided,
       RevokedStaysOut, Decided, IsMember, HasRow, OpenRequests, IsOpen
<1>6. CASE verify_email(p)
  <2>1. /\ account' \in [Persons -> {"none", "unverified", "verified"}]
        /\ \A q \in Persons : account[q] # "none" => account'[q] # "none"
        /\ UNCHANGED <<makerspace, membership, request, session, stale>>
    BY <1>6 DEF verify_email, MembershipsTypeOK
  <2>2. \A r \in MembershipRequests : request[r].person \in Persons
    BY DEF MembershipsTypeOK, RequestRow
  <2> QED
    BY <2>1, <2>2 DEF MembershipsTypeOK, RowsHaveAccounts, NoStrayRequests, UsedIsDecided,
       RevokedStaysOut, Decided, IsMember, HasRow, OpenRequests, IsOpen
<1> QED
  BY <1>1, <1>2, <1>3, <1>4, <1>5, <1>6

LEMMA EntryStep == EntryInv /\ [MembershipsNext]_membershipVars => EntryInv'
<1> SUFFICES ASSUME EntryInv, [MembershipsNext]_membershipVars PROVE EntryInv'
  OBVIOUS
<1>1. CASE RequestSteps
  BY <1>1, RequestsKeep DEF RequestSteps
<1>2. CASE MemberSteps
  BY <1>2, MembersKeep DEF MemberSteps
<1>3. CASE (\E policy \in Policies : set_policy(policy)) \/ UNCHANGED membershipVars
  <2>1. makerspace' \in Policies /\ UNCHANGED <<account, membership, request, session, stale>>
    BY <1>3 DEF set_policy, membershipVars, EntryInv, MembershipsTypeOK
  <2> QED
    BY <2>1 DEF EntryInv, MembershipsTypeOK, RowsHaveAccounts, NoStrayRequests,
       UsedIsDecided, RevokedStaysOut, Decided, IsMember, HasRow, OpenRequests, IsOpen
<1> QED
  BY <1>1, <1>2, <1>3 DEF MembershipsNext

\* A request that was open when a person was revoked never brings them back.
THEOREM RevokedMembersStayOut == MembershipsSpec => []RevokedStaysOut
<1>1. EntryInv => RevokedStaysOut
  BY DEF EntryInv
<1> QED
  BY <1>1, MembershipsStart, EntryStep, PTL DEF MembershipsSpec

-----------------------------------------------------------------------------
\* Only revocation and deletion take a membership away: the first ends the
\* session, the second is refused where there is one.
LEMMA PresenceStep ==
    ASSUME MembershipsTypeOK, PresentAreMembers, [MembershipsNext]_membershipVars
    PROVE  PresentAreMembers'
<1>1. ASSUME NEW p \in Persons, NEW r \in MembershipRequests \cup {NoRequest}, Activate(p, r),
             UNCHANGED session
      PROVE  PresentAreMembers'
  BY <1>1 DEF Activate, MembershipsTypeOK, PresentAreMembers, IsMember
<1>2. ASSUME NEW p \in Persons, Revoke(p) PROVE PresentAreMembers'
  BY <1>2 DEF Revoke, SessionsEnded, MembershipsTypeOK, PresentAreMembers, IsMember
<1>3. ASSUME UNCHANGED <<membership, session>> PROVE PresentAreMembers'
  BY <1>3 DEF PresentAreMembers, IsMember
<1>4. ASSUME NEW r \in MembershipRequests, request[r].person \in Persons,
             claim_invitation(r) \/ approve_request(r) \/ revoke_request(r)
      PROVE  PresentAreMembers'
  BY <1>1, <1>2, <1>3, <1>4 DEF claim_invitation, approve_request, revoke_request
<1>5. ASSUME NEW r \in MembershipRequests, NEW p \in Persons, NEW actor \in Persons,
             request_membership(p, r) \/ invite_membership(r, p) \/ refer_membership(actor, r, p)
      PROVE  PresentAreMembers'
  BY <1>1, <1>3, <1>5
  DEF request_membership, invite_membership, refer_membership, Invite, CreateRequest
<1>6. CASE RequestSteps
  <2>1. \A r \in MembershipRequests : request[r].person \in Persons
    BY DEF MembershipsTypeOK, RequestRow
  <2> QED
    BY <1>4, <1>5, <1>6, <2>1 DEF RequestSteps
<1>7. ASSUME NEW p \in Persons, revoke_membership(p) PROVE PresentAreMembers'
  BY <1>2, <1>7 DEF revoke_membership
<1>8. ASSUME NEW p \in Persons, attach_staff(p) PROVE PresentAreMembers'
  BY <1>8 DEF attach_staff, MembershipsTypeOK, PresentAreMembers, IsMember
<1>9. ASSUME NEW p \in Persons, delete_membership(p) PROVE PresentAreMembers'
  BY <1>9 DEF delete_membership, MembershipsTypeOK, PresentAreMembers, IsMember, NoMembership
<1>10. ASSUME NEW p \in Persons, NEW value \in BOOLEAN, set_can_refer(p, value)
       PROVE  PresentAreMembers'
  <2>1. \A q \in Persons : membership'[q].status = membership[q].status
    BY <1>10 DEF set_can_refer, MembershipsTypeOK, MembershipRow
  <2> QED
    BY <1>10, <2>1 DEF set_can_refer, PresentAreMembers, IsMember
<1>11. ASSUME NEW p \in Persons, start_session(p) \/ end_session(p) PROVE PresentAreMembers'
  BY <1>11 DEF start_session, end_session, MembershipsTypeOK, PresentAreMembers, IsMember
<1>12. CASE MemberSteps
  BY <1>3, <1>7, <1>8, <1>9, <1>10, <1>11, <1>12 DEF MemberSteps, verify_email
<1> QED
  BY <1>3, <1>6, <1>12 DEF MembershipsNext, set_policy, membershipVars

\* Whoever has a live session is a member at that moment.
THEOREM WhoeverIsPresentIsAMember == MembershipsSpec => []PresentAreMembers
<1>1. EntryInv /\ PresentAreMembers /\ [MembershipsNext]_membershipVars => PresentAreMembers'
  BY PresenceStep DEF EntryInv
<1> QED
  BY <1>1, MembershipsStart, EntryStep, PTL DEF MembershipsSpec
=============================================================================
