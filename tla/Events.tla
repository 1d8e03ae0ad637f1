-------------------------------- MODULE Events --------------------------------
(***************************************************************************)
(* One event and its registrations (apps/events): capacity, the waitlist   *)
(* and the charge of each registration.  Every service locks the event row *)
(* first, so each is one step; time passes between them.                   *)
(***************************************************************************)
EXTENDS Integers, FiniteSets

CONSTANTS
    People,         \* members, each with at most one registration row
    MaxCapacity,    \* bound: largest capacity staff enter
    Unreliable      \* those for whom calls into the payments app may fail

ASSUME EventsAssumption ==
    /\ IsFiniteSet(People)
    /\ MaxCapacity \in Nat
    /\ Unreliable \subseteq People

VARIABLES
    event,         \* the Event row, and whether it is over
    registration,  \* status of each person's EventRegistration
    ahead,         \* the rows with an earlier created_at
    charge         \* status of the Payment of each registration

vars == <<event, registration, ahead, charge>>

EventStatuses == {"draft", "published", "cancelled", "completed"}
RegistrationStatuses ==
    {"absent", "registered", "waitlisted", "cancelled", "attended"}
Charges == {"none", "pending", "settled", "canceled"}

\* capacity 0 stands for unlimited; over is ends_at < now.
EventRow == [status : EventStatuses, capacity : 0..MaxCapacity,
             public : BOOLEAN, paid : BOOLEAN, over : BOOLEAN]

With(st) == {r \in People : registration[r] = st}
Rows == People \ With("absent")
Confirmed == With("registered") \cup With("attended")
Waiters == With("waitlisted")

\* Types, and created_at orders the rows.
EventsTypeOK ==
    /\ event \in EventRow
    /\ registration \in [People -> RegistrationStatuses]
    /\ ahead \in [People -> SUBSET People]
    /\ \A q, r \in Rows : q \in ahead[r] <=> q # r /\ r \notin ahead[q]
    /\ charge \in [People -> Charges]

Init ==
    /\ event \in {e \in EventRow : e.status = "draft"}
    /\ registration = [r \in People |-> "absent"]
    /\ ahead = [r \in People |-> {}]
    /\ charge = [r \in People |-> "none"]

-----------------------------------------------------------------------------
\* Fault: people who attended give their seat back.
SpotsIgnoreAttended ==
    event.capacity = 0 \/ Cardinality(With("registered")) < event.capacity

\* spots_left is None or positive
SpotsLeft == event.capacity = 0 \/ Cardinality(Confirmed) < event.capacity

\* Fault: an event over once takes nobody more from its waitlist.
MayPromoteOver(e) == e.status = "published" /\ ~e.over /\ ~event.over

MayPromote(e) == e.status = "published" /\ ~e.over

\* Fault: the waiters are taken in any order.
FirstOfAny(S) == S \subseteq Waiters

\* S is an initial part of the waiters ordered by created_at.
FirstOf(S) ==
    /\ S \subseteq Waiters
    /\ \A r \in S : ahead[r] \cap Waiters \subseteq S

\* create_for_registered_registration of each row of S: an existing payment is
\* kept, whatever its status; a failure is swallowed.
ChargesFor(e, S) ==
    LET due == {r \in S : e.paid /\ charge[r] = "none"}
    IN  {[r \in People |-> IF r \in T THEN "pending" ELSE charge[r]] :
            T \in {T \in SUBSET due : due \ T \subseteq Unreliable}}

\* Fault: the charge stays.
ChargesKept(r) == {charge}

\* cancel_for_registration
ChargesWithout(r) ==
    {[charge EXCEPT ![r] = IF charge[r] = "pending" THEN "canceled" ELSE @]}
        \cup (IF r \in Unreliable THEN {charge} ELSE {})

Seat(S) == [r \in People |-> IF r \in S THEN "registered" ELSE registration[r]]

-----------------------------------------------------------------------------
\* The refusal of update_event.
Fits(capacity) == capacity = 0 \/ Cardinality(Confirmed) <= capacity

\* Any update promotes as many waiters as there is room for.
update_event(e) ==
    /\ event.status \in {"draft", "published"} /\ e.status = event.status
    /\ Fits(e.capacity)
    /\ event' = e
    /\ \E S \in SUBSET Waiters :
          /\ FirstOf(S)
          /\ IF ~MayPromote(e) THEN S = {}
             ELSE IF e.capacity = 0 THEN S = Waiters
             ELSE \/ S = Waiters /\ Cardinality(S) + Cardinality(Confirmed) <= e.capacity
                  \/ Cardinality(S) + Cardinality(Confirmed) = e.capacity
          /\ registration' = Seat(S)
          /\ charge' \in ChargesFor(e, S)
    /\ UNCHANGED ahead

publish ==
    /\ event.status = "draft" /\ ~event.over
    /\ event' = [event EXCEPT !.status = "published"]
    /\ UNCHANGED <<registration, ahead, charge>>

Transition(to) ==
    /\ event.status = "published"
    /\ event' = [event EXCEPT !.status = to]
    /\ UNCHANGED <<registration, ahead, charge>>
cancel == Transition("cancelled")
complete == Transition("completed")

\* Fault: one who comes back stands before and after the others.
PlaceTwice(r) == [ahead EXCEPT ![r] = Rows \ {r}]

\* created_at is the time of the last registration.
PlaceAtEnd(r) ==
    [q \in People |-> IF q = r THEN Rows \ {r} ELSE ahead[q] \ {r}]

\* A first registration, or one after a cancellation.
register(r) ==
    /\ event.public /\ event.status = "published" /\ ~event.over
    /\ registration[r] \in {"absent", "cancelled"}
    /\ ahead' = PlaceAtEnd(r)
    /\ IF SpotsLeft
       THEN /\ registration' = [registration EXCEPT ![r] = "registered"]
            /\ charge' \in ChargesFor(event, {r})
       ELSE /\ registration' = [registration EXCEPT ![r] = "waitlisted"]
            /\ UNCHANGED charge
    /\ UNCHANGED event

\* The seat of r goes to the first waiter, if the event still takes people.
FreesSeat(r) ==
    /\ registration[r] = "registered" /\ event.capacity > 0 /\ MayPromote(event)
    /\ Waiters # {}

cancel_registration(r) ==
    /\ registration[r] \in {"registered", "waitlisted"}
    /\ \E S \in SUBSET Waiters :
          /\ FirstOf(S) /\ Cardinality(S) = IF FreesSeat(r) THEN 1 ELSE 0
          /\ registration' = [Seat(S) EXCEPT ![r] = "cancelled"]
          /\ \E c \in ChargesWithout(r) :
                \E d \in ChargesFor(event, S) :
                    charge' = [d EXCEPT ![r] = c[r]]
    /\ UNCHANGED <<event, ahead>>

mark_attended(r) ==
    /\ registration[r] = "registered"
    /\ event.status \in {"published", "completed"}
    /\ registration' = [registration EXCEPT ![r] = "attended"]
    /\ UNCHANGED <<event, ahead, charge>>

\* The payments app settles a pending charge.
charge_settled(r) ==
    /\ charge[r] = "pending"
    /\ charge' = [charge EXCEPT ![r] = "settled"]
    /\ UNCHANGED <<event, registration, ahead>>

event_ends ==
    /\ ~event.over
    /\ event' = [event EXCEPT !.over = TRUE]
    /\ UNCHANGED <<registration, ahead, charge>>

Next ==
    \/ \E e \in EventRow : update_event(e)
    \/ publish \/ cancel \/ complete \/ event_ends
    \/ \E r \in People : \/ register(r) \/ cancel_registration(r)
                         \/ mark_attended(r) \/ charge_settled(r)

Spec == Init /\ [][Next]_vars

-----------------------------------------------------------------------------
\* Registrations, promotions, changes of the capacity and attendance never
\* together seat more people than the event has room for.
CapacityKept == event.capacity = 0 \/ Cardinality(Confirmed) <= event.capacity

\* While an event takes people nobody waits beside a free seat, even if seats
\* were freed while it was over and its end was moved afterwards.
NoIdleSeat == MayPromote(event) /\ Waiters # {} => ~SpotsLeft

\* Nobody gets a seat while someone who came earlier goes on waiting.
FirstComeFirstSeated ==
    [][\A r \in People :
          registration[r] # "registered" /\ registration'[r] = "registered" =>
             \A q \in ahead'[r] : registration'[q] # "waitlisted"]_vars

\* Where the payments app answers, only people with a seat owe money.
OnlySeatsOwe ==
    \A r \in People \ Unreliable : charge[r] = "pending" => r \in Confirmed
=============================================================================
