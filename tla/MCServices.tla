------------------------------ MODULE MCServices ------------------------------
(***************************************************************************)
(* The smaller services for TLC, checked side by side in one run: no two   *)
(* of these modules share a row, so a behaviour moves the part it starts   *)
(* with and leaves the others as they are.                                 *)
(***************************************************************************)
EXTENDS Events, Bookings, MachineService, MCLocks, Memberships, Delivery,
        Reminders, MCTransfers, TLC

CONSTANTS
    m3, k3,  \* whose calls into the payments app may fail
    q1       \* the first manager of the makerspace

VARIABLE part

Parts == {"events", "bookings", "machines", "locks", "memberships", "delivery",
          "reminders", "transfers"}

\* Rows of the parts at rest do not vary.
AtRest ==
    /\ part # "events" =>
          event = [status |-> "draft", capacity |-> 0, public |-> FALSE,
                   paid |-> FALSE, over |-> FALSE]
    /\ part # "bookings" => space = [is_active |-> TRUE, instant |-> FALSE, paid |-> FALSE]
    /\ part # "memberships" => makerspace = "open"
    /\ IsMember(q1)

ServicesInit ==
    /\ part \in Parts
    /\ Init /\ BookingsInit /\ ServiceInit /\ RowLocksInit /\ MembershipsInit
    /\ DeliveryInit /\ RemindersInit /\ TransfersInit
    /\ AtRest

Turn(p) ==
    /\ part = p /\ UNCHANGED part
    /\ p # "events" => UNCHANGED vars
    /\ p # "bookings" => UNCHANGED bookingsVars
    /\ p # "machines" => UNCHANGED serviceVars
    /\ p # "locks" => UNCHANGED lockVars
    /\ p # "memberships" => UNCHANGED membershipVars
    /\ p # "delivery" => UNCHANGED deliveryVars
    /\ p # "reminders" => UNCHANGED reminderVars
    /\ p # "transfers" => UNCHANGED transferVars

ServicesNext ==
    \/ Turn("events") /\ Next
    \/ Turn("bookings") /\ BookingsNext
    \/ Turn("machines") /\ ServiceNext
    \/ Turn("locks") /\ RowLocksNext
    \/ Turn("memberships") /\ MembershipsNext
    \/ Turn("delivery") /\ DeliveryNext
    \/ Turn("reminders") /\ RemindersNext
    \/ Turn("transfers") /\ TransfersNext

ServicesSpec ==
    ServicesInit /\ [][ServicesNext]_<<vars, bookingsVars, serviceVars, lockVars,
        membershipVars, deliveryVars, reminderVars, transferVars, part>>

\* Every row of these services keeps its type.
ServicesTypeOK ==
    /\ EventsTypeOK /\ BookingsTypeOK /\ ServiceTypeOK /\ RowLocksTypeOK
    /\ MembershipsTypeOK /\ DeliveryTypeOK /\ RemindersTypeOK /\ TransfersTypeOK

-----------------------------------------------------------------------------
OneUnreliable == {m3}
OneUnreliableBooking == {k3}

Interchangeable == Permutations(People \ {m3})
=============================================================================
