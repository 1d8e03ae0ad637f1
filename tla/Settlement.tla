------------------------------ MODULE Settlement ------------------------------
(***************************************************************************)
(* What the payments app promises of a charge, whatever Stripe and the     *)
(* network do: it is settled once and in one way, it is called paid online *)
(* only when Stripe collected the money, and money that comes in for a     *)
(* charge settled otherwise is noted.                                      *)
(***************************************************************************)
CONSTANT Payments

VARIABLES
    status,    \* Payment.status
    charged,   \* the payments Stripe collected money for
    noted      \* the payments with a payment.paid_after_terminal audit row

vars == <<status, charged, noted>>

ByStaff == {"paid_offline", "waived", "canceled"}
Terminal == ByStaff \cup {"paid_online"}

Init ==
    /\ status = [p \in Payments |-> "absent"]
    /\ charged = {}
    /\ noted = {}

Open(p) ==
    /\ status[p] = "absent"
    /\ status' = [status EXCEPT ![p] = "pending"]
    /\ UNCHANGED <<charged, noted>>

Charge(p) ==
    /\ status[p] # "absent"
    /\ charged' = charged \cup {p}
    /\ UNCHANGED <<status, noted>>

PayOnline(p) ==
    /\ status[p] = "pending" /\ p \in charged
    /\ status' = [status EXCEPT ![p] = "paid_online"]
    /\ UNCHANGED <<charged, noted>>

\* A batch is settled as a whole.
Settle(ps, target) ==
    /\ \A p \in ps : status[p] = "pending"
    /\ status' = [p \in Payments |-> IF p \in ps THEN target ELSE status[p]]
    /\ UNCHANGED <<charged, noted>>

Note(p) ==
    /\ p \in charged /\ status[p] \in Terminal
    /\ noted' = noted \cup {p}
    /\ UNCHANGED <<status, charged>>

Next ==
    \/ \E p \in Payments : Open(p) \/ Charge(p) \/ PayOnline(p) \/ Note(p)
    \/ \E ps \in SUBSET Payments, target \in ByStaff : Settle(ps, target)

Spec == Init /\ [][Next]_vars
=============================================================================
