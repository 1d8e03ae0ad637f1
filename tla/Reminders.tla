------------------------------- MODULE Reminders -------------------------------
(***************************************************************************)
(* The reminders of one reviewed loan's due time                           *)
(* (hardware_requests/services_return_reminders.py): sweeps run from the   *)
(* schedule, the cron view and the command, at the same time if need be,   *)
(* list overdue loans, claim each in a transaction of its own, send, and   *)
(* take the claim back when nothing was delivered.                         *)
(***************************************************************************)
EXTENDS Integers

CONSTANTS
    Sweeps,  \* processes in run_return_reminders
    MaxDues  \* bound: how often staff set the due time

ASSUME RemindersAssumption == MaxDues \in Nat

VARIABLES
    loan,     \* status, the due time that was set last, return_reminder_sent_at
    sweep,    \* what each process does with the loan, and the due time claimed
    reminded, \* history: reminders delivered for each due time
    undone    \* history: due times whose claim an older one's failure took back

reminderVars == <<loan, sweep, reminded, undone>>

\* Due times are numbered as they are set; 0 is none.
Dues == 0..MaxDues

RemindersTypeOK ==
    /\ loan \in [status : {"accepted", "issued", "returned"}, due : Dues,
                 past : BOOLEAN, sent : BOOLEAN]
    /\ sweep \in [Sweeps -> [step : {"idle", "listed", "claimed"}, due : Dues]]
    /\ reminded \in [Dues -> Nat] /\ undone \subseteq Dues

NotSweeping == [step |-> "idle", due |-> 0]

RemindersInit ==
    /\ loan = [status |-> "accepted", due |-> 0, past |-> FALSE, sent |-> FALSE]
    /\ sweep = [w \in Sweeps |-> NotSweeping]
    /\ reminded = [d \in Dues |-> 0]
    /\ undone = {}

-----------------------------------------------------------------------------
\* issue_request, and the last return.
move_loan(to) ==
    /\ <<loan.status, to>> \in {<<"accepted", "issued">>, <<"issued", "returned">>}
    /\ loan' = [loan EXCEPT !.status = to]
    /\ UNCHANGED <<sweep, reminded, undone>>

set_return_due ==
    /\ loan.status # "returned" /\ loan.due < MaxDues
    /\ loan' = [loan EXCEPT !.due = @ + 1, !.past = FALSE, !.sent = FALSE]
    /\ UNCHANGED <<sweep, reminded, undone>>

fall_due ==
    /\ loan.due # 0 /\ ~loan.past
    /\ loan' = [loan EXCEPT !.past = TRUE]
    /\ UNCHANGED <<sweep, reminded, undone>>

-----------------------------------------------------------------------------
\* The query at the start of the sweep.
list_overdue(w) ==
    /\ sweep[w].step = "idle"
    /\ loan.status = "issued" /\ loan.past /\ ~loan.sent
    /\ sweep' = [sweep EXCEPT ![w] = [step |-> "listed", due |-> loan.due]]
    /\ UNCHANGED <<loan, reminded, undone>>

\* Fault: the claim does not look at the row again.
ClaimedBlindly == TRUE

Unclaimed == ~loan.sent

\* Neither the status nor the due time is looked at again.
claim(w) ==
    /\ sweep[w].step = "listed"
    /\ IF Unclaimed
       THEN /\ loan' = [loan EXCEPT !.sent = TRUE]
            /\ sweep' = [sweep EXCEPT ![w] = [step |-> "claimed", due |-> loan.due]]
       ELSE /\ sweep' = [sweep EXCEPT ![w] = NotSweeping]
            /\ UNCHANGED loan
    /\ UNCHANGED <<reminded, undone>>

\* notify_return_due: delivered, or nothing delivered or an error.
notify_return_due(w) ==
    /\ sweep[w].step = "claimed"
    /\ LET due == sweep[w].due
       IN  \/ /\ reminded' = [reminded EXCEPT ![due] = @ + 1]
              /\ UNCHANGED <<loan, undone>>
           \/ /\ loan' = [loan EXCEPT !.sent = FALSE]
              /\ undone' = IF due # loan.due THEN undone \cup {loan.due} ELSE undone
              /\ UNCHANGED reminded
    /\ sweep' = [sweep EXCEPT ![w] = NotSweeping]

\* A claim outlives the process that made it.
stop_sweep(w) ==
    /\ sweep[w].step # "idle"
    /\ sweep' = [sweep EXCEPT ![w] = NotSweeping]
    /\ UNCHANGED <<loan, reminded, undone>>

RemindersNext ==
    \/ \E to \in {"issued", "returned"} : move_loan(to)
    \/ set_return_due \/ fall_due
    \/ \E w \in Sweeps : \/ list_overdue(w) \/ claim(w) \/ notify_return_due(w)
                         \/ stop_sweep(w)

RemindersSpec == RemindersInit /\ [][RemindersNext]_reminderVars

-----------------------------------------------------------------------------
\* However many sweeps run at once, a due time is reminded of once, unless
\* the failure of a sweep that had claimed an earlier due time took its claim back.
RemindedOnce == \A d \in Dues \ undone : reminded[d] <= 1
=============================================================================
