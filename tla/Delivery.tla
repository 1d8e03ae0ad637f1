------------------------------- MODULE Delivery -------------------------------
(***************************************************************************)
(* Delivery of queued e-mail (apps/integrations): a row of the log, the    *)
(* tasks of the broker that deliver it, the workers that claim the row and *)
(* the staff's Retry.  A task is acknowledged late, so a worker's death    *)
(* may put it back; its hard time limit ends every worker before the claim *)
(* turns stale.  The other channels claim and retry the same way, without  *)
(* Retry.  The write fence is the module WriteFence.                       *)
(***************************************************************************)
EXTENDS Integers, FiniteSets

CONSTANTS
    Emails,          \* EmailLog rows of one makerspace
    DeliveryWorkers, \* Celery worker processes
    EmailLimit,      \* resource_limit "email" of one day
    MaxRetries,      \* max_retries of the task
    MaxTasks,        \* bound: tasks of one kind waiting for one row
    MaxDoubts        \* bound: lost, mistaken or overwritten outcomes of one row

ASSUME DeliveryAssumption ==
    /\ EmailLimit \in Nat /\ MaxRetries \in Nat
    /\ MaxTasks \in Nat /\ MaxDoubts \in Nat
    /\ IsFiniteSet(DeliveryWorkers)

VARIABLES
    log,     \* status of the EmailLog rows
    sends,   \* count of the DailyEmailCounter
    outbox,  \* the on_commit callback that enqueues the row's task
    tasks,   \* tasks waiting for each row, by the retries they have had
    courier, \* what each worker does
    copies,  \* history: how often the mail server accepted the message
    doubts   \* history: outcomes that were lost, mistaken or overwritten

deliveryVars == <<log, sends, outbox, tasks, courier, copies, doubts>>

Free == [step |-> "free"]
Carrying == [step : {"claimed", "accepted", "raised", "recorded"}, email : Emails,
             retries : 0..MaxRetries]

DeliveryTypeOK ==
    /\ log \in [Emails -> {"absent", "pending", "sending", "sent", "failed"}]
    /\ sends \in 0..EmailLimit
    /\ outbox \in [Emails -> {"none", "due", "raised"}]
    /\ tasks \in [Emails -> [0..MaxRetries -> 0..MaxTasks]]
    /\ courier \in [DeliveryWorkers -> {Free} \cup Carrying]
    /\ copies \in [Emails -> Nat] /\ doubts \in [Emails -> 0..MaxDoubts]

DeliveryInit ==
    /\ log = [e \in Emails |-> "absent"]
    /\ sends = 0
    /\ outbox = [e \in Emails |-> "none"]
    /\ tasks = [e \in Emails |-> [r \in 0..MaxRetries |-> 0]]
    /\ courier = [w \in DeliveryWorkers |-> Free]
    /\ copies = [e \in Emails |-> 0]
    /\ doubts = [e \in Emails |-> 0]

\* Counts a doubt about the row when there is one.
Doubt(e, is_doubt) ==
    /\ is_doubt => doubts[e] < MaxDoubts
    /\ doubts' = [doubts EXCEPT ![e] = @ + IF is_doubt THEN 1 ELSE 0]

-----------------------------------------------------------------------------
\* A row over the limit fails at once, and Retry may still send it.
dispatch_email(e) ==
    /\ log[e] = "absent"
    /\ IF sends < EmailLimit
       THEN /\ log' = [log EXCEPT ![e] = "pending"]
            /\ sends' = sends + 1
            /\ outbox' = [outbox EXCEPT ![e] = "due"]
       ELSE /\ log' = [log EXCEPT ![e] = "failed"]
            /\ UNCHANGED <<sends, outbox>>
    /\ UNCHANGED <<tasks, courier, copies, doubts>>

Queued(e, r, n) == [tasks EXCEPT ![e][r] = @ + n]

\* _enqueue: delay() may raise with the task published or not; the process may
\* also be gone before.
enqueue(e, outcome) ==
    /\ outbox[e] = "due"
    /\ outbox' = [outbox EXCEPT ![e] = outcome]
    /\ \E n \in {0, 1} : /\ tasks[e][0] + n <= MaxTasks
                         /\ tasks' = Queued(e, 0, n)
    /\ UNCHANGED <<log, sends, courier, copies, doubts>>

\* Its handler, whatever has become of the row since.
enqueue_failed(e) ==
    /\ outbox[e] = "raised"
    /\ outbox' = [outbox EXCEPT ![e] = "none"]
    /\ log' = [log EXCEPT ![e] = "failed"]
    /\ Doubt(e, log[e] \in {"sending", "sent"})
    /\ UNCHANGED <<sends, tasks, courier, copies>>

\* The workers between the claim of a row and the record of its outcome.
CarriersOf(e) ==
    {w \in DeliveryWorkers :
        courier[w] # Free /\ courier[w].email = e /\ courier[w].step # "recorded"}

\* Staff's Retry; a claim without a worker is stale, or will be.
retry_email_log(e) ==
    /\ outbox[e] = "none"
    /\ \/ log[e] = "failed"
       \/ log[e] = "sending" /\ CarriersOf(e) = {}
    /\ log' = [log EXCEPT ![e] = "pending"]
    /\ outbox' = [outbox EXCEPT ![e] = "due"]
    /\ UNCHANGED <<sends, tasks, courier, copies, doubts>>

-----------------------------------------------------------------------------
\* Fault: a row that is being sent is claimed again.
ClaimableUnsent(e) == log[e] # "sent"

\* _claim_log
Claimable(e) == log[e] # "sent" /\ (log[e] = "sending" => CarriersOf(e) = {})

\* A task that finds the row claimed, or a dead claim not yet stale, is done.
deliver_email_task(w, e, r) ==
    /\ courier[w] = Free /\ tasks[e][r] > 0
    /\ tasks' = Queued(e, r, -1)
    /\ \/ /\ Claimable(e)
          /\ log' = [log EXCEPT ![e] = "sending"]
          /\ courier' = [courier EXCEPT ![w] =
                [step |-> "claimed", email |-> e, retries |-> r]]
       \/ /\ log[e] \in {"sending", "sent"}
          /\ UNCHANGED <<log, courier>>
    /\ UNCHANGED <<sends, outbox, copies, doubts>>

\* msg.send(): the server may take the message and send() return, or it may
\* raise, of which the program knows no more than that: before the server took
\* the message, or after (a timeout of the answer or the soft time limit).
deliver(w) ==
    /\ courier[w] # Free /\ courier[w].step = "claimed"
    /\ \E step \in {"accepted", "raised"}, taken \in BOOLEAN :
          /\ step = "accepted" => taken
          /\ courier' = [courier EXCEPT ![w].step = step]
          /\ copies' = [copies EXCEPT ![courier[w].email] = @ + IF taken THEN 1 ELSE 0]
          /\ Doubt(courier[w].email, taken /\ step = "raised")
    /\ UNCHANGED <<log, sends, outbox, tasks>>

\* The end of _deliver, whatever has become of the row since.
record_result(w) ==
    /\ courier[w] # Free /\ courier[w].step \in {"accepted", "raised"}
    /\ log' = [log EXCEPT ![courier[w].email] =
                  IF courier[w].step = "accepted" THEN "sent" ELSE "failed"]
    /\ courier' = [courier EXCEPT ![w].step = "recorded"]
    /\ UNCHANGED <<sends, outbox, tasks, copies, doubts>>

\* The task looks at the row once more and retries a failure.
end_task(w) ==
    /\ courier[w] # Free /\ courier[w].step = "recorded"
    /\ LET e == courier[w].email
           r == courier[w].retries + 1
       IN  IF log[e] = "failed" /\ r <= MaxRetries
           THEN tasks[e][r] < MaxTasks /\ tasks' = Queued(e, r, 1)
           ELSE UNCHANGED tasks
    /\ courier' = [courier EXCEPT ![w] = Free]
    /\ UNCHANGED <<log, sends, outbox, copies, doubts>>

\* Killed, past the hard limit, or past the soft one outside send(), which ends
\* the task; the broker may deliver it again.
die(w) ==
    /\ courier[w] # Free
    /\ LET e == courier[w].email
           r == courier[w].retries
       IN  /\ \E n \in {0, 1} : tasks[e][r] + n <= MaxTasks /\ tasks' = Queued(e, r, n)
           /\ Doubt(e, courier[w].step = "accepted")
    /\ courier' = [courier EXCEPT ![w] = Free]
    /\ UNCHANGED <<log, sends, outbox, copies>>

DeliveryNext ==
    \/ \E e \in Emails : \/ dispatch_email(e) \/ enqueue_failed(e) \/ retry_email_log(e)
                         \/ \E outcome \in {"none", "raised"} : enqueue(e, outcome)
    \/ \E w \in DeliveryWorkers :
          \/ \E e \in Emails, r \in 0..MaxRetries : deliver_email_task(w, e, r)
          \/ deliver(w) \/ record_result(w) \/ end_task(w) \/ die(w)

DeliverySpec == DeliveryInit /\ [][DeliveryNext]_deliveryVars

-----------------------------------------------------------------------------
\* A message goes out once, whatever Retry, the task's retries and the broker's
\* redeliveries do, but for one more copy each time send() raised or a worker
\* died with the message accepted, or a failed enqueue was recorded over a row
\* in another's hands.
DeliveredOnce == \A e \in Emails : copies[e] <= 1 + doubts[e]
=============================================================================
