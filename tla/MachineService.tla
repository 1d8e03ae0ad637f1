----------------------------- MODULE MachineService -----------------------------
(***************************************************************************)
(* Service requests on the machines of one makerspace (apps/machines): a   *)
(* request comes in through a queue for all printers or through one        *)
(* machine's bucket, runs on a machine and may draw on a consumable pool.  *)
(* Every service locks the request row first, then queue, machine and      *)
(* pool, so each is one step.  Linked consumables (debit_consumptions) and *)
(* the payment of a completed request are rows of other components;        *)
(* estimates in minutes are left out.                                      *)
(***************************************************************************)
EXTENDS Integers, FiniteSets

CONSTANTS
    Jobs,           \* primary keys of MachineServiceRequest rows
    Machines,       \* machines of the makerspace
    Printers,       \* those of the printer type, which the queue serves
    QueueCapacity,  \* ServiceQueue.capacity
    Initial,        \* initial_grams of the pool
    NoMachine

ASSUME MachineServiceAssumption ==
    /\ IsFiniteSet(Jobs) /\ Jobs \subseteq Nat
    /\ Printers \subseteq Machines /\ NoMachine \notin Machines
    /\ QueueCapacity \in Nat /\ Initial \in Nat

VARIABLES
    job,        \* the request rows
    machine,    \* the Machine rows
    pool,       \* remaining_grams of the pool, and in its ledger the sum of
                \* the corrections and manual uses
    overruled   \* machines whose status staff set during a job still running

serviceVars == <<job, machine, pool, overruled>>

JobStatuses == {"absent", "pending", "accepted", "in_progress", "completed",
                "failed", "rejected", "collected"}
\* "offline" stands for every status but idle and running.
MachineStatuses == {"idle", "running", "offline"}
Grams == 0..Initial

JobRow == [status : JobStatuses, via : {"queue", "bucket"},
           machine : Machines \cup {NoMachine},
           pooled : BOOLEAN, reserved : Grams, used : Nat]

\* A row that draws on no pool.
NewJob(status, via, m) ==
    [status |-> status, via |-> via, machine |-> m,
     pooled |-> FALSE, reserved |-> 0, used |-> 0]

NoJob == NewJob("absent", "queue", NoMachine)

\* Types; the pool's balance also obeys consumable_pool_balance_capped.
ServiceTypeOK ==
    /\ job \in [Jobs -> JobRow]
    /\ machine \in [Machines -> [status : MachineStatuses, is_active : BOOLEAN]]
    /\ pool \in [remaining : Grams, corrected : Int]
    /\ overruled \subseteq Machines

ServiceInit ==
    /\ job = [j \in Jobs |-> NoJob]
    /\ machine = [m \in Machines |-> [status |-> "idle", is_active |-> TRUE]]
    /\ pool = [remaining |-> Initial, corrected |-> 0]
    /\ overruled = {}

Running(m) == {j \in Jobs : job[j].status = "in_progress" /\ job[j].machine = m}

-----------------------------------------------------------------------------
\* Fault: a running machine is available too.
AvailableActive(m) == machine[m].is_active

\* _require_available
Available(m) == machine[m].is_active /\ machine[m].status = "idle"

\* The next row.
IsNew(j) == \A k \in Jobs : job[k].status = "absent" <=> k >= j

\* A request for the queue, or for the default bucket of an available machine.
submit(j, via, m) ==
    /\ IsNew(j)
    /\ IF via = "queue" THEN m = NoMachine ELSE m \in Machines /\ Available(m)
    /\ job' = [job EXCEPT ![j] = NewJob("pending", via, m)]
    /\ UNCHANGED <<machine, pool, overruled>>

accept(j) ==
    /\ job[j].status = "pending"
    /\ job' = [job EXCEPT ![j].status = "accepted"]
    /\ UNCHANGED <<machine, pool, overruled>>

reject(j) ==
    /\ job[j].status = "pending"
    /\ job' = [job EXCEPT ![j].status = "rejected"]
    /\ UNCHANGED <<machine, pool, overruled>>

InQueue == {j \in Jobs : job[j].status = "in_progress" /\ job[j].via = "queue"}

HasCapacity(j) == job[j].via = "bucket" \/ Cardinality(InQueue) < QueueCapacity

\* The machine staff chose, or the first idle one of the queue's type, which is
\* one of those staff could choose.  A planned amount is reserved from the pool.
start(j, m, planned) ==
    /\ job[j].status = "accepted"
    /\ Available(m) /\ (job[j].via = "queue" => m \in Printers)
    /\ HasCapacity(j)
    /\ m \in Printers => planned > 0
    /\ planned <= pool.remaining
    /\ job' = [job EXCEPT ![j] = [@ EXCEPT !.status = "in_progress", !.machine = m,
                                           !.pooled = planned > 0, !.reserved = planned]]
    /\ pool' = [pool EXCEPT !.remaining = @ - planned]
    /\ machine' = [machine EXCEPT ![m].status = "running"]
    /\ UNCHANGED overruled

-----------------------------------------------------------------------------
\* reconcile_request; without a pool both amounts are 0.
BalanceAfter(j, actual) == pool.remaining + job[j].reserved - actual

\* _release_queue_machine
Freed(m) == [machine EXCEPT ![m].status = IF @ = "running" THEN "idle" ELSE @]

Finish(j, to, actual) ==
    LET m == job[j].machine
    IN  /\ job[j].status = "in_progress"
        /\ ~job[j].pooled => actual = 0
        /\ BalanceAfter(j, actual) \in Grams
        /\ pool' = [pool EXCEPT !.remaining = BalanceAfter(j, actual)]
        /\ job' = [job EXCEPT ![j] = [@ EXCEPT !.status = to, !.reserved = 0,
                                               !.used = actual]]
        /\ machine' = Freed(m)
        /\ overruled' = IF Running(m) = {j} THEN overruled \ {m} ELSE overruled

complete_job(j, actual) == Finish(j, "completed", actual)
fail(j, actual) == Finish(j, "failed", actual)

collect(j) ==
    /\ job[j].status = "completed"
    /\ job' = [job EXCEPT ![j].status = "collected"]
    /\ UNCHANGED <<machine, pool, overruled>>

\* Fault: the child takes over the whole row.
CopyOf(j) == [job[j] EXCEPT !.status = "accepted"]

\* A pooled request is put on a machine anew, a bucket's stays on its own.
Reprint(j) ==
    NewJob("accepted", job[j].via,
           IF job[j].via = "bucket" THEN job[j].machine ELSE NoMachine)

create_reprint(j, child) ==
    /\ job[j].status \in {"failed", "completed", "collected"}
    /\ IsNew(child)
    /\ job' = [job EXCEPT ![child] = Reprint(j)]
    /\ UNCHANGED <<machine, pool, overruled>>

-----------------------------------------------------------------------------
Overrule(m, to) ==
    overruled' = IF Running(m) = {} \/ to = machine[m].status THEN overruled
                 ELSE overruled \cup {m}

set_status(m, to) ==
    /\ machine[m].is_active
    /\ machine' = [machine EXCEPT ![m].status = to]
    /\ Overrule(m, to)
    /\ UNCHANGED <<job, pool>>

retire_machine(m) ==
    /\ machine' = [machine EXCEPT ![m] = [status |-> "offline", is_active |-> FALSE]]
    /\ Overrule(m, "offline")
    /\ UNCHANGED <<job, pool>>

unretire_machine(m) ==
    /\ machine' = [machine EXCEPT ![m].is_active = TRUE]
    /\ UNCHANGED <<job, pool, overruled>>

\* correct_pool with a delta of either sign, log_typed_manual_usage with a
\* negative one.
adjust_pool(delta) ==
    /\ delta # 0 /\ pool.remaining + delta \in Grams
    /\ pool' = [remaining |-> pool.remaining + delta,
                corrected |-> pool.corrected + delta]
    /\ UNCHANGED <<job, machine, overruled>>

JobSteps ==
    \E j \in Jobs :
       \/ \E via \in {"queue", "bucket"}, m \in Machines \cup {NoMachine} :
             submit(j, via, m)
       \/ accept(j) \/ reject(j) \/ collect(j)
       \/ \E m \in Machines, planned \in Grams : start(j, m, planned)
       \/ \E actual \in 0..2 * Initial : complete_job(j, actual) \/ fail(j, actual)
       \/ \E child \in Jobs : create_reprint(j, child)

MachineSteps ==
    \E m \in Machines : \/ \E to \in MachineStatuses : set_status(m, to)
                        \/ retire_machine(m) \/ unretire_machine(m)

ServiceNext ==
    \/ JobSteps \/ MachineSteps
    \/ \E delta \in -Initial..Initial : adjust_pool(delta)

ServiceSpec == ServiceInit /\ [][ServiceNext]_serviceVars

-----------------------------------------------------------------------------
\* Two jobs run on one machine, or a job on a machine that looks free or is
\* retired, only where staff changed the machine's status under a job.
OneJobPerMachine ==
    \A j, k \in Jobs :
       LET m == job[j].machine
       IN  job[j].status = "in_progress" /\ m \notin overruled =>
              /\ machine[m] = [status |-> "running", is_active |-> TRUE]
              /\ k \in Running(m) => k = j

\* The grams of every job, reserved or used.
GramsOf == UNION {{j} \X (1..(job[j].reserved + job[j].used)) : j \in Jobs}

\* What is missing from the pool is what running jobs hold, what ended ones
\* used and what staff wrote off; no job that has ended holds stock.
PoolExplained ==
    /\ pool.remaining = Initial + pool.corrected - Cardinality(GramsOf)
    /\ \A j \in Jobs : job[j].reserved > 0 => job[j].status = "in_progress"
=============================================================================
