---------------------------- MODULE ServicesProofs ----------------------------
(***************************************************************************)
(* Theorems about the machine queue, the delivery of e-mail, the return    *)
(* reminders, the row locks, the software updates and the stock transfers  *)
(* with their codes, for every number of rows and of processes.  The six   *)
(* modules share no variable and have an invariant each.  At the end, the  *)
(* composition of MCServices, with the types of all its parts.             *)
(***************************************************************************)
EXTENDS MCServices, Updates, CommunityProofs, CountingProofs, SequenceTheorems

-----------------------------------------------------------------------------
(* Machine jobs. *)

\* What a row holds of the pool, and when it may hold any.
RowsHoldAsTheyRun ==
    \A j \in Jobs :
       /\ job[j].status # "in_progress" => job[j].reserved = 0
       /\ job[j].status \in {"absent", "pending", "accepted", "rejected", "in_progress"}
             => job[j].used = 0
       /\ job[j].status = "in_progress" => job[j].machine \in Machines

MachineInv == ServiceTypeOK /\ RowsHoldAsTheyRun /\ OneJobPerMachine /\ PoolExplained

GramSet(f) == UNION {{j} \X (1..f[j]) : j \in Jobs}

Drawn == [j \in Jobs |-> job[j].reserved + job[j].used]

LEMMA GramsFinite ==
    ASSUME NEW f \in [Jobs -> Nat]
    PROVE  GramSet(f) = PieceSet(f) /\ IsFiniteSet(GramSet(f))
<1>1. IsFiniteSet(Jobs)
  BY MachineServiceAssumption DEF MachineServiceAssumption
<1>2. GramSet(f) = PieceSet(f)
  BY DEF GramSet, PieceSet
<1> QED
  BY <1>1, <1>2, PiecesFinite

\* A step of one job changes one summand.
LEMMA GramsChange ==
    ASSUME NEW f \in [Jobs -> Nat], NEW g \in [Jobs -> Nat],
           NEW r \in Jobs, \A x \in Jobs : x # r => g[x] = f[x]
    PROVE  /\ Cardinality(GramSet(f)) \in Nat
           /\ Cardinality(GramSet(g)) = Cardinality(GramSet(f)) - f[r] + g[r]
<1>1. IsFiniteSet(Jobs)
  BY MachineServiceAssumption DEF MachineServiceAssumption
<1>2. GramSet(f) = PieceSet(f) /\ GramSet(g) = PieceSet(g) /\ IsFiniteSet(GramSet(f))
  BY GramsFinite
<1> QED
  BY <1>1, <1>2, OnePieceChanges, FS_CardinalityType

\* Drawn, and the set PoolExplained counts.
LEMMA GramsOfHeld ==
    ASSUME ServiceTypeOK
    PROVE  Drawn \in [Jobs -> Nat] /\ GramsOf = GramSet(Drawn)
<1>1. \A j \in Jobs : Drawn[j] = job[j].reserved + job[j].used /\ Drawn[j] \in Nat
  BY MachineServiceAssumption
     DEF MachineServiceAssumption, ServiceTypeOK, JobRow, Grams, Drawn
<1>2. GramsOf = UNION {{j} \X (1..Drawn[j]) : j \in Jobs}
  BY <1>1 DEF GramsOf
<1> QED
  BY <1>1, <1>2 DEF GramSet, Drawn

LEMMA MachineInitInv == ServiceInit => MachineInv
<1> SUFFICES ASSUME ServiceInit PROVE MachineInv
  OBVIOUS
<1> USE MachineServiceAssumption DEF MachineServiceAssumption
<1>1. ServiceTypeOK
  BY DEF ServiceInit, ServiceTypeOK, NoJob, NewJob, JobRow, JobStatuses, MachineStatuses, Grams
<1>2. RowsHoldAsTheyRun /\ OneJobPerMachine
  BY DEF ServiceInit, RowsHoldAsTheyRun, OneJobPerMachine, Running, NoJob, NewJob
<1>3. PoolExplained
  <2>1. GramsOf = {}
    BY DEF GramsOf, ServiceInit, NoJob, NewJob
  <2>2. Cardinality(GramsOf) = 0
    BY <2>1, FS_EmptySet
  <2>3. pool.remaining = Initial /\ pool.corrected = 0 /\ \A j \in Jobs : job[j].reserved = 0
    BY DEF ServiceInit, NoJob, NewJob
  <2> QED
    BY <2>2, <2>3 DEF PoolExplained
<1> QED
  BY <1>1, <1>2, <1>3 DEF MachineInv

\* The ledger still adds up when one job's grams move to or from the pool.
LEMMA LedgerKept ==
    ASSUME MachineInv, ServiceTypeOK', RowsHoldAsTheyRun', NEW r \in Jobs,
           \A x \in Jobs : x # r => job'[x] = job[x],
           pool'.remaining + job'[r].reserved + job'[r].used - pool'.corrected
              = pool.remaining + job[r].reserved + job[r].used - pool.corrected
    PROVE  PoolExplained'
<1>1. Drawn \in [Jobs -> Nat] /\ GramsOf = GramSet(Drawn)
  BY GramsOfHeld DEF MachineInv
<1>2. Drawn' \in [Jobs -> Nat] /\ GramsOf' = GramSet(Drawn')
  <2>1. \A j \in Jobs : Drawn'[j] = job'[j].reserved + job'[j].used /\ Drawn'[j] \in Nat
    BY MachineServiceAssumption
       DEF MachineServiceAssumption, ServiceTypeOK, JobRow, Grams, Drawn
  <2>2. GramsOf' = UNION {{j} \X (1..Drawn'[j]) : j \in Jobs}
    BY <2>1 DEF GramsOf
  <2> QED
    BY <2>1, <2>2 DEF GramSet, Drawn
<1>3. \A x \in Jobs : x # r => Drawn'[x] = Drawn[x]
  BY DEF Drawn
<1>4. Drawn[r] = job[r].reserved + job[r].used /\ Drawn'[r] = job'[r].reserved + job'[r].used
  BY DEF Drawn
<1>5. /\ Cardinality(GramSet(Drawn)) \in Nat
      /\ Cardinality(GramSet(Drawn')) = Cardinality(GramSet(Drawn)) - Drawn[r] + Drawn'[r]
  BY <1>1, <1>2, <1>3, GramsChange
<1>6. pool.remaining = Initial + pool.corrected - Cardinality(GramSet(Drawn))
  BY <1>1 DEF MachineInv, PoolExplained
<1>7. /\ pool.remaining \in Int /\ pool.corrected \in Int
      /\ pool'.remaining \in Int /\ pool'.corrected \in Int /\ Initial \in Int
      /\ job[r].reserved \in Int /\ job[r].used \in Int
      /\ job'[r].reserved \in Int /\ job'[r].used \in Int
  BY MachineServiceAssumption
     DEF MachineServiceAssumption, MachineInv, ServiceTypeOK, JobRow, Grams
<1>8. pool'.remaining = Initial + pool'.corrected - Cardinality(GramSet(Drawn'))
  <2>1. \A n0, nn, i, c0, c1, p0, p1, h0, hh \in Int :
           /\ p0 = i + c0 - n0 /\ nn = n0 - h0 + hh
           /\ p1 + hh - c1 = p0 + h0 - c0
           => p1 = i + c1 - nn
    OBVIOUS
  <2>2. /\ Drawn[r] \in Int /\ Drawn'[r] \in Int
        /\ Cardinality(GramSet(Drawn)) \in Int /\ Cardinality(GramSet(Drawn')) \in Int
    BY <1>1, <1>2, <1>4, <1>5, <1>7
  <2>3. pool'.remaining + Drawn'[r] - pool'.corrected = pool.remaining + Drawn[r] - pool.corrected
    BY <1>4, <1>7
  <2> HIDE DEF Drawn, GramSet
  <2> QED
    BY <1>5, <1>6, <1>7, <2>1, <2>2, <2>3
<1>9. \A j \in Jobs : job'[j].reserved > 0 => job'[j].status = "in_progress"
  BY DEF RowsHoldAsTheyRun
<1> QED
  BY <1>2, <1>8, <1>9 DEF PoolExplained

\* A step that moves one row between two states that do not run, and holds
\* what it held.
LEMMA RowMoves ==
    ASSUME MachineInv, NEW r \in Jobs, NEW R \in JobRow,
           job' = [job EXCEPT ![r] = R], UNCHANGED <<machine, pool, overruled>>,
           job[r].status # "in_progress", R.status # "in_progress",
           R.reserved = 0, R.used = job[r].used,
           R.status \in {"absent", "pending", "accepted", "rejected", "in_progress"}
              => R.used = 0
    PROVE  MachineInv'
<1> USE MachineServiceAssumption DEF MachineServiceAssumption
<1>1. job \in [Jobs -> JobRow] /\ job'[r] = R /\ \A x \in Jobs : x # r => job'[x] = job[x]
  BY DEF MachineInv, ServiceTypeOK
<1>2. ServiceTypeOK'
  BY <1>1 DEF MachineInv, ServiceTypeOK
<1>3. RowsHoldAsTheyRun'
  BY <1>1 DEF MachineInv, RowsHoldAsTheyRun
<1>4. OneJobPerMachine'
  BY <1>1 DEF MachineInv, OneJobPerMachine, Running
<1>5. PoolExplained'
  <2>1. job[r].reserved = 0
    BY DEF MachineInv, RowsHoldAsTheyRun
  <2> QED
    BY <1>1, <1>2, <1>3, <2>1, LedgerKept
<1> QED
  BY <1>2, <1>3, <1>4, <1>5 DEF MachineInv

LEMMA NewIsAbsent ==
    ASSUME NEW j \in Jobs, IsNew(j)
    PROVE  job[j].status = "absent"
BY MachineServiceAssumption DEF MachineServiceAssumption, IsNew

LEMMA NewJobRow ==
    ASSUME NEW status \in JobStatuses, NEW via \in {"queue", "bucket"},
           NEW m \in Machines \cup {NoMachine}
    PROVE  /\ NewJob(status, via, m) \in JobRow
           /\ NewJob(status, via, m).status = status
           /\ NewJob(status, via, m).reserved = 0
           /\ NewJob(status, via, m).used = 0
BY MachineServiceAssumption DEF MachineServiceAssumption, NewJob, JobRow, Grams

LEMMA SubmitInv ==
    ASSUME MachineInv, NEW j \in Jobs, NEW via \in {"queue", "bucket"},
           NEW m \in Machines \cup {NoMachine}, submit(j, via, m)
    PROVE  MachineInv'
<1> DEFINE R == NewJob("pending", via, m)
<1>1. job[j].status = "absent" /\ job[j].used = 0
  BY NewIsAbsent DEF submit, MachineInv, RowsHoldAsTheyRun
<1>2. R \in JobRow /\ R.status = "pending" /\ R.reserved = 0 /\ R.used = 0
  BY NewJobRow DEF JobStatuses
<1>3. job' = [job EXCEPT ![j] = R] /\ UNCHANGED <<machine, pool, overruled>>
  BY DEF submit
<1> HIDE DEF R
<1> QED
  BY <1>1, <1>2, <1>3, RowMoves

LEMMA ReprintInv ==
    ASSUME MachineInv, NEW j \in Jobs, NEW child \in Jobs, create_reprint(j, child)
    PROVE  MachineInv'
<1> DEFINE m == IF job[j].via = "bucket" THEN job[j].machine ELSE NoMachine
           R == NewJob("accepted", job[j].via, m)
<1>1. job[child].status = "absent" /\ job[child].used = 0
  BY NewIsAbsent DEF create_reprint, MachineInv, RowsHoldAsTheyRun
<1>2. job[j].via \in {"queue", "bucket"} /\ m \in Machines \cup {NoMachine}
  BY DEF MachineInv, ServiceTypeOK, JobRow
<1>3. R \in JobRow /\ R.status = "accepted" /\ R.reserved = 0 /\ R.used = 0
  BY <1>2, NewJobRow DEF JobStatuses
<1>4. job' = [job EXCEPT ![child] = R] /\ UNCHANGED <<machine, pool, overruled>>
  BY DEF create_reprint, Reprint
<1> HIDE DEF R
<1> QED
  BY <1>1, <1>3, <1>4, RowMoves

\* accept, reject, collect.
LEMMA StatusInv ==
    ASSUME MachineInv, NEW j \in Jobs, accept(j) \/ reject(j) \/ collect(j)
    PROVE  MachineInv'
<1> PICK to \in {"accepted", "rejected", "collected"} :
       /\ job[j].status = IF to = "collected" THEN "completed" ELSE "pending"
       /\ job' = [job EXCEPT ![j].status = to]
       /\ UNCHANGED <<machine, pool, overruled>>
  BY DEF accept, reject, collect
<1> DEFINE R == [job[j] EXCEPT !.status = to]
<1>1. job[j] \in JobRow
  BY DEF MachineInv, ServiceTypeOK
<1>2. R \in JobRow /\ R.status = to /\ R.reserved = job[j].reserved /\ R.used = job[j].used
  BY <1>1 DEF JobRow, JobStatuses
<1>3. job[j].reserved = 0 /\ (to # "collected" => job[j].used = 0)
  BY DEF MachineInv, RowsHoldAsTheyRun
<1>4. job' = [job EXCEPT ![j] = R]
  OBVIOUS
<1> HIDE DEF R
<1>5. job[j].status # "in_progress" /\ R.status # "in_progress"
  BY <1>2
<1> QED
  BY <1>2, <1>3, <1>4, <1>5, RowMoves

LEMMA StartInv ==
    ASSUME MachineInv, NEW j \in Jobs, NEW m \in Machines, NEW planned \in Grams,
           start(j, m, planned)
    PROVE  MachineInv'
<1> DEFINE R == [job[j] EXCEPT !.status = "in_progress", !.machine = m,
                               !.pooled = planned > 0, !.reserved = planned]
<1>0. Initial \in Nat /\ planned \in Nat /\ planned <= Initial
  BY MachineServiceAssumption DEF MachineServiceAssumption, Grams
<1>1. job[j] \in JobRow /\ job[j].status = "accepted" /\ job[j].reserved = 0 /\ job[j].used = 0
  BY DEF MachineInv, ServiceTypeOK, RowsHoldAsTheyRun, start
<1>2. /\ R.status = "in_progress" /\ R.machine = m
      /\ R.reserved = planned /\ R.used = job[j].used
  BY <1>1 DEF JobRow
<1>3. R \in JobRow
  <2> DEFINE b == planned > 0
  <2>1. b \in BOOLEAN
    OBVIOUS
  <2> HIDE DEF b
  <2>2. [job[j] EXCEPT !.status = "in_progress", !.machine = m, !.pooled = b,
                       !.reserved = planned] \in JobRow
    BY <1>1, <2>1 DEF JobRow, JobStatuses
  <2> QED
    BY <2>2 DEF b
<1>4. job' = [job EXCEPT ![j] = R]
  BY DEF start
<1> HIDE DEF R
<1>5. job \in [Jobs -> JobRow] /\ job'[j] = R /\ \A x \in Jobs : x # j => job'[x] = job[x]
  BY <1>4 DEF MachineInv, ServiceTypeOK
<1>6. /\ pool.remaining \in Int /\ pool.corrected \in Int
      /\ pool' = [pool EXCEPT !.remaining = @ - planned]
      /\ pool'.remaining = pool.remaining - planned /\ pool'.corrected = pool.corrected
      /\ pool'.remaining \in Grams
  BY <1>0 DEF start, MachineInv, ServiceTypeOK, Grams
<1>7. /\ machine[m].is_active /\ machine[m].status = "idle"
      /\ machine' = [machine EXCEPT ![m].status = "running"]
      /\ machine'[m] = [status |-> "running", is_active |-> TRUE]
      /\ \A x \in Machines : x # m => machine'[x] = machine[x]
      /\ overruled' = overruled
  BY DEF start, Available, MachineInv, ServiceTypeOK
<1>8. ServiceTypeOK'
  BY <1>3, <1>4, <1>5, <1>6, <1>7 DEF MachineInv, ServiceTypeOK, MachineStatuses
<1>9. RowsHoldAsTheyRun'
  BY <1>1, <1>2, <1>5 DEF MachineInv, RowsHoldAsTheyRun
<1>10. OneJobPerMachine'
  <2>1. m \notin overruled => Running(m) = {}
    BY <1>7 DEF MachineInv, OneJobPerMachine, Running
  <2> QED
    BY <1>2, <1>5, <1>7, <2>1 DEF MachineInv, OneJobPerMachine, RowsHoldAsTheyRun, Running
<1>11. PoolExplained'
  BY <1>0, <1>1, <1>2, <1>5, <1>6, <1>8, <1>9, LedgerKept
<1> QED
  BY <1>8, <1>9, <1>10, <1>11 DEF MachineInv

\* complete_job and fail.
LEMMA FinishInv ==
    ASSUME MachineInv, NEW j \in Jobs, NEW to \in {"completed", "failed"},
           NEW actual \in Nat, Finish(j, to, actual)
    PROVE  MachineInv'
<1> DEFINE m == job[j].machine
           R == [job[j] EXCEPT !.status = to, !.reserved = 0, !.used = actual]
<1>0. Initial \in Nat /\ 0 \in Grams
  BY MachineServiceAssumption DEF MachineServiceAssumption, Grams
<1>1. /\ job[j] \in JobRow /\ job[j].status = "in_progress" /\ job[j].used = 0
      /\ m \in Machines
  BY DEF MachineInv, ServiceTypeOK, RowsHoldAsTheyRun, Finish
<1>2. R.status = to /\ R.reserved = 0 /\ R.used = actual
  BY <1>1 DEF JobRow
<1>3. R \in JobRow
  BY <1>0, <1>1, <1>2 DEF JobRow, JobStatuses
<1>4. job' = [job EXCEPT ![j] = R]
  BY DEF Finish
<1> HIDE DEF R
<1>5. job \in [Jobs -> JobRow] /\ job'[j] = R /\ \A x \in Jobs : x # j => job'[x] = job[x]
  BY <1>4 DEF MachineInv, ServiceTypeOK
<1>6. /\ pool.remaining \in Int /\ pool.corrected \in Int /\ job[j].reserved \in Int
      /\ pool'.remaining = pool.remaining + job[j].reserved - actual
      /\ pool'.corrected = pool.corrected
      /\ pool' \in [remaining : Grams, corrected : Int]
  BY <1>0, <1>1 DEF Finish, BalanceAfter, MachineInv, ServiceTypeOK, Grams, JobRow
<1>7. /\ machine' \in [Machines -> [status : MachineStatuses, is_active : BOOLEAN]]
      /\ \A x \in Machines : x # m => machine'[x] = machine[x]
  BY <1>1 DEF Finish, Freed, MachineInv, ServiceTypeOK, MachineStatuses
<1>8. /\ overruled' \subseteq Machines
      /\ \A x \in Machines : x # m => (x \in overruled' <=> x \in overruled)
      /\ m \notin overruled' => m \notin overruled \/ Running(m) = {j}
  BY DEF Finish, MachineInv, ServiceTypeOK
<1>9. ServiceTypeOK'
  BY <1>3, <1>4, <1>5, <1>6, <1>7, <1>8 DEF ServiceTypeOK
<1>10. RowsHoldAsTheyRun'
  BY <1>1, <1>2, <1>5 DEF MachineInv, RowsHoldAsTheyRun
<1>11. OneJobPerMachine'
  <2>1. m \notin overruled => Running(m) = {j}
    BY <1>1 DEF MachineInv, OneJobPerMachine, Running
  <2>2. \A x \in Jobs : job'[x].status = "in_progress"
           => x # j /\ job'[x] = job[x] /\ job[x].machine \in Machines
    BY <1>2, <1>5 DEF MachineInv, RowsHoldAsTheyRun
  <2>3. \A x \in Jobs : job'[x].status = "in_progress" /\ job[x].machine = m
           => m \in overruled'
    BY <1>8, <2>1, <2>2 DEF Running
  <2> QED
    BY <1>7, <1>8, <2>2, <2>3 DEF MachineInv, OneJobPerMachine, Running
<1>12. PoolExplained'
  <2>1. job'[j].reserved = 0 /\ job'[j].used = actual /\ job[j].used = 0
    BY <1>1, <1>2, <1>5
  <2> QED
    BY <1>5, <1>6, <1>9, <1>10, <2>1, LedgerKept
<1> QED
  BY <1>9, <1>10, <1>11, <1>12 DEF MachineInv

\* set_status, retire_machine, unretire_machine.
LEMMA MachineStepInv ==
    ASSUME MachineInv, MachineSteps
    PROVE  MachineInv'
<1>1. PICK m \in Machines : \/ \E to \in MachineStatuses : set_status(m, to)
                            \/ retire_machine(m) \/ unretire_machine(m)
  BY DEF MachineSteps
<1>2. /\ machine' \in [Machines -> [status : MachineStatuses, is_active : BOOLEAN]]
      /\ \A x \in Machines : x # m => machine'[x] = machine[x]
      /\ overruled \subseteq overruled' /\ overruled' \subseteq overruled \cup {m}
      /\ UNCHANGED <<job, pool>>
  <2> USE DEF MachineInv, ServiceTypeOK, MachineStatuses
  <2>1. CASE \E to \in MachineStatuses : set_status(m, to)
    BY <2>1 DEF set_status, Overrule
  <2>2. CASE retire_machine(m)
    BY <2>2 DEF retire_machine, Overrule
  <2>3. CASE unretire_machine(m)
    BY <2>3 DEF unretire_machine
  <2> QED
    BY <1>1, <2>1, <2>2, <2>3
<1>3. ServiceTypeOK'
  BY <1>2 DEF MachineInv, ServiceTypeOK
<1>4. RowsHoldAsTheyRun'
  BY <1>2 DEF MachineInv, RowsHoldAsTheyRun
<1>5. OneJobPerMachine'
  <2>1. ASSUME m \notin overruled', Running(m) # {}
        PROVE  machine'[m] = machine[m]
    <3>1. /\ m \notin overruled
          /\ machine[m] = [status |-> "running", is_active |-> TRUE]
      BY <1>2, <2>1 DEF MachineInv, OneJobPerMachine, Running
    <3>2. CASE \E to \in MachineStatuses : set_status(m, to)
      BY <2>1, <3>1, <3>2 DEF set_status, Overrule, MachineInv, ServiceTypeOK
    <3>3. CASE retire_machine(m)
      BY <2>1, <3>1, <3>3 DEF retire_machine, Overrule
    <3>4. CASE unretire_machine(m)
      <4>1. machine'[m] = [machine[m] EXCEPT !.is_active = TRUE]
        BY <3>4 DEF unretire_machine, MachineInv, ServiceTypeOK
      <4>2. machine'[m] \in [status : MachineStatuses, is_active : BOOLEAN]
        BY <1>2
      <4>3. machine'[m].status = "running" /\ machine'[m].is_active = TRUE
        BY <3>1, <4>1
      <4> QED
        BY <3>1, <4>2, <4>3
    <3> QED
      BY <1>1, <3>2, <3>3, <3>4
  <2> QED
    BY <1>2, <2>1 DEF MachineInv, OneJobPerMachine, Running, RowsHoldAsTheyRun
<1>6. PoolExplained'
  BY <1>2 DEF MachineInv, PoolExplained, GramsOf
<1> QED
  BY <1>3, <1>4, <1>5, <1>6 DEF MachineInv

LEMMA AdjustInv ==
    ASSUME MachineInv, NEW delta \in Int, adjust_pool(delta)
    PROVE  MachineInv'
<1>1. /\ pool.remaining \in Int /\ pool.corrected \in Int
      /\ pool'.remaining = pool.remaining + delta
      /\ pool'.corrected = pool.corrected + delta
      /\ pool' \in [remaining : Grams, corrected : Int]
      /\ UNCHANGED <<job, machine, overruled>>
  BY MachineServiceAssumption
     DEF MachineServiceAssumption, adjust_pool, MachineInv, ServiceTypeOK, Grams
<1>2. ServiceTypeOK' /\ RowsHoldAsTheyRun' /\ OneJobPerMachine'
  BY <1>1 DEF MachineInv, ServiceTypeOK, RowsHoldAsTheyRun, OneJobPerMachine, Running
<1>3. PoolExplained'
  <2>1. GramsOf' = GramsOf /\ Cardinality(GramsOf) \in Int
    <3>1. IsFiniteSet(GramsOf)
      BY GramsOfHeld, GramsFinite DEF MachineInv
    <3> QED
      BY <1>1, <3>1, FS_CardinalityType DEF GramsOf
  <2>2. pool.remaining = Initial + pool.corrected - Cardinality(GramsOf)
    BY DEF MachineInv, PoolExplained
  <2>3. pool'.remaining = Initial + pool'.corrected - Cardinality(GramsOf)
    BY <1>1, <2>1, <2>2, MachineServiceAssumption DEF MachineServiceAssumption
  <2> QED
    BY <1>1, <2>1, <2>3 DEF MachineInv, PoolExplained
<1> QED
  BY <1>2, <1>3 DEF MachineInv

LEMMA MachineNextInv == MachineInv /\ [ServiceNext]_serviceVars => MachineInv'
<1> SUFFICES ASSUME MachineInv, [ServiceNext]_serviceVars PROVE MachineInv'
  OBVIOUS
<1>1. CASE JobSteps
  <2>1. PICK j \in Jobs :
           \/ \E via \in {"queue", "bucket"}, m \in Machines \cup {NoMachine} :
                 submit(j, via, m)
           \/ accept(j) \/ reject(j) \/ collect(j)
           \/ \E m \in Machines, planned \in Grams : start(j, m, planned)
           \/ \E actual \in 0..2 * Initial : complete_job(j, actual) \/ fail(j, actual)
           \/ \E child \in Jobs : create_reprint(j, child)
    BY <1>1 DEF JobSteps
  <2>2. CASE \E via \in {"queue", "bucket"}, m \in Machines \cup {NoMachine} :
                submit(j, via, m)
    BY <2>2, SubmitInv
  <2>3. CASE accept(j) \/ reject(j) \/ collect(j)
    BY <2>3, StatusInv
  <2>4. CASE \E m \in Machines, planned \in Grams : start(j, m, planned)
    BY <2>4, StartInv
  <2>5. CASE \E actual \in 0..2 * Initial : complete_job(j, actual) \/ fail(j, actual)
    <3>1. PICK actual \in 0..2 * Initial, to \in {"completed", "failed"} :
             Finish(j, to, actual)
      BY <2>5 DEF complete_job, fail
    <3>2. actual \in Nat
      BY MachineServiceAssumption DEF MachineServiceAssumption
    <3> QED
      BY <3>1, <3>2, FinishInv
  <2>6. CASE \E child \in Jobs : create_reprint(j, child)
    BY <2>6, ReprintInv
  <2> QED
    BY <2>1, <2>2, <2>3, <2>4, <2>5, <2>6
<1>2. CASE MachineSteps
  BY <1>2, MachineStepInv
<1>3. CASE \E delta \in -Initial..Initial : adjust_pool(delta)
  BY <1>3, AdjustInv, MachineServiceAssumption DEF MachineServiceAssumption
<1>4. CASE UNCHANGED serviceVars
  BY <1>4 DEF serviceVars, MachineInv, ServiceTypeOK, RowsHoldAsTheyRun, OneJobPerMachine,
     Running, PoolExplained, GramsOf
<1> QED
  BY <1>1, <1>2, <1>3, <1>4 DEF ServiceNext

\* A machine that staff leave alone never runs two jobs, nor looks free or is
\* retired while one runs (machines/service_workflow.py, services.py).
THEOREM MachinesRunOneJob == ServiceSpec => []OneJobPerMachine
<1>1. MachineInv => OneJobPerMachine
  BY DEF MachineInv
<1> QED
  BY <1>1, MachineInitInv, MachineNextInv, PTL DEF ServiceSpec

\* The pool's balance and its jobs' amounts agree after any number of jobs,
\* failures and reprints (machines/service_consumable_pools.py).
THEOREM PoolAddsUp == ServiceSpec => []PoolExplained
<1>1. MachineInv => PoolExplained
  BY DEF MachineInv
<1> QED
  BY <1>1, MachineInitInv, MachineNextInv, PTL DEF ServiceSpec

-----------------------------------------------------------------------------
(* Return reminders. *)

\* A reminder of d is still to come: from the next claim, or from a claim made.
Claimants(d) == {w \in Sweeps : sweep[w].step = "claimed" /\ sweep[w].due = d}
Open(d) == loan.due = d /\ ~loan.sent

\* A reminder of d has one claim at a time, never claims after it was sent,
\* and no due time is reminded of before it is set.
ReminderInv ==
    /\ RemindersTypeOK
    /\ \A w \in Sweeps : sweep[w].step = "claimed" => sweep[w].due <= loan.due
    /\ \A d \in Dues : d > loan.due => reminded[d] = 0
    /\ \A d \in Dues \ undone :
          /\ reminded[d] <= 1
          /\ reminded[d] = 1 => Claimants(d) = {} /\ ~Open(d)
          /\ Claimants(d) # {} => ~Open(d)
          /\ \A v, w \in Claimants(d) : v = w

LEMMA ReminderInitInv == RemindersInit => ReminderInv
BY RemindersAssumption
   DEF RemindersAssumption, RemindersInit, ReminderInv, RemindersTypeOK, NotSweeping,
       Claimants, Open, Dues

LEMMA ReminderNextInv == ReminderInv /\ [RemindersNext]_reminderVars => ReminderInv'
<1> SUFFICES ASSUME ReminderInv, [RemindersNext]_reminderVars PROVE ReminderInv'
  OBVIOUS
<1>0. MaxDues \in Nat
  BY RemindersAssumption DEF RemindersAssumption
<1> USE <1>0 DEF ReminderInv, RemindersTypeOK, Dues, Claimants, Open
<1>1. ASSUME loan'.due = loan.due, loan'.sent = loan.sent, RemindersTypeOK',
             UNCHANGED <<reminded, undone>>,
             \A v \in Sweeps : sweep'[v] = sweep[v] \/ sweep'[v].step # "claimed"
      PROVE  ReminderInv'
  <2>1. \A d \in Dues : Claimants(d)' \subseteq Claimants(d) /\ (Open(d)' <=> Open(d))
    BY <1>1
  <2>2. \A w \in Sweeps : sweep'[w].step = "claimed" => sweep'[w].due <= loan'.due
    BY <1>1
  <2> QED
    BY <1>1, <2>1, <2>2
<1>2. CASE (\E to \in {"issued", "returned"} : move_loan(to)) \/ fall_due
  <2>1. /\ loan'.due = loan.due /\ loan'.sent = loan.sent
        /\ UNCHANGED <<sweep, reminded, undone>>
    BY <1>2 DEF move_loan, fall_due
  <2>2. RemindersTypeOK'
    <3>1. CASE fall_due
      BY <3>1 DEF fall_due
    <3>2. ASSUME NEW to \in {"issued", "returned"}, move_loan(to)
          PROVE  RemindersTypeOK'
      <4>1. [loan EXCEPT !.status = to]
              \in [status : {"accepted", "issued", "returned"}, due : Dues,
                   past : BOOLEAN, sent : BOOLEAN]
        OBVIOUS
      <4> QED
        BY <3>2, <4>1 DEF move_loan
    <3> QED
      BY <1>2, <3>1, <3>2
  <2> QED
    BY <1>1, <2>1, <2>2
<1>3. CASE set_return_due
  <2>1. /\ loan'.due = loan.due + 1 /\ loan.due \in Nat
        /\ UNCHANGED <<sweep, reminded, undone>>
    BY <1>3 DEF set_return_due
  <2>2. RemindersTypeOK'
    <3>1. loan.due + 1 \in Dues
      BY <1>3 DEF set_return_due
    <3>2. ASSUME NEW n \in Dues
          PROVE  [loan EXCEPT !.due = n, !.past = FALSE, !.sent = FALSE]
                   \in [status : {"accepted", "issued", "returned"}, due : Dues,
                        past : BOOLEAN, sent : BOOLEAN]
      OBVIOUS
    <3>3. loan' = [loan EXCEPT !.due = loan.due + 1, !.past = FALSE, !.sent = FALSE]
      BY <1>3 DEF set_return_due
    <3>4. loan' \in [status : {"accepted", "issued", "returned"}, due : Dues,
                     past : BOOLEAN, sent : BOOLEAN]
      BY <3>1, <3>2, <3>3
    <3> QED
      BY <2>1, <3>4
  <2>3. \A w \in Sweeps : sweep'[w].step = "claimed" => sweep'[w].due <= loan'.due
    BY <2>1
  <2>4. \A d \in Dues : d > loan'.due => reminded'[d] = 0
    BY <2>1
  <2>5. \A d \in Dues \ undone' : Open(d)' => reminded[d] = 0 /\ Claimants(d) = {}
    BY <2>1
  <2> QED
    BY <2>1, <2>2, <2>3, <2>4, <2>5, SMTT(30)
<1>4. ASSUME NEW w \in Sweeps, list_overdue(w) \/ stop_sweep(w)
      PROVE  ReminderInv'
  <2>0. PICK s \in [step : {"idle", "listed"}, due : Dues] : sweep' = [sweep EXCEPT ![w] = s]
    <3>1. CASE list_overdue(w)
      <4> DEFINE listed == [step |-> "listed", due |-> loan.due]
      <4>1. listed \in [step : {"idle", "listed"}, due : Dues]
        OBVIOUS
      <4>2. sweep' = [sweep EXCEPT ![w] = listed]
        BY <3>1 DEF list_overdue
      <4> HIDE DEF listed
      <4> QED
        BY <4>1, <4>2
    <3>2. CASE stop_sweep(w)
      <4>1. NotSweeping \in [step : {"idle", "listed"}, due : Dues]
        BY DEF NotSweeping
      <4>2. sweep' = [sweep EXCEPT ![w] = NotSweeping]
        BY <3>2 DEF stop_sweep
      <4> QED
        BY <4>1, <4>2
    <3> QED
      BY <1>4, <3>1, <3>2
  <2>1. sweep'[w].step # "claimed" /\ \A v \in Sweeps : v # w => sweep'[v] = sweep[v]
    BY <2>0
  <2>2. sweep' \in [Sweeps -> [step : {"idle", "listed", "claimed"}, due : Dues]]
    BY <2>0
  <2>3. UNCHANGED <<loan, reminded, undone>>
    BY <1>4 DEF list_overdue, stop_sweep
  <2> QED
    BY <1>1, <2>1, <2>2, <2>3
<1>5. ASSUME NEW w \in Sweeps, claim(w)
      PROVE  ReminderInv'
  <2>1. CASE Unclaimed
    <3>1. /\ ~loan.sent /\ loan' = [loan EXCEPT !.sent = TRUE]
          /\ sweep' = [sweep EXCEPT ![w] = [step |-> "claimed", due |-> loan.due]]
          /\ UNCHANGED <<reminded, undone>>
      BY <1>5, <2>1 DEF claim, Unclaimed
    <3>2. RemindersTypeOK'
      BY <3>1
    <3>3. loan'.due = loan.due /\ loan'.sent = TRUE
      BY <3>1
    <3>4. /\ sweep'[w].step = "claimed" /\ sweep'[w].due = loan.due
          /\ \A v \in Sweeps : v # w => sweep'[v] = sweep[v]
      BY <3>1
    <3>5. loan.due \notin undone => reminded[loan.due] # 1 /\ Claimants(loan.due) = {}
      BY <3>1
    <3> QED
      BY <3>1, <3>2, <3>3, <3>4, <3>5
  <2>2. CASE ~Unclaimed
    <3>1. sweep' = [sweep EXCEPT ![w] = NotSweeping] /\ UNCHANGED <<loan, reminded, undone>>
      BY <1>5, <2>2 DEF claim
    <3> QED
      BY <3>1 DEF NotSweeping
  <2> QED
    BY <2>1, <2>2
<1>6. ASSUME NEW w \in Sweeps, notify_return_due(w)
      PROVE  ReminderInv'
  <2> DEFINE due == sweep[w].due
  <2>1. /\ sweep[w].step = "claimed" /\ due \in Dues
        /\ sweep' = [sweep EXCEPT ![w] = NotSweeping]
        /\ sweep'[w].step = "idle" /\ \A v \in Sweeps : v # w => sweep'[v] = sweep[v]
        /\ sweep' \in [Sweeps -> [step : {"idle", "listed", "claimed"}, due : Dues]]
    BY <1>6 DEF notify_return_due, NotSweeping
  <2>2. due \notin undone => reminded[due] = 0 /\ ~Open(due) /\ Claimants(due) = {w}
    BY <2>1
  <2>3. CASE reminded' = [reminded EXCEPT ![due] = @ + 1] /\ UNCHANGED <<loan, undone>>
    <3>1. RemindersTypeOK' /\ due <= loan.due
      BY <2>1, <2>3, SMTT(30)
    <3>2. /\ reminded'[due] = reminded[due] + 1
          /\ \A d \in Dues : d # due => reminded'[d] = reminded[d]
      BY <2>1, <2>3
    <3>3. \A d \in Dues \ undone : reminded'[d] <= 1
      BY <2>2, <3>2
    <3>4. \A d \in Dues : Claimants(d)' = Claimants(d) \ {w} /\ (Open(d)' <=> Open(d))
      BY <2>1, <2>3
    <3>5. \A d \in Dues : d > loan.due => reminded'[d] = 0
      BY <3>1, <3>2
    <3>6. \A v \in Sweeps : sweep'[v].step = "claimed" => sweep'[v].due <= loan'.due
      BY <2>1, <2>3
    <3>7. ASSUME NEW d \in Dues \ undone
          PROVE  /\ reminded'[d] = 1 => Claimants(d)' = {} /\ ~Open(d)'
                 /\ Claimants(d)' # {} => ~Open(d)'
                 /\ \A u, v \in Claimants(d)' : u = v
      <4>1. CASE d = due
        BY <2>2, <3>4, <4>1
      <4>2. CASE d # due
        <5>1. reminded'[d] = reminded[d]
          BY <3>2, <4>2
        <5> QED
          BY <3>4, <5>1
      <4> QED
        BY <4>1, <4>2
    <3> QED
      BY <2>3, <3>1, <3>3, <3>5, <3>6, <3>7
  <2>4. CASE /\ loan' = [loan EXCEPT !.sent = FALSE]
             /\ undone' = IF due # loan.due THEN undone \cup {loan.due} ELSE undone
             /\ UNCHANGED reminded
    <3>1. loan'.due = loan.due /\ RemindersTypeOK'
      BY <2>1, <2>4
    <3>2. \A d \in Dues \ undone' : Open(d)' => d = due
      BY <2>4, <3>1
    <3> QED
      BY <2>1, <2>2, <2>4, <3>1, <3>2, SMTT(30)
  <2> QED
    BY <1>6, <2>3, <2>4 DEF notify_return_due
<1>7. CASE UNCHANGED reminderVars
  BY <1>7 DEF reminderVars
<1> QED
  BY <1>1, <1>2, <1>3, <1>4, <1>5, <1>6, <1>7 DEF RemindersNext

\* However many sweeps run, a due time is reminded of once, but where an older
\* due time's failure took the claim back
\* (hardware_requests/services_return_reminders.py).
THEOREM DueTimesAreRemindedOnce == RemindersSpec => []RemindedOnce
<1>1. ReminderInv => RemindedOnce
  BY DEF ReminderInv, RemindedOnce
<1> QED
  BY <1>1, ReminderInitInv, ReminderNextInv, PTL DEF RemindersSpec

-----------------------------------------------------------------------------
(* Delivery of e-mail. *)

LogStatuses == {"absent", "pending", "sending", "sent", "failed"}

DeliveryTypes ==
    /\ log \in [Emails -> LogStatuses]
    /\ courier \in [DeliveryWorkers -> {Free} \cup Carrying]
    /\ copies \in [Emails -> Nat] /\ doubts \in [Emails -> Nat]

\* The workers that have a row and have not sent it, as far as they know.
Underway(e) == {w \in CarriersOf(e) : courier[w].step \in {"claimed", "raised"}}

\* Every copy, every worker that may make or fail one and the next claim share
\* the one delivery a row has, and the doubts about it.
OneDelivery(e) ==
    copies[e] + Cardinality(Underway(e)) + (IF Claimable(e) THEN 1 ELSE 0) <= 1 + doubts[e]

DeliveryInv == DeliveryTypes /\ \A e \in Emails : OneDelivery(e)

LEMMA UnderwayFinite ==
    ASSUME NEW e
    PROVE  IsFiniteSet(Underway(e)) /\ Cardinality(Underway(e)) \in Nat
<1>1. Underway(e) \subseteq DeliveryWorkers
  BY DEF Underway, CarriersOf
<1>2. IsFiniteSet(Underway(e))
  BY <1>1, FS_Subset, DeliveryAssumption DEF DeliveryAssumption
<1> QED
  BY <1>2, FS_CardinalityType

LEMMA DeliveryInitInv == DeliveryInit => DeliveryInv
<1> SUFFICES ASSUME DeliveryInit PROVE DeliveryInv
  OBVIOUS
<1>1. DeliveryTypes
  BY DEF DeliveryInit, DeliveryTypes, LogStatuses
<1>2. ASSUME NEW e \in Emails
      PROVE  OneDelivery(e)
  <2>1. Underway(e) = {}
    BY DEF Underway, CarriersOf, DeliveryInit
  <2>2. Cardinality(Underway(e)) = 0
    BY <2>1, FS_EmptySet
  <2> QED
    BY <2>2 DEF OneDelivery, DeliveryInit
<1> QED
  BY <1>1, <1>2 DEF DeliveryInv

\* The same workers carry the same rows.
LEMMA CarriersKept ==
    ASSUME UNCHANGED courier, NEW e
    PROVE  CarriersOf(e)' = CarriersOf(e) /\ Underway(e)' = Underway(e)
BY DEF CarriersOf, Underway

\* A step on the row of one e-mail by no worker: the row stays or becomes
\* claimable, and if it was not, a doubt is counted.
LEMMA RowStep ==
    ASSUME DeliveryInv, NEW e \in Emails, NEW to \in LogStatuses,
           log' = [log EXCEPT ![e] = to] \/ UNCHANGED log,
           UNCHANGED <<courier, copies>>,
           UNCHANGED doubts \/ doubts' = [doubts EXCEPT ![e] = @ + 1],
           Claimable(e)' => Claimable(e) \/ doubts' = [doubts EXCEPT ![e] = @ + 1]
    PROVE  DeliveryInv'
<1>1. DeliveryTypes'
  BY DEF DeliveryInv, DeliveryTypes
<1>2. ASSUME NEW x \in Emails
      PROVE  OneDelivery(x)'
  <2>1. Cardinality(Underway(x)) \in Nat /\ Underway(x)' = Underway(x)
    BY UnderwayFinite, CarriersKept
  <2>2. OneDelivery(x) /\ copies[x] \in Nat /\ doubts[x] \in Nat /\ doubts'[x] \in Nat
    BY <1>1 DEF DeliveryInv, DeliveryTypes
  <2>3. doubts'[x] >= doubts[x] /\ (doubts' = [doubts EXCEPT ![e] = @ + 1]
                                       => x # e \/ doubts'[x] = doubts[x] + 1)
    BY DEF DeliveryInv, DeliveryTypes
  <2>4. x # e => (Claimable(x)' <=> Claimable(x))
    BY CarriersKept DEF Claimable, DeliveryInv, DeliveryTypes
  <2> QED
    BY <2>1, <2>2, <2>3, <2>4 DEF OneDelivery
<1> QED
  BY <1>1, <1>2 DEF DeliveryInv

LEMMA DispatchInv ==
    ASSUME DeliveryInv, NEW e \in Emails, dispatch_email(e) \/ retry_email_log(e)
    PROVE  DeliveryInv'
<1>1. /\ \E to \in LogStatuses : log' = [log EXCEPT ![e] = to]
      /\ UNCHANGED <<courier, copies, doubts>>
  BY DEF dispatch_email, retry_email_log, LogStatuses
<1>2. Claimable(e)
  BY DEF dispatch_email, retry_email_log, Claimable
<1> QED
  BY <1>1, <1>2, RowStep

LEMMA EnqueueInv ==
    ASSUME DeliveryInv, NEW e \in Emails, NEW outcome, enqueue(e, outcome)
    PROVE  DeliveryInv'
<1>1. UNCHANGED <<log, courier, copies, doubts>>
  BY DEF enqueue
<1>2. Claimable(e)' => Claimable(e)
  BY <1>1 DEF Claimable, CarriersOf
<1>3. "failed" \in LogStatuses
  BY DEF LogStatuses
<1> QED
  BY <1>1, <1>2, <1>3, RowStep

LEMMA EnqueueFailedInv ==
    ASSUME DeliveryInv, NEW e \in Emails, enqueue_failed(e)
    PROVE  DeliveryInv'
<1>1. /\ log' = [log EXCEPT ![e] = "failed"] /\ "failed" \in LogStatuses
      /\ UNCHANGED <<courier, copies>>
      /\ doubts' = [doubts EXCEPT ![e] = @ + IF log[e] \in {"sending", "sent"} THEN 1 ELSE 0]
  BY DEF enqueue_failed, Doubt, LogStatuses
<1>2. CASE log[e] \in {"sending", "sent"}
  BY <1>1, <1>2, RowStep
<1>3. CASE log[e] \notin {"sending", "sent"}
  <2>1. Claimable(e)
    BY <1>3 DEF Claimable
  <2>2. doubts' = doubts
    BY <1>1, <1>3 DEF DeliveryInv, DeliveryTypes
  <2> QED
    BY <1>1, <2>1, <2>2, RowStep
<1> QED
  BY <1>2, <1>3

OnRow(c, e) == c = Free \/ c.email = e

\* A step of a worker on one row: the other rows keep their carriers.
LEMMA OthersKept ==
    ASSUME NEW w \in DeliveryWorkers, NEW e \in Emails, NEW x \in Emails, x # e,
           \A v \in DeliveryWorkers : v # w => courier'[v] = courier[v],
           OnRow(courier[w], e), OnRow(courier'[w], e)
    PROVE  CarriersOf(x)' = CarriersOf(x) /\ Underway(x)' = Underway(x)
<1>1. CarriersOf(x)' = CarriersOf(x) /\ w \notin CarriersOf(x)
  BY DEF CarriersOf, OnRow
<1> QED
  BY <1>1 DEF Underway, CarriersOf

LEMMA WorkerStep ==
    ASSUME DeliveryInv, NEW w \in DeliveryWorkers, NEW e \in Emails, NEW c \in {Free} \cup Carrying,
           courier' = [courier EXCEPT ![w] = c],
           OnRow(courier[w], e), OnRow(c, e),
           UNCHANGED log \/ \E to \in LogStatuses : log' = [log EXCEPT ![e] = to],
           UNCHANGED copies \/ copies' = [copies EXCEPT ![e] = @ + 1],
           UNCHANGED doubts \/ doubts' = [doubts EXCEPT ![e] = @ + 1],
           OneDelivery(e)'
    PROVE  DeliveryInv'
<1>1. DeliveryTypes'
  BY DEF DeliveryInv, DeliveryTypes
<1>2. ASSUME NEW x \in Emails, x # e
      PROVE  OneDelivery(x)'
  <2>1. courier'[w] = c /\ \A v \in DeliveryWorkers : v # w => courier'[v] = courier[v]
    BY DEF DeliveryInv, DeliveryTypes
  <2>2. CarriersOf(x)' = CarriersOf(x) /\ Underway(x)' = Underway(x)
    BY <1>2, <2>1, OthersKept
  <2>3. log'[x] = log[x] /\ copies'[x] = copies[x] /\ doubts'[x] = doubts[x]
    BY <1>2 DEF DeliveryInv, DeliveryTypes
  <2> QED
    BY <2>2, <2>3 DEF OneDelivery, Claimable, DeliveryInv
<1> QED
  BY <1>1, <1>2 DEF DeliveryInv

LEMMA DeliverTaskInv ==
    ASSUME DeliveryInv, NEW w \in DeliveryWorkers, NEW e \in Emails, NEW r \in 0..MaxRetries,
           deliver_email_task(w, e, r)
    PROVE  DeliveryInv'
<1> DEFINE c == [step |-> "claimed", email |-> e, retries |-> r]
<1>1. CASE UNCHANGED <<log, courier>>
  <2>1. UNCHANGED <<copies, doubts>>
    BY DEF deliver_email_task
  <2>2. Claimable(e)' => Claimable(e)
    BY <1>1 DEF Claimable, CarriersOf
  <2>3. "failed" \in LogStatuses
    BY DEF LogStatuses
  <2> QED
    BY <1>1, <2>1, <2>2, <2>3, RowStep
<1>2. CASE Claimable(e) /\ log' = [log EXCEPT ![e] = "sending"]
           /\ courier' = [courier EXCEPT ![w] = c]
  <2>1. /\ courier[w] = Free /\ UNCHANGED <<copies, doubts>>
        /\ "sending" \in LogStatuses /\ c \in {Free} \cup Carrying /\ c # Free
    BY DEF deliver_email_task, LogStatuses, Carrying, Free
  <2>2. courier'[w] = c /\ \A v \in DeliveryWorkers : v # w => courier'[v] = courier[v]
    BY <1>2 DEF DeliveryInv, DeliveryTypes
  <2>3. w \notin Underway(e) /\ Underway(e)' = Underway(e) \cup {w} /\ w \in CarriersOf(e)'
    BY <2>1, <2>2 DEF Underway, CarriersOf
  <2>4. Cardinality(Underway(e)') = Cardinality(Underway(e)) + 1
        /\ Cardinality(Underway(e)) \in Nat
    BY <2>3, UnderwayFinite, FS_AddElement
  <2>5. log'[e] = "sending"
    BY <1>2 DEF DeliveryInv, DeliveryTypes
  <2>6. ~Claimable(e)'
    BY <2>3, <2>5 DEF Claimable
  <2>7. OneDelivery(e) /\ copies[e] \in Nat /\ doubts[e] \in Nat
    BY DEF DeliveryInv, DeliveryTypes
  <2>8. OneDelivery(e)'
    BY <1>2, <2>1, <2>4, <2>6, <2>7 DEF OneDelivery
  <2>9. OnRow(courier[w], e) /\ OnRow(c, e)
    BY <2>1 DEF OnRow
  <2> HIDE DEF c
  <2> QED
    BY <1>2, <2>1, <2>8, <2>9, WorkerStep
<1> QED
  BY <1>1, <1>2 DEF deliver_email_task

\* The row a worker has, and what becomes of its carriers when the worker
\* goes on to c.
LEMMA CarriersMove ==
    ASSUME DeliveryInv, NEW w \in DeliveryWorkers, NEW e, courier[w] # Free,
           courier[w].email = e, NEW c \in {Free} \cup Carrying,
           courier' = [courier EXCEPT ![w] = c], OnRow(c, e)
    PROVE  /\ e \in Emails /\ OnRow(courier[w], e)
           /\ OneDelivery(e) /\ copies[e] \in Nat /\ doubts[e] \in Nat
           /\ Cardinality(Underway(e)) \in Nat
           /\ c # Free /\ c.step = "raised" /\ courier[w].step = "claimed"
                 => Underway(e)' = Underway(e)
           /\ courier[w].step \in {"accepted", "recorded"}
                 /\ (c = Free \/ c.step \notin {"claimed", "raised"})
                 => Underway(e)' = Underway(e)
           /\ courier[w].step \in {"claimed", "raised"}
                 /\ (c = Free \/ c.step \notin {"claimed", "raised"})
                 => Cardinality(Underway(e)') = Cardinality(Underway(e)) - 1
           /\ courier[w].step # "recorded" /\ c # Free /\ c.step # "recorded"
                 => CarriersOf(e)' = CarriersOf(e)
           /\ courier[w].step = "recorded" /\ c = Free => CarriersOf(e)' = CarriersOf(e)
<1>1. courier[w] \in Carrying /\ e \in Emails
  BY DEF DeliveryInv, DeliveryTypes, Carrying
<1>2. courier'[w] = c /\ \A v \in DeliveryWorkers : v # w => courier'[v] = courier[v]
  BY DEF DeliveryInv, DeliveryTypes
<1>3. OneDelivery(e) /\ copies[e] \in Nat /\ doubts[e] \in Nat
  BY <1>1 DEF DeliveryInv, DeliveryTypes
<1>4. Cardinality(Underway(e)) \in Nat /\ IsFiniteSet(Underway(e))
  BY UnderwayFinite
<1>5. w \in Underway(e) <=> courier[w].step \in {"claimed", "raised"}
  BY DEF Underway, CarriersOf
<1>6. /\ w \in Underway(e)' <=> c # Free /\ c.step \in {"claimed", "raised"}
      /\ w \in CarriersOf(e)' <=> c # Free /\ c.step # "recorded"
      /\ w \in CarriersOf(e) <=> courier[w].step # "recorded"
  BY <1>2 DEF Underway, CarriersOf, OnRow
<1>7. \A v : v # w => /\ v \in Underway(e)' <=> v \in Underway(e)
                      /\ v \in CarriersOf(e)' <=> v \in CarriersOf(e)
  BY <1>2 DEF Underway, CarriersOf
<1>8. ASSUME w \in Underway(e), w \notin Underway(e)'
      PROVE  Cardinality(Underway(e)') = Cardinality(Underway(e)) - 1
  <2>1. Underway(e)' = Underway(e) \ {w}
    BY <1>7, <1>8
  <2> QED
    BY <1>4, <1>8, <2>1, FS_RemoveElement, SMTT(30)
<1>9. (w \in Underway(e) <=> w \in Underway(e)') => Underway(e)' = Underway(e)
  BY <1>7
<1>10. (w \in CarriersOf(e) <=> w \in CarriersOf(e)') => CarriersOf(e)' = CarriersOf(e)
  BY <1>7
<1> QED
  BY <1>1, <1>3, <1>4, <1>5, <1>6, <1>8, <1>9, <1>10 DEF OnRow

\* A row a worker moves: its copies, doubts, and what is still underway.
\* A count that takes one more, or none.
LEMMA CountedOnce ==
    ASSUME NEW f \in [Emails -> Nat], NEW e \in Emails, NEW n \in {0, 1}, NEW g,
           g = [f EXCEPT ![e] = f[e] + n]
    PROVE  /\ g[e] = f[e] + n
           /\ g = f \/ g = [f EXCEPT ![e] = f[e] + 1]
<1>1. CASE n = 0
  <2>1. f[e] + n = f[e]
    BY <1>1
  <2> QED
    BY <2>1
<1>2. CASE n = 1
  BY <1>2
<1> QED
  BY <1>1, <1>2

LEMMA DeliverInv ==
    ASSUME DeliveryInv, NEW w \in DeliveryWorkers, deliver(w)
    PROVE  DeliveryInv'
<1>1. PICK e \in Emails, r \in 0..MaxRetries :
         courier[w] = [step |-> "claimed", email |-> e, retries |-> r]
  BY DEF deliver, DeliveryInv, DeliveryTypes, Carrying
<1>2. PICK step \in {"accepted", "raised"}, taken \in BOOLEAN :
         /\ step = "accepted" => taken
         /\ courier' = [courier EXCEPT ![w].step = step]
         /\ copies' = [copies EXCEPT ![e] = @ + IF taken THEN 1 ELSE 0]
         /\ doubts' = [doubts EXCEPT ![e] = @ + IF taken /\ step = "raised" THEN 1 ELSE 0]
         /\ UNCHANGED log
  <2>1. PICK step \in {"accepted", "raised"}, taken \in BOOLEAN :
           /\ step = "accepted" => taken
           /\ courier' = [courier EXCEPT ![w].step = step]
           /\ copies' = [copies EXCEPT ![courier[w].email] = @ + IF taken THEN 1 ELSE 0]
           /\ Doubt(courier[w].email, taken /\ step = "raised")
    BY DEF deliver
  <2>2. courier[w].email = e /\ UNCHANGED log
    BY <1>1 DEF deliver
  <2>3. copies' = [copies EXCEPT ![e] = @ + IF taken THEN 1 ELSE 0]
    BY <2>1, <2>2
  <2>4. Doubt(e, taken /\ step = "raised")
    BY <2>1, <2>2
  <2> QED
    BY <2>1, <2>2, <2>3, <2>4 DEF Doubt
<1> DEFINE c == [step |-> step, email |-> e, retries |-> r]
<1>3. /\ courier' = [courier EXCEPT ![w] = c]
      /\ c \in {Free} \cup Carrying /\ c # Free /\ OnRow(c, e) /\ courier[w] # Free
      /\ c.step = step /\ courier[w].step = "claimed" /\ courier[w].email = e
  <2>1. [courier[w] EXCEPT !.step = step] = c
    BY <1>1
  <2>2. courier' = [courier EXCEPT ![w] = [courier[w] EXCEPT !.step = step]]
    BY <1>2
  <2>3. c \in Carrying /\ c # Free /\ c.step = step /\ c.email = e
    BY DEF Carrying, Free
  <2>4. courier[w] # Free
    BY <1>1 DEF Free
  <2>5. courier[w].step = "claimed" /\ courier[w].email = e
    BY <1>1
  <2> HIDE DEF c
  <2>6. courier' = [courier EXCEPT ![w] = c]
    BY <2>1, <2>2
  <2>7. OnRow(c, e)
    BY <2>3 DEF OnRow
  <2> QED
    BY <2>3, <2>4, <2>5, <2>6, <2>7
<1> HIDE DEF c
<1>4. /\ OnRow(courier[w], e) /\ OneDelivery(e)
      /\ copies[e] \in Nat /\ doubts[e] \in Nat /\ Cardinality(Underway(e)) \in Nat
      /\ step = "raised" => Underway(e)' = Underway(e)
      /\ step = "accepted" => Cardinality(Underway(e)') = Cardinality(Underway(e)) - 1
      /\ CarriersOf(e)' = CarriersOf(e)
  BY <1>3, CarriersMove
<1>5. Claimable(e)' <=> Claimable(e)
  BY <1>2, <1>4 DEF Claimable
<1>6. /\ copies'[e] = copies[e] + IF taken THEN 1 ELSE 0
      /\ UNCHANGED copies \/ copies' = [copies EXCEPT ![e] = @ + 1]
  <2> DEFINE n == IF taken THEN 1 ELSE 0
  <2>1. n \in {0, 1} /\ copies' = [copies EXCEPT ![e] = copies[e] + n]
    BY <1>2
  <2>2. copies \in [Emails -> Nat]
    BY DEF DeliveryInv, DeliveryTypes
  <2> HIDE DEF n
  <2>3. /\ copies'[e] = copies[e] + n
        /\ copies' = copies \/ copies' = [copies EXCEPT ![e] = copies[e] + 1]
    BY <2>1, <2>2, CountedOnce
  <2> QED
    BY <2>3 DEF n
<1>7. Cardinality(Underway(e)')
         = Cardinality(Underway(e)) - IF step = "accepted" THEN 1 ELSE 0
  BY <1>4
<1>8. /\ doubts'[e] = doubts[e] + IF taken /\ step = "raised" THEN 1 ELSE 0
      /\ UNCHANGED doubts \/ doubts' = [doubts EXCEPT ![e] = @ + 1]
  <2> DEFINE n == IF taken /\ step = "raised" THEN 1 ELSE 0
  <2>1. n \in {0, 1} /\ doubts' = [doubts EXCEPT ![e] = doubts[e] + n]
    BY <1>2
  <2>2. doubts \in [Emails -> Nat]
    BY DEF DeliveryInv, DeliveryTypes
  <2> HIDE DEF n
  <2>3. /\ doubts'[e] = doubts[e] + n
        /\ doubts' = doubts \/ doubts' = [doubts EXCEPT ![e] = doubts[e] + 1]
    BY <2>1, <2>2, CountedOnce
  <2> QED
    BY <2>3 DEF n
<1>9. OneDelivery(e)'
  BY <1>2, <1>4, <1>5, <1>6, <1>7, <1>8 DEF OneDelivery
<1> QED
  BY <1>2, <1>3, <1>4, <1>6, <1>8, <1>9, WorkerStep

LEMMA RecordInv ==
    ASSUME DeliveryInv, NEW w \in DeliveryWorkers, record_result(w)
    PROVE  DeliveryInv'
<1>1. PICK e \in Emails, r \in 0..MaxRetries, step \in {"accepted", "raised"} :
         courier[w] = [step |-> step, email |-> e, retries |-> r]
  BY DEF record_result, DeliveryInv, DeliveryTypes, Carrying
<1>2. /\ courier' = [courier EXCEPT ![w].step = "recorded"]
      /\ log' = [log EXCEPT ![e] = IF step = "accepted" THEN "sent" ELSE "failed"]
      /\ UNCHANGED <<copies, doubts>>
  BY <1>1 DEF record_result
<1> DEFINE c == [step |-> "recorded", email |-> e, retries |-> r]
<1>3. /\ courier' = [courier EXCEPT ![w] = c]
      /\ c \in {Free} \cup Carrying /\ c # Free /\ OnRow(c, e) /\ courier[w] # Free
      /\ c.step = "recorded" /\ courier[w].step = step /\ courier[w].email = e
  <2>1. [courier[w] EXCEPT !.step = "recorded"] = c
    BY <1>1
  <2>2. courier' = [courier EXCEPT ![w] = [courier[w] EXCEPT !.step = "recorded"]]
    BY <1>2
  <2>3. c \in Carrying /\ c # Free /\ c.step = "recorded" /\ c.email = e
    BY DEF Carrying, Free
  <2>4. courier[w] # Free
    BY <1>1 DEF Free
  <2>5. courier[w].step = step /\ courier[w].email = e
    BY <1>1
  <2> HIDE DEF c
  <2>6. courier' = [courier EXCEPT ![w] = c]
    BY <2>1, <2>2
  <2>7. OnRow(c, e)
    BY <2>3 DEF OnRow
  <2> QED
    BY <2>3, <2>4, <2>5, <2>6, <2>7
<1> HIDE DEF c
<1>4. /\ OnRow(courier[w], e) /\ OneDelivery(e)
      /\ copies[e] \in Nat /\ doubts[e] \in Nat /\ Cardinality(Underway(e)) \in Nat
      /\ step = "accepted" => Underway(e)' = Underway(e)
      /\ step = "raised" => Cardinality(Underway(e)') = Cardinality(Underway(e)) - 1
  BY <1>3, CarriersMove
<1>5. step = "accepted" => ~Claimable(e)'
  BY <1>2 DEF Claimable, DeliveryInv, DeliveryTypes
<1>6. OneDelivery(e)'
  BY <1>2, <1>4, <1>5 DEF OneDelivery
<1>7. \E to \in LogStatuses : log' = [log EXCEPT ![e] = to]
  BY <1>2 DEF LogStatuses
<1> QED
  BY <1>2, <1>3, <1>4, <1>6, <1>7, WorkerStep

\* end_task and die.
LEMMA EndInv ==
    ASSUME DeliveryInv, NEW w \in DeliveryWorkers, end_task(w) \/ die(w)
    PROVE  DeliveryInv'
<1>1. PICK e \in Emails, r \in 0..MaxRetries,
           step \in {"claimed", "accepted", "raised", "recorded"} :
         courier[w] = [step |-> step, email |-> e, retries |-> r]
  BY DEF end_task, die, DeliveryInv, DeliveryTypes, Carrying
<1>2. /\ courier' = [courier EXCEPT ![w] = Free] /\ UNCHANGED <<log, copies>>
      /\ IF step = "accepted" THEN doubts' = [doubts EXCEPT ![e] = @ + 1] ELSE UNCHANGED doubts
  BY <1>1 DEF end_task, die, Doubt, DeliveryInv, DeliveryTypes
<1>3. /\ OnRow(Free, e) /\ courier[w] # Free
      /\ courier[w].step = step /\ courier[w].email = e
  BY <1>1 DEF OnRow, Free
<1>4. /\ OnRow(courier[w], e) /\ OneDelivery(e)
      /\ copies[e] \in Nat /\ doubts[e] \in Nat /\ Cardinality(Underway(e)) \in Nat
      /\ step \in {"accepted", "recorded"} => Underway(e)' = Underway(e)
      /\ step \in {"claimed", "raised"}
            => Cardinality(Underway(e)') = Cardinality(Underway(e)) - 1
      /\ step = "recorded" => CarriersOf(e)' = CarriersOf(e)
  BY <1>2, <1>3, CarriersMove
<1>5. step = "recorded" => (Claimable(e)' <=> Claimable(e))
  BY <1>2, <1>4 DEF Claimable
<1>6. doubts'[e] = doubts[e] + IF step = "accepted" THEN 1 ELSE 0
  BY <1>2, <1>4 DEF DeliveryInv, DeliveryTypes
<1>7. OneDelivery(e)'
  BY <1>2, <1>4, <1>5, <1>6 DEF OneDelivery
<1> QED
  BY <1>2, <1>3, <1>4, <1>7, WorkerStep

LEMMA DeliveryNextInv == DeliveryInv /\ [DeliveryNext]_deliveryVars => DeliveryInv'
<1> SUFFICES ASSUME DeliveryInv, [DeliveryNext]_deliveryVars PROVE DeliveryInv'
  OBVIOUS
<1>1. ASSUME NEW e \in Emails,
             \/ dispatch_email(e) \/ enqueue_failed(e) \/ retry_email_log(e)
             \/ \E outcome \in {"none", "raised"} : enqueue(e, outcome)
      PROVE  DeliveryInv'
  BY <1>1, DispatchInv, EnqueueFailedInv, EnqueueInv
<1>2. ASSUME NEW w \in DeliveryWorkers,
             \/ \E e \in Emails, r \in 0..MaxRetries : deliver_email_task(w, e, r)
             \/ deliver(w) \/ record_result(w) \/ end_task(w) \/ die(w)
      PROVE  DeliveryInv'
  BY <1>2, DeliverTaskInv, DeliverInv, RecordInv, EndInv
<1>3. CASE UNCHANGED deliveryVars
  BY <1>3 DEF deliveryVars, DeliveryInv, DeliveryTypes, OneDelivery, Underway, CarriersOf,
     Claimable
<1> QED
  BY <1>1, <1>2, <1>3 DEF DeliveryNext

\* A message goes out once, but for a copy each time an outcome was lost with
\* its worker, send() raised with the message accepted, or a failed enqueue was
\* recorded over another's claim
\* (integrations/dispatch.py, tasks.py).
THEOREM MessagesGoOutOnce == DeliverySpec => []DeliveredOnce
<1>1. DeliveryInv => DeliveredOnce
  <2> SUFFICES ASSUME DeliveryInv, NEW e \in Emails
               PROVE  copies[e] <= 1 + doubts[e]
    BY DEF DeliveredOnce
  <2>1. OneDelivery(e) /\ copies[e] \in Nat /\ doubts[e] \in Nat
    BY DEF DeliveryInv, DeliveryTypes
  <2> QED
    BY <2>1, UnderwayFinite DEF OneDelivery
<1> QED
  BY <1>1, DeliveryInitInv, DeliveryNextInv, PTL DEF DeliverySpec

-----------------------------------------------------------------------------
(* Row locks. *)

\* The orders in which the services of each group take their rows.
HandRank == [row \in LockRows |->
    CASE row[1] = "loan" -> 0 [] row[1] = "code" -> 1
      [] row[1] = "asset" /\ row[2] \notin OutAssets -> 2 [] row[1] = "product" -> 3
      [] row[1] = "asset" /\ row[2] \in OutAssets -> 4
      [] row[1] \in {"space", "keep_space"} -> 5 [] OTHER -> 6]

BackRank == [row \in LockRows |->
    CASE row[1] = "code" -> 0 [] row[1] = "loan" -> 1
      [] row[1] \in {"borrower", "keep_borrower"} -> 2 [] row[1] = "product" -> 3
      [] row[1] = "asset" -> 4 [] OTHER -> 5]

MoveRank == [row \in LockRows |->
    CASE row[1] = "asset" -> 0 [] row[1] \in {"space", "keep_space"} -> 1 [] OTHER -> 2]

\* What remains to lock ranks above what is locked, in ascending order.
Ascends(rank, s, rows) ==
    /\ s \in Seq(LockRows) /\ rows \subseteq LockRows
    /\ \A i, k \in 1..Len(s) : i < k => rank[s[i]] < rank[s[k]]
    /\ \A i \in 1..Len(s), row \in rows : rank[row] < rank[s[i]]

PlainKinds == {"borrower", "box", "code", "asset", "product"}

PlainFrom(s, n) ==
    /\ \E T : s \in Seq(T)
    /\ \A i \in n..Len(s) : s[i][1] \in PlainKinds

\* The requests of the reviewed services: the row itself, the makerspace, the rest.
Asks(s) == PlainFrom(s, 3) /\ Len(s) >= 2 /\ s[1][1] = "request" /\ s[2] = UpdateSpace

\* A reviewed service has yet to lock its request, or its makerspace, or has both.
InPhase(s, rows) ==
    \/ rows = {} /\ Asks(s)
    \/ /\ \A row \in rows : row[1] = "request"
       /\ PlainFrom(s, 2) /\ Len(s) >= 1 /\ s[1] = UpdateSpace
    \/ UpdateSpace \in rows /\ PlainFrom(s, 1)

LocksInv ==
    /\ DOMAIN todo = Workers /\ DOMAIN held = Workers /\ DOMAIN service = Workers
    /\ \A v, w \in Workers : UpdateSpace \in held[v] /\ UpdateSpace \in held[w] => v = w
    /\ \A w \in Workers : service[w] = "idle" => held[w] = {} /\ todo[w] = << >>
    /\ \A w \in Workers : service[w] \in {"checkout_tool", "return_direct_loan"}
                             => Ascends(HandRank, todo[w], held[w])
    /\ \A w \in Workers : service[w] = "return_tool" => Ascends(BackRank, todo[w], held[w])
    /\ \A w \in Workers : service[w] = "move_asset" => Ascends(MoveRank, todo[w], held[w])
    /\ \A w \in Workers : service[w] \in Reviewed => InPhase(todo[w], held[w])

LEMMA LocksInitInv == RowLocksInit => LocksInv
BY DEF RowLocksInit, LocksInv, Reviewed

\* Conflicting rows have one rank.
Ranks == {rank \in [LockRows -> 0..6] :
             \A r, q \in LockRows : Conflict(r, q) => rank[r] = rank[q]}

LEMMA RanksOfRows == HandRank \in Ranks /\ BackRank \in Ranks /\ MoveRank \in Ranks
<1>1. /\ HandRank \in [LockRows -> 0..6] /\ BackRank \in [LockRows -> 0..6]
      /\ MoveRank \in [LockRows -> 0..6]
  BY DEF HandRank, BackRank, MoveRank
<1>2. ASSUME NEW r \in LockRows, NEW q \in LockRows, Conflict(r, q)
      PROVE  HandRank[r] = HandRank[q] /\ BackRank[r] = BackRank[q] /\ MoveRank[r] = MoveRank[q]
  <2>1. CASE r = q
    BY <2>1
  <2>2. CASE {r[1], q[1]} = {"space", "keep_space"}
    BY <2>2 DEF HandRank, BackRank, MoveRank
  <2>3. CASE {r[1], q[1]} = {"borrower", "keep_borrower"}
    BY <2>3 DEF HandRank, BackRank, MoveRank
  <2> QED
    BY <1>2, <2>1, <2>2, <2>3 DEF Conflict
<1> QED
  BY <1>1, <1>2 DEF Ranks

\* Each worker of a deadlock waits for one that has locked a row of the rank it
\* waits for, and so waits for a row of a higher rank.
LEMMA RankedFree ==
    ASSUME NEW rank \in Ranks, NEW D \in SUBSET Workers, Deadlocked(D),
           \A w \in D : Ascends(rank, todo[w], held[w])
    PROVE  FALSE
<1> DEFINE at(w) == rank[Head(todo[w])]
<1>1. ASSUME NEW w \in D
      PROVE  Head(todo[w]) \in LockRows /\ Head(todo[w]) = todo[w][1] /\ 1 \in 1..Len(todo[w])
  <2>1. todo[w] \in Seq(LockRows) /\ todo[w] # << >>
    BY DEF Ascends, Deadlocked, WaitsFor
  <2> DEFINE s == todo[w]
  <2>2. s \in Seq(LockRows) /\ s # << >>
    BY <2>1
  <2> HIDE DEF s
  <2>3. Head(s) \in LockRows /\ Head(s) = s[1] /\ 1 \in 1..Len(s)
    BY <2>2
  <2> QED
    BY <2>3 DEF s
<1>2. ASSUME NEW w \in D
      PROVE  \E v \in D : at(w) < at(v)
  <2>1. PICK v \in D : WaitsFor(w, v)
    BY DEF Deadlocked
  <2>2. PICK row \in held[v] : Conflict(Head(todo[w]), row)
    BY <2>1 DEF WaitsFor
  <2>3. row \in LockRows
    BY <2>2 DEF Ascends
  <2>4. at(w) = rank[row]
    BY <1>1, <2>2, <2>3 DEF Ranks
  <2>5. rank[row] < rank[todo[v][1]]
    BY <1>1, <2>2 DEF Ascends
  <2> QED
    BY <1>1, <2>4, <2>5
<1>3. \A w \in D : at(w) \in 0..6
  BY <1>1 DEF Ranks
<1> HIDE DEF at
<1>4. PICK w0 \in D : TRUE
  BY DEF Deadlocked
<1>5. PICK w1 \in D : at(w0) < at(w1)
  BY <1>2
<1>6. PICK w2 \in D : at(w1) < at(w2)
  BY <1>2
<1>7. PICK w3 \in D : at(w2) < at(w3)
  BY <1>2
<1>8. PICK w4 \in D : at(w3) < at(w4)
  BY <1>2
<1>9. PICK w5 \in D : at(w4) < at(w5)
  BY <1>2
<1>10. PICK w6 \in D : at(w5) < at(w6)
  BY <1>2
<1>11. PICK w7 \in D : at(w6) < at(w7)
  BY <1>2
<1> QED
  BY <1>3, <1>5, <1>6, <1>7, <1>8, <1>9, <1>10, <1>11

\* The reviewed services wait for a request, whose holder waits for the
\* makerspace, whose holder waits for nothing the others hold.
LEMMA ReviewedFree ==
    ASSUME LocksInv, NEW D \in SUBSET Workers, Deadlocked(D),
           \A w \in D : service[w] \in Reviewed
    PROVE  FALSE
<1>1. ASSUME NEW w \in D
      PROVE  /\ todo[w] # << >> /\ InPhase(todo[w], held[w])
             /\ \E v \in D : v # w /\ \E row \in held[v] : Conflict(Head(todo[w]), row)
  BY DEF Deadlocked, WaitsFor, LocksInv
<1>2. \A w \in D : UpdateSpace \notin held[w]
  <2> SUFFICES ASSUME NEW w \in D, UpdateSpace \in held[w] PROVE FALSE
    OBVIOUS
  <2>1. PlainFrom(todo[w], 1)
    BY <1>1 DEF InPhase, UpdateSpace
  <2>2. Head(todo[w])[1] \in PlainKinds
    BY <1>1, <2>1 DEF PlainFrom
  <2>3. PICK v \in D : v # w /\ \E row \in held[v] : Conflict(Head(todo[w]), row)
    BY <1>1
  <2>4. PICK row \in held[v] : row[1] # "request"
    BY <2>2, <2>3 DEF Conflict, PlainKinds
  <2>5. UpdateSpace \in held[v]
    BY <1>1, <2>4 DEF InPhase
  <2> QED
    BY <2>3, <2>5 DEF LocksInv
<1>3. \A w \in D : \A row \in held[w] : row[1] = "request"
  BY <1>1, <1>2 DEF InPhase
<1>4. ASSUME NEW w \in D
      PROVE  Head(todo[w])[1] = "request"
  <2>1. PICK v \in D : \E row \in held[v] : Conflict(Head(todo[w]), row)
    BY <1>1
  <2>2. PICK row \in held[v] : row[1] = "request" /\ Conflict(Head(todo[w]), row)
    BY <1>3, <2>1
  <2>3. row[1] \notin {"space", "keep_space"} /\ row[1] \notin {"borrower", "keep_borrower"}
    BY <2>2
  <2>4. Head(todo[w]) = row
    BY <2>2, <2>3 DEF Conflict
  <2> QED
    BY <2>2, <2>4
<1>5. \A w \in D : held[w] = {}
  <2> SUFFICES ASSUME NEW w \in D PROVE held[w] = {}
    OBVIOUS
  <2>1. InPhase(todo[w], held[w]) /\ todo[w] # << >> /\ Head(todo[w])[1] = "request"
    BY <1>1, <1>4
  <2> QED
    BY <1>2, <2>1 DEF InPhase, PlainFrom, UpdateSpace
<1> QED
  BY <1>1, <1>5 DEF Deadlocked

LEMMA OrderedHolds == LocksInv => OrderedNeverDeadlock
<1> SUFFICES ASSUME LocksInv, NEW D \in SUBSET Workers, NEW G \in OrderedGroups,
                    Deadlocked(D), \A w \in D : service[w] \in G
             PROVE  FALSE
  BY DEF OrderedNeverDeadlock
<1>1. CASE G = Reviewed
  BY <1>1, ReviewedFree
<1>2. CASE G = {"checkout_tool", "return_direct_loan"}
  <2>1. \A w \in D : Ascends(HandRank, todo[w], held[w])
    BY <1>2 DEF LocksInv
  <2> QED
    BY <2>1, RankedFree, RanksOfRows
<1>3. CASE G = {"return_tool"}
  <2>1. \A w \in D : Ascends(BackRank, todo[w], held[w])
    BY <1>3 DEF LocksInv
  <2> QED
    BY <2>1, RankedFree, RanksOfRows
<1>4. CASE G = {"move_asset"}
  <2>1. \A w \in D : Ascends(MoveRank, todo[w], held[w])
    BY <1>4 DEF LocksInv
  <2> QED
    BY <2>1, RankedFree, RanksOfRows
<1> QED
  BY <1>1, <1>2, <1>3, <1>4 DEF OrderedGroups

\* A finite set of keys can be put in order.
LEMMA KeysInOrder ==
    ASSUME NEW keys \in SUBSET Nat, IsFiniteSet(keys)
    PROVE  \E g \in [1..Cardinality(keys) -> keys] :
              \A i, j \in 1..Cardinality(keys) : i < j => g[i] < g[j]
<1> DEFINE SortsTo(S, n) == \E g \in [1..n -> S] : \A i, j \in 1..n : i < j => g[i] < g[j]
           Good == {n \in Nat : \A S \in SUBSET Nat :
                                   IsFiniteSet(S) /\ Cardinality(S) = n => SortsTo(S, n)}
<1>1. 0 \in Good
  <2>1. ASSUME NEW S PROVE SortsTo(S, 0)
    <3>1. [i \in 1..0 |-> i] \in [1..0 -> S]
      OBVIOUS
    <3> QED
      BY <3>1
  <2> QED
    BY <2>1
<1>2. ASSUME NEW n \in Nat, n \in Good PROVE n + 1 \in Good
  <2> SUFFICES ASSUME NEW S \in SUBSET Nat, IsFiniteSet(S), Cardinality(S) = n + 1
               PROVE  SortsTo(S, n + 1)
    OBVIOUS
  <2>1. S # {}
    BY FS_EmptySet
  <2>2. PICK m \in S : \A x \in S : m <= x
    BY <2>1, LeastNumber
  <2>3. /\ S \ {m} \in SUBSET Nat /\ IsFiniteSet(S \ {m}) /\ Cardinality(S \ {m}) = n
    <3>1. IsFiniteSet(S \ {m}) /\ Cardinality(S \ {m}) = Cardinality(S) - 1
      BY FS_RemoveElement
    <3> QED
      BY <3>1
  <2>4. PICK g \in [1..n -> S \ {m}] : \A i, j \in 1..n : i < j => g[i] < g[j]
    BY <1>2, <2>3
  <2> DEFINE f == [i \in 1..n + 1 |-> IF i = 1 THEN m ELSE g[i - 1]]
  <2>5. \A i \in 2..n + 1 : i - 1 \in 1..n /\ f[i] = g[i - 1] /\ f[i] \in S /\ m < f[i]
    <3> SUFFICES ASSUME NEW i \in 2..n + 1
                 PROVE  i - 1 \in 1..n /\ f[i] = g[i - 1] /\ f[i] \in S /\ m < f[i]
      OBVIOUS
    <3>1. i - 1 \in 1..n /\ i \in 1..n + 1 /\ i # 1
      OBVIOUS
    <3>2. f[i] = g[i - 1] /\ g[i - 1] \in S /\ g[i - 1] # m
      BY <3>1
    <3>3. m \in Nat /\ g[i - 1] \in Nat /\ m <= g[i - 1]
      BY <2>2, <3>2
    <3> HIDE DEF f
    <3>4. m < g[i - 1]
      BY <3>2, <3>3
    <3> QED
      BY <3>1, <3>2, <3>4
  <2>6. f[1] = m /\ \A i \in 1..n + 1 : i = 1 \/ i \in 2..n + 1
    OBVIOUS
  <2>7. f \in [1..n + 1 -> S]
    BY <2>5, <2>6
  <2>8. \A i, j \in 1..n + 1 : i < j => f[i] < f[j]
    <3> SUFFICES ASSUME NEW i \in 1..n + 1, NEW j \in 1..n + 1, i < j PROVE f[i] < f[j]
      OBVIOUS
    <3>1. j \in 2..n + 1
      OBVIOUS
    <3>2. CASE i = 1
      BY <2>5, <2>6, <3>1, <3>2
    <3>3. CASE i \in 2..n + 1
      <4>1. i - 1 < j - 1 /\ i - 1 \in 1..n /\ j - 1 \in 1..n
        BY <3>1, <3>3
      <4>2. g[i - 1] < g[j - 1]
        BY <2>4, <4>1
      <4> QED
        BY <2>5, <3>1, <3>3, <4>2
    <3> QED
      BY <2>6, <3>2, <3>3
  <2> HIDE DEF f
  <2> QED
    BY <2>7, <2>8
<1>3. Cardinality(keys) \in Nat
  BY FS_CardinalityType
<1>4. Cardinality(keys) \in Good
  <2> HIDE DEF Good
  <2> QED
    BY <1>1, <1>2, <1>3, SetInduction
<1> QED
  BY <1>4

LEMMA ByPkRows ==
    ASSUME NEW kind, NEW keys \in SUBSET Nat, IsFiniteSet(keys)
    PROVE  /\ ByPk(kind, keys) \in Seq({kind} \X keys)
           /\ Len(ByPk(kind, keys)) = Cardinality(keys)
<1> DEFINE n == Cardinality(keys)
<1>1. n \in Nat
  BY FS_CardinalityType
<1>2. PICK g \in [1..n -> keys] : \A i, j \in 1..n : i < j => g[i] < g[j]
  BY KeysInOrder
<1> DEFINE rows == [i \in 1..n |-> <<kind, g[i]>>]
<1>3. rows \in [1..n -> {kind} \X keys] /\ \A i \in 1..n : rows[i][2] = g[i]
  OBVIOUS
<1>4. \A i, j \in DOMAIN rows : i < j => rows[i][2] < rows[j][2]
  BY <1>2, <1>3
<1> HIDE DEF rows, n
<1>5. ByPk(kind, keys) \in [1..n -> {kind} \X keys]
  BY <1>3, <1>4 DEF ByPk, n
<1> HIDE DEF ByPk
<1>6. ByPk(kind, keys) \in Seq({kind} \X keys)
  BY <1>1, <1>5
<1> QED
  BY <1>1, <1>5, <1>6 DEF n

LEMMA ByPkPlain ==
    ASSUME NEW kind \in PlainKinds, NEW keys \in SUBSET Nat, IsFiniteSet(keys)
    PROVE  PlainFrom(ByPk(kind, keys), 1)
<1>1. ByPk(kind, keys) \in Seq({kind} \X keys)
  BY ByPkRows
<1>2. \A i \in 1..Len(ByPk(kind, keys)) : ByPk(kind, keys)[i] \in {kind} \X keys
  BY <1>1
<1> QED
  BY <1>1, <1>2 DEF PlainFrom

LEMMA AsksMore ==
    ASSUME NEW s, NEW p, Asks(s), PlainFrom(p, 1)
    PROVE  Asks(s \o p)
<1>1. PICK S : s \in Seq(S)
  BY DEF Asks, PlainFrom
<1>2. PICK P : p \in Seq(P)
  BY DEF PlainFrom
<1>3. s \in Seq(S \cup P) /\ p \in Seq(S \cup P)
  BY <1>1, <1>2
<1>4. /\ s \o p \in Seq(S \cup P) /\ Len(s \o p) = Len(s) + Len(p)
      /\ Len(s) \in Nat /\ Len(p) \in Nat
      /\ \A i \in 1..Len(s) : (s \o p)[i] = s[i]
      /\ \A i \in Len(s) + 1 .. Len(s) + Len(p) : (s \o p)[i] = p[i - Len(s)]
  BY <1>3
<1>5. \A i \in 3..Len(s \o p) : (s \o p)[i][1] \in PlainKinds
  <2> SUFFICES ASSUME NEW i \in 3..Len(s \o p) PROVE (s \o p)[i][1] \in PlainKinds
    OBVIOUS
  <2>1. CASE i <= Len(s)
    BY <1>4, <2>1 DEF Asks, PlainFrom
  <2>2. CASE i > Len(s)
    <3>1. i - Len(s) \in 1..Len(p)
      BY <1>4, <2>2
    <3> QED
      BY <1>4, <2>2, <3>1 DEF PlainFrom
  <2> QED
    BY <1>4, <2>1, <2>2
<1> QED
  BY <1>4, <1>5 DEF Asks, PlainFrom

\* The lists of rows of issue_request and return_items.
LEMMA ReviewedAsk ==
    ASSUME NEW r \in LockRequests, NEW S \in SUBSET Assets
    PROVE  Asks(IssueRequest(r, S)) /\ Asks(ReturnItems(r, S))
<1>1. Asks(LockedRequest(r))
  <2> DEFINE b == <<"borrower", RequesterOf[r]>>
             T == {<<"request", r>>, UpdateSpace, b}
             s == LockedRequest(r)
  <2>1. /\ s \in Seq(T) /\ Len(s) = 3
        /\ s[1] = <<"request", r>> /\ s[2] = UpdateSpace /\ s[3] = b
    BY DEF LockedRequest
  <2>2. b[1] \in PlainKinds
    BY DEF PlainKinds
  <2> HIDE DEF s, T, b
  <2> QED
    BY <2>1, <2>2 DEF Asks, PlainFrom, s
<1>2. PlainFrom(<<<<"box", AssignedBox[r]>>>>, 1)
  <2> DEFINE row == <<"box", AssignedBox[r]>>
  <2>1. <<row>> \in Seq({row}) /\ Len(<<row>>) = 1 /\ <<row>>[1] = row
    OBVIOUS
  <2>2. row[1] \in PlainKinds
    BY DEF PlainKinds
  <2> HIDE DEF row
  <2>3. \A n \in 1..Len(<<row>>) : <<row>>[n] = row
    BY <2>1
  <2>4. \E T : <<row>> \in Seq(T)
    BY <2>1
  <2>5. PlainFrom(<<row>>, 1)
    BY <2>2, <2>3, <2>4 DEF PlainFrom
  <2> QED
    BY <2>5 DEF row
<1>3. /\ IsFiniteSet(S) /\ IsFiniteSet({ProductOf[a] : a \in S})
      /\ S \in SUBSET Nat /\ {ProductOf[a] : a \in S} \in SUBSET Nat
  <2>1. IsFiniteSet(S)
    BY FS_Subset, RowLocksAssumption DEF RowLocksAssumption
  <2>3. S \in SUBSET Nat /\ {ProductOf[a] : a \in S} \in SUBSET Nat
    BY RowLocksAssumption DEF RowLocksAssumption
  <2> DEFINE of == [a \in S |-> ProductOf[a]]
  <2>2. of \in Surjection(S, {ProductOf[a] : a \in S})
    BY DEF Surjection
  <2> QED
    BY <2>1, <2>2, <2>3, FS_Surjection
<1>4. /\ PlainFrom(ByPk("code", S), 1) /\ PlainFrom(ByPk("asset", S), 1)
      /\ PlainFrom(ProductsByPk(S), 1)
  BY <1>3, ByPkPlain DEF ProductsByPk, PlainKinds
<1>5. Asks(LockedRequest(r) \o <<<<"box", AssignedBox[r]>>>>)
  BY <1>1, <1>2, AsksMore
<1>6. Asks(LockedRequest(r) \o <<<<"box", AssignedBox[r]>>>> \o ByPk("code", S))
  BY <1>4, <1>5, AsksMore
<1>7. Asks(LockedRequest(r) \o <<<<"box", AssignedBox[r]>>>> \o ByPk("code", S)
              \o ByPk("asset", S))
  BY <1>4, <1>6, AsksMore
<1>8. Asks(IssueRequest(r, S))
  BY <1>4, <1>7, AsksMore DEF IssueRequest
<1>9. Asks(LockedRequest(r) \o ProductsByPk(S))
  BY <1>1, <1>4, AsksMore
<1>10. Asks(ReturnItems(r, S))
  BY <1>4, <1>9, AsksMore DEF ReturnItems
<1> QED
  BY <1>8, <1>10

\* The keys of the rows of the scans.
LEMMA KeysOfRows ==
    /\ \A a \in Assets : a \in Nat /\ ProductOf[a] \in Nat
    /\ \A u \in Borrowers : u \in Nat
    /\ \A a \in OutAssets : a \in Assets /\ BorrowerOf[a] \in Borrowers
BY RowLocksAssumption DEF RowLocksAssumption

\* A row of each kind, and its ranks.
LEMMA RowsOfKinds ==
    ASSUME NEW n \in Nat
    PROVE  /\ \A kind \in LockKinds : <<kind, n>> \in LockRows
           /\ KeepSpace \in LockRows /\ UpdateSpace \in LockRows
           /\ HandRank[<<"loan", n>>] = 0 /\ HandRank[<<"code", n>>] = 1
           /\ HandRank[<<"asset", n>>] = IF n \in OutAssets THEN 4 ELSE 2
           /\ HandRank[<<"product", n>>] = 3
           /\ HandRank[KeepSpace] = 5 /\ HandRank[<<"keep_borrower", n>>] = 6
           /\ BackRank[<<"code", n>>] = 0 /\ BackRank[<<"loan", n>>] = 1
           /\ BackRank[<<"borrower", n>>] = 2 /\ BackRank[<<"product", n>>] = 3
           /\ BackRank[<<"asset", n>>] = 4 /\ BackRank[KeepSpace] = 5
           /\ MoveRank[<<"asset", n>>] = 0 /\ MoveRank[UpdateSpace] = 1
           /\ MoveRank[<<"product", n>>] = 2
<1>1. /\ \A kind \in LockKinds : <<kind, n>> \in LockRows
      /\ KeepSpace \in LockRows /\ UpdateSpace \in LockRows
  BY DEF LockRows, LockKinds, KeepSpace, UpdateSpace
<1>2. /\ <<"loan", n>> \in LockRows /\ <<"code", n>> \in LockRows
      /\ <<"asset", n>> \in LockRows /\ <<"product", n>> \in LockRows
      /\ <<"borrower", n>> \in LockRows /\ <<"keep_borrower", n>> \in LockRows
  BY <1>1 DEF LockKinds
<1>3. /\ HandRank[<<"loan", n>>] = 0 /\ HandRank[<<"code", n>>] = 1
      /\ HandRank[<<"asset", n>>] = IF n \in OutAssets THEN 4 ELSE 2
      /\ HandRank[<<"product", n>>] = 3
      /\ HandRank[KeepSpace] = 5 /\ HandRank[<<"keep_borrower", n>>] = 6
  BY <1>1, <1>2 DEF HandRank, KeepSpace
<1>4. /\ BackRank[<<"code", n>>] = 0 /\ BackRank[<<"loan", n>>] = 1
      /\ BackRank[<<"borrower", n>>] = 2 /\ BackRank[<<"product", n>>] = 3
      /\ BackRank[<<"asset", n>>] = 4 /\ BackRank[KeepSpace] = 5
  BY <1>1, <1>2 DEF BackRank, KeepSpace
<1>5. /\ MoveRank[<<"asset", n>>] = 0 /\ MoveRank[UpdateSpace] = 1
      /\ MoveRank[<<"product", n>>] = 2
  BY <1>1, <1>2 DEF MoveRank, UpdateSpace
<1> QED
  BY <1>1, <1>3, <1>4, <1>5

\* The lists of rows of a checkout, the returns and the fix action.
LEMMA CheckoutAscends ==
    ASSUME NEW a \in InStock(Assets), NEW u \in Borrowers
    PROVE  Ascends(HandRank, CheckoutTool(a, u), {})
<1> DEFINE c == <<"code", a>>  i == <<"asset", a>>  p == <<"product", ProductOf[a]>>
           k == KeepSpace  b == <<"keep_borrower", u>>
           s == <<c>> \o <<i, p>> \o <<k, b>>
<1>1. a \in Nat /\ ProductOf[a] \in Nat /\ u \in Nat /\ a \notin OutAssets
  BY KeysOfRows DEF InStock
<1>2. /\ HandRank[c] = 1 /\ HandRank[i] = 2 /\ HandRank[p] = 3
      /\ HandRank[k] = 5 /\ HandRank[b] = 6
  BY <1>1, RowsOfKinds
<1>3. c \in LockRows /\ i \in LockRows /\ p \in LockRows /\ k \in LockRows /\ b \in LockRows
  BY <1>1, RowsOfKinds DEF LockKinds
<1>4. CheckoutTool(a, u) = s
  BY DEF CheckoutTool, WithProduct, RefersTo
<1> HIDE DEF c, i, p, k, b
<1>5. /\ <<c>> \in Seq(LockRows) /\ <<i, p>> \in Seq(LockRows) /\ <<k, b>> \in Seq(LockRows)
      /\ Len(<<c>>) = 1 /\ Len(<<i, p>>) = 2 /\ Len(<<k, b>>) = 2
      /\ <<c>>[1] = c /\ <<i, p>>[1] = i /\ <<i, p>>[2] = p
      /\ <<k, b>>[1] = k /\ <<k, b>>[2] = b
  BY <1>3
<1>6. /\ s \in Seq(LockRows) /\ Len(s) = 5
      /\ s[1] = c /\ s[2] = i /\ s[3] = p /\ s[4] = k /\ s[5] = b
  BY <1>5
<1> HIDE DEF s
<1>7. Ascends(HandRank, s, {})
  BY <1>2, <1>6 DEF Ascends
<1> QED
  BY <1>4, <1>7

LEMMA ReturnAscends ==
    ASSUME NEW a \in OutAssets
    PROVE  /\ Ascends(HandRank, ReturnDirectLoan(a), {})
           /\ Ascends(BackRank, ReturnTool(a), {})
<1> DEFINE l == <<"loan", a>>  c == <<"code", a>>
           p == <<"product", ProductOf[a]>>  i == <<"asset", a>>
           k == KeepSpace  b == <<"keep_borrower", BorrowerOf[a]>>
           o == <<"borrower", BorrowerOf[a]>>
           s == <<l, c, p, i>> \o <<k, b>>
           t == <<c, l, o, p, i, k>>
<1>1. a \in Nat /\ ProductOf[a] \in Nat /\ BorrowerOf[a] \in Nat
  BY KeysOfRows
<1>2. /\ HandRank[l] = 0 /\ HandRank[c] = 1 /\ HandRank[p] = 3
      /\ HandRank[i] = 4 /\ HandRank[k] = 5 /\ HandRank[b] = 6
  BY <1>1, RowsOfKinds
<1>3. /\ BackRank[c] = 0 /\ BackRank[l] = 1 /\ BackRank[o] = 2
      /\ BackRank[p] = 3 /\ BackRank[i] = 4 /\ BackRank[k] = 5
  BY <1>1, RowsOfKinds
<1>4. /\ l \in LockRows /\ c \in LockRows /\ p \in LockRows /\ i \in LockRows
      /\ k \in LockRows /\ b \in LockRows /\ o \in LockRows
  BY <1>1, RowsOfKinds DEF LockKinds
<1>5. ReturnDirectLoan(a) = s /\ ReturnTool(a) = t
  BY DEF ReturnDirectLoan, RefersTo, ReturnTool
<1> HIDE DEF l, c, p, i, k, b, o
<1>6. /\ <<l, c, p, i>> \in Seq(LockRows) /\ <<k, b>> \in Seq(LockRows)
      /\ Len(<<l, c, p, i>>) = 4 /\ Len(<<k, b>>) = 2
      /\ <<l, c, p, i>>[1] = l /\ <<l, c, p, i>>[2] = c
      /\ <<l, c, p, i>>[3] = p /\ <<l, c, p, i>>[4] = i
      /\ <<k, b>>[1] = k /\ <<k, b>>[2] = b
  BY <1>4
<1>7. /\ s \in Seq(LockRows) /\ Len(s) = 6
      /\ s[1] = l /\ s[2] = c /\ s[3] = p /\ s[4] = i /\ s[5] = k /\ s[6] = b
  BY <1>6
<1>8. /\ t \in Seq(LockRows) /\ Len(t) = 6
      /\ t[1] = c /\ t[2] = l /\ t[3] = o /\ t[4] = p /\ t[5] = i /\ t[6] = k
  BY <1>4
<1> HIDE DEF s, t
<1>9. Ascends(HandRank, s, {})
  BY <1>2, <1>7 DEF Ascends
<1>10. Ascends(BackRank, t, {})
  BY <1>3, <1>8 DEF Ascends
<1> QED
  BY <1>5, <1>9, <1>10

LEMMA MoveAscends ==
    ASSUME NEW a \in Assets
    PROVE  Ascends(MoveRank, MoveAsset(a), {})
<1> DEFINE i == <<"asset", a>>  p == <<"product", ProductOf[a]>>  k == UpdateSpace
           s == <<i, k, p>>
<1>1. a \in Nat /\ ProductOf[a] \in Nat
  BY KeysOfRows
<1>2. MoveRank[i] = 0 /\ MoveRank[k] = 1 /\ MoveRank[p] = 2
  BY <1>1, RowsOfKinds
<1>3. i \in LockRows /\ p \in LockRows /\ k \in LockRows
  BY <1>1, RowsOfKinds DEF LockKinds
<1>4. MoveAsset(a) = s
  BY DEF MoveAsset
<1> HIDE DEF i, p, k
<1>5. s \in Seq(LockRows) /\ Len(s) = 3 /\ s[1] = i /\ s[2] = k /\ s[3] = p
  BY <1>3
<1> HIDE DEF s
<1>6. Ascends(MoveRank, s, {})
  BY <1>2, <1>5 DEF Ascends
<1> QED
  BY <1>4, <1>6

LEMMA BeginInv ==
    ASSUME LocksInv, NEW w \in Workers, begin(w)
    PROVE  LocksInv'
<1>1. PICK name, rows :
         /\ name \in Services
         /\ Begin(w, name, rows)
         /\ name \in {"checkout_tool", "return_direct_loan"} => Ascends(HandRank, rows, {})
         /\ name = "return_tool" => Ascends(BackRank, rows, {})
         /\ name = "move_asset" => Ascends(MoveRank, rows, {})
         /\ name \in Reviewed => Asks(rows)
         /\ name # "idle"
  <2> USE DEF Reviewed, Services, Handouts
  <2>1. CASE \E a \in InStock(Assets), u \in Borrowers :
                Begin(w, "checkout_tool", CheckoutTool(a, u))
    BY <2>1, CheckoutAscends
  <2>2. CASE \E b \in Boxes, u \in Borrowers : \E order \in SetToSeqs(InStock(Content[b])) :
                Begin(w, "checkout_box", CheckoutBox(b, order, u))
    BY <2>2
  <2>3. CASE \E S \in SUBSET InStock(Assets) \ {{}}, u \in Borrowers :
             \E order \in SetToSeqs(S) : \E container \in {{}} \cup {{b} : b \in Boxes} :
                Begin(w, "issue_direct_loan", IssueDirectLoan(container, order, u))
    BY <2>3
  <2>4. CASE \E r \in LockRequests, S \in SUBSET InStock(Assets) :
                Begin(w, "issue_request", IssueRequest(r, S))
    BY <2>4, ReviewedAsk DEF InStock
  <2>5. CASE \E r \in LockRequests, S \in SUBSET OutAssets :
                Begin(w, "return_items", ReturnItems(r, S))
    BY <2>5, ReviewedAsk, RowLocksAssumption DEF RowLocksAssumption
  <2>6. CASE \E a \in OutAssets : Begin(w, "return_tool", ReturnTool(a))
    BY <2>6, ReturnAscends
  <2>7. CASE \E a \in OutAssets : Begin(w, "return_direct_loan", ReturnDirectLoan(a))
    BY <2>7, ReturnAscends
  <2>8. CASE \E a \in Assets : Begin(w, "move_asset", MoveAsset(a))
    BY <2>8, MoveAscends
  <2> QED
    BY <2>1, <2>2, <2>3, <2>4, <2>5, <2>6, <2>7, <2>8 DEF begin
<1>2. /\ service[w] = "idle" /\ held[w] = {} /\ held' = held
      /\ service' = [service EXCEPT ![w] = name] /\ todo' = [todo EXCEPT ![w] = rows]
  BY <1>1 DEF Begin, LocksInv
<1>3. /\ DOMAIN todo' = Workers /\ DOMAIN held' = Workers /\ DOMAIN service' = Workers
      /\ service'[w] = name /\ todo'[w] = rows
      /\ \A v \in Workers : v # w => service'[v] = service[v] /\ todo'[v] = todo[v]
  BY <1>2 DEF LocksInv
<1>4. InPhase(rows, {}) <=> Asks(rows) \/ InPhase(rows, {})
  BY DEF InPhase
<1>5. /\ service'[w] \in {"checkout_tool", "return_direct_loan"}
            => Ascends(HandRank, todo'[w], held'[w])
      /\ service'[w] = "return_tool" => Ascends(BackRank, todo'[w], held'[w])
      /\ service'[w] = "move_asset" => Ascends(MoveRank, todo'[w], held'[w])
      /\ service'[w] \in Reviewed => InPhase(todo'[w], held'[w])
  BY <1>1, <1>2, <1>3, <1>4
<1> QED
  BY <1>1, <1>2, <1>3, <1>5 DEF LocksInv

LEMMA LockInv ==
    ASSUME LocksInv, NEW w \in Workers, lock(w)
    PROVE  LocksInv'
<1> DEFINE row == Head(todo[w])
<1>1. /\ DOMAIN todo' = Workers /\ DOMAIN held' = Workers /\ service' = service
      /\ todo[w] # << >>
      /\ todo'[w] = Tail(todo[w]) /\ held'[w] = held[w] \cup {row}
      /\ \A v \in Workers : v # w => held'[v] = held[v] /\ todo'[v] = todo[v]
  BY DEF lock, LocksInv
<1>2. ASSUME NEW u \in Workers, NEW v \in Workers,
             UpdateSpace \in held'[u], UpdateSpace \in held'[v]
      PROVE  u = v
  <2>1. row = UpdateSpace => \A x \in Workers : x # w => UpdateSpace \notin held[x]
    BY <1>1 DEF lock, WaitsFor, Conflict, UpdateSpace, KeepSpace
  <2> QED
    BY <1>1, <1>2, <2>1 DEF LocksInv
<1>3. ASSUME NEW rank, Ascends(rank, todo[w], held[w])
      PROVE  Ascends(rank, todo'[w], held'[w])
  <2> DEFINE s == todo[w]
  <2>1. Ascends(rank, s, held[w])
    BY <1>3
  <2>2. s \in Seq(LockRows) /\ s # << >>
    BY <1>1, <2>1 DEF Ascends
  <2> HIDE DEF s
  <2>3. /\ Tail(s) \in Seq(LockRows) /\ Len(Tail(s)) = Len(s) - 1 /\ Len(s) \in Nat
        /\ Len(s) >= 1 /\ Head(s) = s[1] /\ Head(s) \in LockRows
        /\ \A i \in 1..Len(Tail(s)) : Tail(s)[i] = s[i + 1] /\ i + 1 \in 1..Len(s)
    BY <2>2
  <2>4. Ascends(rank, Tail(s), held[w] \cup {Head(s)})
    BY <2>1, <2>3 DEF Ascends
  <2> QED
    BY <1>1, <2>4 DEF s
<1>4. ASSUME service[w] \in Reviewed
      PROVE  InPhase(todo'[w], held'[w])
  <2> DEFINE s == todo[w]
  <2>1. InPhase(s, held[w]) /\ s # << >>
    BY <1>1, <1>4 DEF LocksInv
  <2>2. PICK T : s \in Seq(T)
    BY <2>1 DEF InPhase, Asks, PlainFrom
  <2> HIDE DEF s
  <2>3. /\ Tail(s) \in Seq(T) /\ Len(Tail(s)) = Len(s) - 1 /\ Len(s) \in Nat
        /\ Len(s) >= 1 /\ Head(s) = s[1]
        /\ \A i \in 1..Len(Tail(s)) : Tail(s)[i] = s[i + 1] /\ i + 1 \in 1..Len(s)
    BY <2>1, <2>2
  <2>4. ASSUME NEW n \in 1..3, NEW k \in 1..3, PlainFrom(s, n), k + 1 >= n
        PROVE  PlainFrom(Tail(s), k)
    BY <2>3, <2>4 DEF PlainFrom
  <2>5. CASE held[w] = {} /\ Asks(s)
    <3>1. PlainFrom(Tail(s), 2)
      BY <2>4, <2>5 DEF Asks
    <3>2. Len(Tail(s)) >= 1 /\ Tail(s)[1] = UpdateSpace /\ Head(s)[1] = "request"
      BY <2>3, <2>5 DEF Asks
    <3> QED
      BY <1>1, <2>5, <3>1, <3>2 DEF InPhase, s
  <2>6. CASE PlainFrom(s, 2) /\ s[1] = UpdateSpace
    <3>1. PlainFrom(Tail(s), 1) /\ Head(s) = UpdateSpace
      BY <2>3, <2>4, <2>6
    <3> QED
      BY <1>1, <3>1 DEF InPhase, s
  <2>7. CASE UpdateSpace \in held[w] /\ PlainFrom(s, 1)
    <3>1. PlainFrom(Tail(s), 1)
      BY <2>4, <2>7
    <3> QED
      BY <1>1, <2>7, <3>1 DEF InPhase, s
  <2> QED
    BY <2>1, <2>5, <2>6, <2>7 DEF InPhase
<1>5. service[w] # "idle"
  BY <1>1 DEF LocksInv
<1> QED
  BY <1>1, <1>2, <1>3, <1>4, <1>5 DEF LocksInv

LEMMA FinishLocksInv ==
    ASSUME LocksInv, NEW w \in Workers, finish(w)
    PROVE  LocksInv'
<1>1. /\ DOMAIN todo' = Workers /\ DOMAIN held' = Workers /\ DOMAIN service' = Workers
      /\ service'[w] = "idle" /\ held'[w] = {} /\ todo'[w] = << >>
      /\ \A v \in Workers : v # w => /\ service'[v] = service[v]
                                     /\ todo'[v] = todo[v] /\ held'[v] = held[v]
  BY DEF finish, LocksInv
<1>2. "idle" \notin Reviewed
  BY DEF Reviewed
<1> QED
  BY <1>1, <1>2 DEF LocksInv

\* Reviewed issues and returns never deadlock with each other, nor do checkouts of
\* a tool and staff's returns of loans, the borrowers' own returns, or staff's fix
\* actions (hardware_requests/handover_workflow.py, admin_api/views_assets.py).
THEOREM OrderedLocksNeverDeadlock == RowLocksSpec => []OrderedNeverDeadlock
<1>1. LocksInv /\ [RowLocksNext]_lockVars => LocksInv'
  <2> SUFFICES ASSUME LocksInv, [RowLocksNext]_lockVars PROVE LocksInv'
    OBVIOUS
  <2>1. CASE UNCHANGED lockVars
    BY <2>1 DEF lockVars, LocksInv
  <2> QED
    BY <2>1, BeginInv, LockInv, FinishLocksInv DEF RowLocksNext
<1> QED
  BY <1>1, LocksInitInv, OrderedHolds, PTL DEF RowLocksSpec

-----------------------------------------------------------------------------
(* Software updates. *)

\* What a working updater knows of the marker and of the containers.
KnowsTheHost ==
    /\ \A u \in Updaters :
          /\ updater[u].step \in {"deployed", "ready", "marked"} =>
                running = updater[u].version
          /\ updater[u].step = "marked" => marker = running
          /\ /\ updater[u].step \in {"queried", "claimed", "deployed", "ready", "failed"}
             /\ "containers" \notin astray
             => updater[u].previous = marker

UpdatesInv == UpdatesTypeOK /\ MarkerIsRunning /\ ("overlap" \notin astray => KnowsTheHost)

USE DEF UpdateStatuses, Outside, Replacing, Steps, Untracked, Mixed, Releases,
        Doing, GoTo, Quit, Leaving, Rested, HostUnchanged

LEMMA UpdatesInitInv == UpdatesInit => UpdatesInv
  BY UpdatesAssumption
  DEF UpdatesInit, UpdatesInv, UpdatesTypeOK, MarkerIsRunning, KnowsTheHost, Working

LEMMA UpdatesTypes == UpdatesTypeOK /\ [UpdatesNext]_updateVars => UpdatesTypeOK'
<1> SUFFICES ASSUME UpdatesTypeOK, [UpdatesNext]_updateVars PROVE UpdatesTypeOK'
  OBVIOUS
<1> USE UpdatesAssumption DEF UpdatesTypeOK
<1>1. CASE UNCHANGED updateVars
  BY <1>1 DEF updateVars
<1>2. CASE publish_release \/ queue_update \/ get_object
  BY <1>2 DEF publish_release, queue_update, get_object
<1>3. ASSUME NEW on \in BOOLEAN, set_auto(on) \/ perform_update(on) PROVE UpdatesTypeOK'
  BY <1>3 DEF set_auto, perform_update
<1>4. ASSUME NEW u \in Updaters, run_script(u) \/ clear_lock(u) \/ mkdir(u) \/ leave(u)
      PROVE  UpdatesTypeOK'
  BY <1>4 DEF run_script, clear_lock, mkdir, leave
<1>5. ASSUME NEW u \in Updaters, give_up(u) \/ query_release(u) \/ deploy(u)
                                 \/ wait_for_backend(u) \/ mark(u)
      PROVE  UpdatesTypeOK'
  BY <1>5 DEF give_up, query_release, deploy, wait_for_backend, mark
<1>6. ASSUME NEW u \in Updaters, NEW force \in BOOLEAN, claim_update(u, force)
      PROVE  UpdatesTypeOK'
  BY <1>6 DEF claim_update
<1>7. ASSUME NEW u \in Updaters, complete_update(u) \/ fail_update(u) \/ kill(u)
      PROVE  UpdatesTypeOK'
  BY <1>7 DEF complete_update, fail_update, kill
<1>8. ASSUME NEW u \in Updaters, NEW result \in {"healthy", "stranded"},
             roll_back_containers(u, result)
      PROVE  UpdatesTypeOK'
  BY <1>8 DEF roll_back_containers, RolledBack
<1> QED
  BY <1>1, <1>2, <1>3, <1>4, <1>5, <1>6, <1>7, <1>8 DEF UpdatesNext

\* While nobody overlapped, the updater of a step is the only one at work.
LEMMA UpdaterWorksAlone ==
    ASSUME UpdatesInv, "overlap" \notin astray, NEW u \in Working
    PROVE  lock_pid = u /\ \A v \in Updaters \ {u} : updater[v].step \in Outside
  BY DEF UpdatesInv, MarkerIsRunning, Working

LEMMA NobodyWorks ==
    ASSUME UpdatesInv, "overlap" \notin astray, lock_pid \notin Updaters
    PROVE  \A v \in Updaters : updater[v].step \in Outside
  BY DEF UpdatesInv, MarkerIsRunning, Working

LEMMA UpdateStepKeeps ==
    ASSUME UpdatesInv, UpdatesTypeOK', NEW u \in Updaters,
           \/ run_script(u) \/ clear_lock(u) \/ mkdir(u) \/ leave(u) \/ give_up(u)
           \/ query_release(u) \/ \E force \in BOOLEAN : claim_update(u, force)
           \/ deploy(u) \/ wait_for_backend(u) \/ mark(u) \/ complete_update(u)
           \/ fail_update(u) \/ kill(u)
           \/ \E result \in {"healthy", "stranded"} : roll_back_containers(u, result),
           "overlap" \notin astray'
    PROVE  MarkerIsRunning' /\ KnowsTheHost'
<1>1. "overlap" \notin astray /\ UpdatesTypeOK /\ KnowsTheHost
  BY DEF UpdatesInv, run_script, clear_lock, mkdir, leave, give_up, query_release,
         claim_update, deploy, wait_for_backend, mark, complete_update, fail_update, kill,
         roll_back_containers
<1>2. /\ \A v \in Working : lock_pid = v
      /\ marker = running \/ "containers" \in astray
         \/ \E v \in Updaters : updater[v].step \in Replacing
  BY <1>1 DEF UpdatesInv, MarkerIsRunning
<1>3. u \in Working => /\ lock_pid = u
                       /\ \A v \in Updaters \ {u} : updater[v].step \in Outside
  BY <1>1, UpdaterWorksAlone
<1>4. lock_pid \notin Updaters => \A v \in Updaters : updater[v].step \in Outside
  BY <1>1, NobodyWorks
<1>5. "free" \notin Updaters /\ "dead" \notin Updaters
  BY UpdatesAssumption
<1> USE <1>1 DEF UpdatesTypeOK, Working, KnowsTheHost, MarkerIsRunning
<1>6. CASE run_script(u)
  BY <1>2, <1>4, <1>5, <1>6 DEF run_script
<1>7. CASE clear_lock(u)
  BY <1>2, <1>4, <1>5, <1>7 DEF clear_lock
<1>8. CASE mkdir(u)
  BY <1>2, <1>4, <1>5, <1>8 DEF mkdir
<1>9. CASE leave(u) \/ give_up(u) \/ query_release(u) \/ fail_update(u)
  <2>1. CASE leave(u)
    BY <1>2, <1>3, <2>1 DEF leave
  <2>2. CASE give_up(u)
    BY <1>2, <1>3, <2>2 DEF give_up
  <2>3. CASE query_release(u)
    BY <1>2, <1>3, <2>3 DEF query_release
  <2>4. CASE fail_update(u)
    BY <1>2, <1>3, <2>4 DEF fail_update
  <2> QED
    BY <1>9, <2>1, <2>2, <2>3, <2>4
<1>10. CASE \E force \in BOOLEAN : claim_update(u, force)
  BY <1>2, <1>3, <1>10 DEF claim_update
<1>11. CASE deploy(u)
  BY <1>2, <1>3, <1>11 DEF deploy
<1>12. CASE wait_for_backend(u) \/ mark(u)
  BY <1>2, <1>3, <1>12 DEF wait_for_backend, mark
<1>13. CASE complete_update(u)
  BY <1>2, <1>3, <1>13 DEF complete_update
<1>14. CASE kill(u)
  BY <1>2, <1>3, <1>14 DEF kill
<1>15. CASE \E result \in {"healthy", "stranded"} : roll_back_containers(u, result)
  BY <1>2, <1>3, <1>15 DEF roll_back_containers, RolledBack
<1> QED
  BY <1>6, <1>7, <1>8, <1>9, <1>10, <1>11, <1>12, <1>13, <1>14, <1>15

\* For any number of updaters and releases, killed at any step: updaters do not
\* overlap, and at rest the marker names the release the containers run, but
\* for what the history variable counts (scripts/update.sh).
THEOREM MarkerNamesWhatRuns == UpdatesSpec => []MarkerIsRunning
<1>1. UpdatesInv /\ [UpdatesNext]_updateVars => UpdatesInv'
  <2> SUFFICES ASSUME UpdatesInv, [UpdatesNext]_updateVars PROVE UpdatesInv'
    OBVIOUS
  <2>1. UpdatesTypeOK'
    BY UpdatesTypes DEF UpdatesInv
  <2>2. CASE \/ UNCHANGED updateVars
             \/ publish_release \/ queue_update \/ get_object
             \/ \E on \in BOOLEAN : set_auto(on) \/ perform_update(on)
    <3>1. UNCHANGED <<lock_pid, marker, running, updater, astray>>
      BY <2>2 DEF updateVars, publish_release, queue_update, get_object, set_auto,
                  perform_update
    <3> QED
      BY <2>1, <3>1 DEF UpdatesInv, MarkerIsRunning, KnowsTheHost, Working
  <2>3. CASE \E u \in Updaters :
                \/ run_script(u) \/ clear_lock(u) \/ mkdir(u) \/ leave(u) \/ give_up(u)
                \/ query_release(u) \/ \E force \in BOOLEAN : claim_update(u, force)
                \/ deploy(u) \/ wait_for_backend(u) \/ mark(u) \/ complete_update(u)
                \/ fail_update(u) \/ kill(u)
                \/ \E result \in {"healthy", "stranded"} : roll_back_containers(u, result)
    <3>1. CASE "overlap" \in astray'
      BY <2>1, <3>1 DEF UpdatesInv, MarkerIsRunning
    <3>2. CASE "overlap" \notin astray'
      BY <2>1, <2>3, <3>2, UpdateStepKeeps DEF UpdatesInv
    <3> QED
      BY <3>1, <3>2
  <2> QED
    BY <2>2, <2>3 DEF UpdatesNext
<1>2. UpdatesInv => MarkerIsRunning
  BY DEF UpdatesInv
<1> QED
  BY <1>1, <1>2, UpdatesInitInv, PTL DEF UpdatesSpec

-----------------------------------------------------------------------------
(* Stock transfers and codes. *)

Totals(rows) == [p \in DOMAIN rows |-> rows[p].stock.total]

LEMMA PiecesOfTotals == \A rows : Pieces(rows) = PieceSet(Totals(rows))
BY DEF Pieces, PieceSet, Totals

\* Rows of the right type that add up.
RowFits(s) == s \in Av!Row(Nat) /\ s.total = Av!BucketSum(s)

Books(rows) ==
    /\ rows \in Seq(ProductRow)
    /\ \A p \in DOMAIN rows : rows[p].stock.total = Av!BucketSum(rows[p].stock)

WithStock(rows, p, s) == [rows EXCEPT ![p].stock = s]

\* The row of p has the stock s, all else of the rows is as it was.
OnlyStock(rows, new, p, s) ==
    /\ Len(new) = Len(rows) /\ DOMAIN new = DOMAIN rows
    /\ new[p] = [rows[p] EXCEPT !.stock = s]
    /\ \A x \in DOMAIN rows : x # p => new[x] = rows[x]

LEMMA RowsType ==
    ASSUME NEW rows \in Seq(ProductRow)
    PROVE  /\ Len(rows) \in Nat /\ DOMAIN rows = 1..Len(rows)
           /\ \A p \in DOMAIN rows : rows[p] \in ProductRow
           /\ Totals(rows) \in [DOMAIN rows -> Nat] /\ IsFiniteSet(DOMAIN rows)
           /\ Cardinality(Pieces(rows)) \in Nat
<1>1. /\ Len(rows) \in Nat /\ DOMAIN rows = 1..Len(rows)
      /\ \A p \in DOMAIN rows : rows[p] \in ProductRow
  BY LenProperties
<1>2. Totals(rows) \in [DOMAIN rows -> Nat]
  BY <1>1 DEF Totals, ProductRow, Av!Row
<1>3. IsFiniteSet(DOMAIN rows)
  BY <1>1, FS_Interval
<1>4. IsFiniteSet(Pieces(rows))
  BY <1>2, <1>3, PiecesFinite, PiecesOfTotals
<1> QED
  BY <1>1, <1>2, <1>3, <1>4, FS_CardinalityType

LEMMA BooksOfRows ==
    ASSUME NEW rows, Books(rows)
    PROVE  /\ Len(rows) \in Nat /\ DOMAIN rows = 1..Len(rows)
           /\ \A p \in DOMAIN rows : rows[p] \in ProductRow /\ RowFits(rows[p].stock)
           /\ Totals(rows) \in [DOMAIN rows -> Nat] /\ IsFiniteSet(DOMAIN rows)
           /\ Cardinality(Pieces(rows)) \in Nat
BY RowsType DEF Books, RowFits, ProductRow

LEMMA RowOfOne ==
    ASSUME NEW rows, Books(rows), NEW p \in DOMAIN rows,
           NEW row \in ProductRow, RowFits(row.stock)
    PROVE  LET new == [rows EXCEPT ![p] = row]
           IN  /\ Books(new) /\ Len(new) = Len(rows) /\ DOMAIN new = DOMAIN rows
               /\ \A x \in DOMAIN rows : new[x] = IF x = p THEN row ELSE rows[x]
               /\ Cardinality(Pieces(new))
                     = Cardinality(Pieces(rows)) - rows[p].stock.total + row.stock.total
<1> DEFINE new == [rows EXCEPT ![p] = row]
<1>1. /\ Len(rows) \in Nat /\ DOMAIN rows = 1..Len(rows) /\ IsFiniteSet(DOMAIN rows)
      /\ \A x \in DOMAIN rows : rows[x] \in ProductRow
      /\ Totals(rows) \in [DOMAIN rows -> Nat]
  BY BooksOfRows
<1>2. /\ new \in Seq(ProductRow) /\ Len(new) = Len(rows)
      /\ \A x \in 1..Len(rows) : new[x] = IF x = p THEN row ELSE rows[x]
  BY <1>1, ExceptSeq DEF Books
<1>3. DOMAIN new = DOMAIN rows
  BY <1>1, <1>2, LenProperties
<1> HIDE DEF new
<1>4. Books(new)
  BY <1>1, <1>2, <1>3 DEF Books, RowFits
<1>5. Totals(new) \in [DOMAIN rows -> Nat]
  BY <1>3, <1>4, BooksOfRows
<1>6. \A x \in DOMAIN rows : x # p => Totals(new)[x] = Totals(rows)[x]
  BY <1>1, <1>2, <1>3 DEF Totals
<1>7. Cardinality(PieceSet(Totals(new)))
          = Cardinality(PieceSet(Totals(rows))) - Totals(rows)[p] + Totals(new)[p]
  BY <1>1, <1>5, <1>6, OnePieceChanges
<1>8. Totals(rows)[p] = rows[p].stock.total /\ Totals(new)[p] = row.stock.total
  BY <1>1, <1>2, <1>3 DEF Totals
<1> QED
  BY <1>1, <1>2, <1>3, <1>4, <1>7, <1>8, PiecesOfTotals DEF new

LEMMA StockOfOne ==
    ASSUME NEW rows, Books(rows), NEW p \in DOMAIN rows, NEW s, RowFits(s)
    PROVE  LET new == WithStock(rows, p, s)
           IN  /\ Books(new) /\ OnlyStock(rows, new, p, s)
               /\ Cardinality(Pieces(new))
                     = Cardinality(Pieces(rows)) - rows[p].stock.total + s.total
<1> DEFINE row == [rows[p] EXCEPT !.stock = s]
<1>1. row \in ProductRow /\ row.stock = s
  BY BooksOfRows DEF ProductRow, RowFits
<1>2. WithStock(rows, p, s) = [rows EXCEPT ![p] = row]
  BY DEF WithStock
<1> HIDE DEF row
<1> DEFINE new == [rows EXCEPT ![p] = row]
<1>3. /\ Books(new) /\ Len(new) = Len(rows) /\ DOMAIN new = DOMAIN rows
      /\ \A x \in DOMAIN rows : new[x] = IF x = p THEN row ELSE rows[x]
      /\ Cardinality(Pieces(new))
            = Cardinality(Pieces(rows)) - rows[p].stock.total + row.stock.total
  BY <1>1, RowOfOne
<1> HIDE DEF new
<1>4. OnlyStock(rows, new, p, s)
  BY <1>3 DEF OnlyStock, row
<1> QED
  BY <1>1, <1>2, <1>3, <1>4 DEF new

LEMMA OneRowMore ==
    ASSUME NEW rows, Books(rows), NEW row \in ProductRow,
           row.stock.total = Av!BucketSum(row.stock)
    PROVE  LET new == Append(rows, row)
           IN  /\ Books(new) /\ Len(new) = Len(rows) + 1
               /\ DOMAIN new = DOMAIN rows \cup {Len(rows) + 1}
               /\ new[Len(rows) + 1] = row
               /\ \A x \in DOMAIN rows : new[x] = rows[x]
               /\ Cardinality(Pieces(new)) = Cardinality(Pieces(rows)) + row.stock.total
<1> DEFINE new == Append(rows, row)
           n == Len(rows) + 1
<1>1. /\ Len(rows) \in Nat /\ DOMAIN rows = 1..Len(rows) /\ IsFiniteSet(DOMAIN rows)
      /\ \A x \in DOMAIN rows : rows[x] \in ProductRow
      /\ Totals(rows) \in [DOMAIN rows -> Nat] /\ Cardinality(Pieces(rows)) \in Nat
  BY BooksOfRows
<1>2. /\ new \in Seq(ProductRow) /\ Len(new) = n /\ new[n] = row
      /\ \A x \in 1..Len(rows) : new[x] = rows[x]
  BY AppendProperties DEF Books
<1>3. DOMAIN new = 1..n
  BY <1>2, LenProperties
<1>4. DOMAIN new = DOMAIN rows \cup {n}
  BY <1>1, <1>3
<1> HIDE DEF new
<1>5. Books(new)
  BY <1>1, <1>2, <1>4 DEF Books
<1>6. Totals(new) \in [DOMAIN new -> Nat] /\ IsFiniteSet(DOMAIN new)
  BY <1>5, BooksOfRows
<1>7. \A x \in DOMAIN rows : Totals(new)[x] = Totals(rows)[x]
  BY <1>1, <1>2, <1>4 DEF Totals
<1>8. n \in DOMAIN new /\ n \notin DOMAIN rows
  BY <1>1, <1>4
<1>9. Cardinality(PieceSet(Totals(new)))
          = Cardinality(PieceSet(Totals(rows))) + Totals(new)[n]
  <2> DEFINE D == DOMAIN rows  f == Totals(rows)  g == Totals(new)
  <2>1. /\ IsFiniteSet(D) /\ n \notin D /\ f \in [D -> Nat]
        /\ \A x \in D : g[x] = f[x]
    BY <1>1, <1>7, <1>8
  <2>2. g \in [D \cup {n} -> Nat]
    BY <1>4, <1>6
  <2> HIDE DEF n, D, f, g
  <2>3. Cardinality(PieceSet(g)) = Cardinality(PieceSet(f)) + g[n]
    BY <2>1, <2>2, OnePieceMore
  <2> QED
    BY <2>3 DEF f, g
<1>10. Totals(new)[n] = row.stock.total /\ row.stock.total \in Nat
  BY <1>2, <1>8 DEF Totals, ProductRow, Av!Row
<1> QED
  BY <1>1, <1>2, <1>4, <1>5, <1>9, <1>10, PiecesOfTotals DEF new
LEMMA AdjustFits ==
    ASSUME NEW s, RowFits(s), NEW n \in Int, s.available + n >= 0
    PROVE  LET t == Av!Adjust(s, n, 0, 0)
           IN  /\ RowFits(t) /\ t.total = s.total + n
               /\ t.available = s.available + n /\ t.issued = s.issued
<1> DEFINE u == [s EXCEPT !.available = @ + n, !.damaged = @ + 0, !.lost = @ + 0]
           t == Av!Adjust(s, n, 0, 0)
<1>1. /\ u \in Av!Row(Nat) /\ u.available = s.available + n /\ u.reserved = s.reserved
      /\ u.issued = s.issued /\ u.damaged = s.damaged /\ u.lost = s.lost
      /\ u.needs_fix = s.needs_fix
  <2>1. (s.available + n) \in Nat /\ s.damaged + 0 = s.damaged /\ s.lost + 0 = s.lost
    BY DEF RowFits, Av!Row
  <2> QED
    BY <2>1 DEF RowFits, Av!Row
<1>2. t = [u EXCEPT !.total = Av!BucketSum(u)]
  BY DEF Av!Adjust, Av!Retotal
<1> HIDE DEF u, t
<1>3. Av!BucketSum(u) \in Nat
  BY <1>1 DEF Av!Row, Av!BucketSum
<1>4. /\ t \in Av!Row(Nat) /\ t.total = Av!BucketSum(u)
      /\ t.available = u.available /\ t.reserved = u.reserved /\ t.issued = u.issued
      /\ t.damaged = u.damaged /\ t.lost = u.lost /\ t.needs_fix = u.needs_fix
  BY <1>1, <1>2, <1>3 DEF Av!Row
<1>5. Av!BucketSum(u) = Av!BucketSum(t) /\ Av!BucketSum(u) = Av!BucketSum(s) + n
  BY <1>1, <1>4 DEF Av!BucketSum, Av!Row, RowFits
<1> QED
  BY <1>1, <1>4, <1>5 DEF RowFits, t

LEMMA IssueFits ==
    ASSUME NEW s, RowFits(s), Av!CanIssueAvailable(s, 1)
    PROVE  LET t == Av!IssueAvailable(s, 1)
           IN  /\ RowFits(t) /\ t.total = s.total
               /\ t.available = s.available - 1 /\ t.issued = s.issued + 1
<1> DEFINE t == Av!IssueAvailable(s, 1)
<1>1. (s.available - 1) \in Nat /\ (s.issued + 1) \in Nat
  BY DEF RowFits, Av!Row, Av!CanIssueAvailable
<1>2. /\ t \in Av!Row(Nat) /\ t.total = s.total /\ t.available = s.available - 1
      /\ t.reserved = s.reserved /\ t.issued = s.issued + 1
      /\ t.damaged = s.damaged /\ t.lost = s.lost /\ t.needs_fix = s.needs_fix
  BY <1>1 DEF RowFits, Av!Row, Av!IssueAvailable
<1> HIDE DEF t
<1>3. Av!BucketSum(t) = Av!BucketSum(s)
  BY <1>2 DEF RowFits, Av!Row, Av!BucketSum
<1> QED
  BY <1>2, <1>3 DEF RowFits, t

LEMMA ReturnFits ==
    ASSUME NEW s, RowFits(s), Av!CanReturnToAvailable(s, 1)
    PROVE  LET t == Av!ReturnToAvailable(s, 1)
           IN  /\ RowFits(t) /\ t.total = s.total
               /\ t.available = s.available + 1 /\ t.issued = s.issued - 1
<1> DEFINE t == Av!ReturnToAvailable(s, 1)
<1>1. (s.available + 1) \in Nat /\ (s.issued - 1) \in Nat
  BY DEF RowFits, Av!Row, Av!CanReturnToAvailable
<1>2. /\ t \in Av!Row(Nat) /\ t.total = s.total /\ t.available = s.available + 1
      /\ t.reserved = s.reserved /\ t.issued = s.issued - 1
      /\ t.damaged = s.damaged /\ t.lost = s.lost /\ t.needs_fix = s.needs_fix
  BY <1>1 DEF RowFits, Av!Row, Av!ReturnToAvailable
<1> HIDE DEF t
<1>3. Av!BucketSum(t) = Av!BucketSum(s)
  BY <1>2 DEF RowFits, Av!Row, Av!BucketSum
<1> QED
  BY <1>2, <1>3 DEF RowFits, t

\* A transfer takes q from the shelf and the total, or adds it to both.
Shifted(s, n) == [s EXCEPT !.available = @ + n, !.total = @ + n]

LEMMA ShiftFits ==
    ASSUME NEW s, RowFits(s), NEW n \in Int, s.available + n >= 0
    PROVE  LET t == Shifted(s, n)
           IN  RowFits(t) /\ t.total = s.total + n /\ t.issued = s.issued
<1> DEFINE t == Shifted(s, n)
<1>1. (s.available + n) \in Nat /\ (s.total + n) \in Nat
  BY DEF RowFits, Av!Row, Av!BucketSum
<1>2. /\ t \in Av!Row(Nat) /\ t.total = s.total + n /\ t.available = s.available + n
      /\ t.reserved = s.reserved /\ t.issued = s.issued
      /\ t.damaged = s.damaged /\ t.lost = s.lost /\ t.needs_fix = s.needs_fix
  BY <1>1 DEF RowFits, Av!Row, Shifted
<1> HIDE DEF t
<1>3. Av!BucketSum(t) = Av!BucketSum(s) + n
  BY <1>2 DEF RowFits, Av!Row, Av!BucketSum
<1> QED
  BY <1>2, <1>3 DEF RowFits, t

LEMMA NewRowFits ==
    LET s == Av!NewRow(0, 0) IN RowFits(s) /\ s.total = 0 /\ s.available = 0 /\ s.issued = 0
BY DEF RowFits, Av!NewRow, Av!Row, Av!BucketSum

\* Between two rows that are tracked by quantity.
LEMMA MoveKeepsBooks ==
    ASSUME NEW rows, Books(rows), NEW source \in DOMAIN rows,
           NEW destination \in DOMAIN rows, source # destination,
           NEW q \in Nat, q <= rows[source].stock.available
    PROVE  LET new == MoveStock(rows, source, destination, q)
           IN  /\ Books(new) /\ Len(new) = Len(rows) /\ DOMAIN new = DOMAIN rows
               /\ \A x \in DOMAIN rows :
                     /\ new[x].makerspace = rows[x].makerspace
                     /\ new[x].tracking_mode = rows[x].tracking_mode
                     /\ new[x].stock.issued = rows[x].stock.issued
                     /\ x \notin {source, destination} => new[x] = rows[x]
               /\ Cardinality(Pieces(new)) = Cardinality(Pieces(rows))
<1> DEFINE s == Shifted(rows[source].stock, -q)
           d == Shifted(rows[destination].stock, q)
           out == WithStock(rows, source, s)
           new == WithStock(out, destination, d)
<1>1. /\ \A x \in DOMAIN rows : rows[x] \in ProductRow /\ RowFits(rows[x].stock)
      /\ Cardinality(Pieces(rows)) \in Nat
  BY BooksOfRows
<1>2. /\ -q \in Int /\ q \in Int /\ rows[source].stock.available + (-q) >= 0
      /\ rows[destination].stock.available + q >= 0
      /\ rows[source].stock.total \in Nat /\ rows[destination].stock.total \in Nat
  BY <1>1 DEF RowFits, Av!Row
<1>3. RowFits(s) /\ s.total = rows[source].stock.total - q /\ s.issued = rows[source].stock.issued
  BY <1>1, <1>2, ShiftFits
<1>4. RowFits(d) /\ d.total = rows[destination].stock.total + q /\ d.issued = rows[destination].stock.issued
  BY <1>1, <1>2, ShiftFits
<1>5. MoveStock(rows, source, destination, q) = new
  <2>1. \A x \in DOMAIN rows : rows[x].stock.available \in Int /\ rows[x].stock.total \in Int
    BY <1>1 DEF RowFits, Av!Row
  <2> QED
    BY <1>1, <2>1, ZenonT(60) DEF MoveStock, WithStock, Shifted, ProductRow
<1> HIDE DEF s, d
<1>6. /\ Books(out) /\ OnlyStock(rows, out, source, s)
      /\ Cardinality(Pieces(out)) = Cardinality(Pieces(rows)) - rows[source].stock.total + s.total
  BY <1>3, StockOfOne DEF RowFits
<1>7. destination \in DOMAIN out /\ out[destination] = rows[destination]
  BY <1>6 DEF OnlyStock
<1> HIDE DEF out
<1>8. /\ Books(new) /\ OnlyStock(out, new, destination, d)
      /\ Cardinality(Pieces(new))
            = Cardinality(Pieces(out)) - rows[destination].stock.total + d.total
  <2>1. RowFits(d) /\ Books(out) /\ destination \in DOMAIN out
    BY <1>4, <1>6, <1>7
  <2>2. /\ Books(new) /\ OnlyStock(out, new, destination, d)
        /\ Cardinality(Pieces(new))
              = Cardinality(Pieces(out)) - out[destination].stock.total + d.total
    BY <2>1, StockOfOne
  <2> QED
    BY <1>7, <2>2
<1> HIDE DEF new
<1>9. Cardinality(Pieces(new)) = Cardinality(Pieces(rows))
  BY <1>1, <1>2, <1>3, <1>4, <1>6, <1>8
<1>10. \A x \in DOMAIN rows :
                     /\ new[x].makerspace = rows[x].makerspace
                     /\ new[x].tracking_mode = rows[x].tracking_mode
                     /\ new[x].stock.issued = rows[x].stock.issued
                     /\ x \notin {source, destination} => new[x] = rows[x]
  BY <1>1, <1>3, <1>4, <1>6, <1>8 DEF OnlyStock, ProductRow
<1> QED
  BY <1>5, <1>6, <1>8, <1>9, <1>10 DEF OnlyStock
-----------------------------------------------------------------------------
(* The invariant. *)

\* A unit belongs to an individual product of the makerspace it is in.
UnitsAtHome ==
    \A u \in Units :
       /\ unit[u].product \in ProductIds
       /\ product[unit[u].product].tracking_mode = "individual"
       /\ product[unit[u].product].makerspace = unit[u].makerspace

\* An active code, and a creation under way, lead to a row that exists.
CodesLead ==
    /\ \A c \in Codes : code[c].status = "active" =>
          /\ code[c].target \in Targets /\ Exists(code[c].target)
          /\ code[c].makerspace \in Spaces
    /\ chosen # Nothing => Exists(chosen.target)

\* What is on a loan is a quantity product or a unit, which is issued and on no
\* other loan.
LentRight ==
    \A c \in Codes : QrHasActiveLoan(c) =>
       /\ lent[c][1] = "product" =>
             lent[c][2] \in ProductIds /\ product[lent[c][2]].tracking_mode = "quantity"
       /\ lent[c][1] = "asset" =>
             /\ unit[lent[c][2]].status = "issued"
             /\ \A x \in Codes : lent[x] = lent[c] => x = c

RowsInv == Books(product) /\ Len(product) <= MaxRows /\ StockConserved

UnitsInv == unit \in [Units -> UnitRow] /\ UnitsAtHome /\ UnitsCounted

CodesTypeOK ==
    /\ code \in [Codes -> CodeRow]
    /\ lent \in [Codes -> Targets \cup {Nothing}]
    /\ chosen \in {Nothing} \cup [target : Targets, makerspace : Spaces]
    /\ received \subseteq Purchases /\ strayed \in BOOLEAN

CodesInv == CodesTypeOK /\ CodesLead /\ LentRight /\ CodesResolve /\ LoansKeepTheirCode

TransfersInv == RowsInv /\ UnitsInv /\ CodesInv

LEMMA RowsHere ==
    ASSUME RowsInv
    PROVE  /\ Len(product) \in Nat /\ ProductIds = 1..Len(product)
           /\ \A p \in ProductIds : product[p] \in ProductRow /\ RowFits(product[p].stock)
           /\ Cardinality(Pieces(product)) \in Nat
BY BooksOfRows DEF RowsInv, ProductIds

\* What a transaction on one unit does to the counts of every product.
UnitBecomes(u, row) == unit' = [unit EXCEPT ![u] = row]

One(b) == IF b THEN 1 ELSE 0

LEMMA UnitsChange ==
    ASSUME unit \in [Units -> UnitRow], NEW u \in Units, NEW row \in UnitRow,
           UnitBecomes(u, row), NEW p \in Nat, NEW status
    PROVE  /\ Cardinality(UnitsOf(p, status)) \in Nat
           /\ Cardinality(UnitsOf(p, status)') = Cardinality(UnitsOf(p, status))
                - One(unit[u].product = p /\ unit[u].status = status)
                + One(row.product = p /\ row.status = status)
<1> DEFINE old == UnitsOf(p, status)
           new == UnitsOf(p, status)'
           rest == old \ {u}
<1>1. /\ \A x \in Units : unit'[x] = IF x = u THEN row ELSE unit[x]
      /\ IsFiniteSet(Units)
  BY TransfersAssumption DEF UnitBecomes, TransfersAssumption
<1>2. IsFiniteSet(old) /\ IsFiniteSet(rest)
  BY <1>1, FS_Subset DEF UnitsOf
<1>3. Cardinality(old) \in Nat /\ Cardinality(rest) \in Nat
  BY <1>2, FS_CardinalityType
<1>4. Cardinality(old) = Cardinality(rest) + One(unit[u].product = p /\ unit[u].status = status)
  <2>1. CASE unit[u].product = p /\ unit[u].status = status
    <3>1. u \in old
      BY <2>1 DEF UnitsOf
    <3>2. Cardinality(rest) = Cardinality(old) - 1
      BY <1>2, <3>1, FS_RemoveElement
    <3> QED
      BY <1>3, <2>1, <3>2 DEF One
  <2>2. CASE ~(unit[u].product = p /\ unit[u].status = status)
    <3>1. rest = old
      BY <2>2 DEF UnitsOf
    <3> QED
      BY <1>3, <2>2, <3>1 DEF One
  <2> QED
    BY <2>1, <2>2
<1>5. Cardinality(new) = Cardinality(rest) + One(row.product = p /\ row.status = status)
  <2>1. CASE row.product = p /\ row.status = status
    <3>1. new = rest \cup {u} /\ u \notin rest
      BY <1>1, <2>1 DEF UnitsOf
    <3>2. Cardinality(new) = Cardinality(rest) + 1
      BY <1>2, <3>1, FS_AddElement
    <3> QED
      BY <1>3, <2>1, <3>2 DEF One
  <2>2. CASE ~(row.product = p /\ row.status = status)
    <3>1. new = rest
      BY <1>1, <2>2 DEF UnitsOf
    <3> QED
      BY <1>3, <2>2, <3>1 DEF One
  <2> QED
    BY <2>1, <2>2
<1> QED
  BY <1>3, <1>4, <1>5 DEF One

-----------------------------------------------------------------------------
(* Steps that leave rows and units in their makerspaces. *)

PlacesKept ==
    /\ \A p \in ProductIds :
          /\ p \in ProductIds' /\ product'[p].makerspace = product[p].makerspace
          /\ product'[p].tracking_mode = product[p].tracking_mode
    /\ \A u \in Units : unit'[u].makerspace = unit[u].makerspace

LEMMA TargetsStay ==
    ASSUME PlacesKept, NEW t \in Targets, Exists(t)
    PROVE  Exists(t)' /\ SpaceOf(t)' = SpaceOf(t)
BY DEF PlacesKept, Targets, Exists, SpaceOf

LEMMA CodesKeep ==
    ASSUME CodesInv, PlacesKept, UNCHANGED <<code, lent, chosen, strayed>>,
           received' \subseteq Purchases,
           \A u \in Units : unit'[u].status = unit[u].status
    PROVE  CodesInv'
<1>1. CodesTypeOK'
  BY DEF CodesInv, CodesTypeOK
<1>2. \A t \in Targets : Exists(t) => Exists(t)' /\ SpaceOf(t)' = SpaceOf(t)
  BY TargetsStay
<1>3. CodesLead'
  BY <1>2 DEF CodesInv, CodesTypeOK, CodesLead
<1>4. LentRight'
  BY DEF CodesInv, CodesTypeOK, LentRight, QrHasActiveLoan, PlacesKept, Targets
<1>5. CodesResolve'
  BY <1>2 DEF CodesInv, CodesLead, CodesResolve, Resolves
<1>6. LoansKeepTheirCode'
  BY <1>2 DEF CodesInv, CodesLead, LoansKeepTheirCode, Resolves, QrHasActiveLoan
<1> QED
  BY <1>1, <1>3, <1>4, <1>5, <1>6 DEF CodesInv
-----------------------------------------------------------------------------
(* Transfers and purchases. *)

\* New rows and new stock that take nothing from what units are counted in.
Rearranged(new) ==
    /\ Books(new) /\ ProductIds \subseteq DOMAIN new
    /\ \A p \in ProductIds :
          /\ new[p].makerspace = product[p].makerspace
          /\ new[p].tracking_mode = product[p].tracking_mode
          /\ product[p].tracking_mode = "individual" =>
                /\ new[p].stock.issued = product[p].stock.issued
                /\ new[p].stock.available >= product[p].stock.available
    /\ \A p \in DOMAIN new \ ProductIds : new[p].stock.issued = 0

LEMMA RowsChange ==
    ASSUME TransfersInv, Rearranged(product'), Len(product') <= MaxRows, StockConserved',
           received' \subseteq Purchases, UNCHANGED <<unit, code, lent, chosen, strayed>>
    PROVE  TransfersInv'
<1>1. RowsInv'
  BY DEF RowsInv, Rearranged
<1>2. PlacesKept
  BY DEF PlacesKept, Rearranged, ProductIds
<1>3. CodesInv'
  BY <1>2, CodesKeep DEF TransfersInv
<1>4. UnitsInv'
  <2>1. unit' \in [Units -> UnitRow] /\ UnitsAtHome'
    BY <1>2 DEF TransfersInv, UnitsInv, UnitsAtHome, PlacesKept
  <2>2. ASSUME NEW p \in ProductIds', product'[p].tracking_mode = "individual"
        PROVE  /\ product'[p].stock.available >= Cardinality(UnitsOf(p, "available")')
               /\ product'[p].stock.issued = Cardinality(UnitsOf(p, "issued")')
    <3>1. /\ UnitsOf(p, "available")' = UnitsOf(p, "available")
          /\ UnitsOf(p, "issued")' = UnitsOf(p, "issued")
      BY DEF UnitsOf
    <3>2. RowFits(product'[p].stock)
      BY <1>1, BooksOfRows DEF RowsInv, ProductIds
    <3>3. CASE p \in ProductIds
      <4>1. product[p].tracking_mode = "individual"
        BY <2>2, <3>3 DEF Rearranged
      <4>2. /\ product[p].stock.available >= Cardinality(UnitsOf(p, "available"))
            /\ product[p].stock.issued = Cardinality(UnitsOf(p, "issued"))
        BY <3>3, <4>1 DEF TransfersInv, UnitsInv, UnitsCounted
      <4>3. /\ product'[p].stock.issued = product[p].stock.issued
            /\ product'[p].stock.available >= product[p].stock.available
        BY <3>3, <4>1 DEF Rearranged
      <4>4. /\ product[p].stock.available \in Nat /\ product'[p].stock.available \in Nat
            /\ Cardinality(UnitsOf(p, "available")) \in Nat
        <5>1. RowFits(product[p].stock)
          BY <3>3, RowsHere DEF TransfersInv
        <5>2. IsFiniteSet(UnitsOf(p, "available"))
          BY TransfersAssumption, FS_Subset DEF TransfersAssumption, UnitsOf
        <5> QED
          BY <3>2, <5>1, <5>2, FS_CardinalityType DEF RowFits, Av!Row
      <4> QED
        BY <3>1, <4>2, <4>3, <4>4
    <3>4. CASE p \notin ProductIds
      <4>1. UnitsOf(p, "available") = {} /\ UnitsOf(p, "issued") = {}
        BY <3>4 DEF TransfersInv, UnitsInv, UnitsAtHome, UnitsOf
      <4>2. product'[p].stock.issued = 0
        BY <3>4 DEF Rearranged, ProductIds
      <4> QED
        <5>1. Cardinality({}) = 0
          BY FS_EmptySet
        <5>2. product'[p].stock.available >= 0
          BY <3>2 DEF RowFits, Av!Row
        <5> QED
          BY <3>1, <4>1, <4>2, <5>1, <5>2
    <3> QED
      BY <3>3, <3>4
  <2> QED
    BY <2>1, <2>2 DEF UnitsInv, UnitsCounted
<1> QED
  BY <1>1, <1>3, <1>4 DEF TransfersInv

LEMMA FirstFound ==
    ASSUME NEW S \in SUBSET Nat, First(S) # 0
    PROVE  First(S) \in S
<1>1. S # {}
  BY DEF First
<1>2. \E p \in S : \A x \in S : p <= x
  BY <1>1, LeastNumber
<1> QED
  BY <1>2 DEF First

\* A new empty row may be the destination.
LEMMA MovesToNewRow ==
    ASSUME RowsInv, NEW p \in ProductIds, product[p].tracking_mode = "quantity",
           NEW q \in Nat, q <= product[p].stock.available,
           NEW row \in ProductRow, row.stock = Av!NewRow(0, 0),
           NEW new, new = MoveStock(Append(product, row), p, Len(product) + 1, q)
    PROVE  Rearranged(new) /\ Cardinality(Pieces(new)) = Cardinality(Pieces(product))
<1> DEFINE rows == Append(product, row)
           n == Len(product) + 1
<1>1. /\ Len(product) \in Nat /\ ProductIds = 1..Len(product)
      /\ \A x \in ProductIds : product[x] \in ProductRow /\ RowFits(product[x].stock)
      /\ Cardinality(Pieces(product)) \in Nat
  BY RowsHere
<1>2. /\ Books(rows) /\ DOMAIN rows = ProductIds \cup {n} /\ rows[n] = row
      /\ \A x \in ProductIds : rows[x] = product[x]
      /\ Cardinality(Pieces(rows)) = Cardinality(Pieces(product))
  BY <1>1, OneRowMore, NewRowFits DEF RowsInv, ProductIds, RowFits
<1>3. p # n /\ p \in DOMAIN rows /\ n \in DOMAIN rows
  BY <1>1, <1>2
<1> HIDE DEF rows, n
<1>4. /\ Books(new) /\ DOMAIN new = DOMAIN rows
      /\ \A x \in DOMAIN rows :
            /\ new[x].makerspace = rows[x].makerspace
            /\ new[x].tracking_mode = rows[x].tracking_mode
            /\ new[x].stock.issued = rows[x].stock.issued
            /\ x \notin {p, n} => new[x] = rows[x]
      /\ Cardinality(Pieces(new)) = Cardinality(Pieces(rows))
  <2>1. new = MoveStock(rows, p, n, q)
    BY DEF rows, n
  <2>2. q <= rows[p].stock.available
    BY <1>2
  <2> QED
    BY <1>2, <1>3, <2>1, <2>2, MoveKeepsBooks
<1>5. new[n].stock.issued = 0
  BY <1>2, <1>3, <1>4, NewRowFits
<1>6. ASSUME NEW x \in ProductIds
      PROVE  /\ new[x].makerspace = product[x].makerspace
             /\ new[x].tracking_mode = product[x].tracking_mode
             /\ product[x].tracking_mode = "individual" =>
                   /\ new[x].stock.issued = product[x].stock.issued
                   /\ new[x].stock.available >= product[x].stock.available
  <2>1. x \in DOMAIN rows /\ rows[x] = product[x] /\ x # n
    BY <1>1, <1>2 DEF n
  <2>2. product[x].stock.available \in Nat
    BY <1>1 DEF RowFits, Av!Row
  <2> QED
    BY <1>4, <2>1, <2>2
<1>7. \A x \in DOMAIN new \ ProductIds : x = n
  BY <1>2, <1>4
<1> QED
  BY <1>2, <1>4, <1>5, <1>6, <1>7 DEF Rearranged

LEMMA MovesToRow ==
    ASSUME RowsInv, NEW p \in ProductIds, product[p].tracking_mode = "quantity",
           NEW d \in ProductIds, product[d].tracking_mode = "quantity", p # d,
           NEW q \in Nat, q <= product[p].stock.available,
           NEW new, new = MoveStock(product, p, d, q)
    PROVE  Rearranged(new) /\ Cardinality(Pieces(new)) = Cardinality(Pieces(product))
<1>1. /\ Books(new) /\ DOMAIN new = ProductIds
      /\ \A x \in ProductIds :
            /\ new[x].makerspace = product[x].makerspace
            /\ new[x].tracking_mode = product[x].tracking_mode
            /\ new[x].stock.issued = product[x].stock.issued
            /\ x \notin {p, d} => new[x] = product[x]
      /\ Cardinality(Pieces(new)) = Cardinality(Pieces(product))
  BY MoveKeepsBooks DEF RowsInv, ProductIds
<1>2. \A x \in ProductIds : product[x].stock.available \in Nat
  BY RowsHere DEF RowFits, Av!Row
<1> QED
  BY <1>1, <1>2 DEF Rearranged

LEMMA WithinInv ==
    ASSUME TransfersInv, NEW p \in ProductIds, NEW box \in Places,
           NEW q \in 1..product[p].stock.available,
           transfer_within(p, box, q), Len(product') <= MaxRows
    PROVE  TransfersInv'
<1> DEFINE d == First(DestinationProducts(p, box))
<1>1. RowsInv /\ CodesTypeOK
  BY DEF TransfersInv, CodesInv
<1>2. /\ Len(product) \in Nat /\ ProductIds = 1..Len(product)
      /\ \A x \in ProductIds : product[x] \in ProductRow /\ RowFits(product[x].stock)
  BY <1>1, RowsHere
<1>3. /\ product[p].tracking_mode = "quantity" /\ q \in Nat
      /\ q <= product[p].stock.available
  BY <1>2 DEF transfer_within, RowFits, Av!Row
<1>4. Rearranged(product') /\ Cardinality(Pieces(product')) = Cardinality(Pieces(product))
  <2>1. CASE d # 0 /\ product' = MoveStock(product, p, d, q)
    <3>1. d \in DestinationProducts(p, box)
      <4>1. DestinationProducts(p, box) \in SUBSET Nat
        BY <1>2 DEF DestinationProducts
      <4> QED
        BY <2>1, <4>1, FirstFound
    <3>2. d \in ProductIds /\ d # p /\ product[d].tracking_mode = "quantity"
      BY <3>1 DEF DestinationProducts
    <3> HIDE DEF d
    <3> QED
      BY <1>1, <1>3, <2>1, <3>2, MovesToRow
  <2>2. CASE d = 0 /\ product' = [product EXCEPT ![p].box = box]
    <3> DEFINE row == [product[p] EXCEPT !.box = box]
    <3>1. product' = [product EXCEPT ![p] = row]
      BY <2>2
    <3>2. /\ row \in ProductRow /\ row.stock = product[p].stock
          /\ row.makerspace = product[p].makerspace
          /\ row.tracking_mode = product[p].tracking_mode
      BY <1>2 DEF ProductRow, Places
    <3> HIDE DEF row
    <3>3. /\ Books(product') /\ ProductIds' = ProductIds
          /\ \A x \in ProductIds : product'[x] = IF x = p THEN row ELSE product[x]
          /\ Cardinality(Pieces(product'))
                = Cardinality(Pieces(product)) - product[p].stock.total + row.stock.total
      BY <1>1, <1>2, <3>1, <3>2, RowOfOne DEF RowsInv, ProductIds
    <3>4. /\ product[p].stock.total \in Nat /\ Cardinality(Pieces(product)) \in Nat
          /\ \A x \in ProductIds : product[x].stock.available \in Nat
      BY <1>1, <1>2, RowsHere DEF RowFits, Av!Row
    <3> QED
      BY <3>2, <3>3, <3>4 DEF Rearranged, ProductIds
  <2>3. CASE product' = MoveStock(
                    Append(product, EmptyRow(product[p].makerspace, box, product[p].category, "quantity")),
                    p, Len(product) + 1, q)
    <3> DEFINE row == EmptyRow(product[p].makerspace, box, product[p].category, "quantity")
    <3>1. row \in ProductRow /\ row.stock = Av!NewRow(0, 0)
      BY <1>2, NewRowFits DEF EmptyRow, ProductRow, Places, RowFits
    <3>2. product' = MoveStock(Append(product, row), p, Len(product) + 1, q)
      BY <2>3
    <3> HIDE DEF row
    <3> QED
      BY <1>1, <1>3, <3>1, <3>2, MovesToNewRow
  <2> QED
    BY <2>1, <2>2, <2>3 DEF transfer_within
<1>5. StockConserved' /\ received' \subseteq Purchases
  BY <1>1, <1>4 DEF transfer_within, RowsInv, StockConserved, CodesTypeOK
<1> QED
  BY <1>4, <1>5, RowsChange DEF transfer_within

LEMMA AcrossInv ==
    ASSUME TransfersInv, NEW p \in ProductIds, NEW box \in Places, NEW mk \in Spaces,
           NEW q \in 1..product[p].stock.available,
           transfer_across(p, mk, box, q), Len(product') <= MaxRows
    PROVE  TransfersInv'
<1> DEFINE d == First(NamesakesAt(p, mk, box))
<1>1. RowsInv /\ CodesTypeOK
  BY DEF TransfersInv, CodesInv
<1>2. /\ Len(product) \in Nat /\ ProductIds = 1..Len(product)
      /\ \A x \in ProductIds : product[x] \in ProductRow /\ RowFits(product[x].stock)
  BY <1>1, RowsHere
<1>3. /\ product[p].tracking_mode = "quantity" /\ q \in Nat
      /\ q <= product[p].stock.available
  BY <1>2 DEF transfer_across, RowFits, Av!Row
<1>4. Rearranged(product') /\ Cardinality(Pieces(product')) = Cardinality(Pieces(product))
  <2>1. CASE d # 0 /\ product[d].tracking_mode = "quantity" /\ product' = MoveStock(product, p, d, q)
    <3>1. d \in NamesakesAt(p, mk, box)
      <4>1. NamesakesAt(p, mk, box) \in SUBSET Nat
        BY <1>2 DEF NamesakesAt
      <4> QED
        BY <2>1, <4>1, FirstFound
    <3>2. d \in ProductIds /\ d # p
      BY <3>1 DEF NamesakesAt, transfer_across
    <3> HIDE DEF d
    <3> QED
      BY <1>1, <1>3, <2>1, <3>2, MovesToRow
  <2>2. CASE product' = MoveStock(Append(product, EmptyRow(mk, box, Nothing, "quantity")),
                                  p, Len(product) + 1, q)
    <3> DEFINE row == EmptyRow(mk, box, Nothing, "quantity")
    <3>1. row \in ProductRow /\ row.stock = Av!NewRow(0, 0)
      BY NewRowFits DEF EmptyRow, ProductRow, Places, RowFits
    <3>2. product' = MoveStock(Append(product, row), p, Len(product) + 1, q)
      BY <2>2
    <3> HIDE DEF row
    <3> QED
      BY <1>1, <1>3, <3>1, <3>2, MovesToNewRow
  <2> QED
    BY <2>1, <2>2 DEF transfer_across
<1>5. StockConserved' /\ received' \subseteq Purchases
  BY <1>1, <1>4 DEF transfer_across, RowsInv, StockConserved, CodesTypeOK
<1> QED
  BY <1>4, <1>5, RowsChange DEF transfer_across

LEMMA BoughtOnce ==
    ASSUME CodesTypeOK, RowsInv, NEW i \in Purchases, i \notin received,
           received' = received \cup {i},
           Cardinality(Pieces(product')) = Cardinality(Pieces(product)) + BoughtQty
    PROVE  StockConserved' /\ received' \subseteq Purchases
<1>1. IsFiniteSet(received)
  BY TransfersAssumption, FS_Subset DEF TransfersAssumption, CodesTypeOK
<1>2. Cardinality(received) \in Nat /\ Cardinality(received') = Cardinality(received) + 1
  BY <1>1, FS_CardinalityType, FS_AddElement
<1>3. Cardinality(Pieces(InitialRows)) \in Nat
  BY TransfersAssumption, RowsType DEF TransfersAssumption
<1>4. Cardinality(Pieces(product)) \in Nat /\ BoughtQty \in Nat
  BY RowsHere, BoughtAssumption DEF BoughtAssumption
<1>5. BoughtQty * (Cardinality(received) + 1) = BoughtQty * Cardinality(received) + BoughtQty
  BY <1>2, <1>4
<1> QED
  BY <1>2, <1>3, <1>4, <1>5 DEF RowsInv, StockConserved, CodesTypeOK

LEMMA ReceiveNewInv ==
    ASSUME TransfersInv, NEW i \in Purchases, NEW row \in ProductRow,
           row.stock = Av!NewRow(0, 0), receive_new(i, row, BoughtQty),
           Len(product') <= MaxRows
    PROVE  TransfersInv'
<1> DEFINE s == Av!Adjust(row.stock, BoughtQty, 0, 0)
           new == [row EXCEPT !.stock = s]
<1>1. RowsInv /\ CodesTypeOK /\ BoughtQty \in Nat
  BY BoughtAssumption DEF TransfersInv, CodesInv, BoughtAssumption
<1>2. RowFits(s) /\ s.total = BoughtQty /\ s.issued = 0
  <2>1. /\ RowFits(row.stock) /\ row.stock.total = 0
        /\ row.stock.available = 0 /\ row.stock.issued = 0
    BY NewRowFits
  <2> QED
    BY <1>1, <2>1, AdjustFits
<1>3. product' = Append(product, new)
  BY DEF receive_new
<1> HIDE DEF s
<1>4. new \in ProductRow /\ new.stock = s
  BY <1>2 DEF ProductRow, RowFits
<1> HIDE DEF new
<1>5. /\ Books(product') /\ DOMAIN product' = ProductIds \cup {Len(product) + 1}
      /\ product'[Len(product) + 1] = new
      /\ \A x \in ProductIds : product'[x] = product[x]
      /\ Cardinality(Pieces(product')) = Cardinality(Pieces(product)) + BoughtQty
  BY <1>1, <1>2, <1>3, <1>4, OneRowMore DEF RowFits, RowsInv, ProductIds
<1>6. \A x \in ProductIds : product[x].stock.available \in Nat
  BY <1>1, RowsHere DEF RowFits, Av!Row
<1>7. Rearranged(product')
  BY <1>2, <1>4, <1>5, <1>6 DEF Rearranged
<1>8. StockConserved' /\ received' \subseteq Purchases
  BY <1>1, <1>5, BoughtOnce DEF receive_new
<1> QED
  BY <1>7, <1>8, RowsChange DEF receive_new

LEMMA TopUpInv ==
    ASSUME TransfersInv, NEW i \in Purchases, NEW p \in ProductIds,
           receive_topup(i, p, BoughtQty), Len(product') <= MaxRows
    PROVE  TransfersInv'
<1> DEFINE s == Av!Adjust(product[p].stock, BoughtQty, 0, 0)
<1>1. RowsInv /\ CodesTypeOK /\ BoughtQty \in Nat
  BY BoughtAssumption DEF TransfersInv, CodesInv, BoughtAssumption
<1>2. /\ \A x \in ProductIds : product[x].stock.available \in Nat
      /\ RowFits(product[p].stock) /\ product[p].stock.total \in Nat
      /\ product[p] \in ProductRow /\ Cardinality(Pieces(product)) \in Nat
  BY <1>1, RowsHere DEF RowFits, Av!Row
<1>3. /\ RowFits(s) /\ s.total = product[p].stock.total + BoughtQty
      /\ s.available = product[p].stock.available + BoughtQty
      /\ s.issued = product[p].stock.issued
  BY <1>1, <1>2, AdjustFits
<1>4. product' = WithStock(product, p, s)
  BY <1>2 DEF receive_topup, WithStock, ProductRow
<1> HIDE DEF s
<1>5. /\ Books(product') /\ OnlyStock(product, product', p, s)
      /\ Cardinality(Pieces(product'))
            = Cardinality(Pieces(product)) - product[p].stock.total + s.total
  BY <1>1, <1>3, <1>4, StockOfOne DEF RowsInv, ProductIds
<1>6. Rearranged(product')
  <2>1. /\ product'[p].makerspace = product[p].makerspace
        /\ product'[p].tracking_mode = product[p].tracking_mode
        /\ product'[p].stock = s
    BY <1>2, <1>5 DEF OnlyStock, ProductRow
  <2>2. /\ DOMAIN product' = ProductIds
        /\ \A x \in ProductIds : x # p => product'[x] = product[x]
    BY <1>5 DEF OnlyStock, ProductIds
  <2>3. s.available >= product[p].stock.available
    BY <1>1, <1>2, <1>3
  <2> QED
    BY <1>2, <1>3, <1>5, <2>1, <2>2, <2>3 DEF Rearranged
<1>7. Cardinality(Pieces(product')) = Cardinality(Pieces(product)) + BoughtQty
  BY <1>1, <1>2, <1>3, <1>5
<1>8. StockConserved' /\ received' \subseteq Purchases
  BY <1>1, <1>7, BoughtOnce DEF receive_topup
<1> QED
  BY <1>6, <1>8, RowsChange DEF receive_topup

-----------------------------------------------------------------------------
(* Loans by code: one unit between the shelf and a borrower. *)

StockBecomes(p, s) == product' = WithStock(product, p, s)

LEMMA TurnRows ==
    ASSUME RowsInv, NEW p \in ProductIds, NEW s, RowFits(s), StockBecomes(p, s),
           s.total = product[p].stock.total, received' = received
    PROVE  /\ RowsInv' /\ ProductIds' = ProductIds /\ product'[p].stock = s
           /\ \A x \in ProductIds :
                 /\ product'[x].makerspace = product[x].makerspace
                 /\ product'[x].tracking_mode = product[x].tracking_mode
                 /\ x # p => product'[x] = product[x]
<1>1. /\ Books(product') /\ OnlyStock(product, product', p, s)
      /\ Cardinality(Pieces(product'))
            = Cardinality(Pieces(product)) - product[p].stock.total + s.total
  BY StockOfOne DEF StockBecomes, RowsInv, ProductIds
<1>2. /\ product[p] \in ProductRow /\ product[p].stock.total \in Nat
      /\ Cardinality(Pieces(product)) \in Nat
  BY RowsHere DEF RowFits, Av!Row
<1>3. Cardinality(Pieces(product')) = Cardinality(Pieces(product))
  BY <1>1, <1>2
<1>4. RowsInv'
  BY <1>1, <1>3 DEF RowsInv, OnlyStock, StockConserved
<1>5. /\ product'[p].makerspace = product[p].makerspace
      /\ product'[p].tracking_mode = product[p].tracking_mode
      /\ product'[p].stock = s
  BY <1>1, <1>2 DEF OnlyStock, ProductRow
<1> QED
  BY <1>1, <1>4, <1>5 DEF OnlyStock, ProductIds

LEMMA QuantityTurns ==
    ASSUME RowsInv, UnitsInv, NEW p \in ProductIds, NEW s, RowFits(s), StockBecomes(p, s),
           s.total = product[p].stock.total, received' = received,
           product[p].tracking_mode = "quantity", unit' = unit
    PROVE  UnitsInv' /\ RowsInv' /\ PlacesKept
<1>1. /\ RowsInv' /\ ProductIds' = ProductIds
      /\ \A x \in ProductIds :
            /\ product'[x].makerspace = product[x].makerspace
            /\ product'[x].tracking_mode = product[x].tracking_mode
            /\ x # p => product'[x] = product[x]
  BY TurnRows
<1>2. \A x \in ProductIds, status \in {"available", "issued"} :
          UnitsOf(x, status)' = UnitsOf(x, status)
  BY DEF UnitsOf
<1>3. UnitsCounted'
  BY <1>1, <1>2 DEF UnitsInv, UnitsCounted
<1>4. UnitsAtHome'
  BY <1>1 DEF UnitsInv, UnitsAtHome
<1> QED
  BY <1>1, <1>3, <1>4 DEF UnitsInv, PlacesKept

\* Towards 1 on the shelf, or away from it -1.
LEMMA UnitTurns ==
    ASSUME RowsInv, UnitsInv, NEW u \in Units, NEW p, p = unit[u].product,
           NEW to \in {"available", "issued"}, unit[u].status # to,
           UnitBecomes(u, [unit[u] EXCEPT !.status = to]),
           NEW s, RowFits(s), StockBecomes(p, s),
           s.total = product[p].stock.total, received' = received,
           s.available = product[p].stock.available + (IF to = "available" THEN 1 ELSE -1),
           s.issued = product[p].stock.issued - (IF to = "available" THEN 1 ELSE -1)
    PROVE  /\ UnitsInv' /\ RowsInv' /\ PlacesKept
           /\ \A x \in Units : unit'[x].status = IF x = u THEN to ELSE unit[x].status
<1> DEFINE row == [unit[u] EXCEPT !.status = to]
<1>1. p \in ProductIds /\ p \in Nat /\ unit[u] \in UnitRow
  BY RowsHere DEF UnitsInv, UnitsAtHome, UnitRow
<1>2. /\ RowsInv' /\ ProductIds' = ProductIds /\ product'[p].stock = s
      /\ \A x \in ProductIds :
            /\ product'[x].makerspace = product[x].makerspace
            /\ product'[x].tracking_mode = product[x].tracking_mode
            /\ x # p => product'[x] = product[x]
  BY <1>1, TurnRows
<1>3. /\ row \in UnitRow /\ row.product = p /\ row.status = to
      /\ row.makerspace = unit[u].makerspace
  BY <1>1 DEF UnitRow
<1>4. UnitBecomes(u, row)
  OBVIOUS
<1> HIDE DEF row
<1>5. \A x \in Units : unit'[x] = IF x = u THEN row ELSE unit[x]
  BY <1>4 DEF UnitBecomes, UnitsInv
<1>6. unit' \in [Units -> UnitRow]
  BY <1>3, <1>4 DEF UnitBecomes, UnitsInv
<1>7. UnitsAtHome'
  BY <1>1, <1>2, <1>3, <1>5 DEF UnitsInv, UnitsAtHome
<1>8. ASSUME NEW x \in ProductIds, NEW status \in {"available", "issued"}
      PROVE  /\ Cardinality(UnitsOf(x, status)) \in Nat
             /\ Cardinality(UnitsOf(x, status)') = Cardinality(UnitsOf(x, status))
                  - One(unit[u].product = x /\ unit[u].status = status)
                  + One(row.product = x /\ row.status = status)
  <2>1. x \in Nat
    BY RowsHere
  <2> QED
    BY <1>3, <1>4, <2>1, UnitsChange DEF UnitsInv
<1>9. ASSUME NEW x \in ProductIds, product[x].tracking_mode = "individual"
      PROVE  /\ product'[x].stock.available >= Cardinality(UnitsOf(x, "available")')
             /\ product'[x].stock.issued = Cardinality(UnitsOf(x, "issued")')
  <2>1. /\ product[x].stock.available >= Cardinality(UnitsOf(x, "available"))
        /\ product[x].stock.issued = Cardinality(UnitsOf(x, "issued"))
    BY <1>9 DEF UnitsInv, UnitsCounted
  <2>2. product[x].stock.available \in Nat /\ product[x].stock.issued \in Nat
    BY RowsHere DEF RowFits, Av!Row
  <2>3. CASE x # p
    BY <1>2, <1>3, <1>8, <2>1, <2>2, <2>3 DEF One
  <2>4. CASE x = p
    <3>1. unit[u].status \in {"available", "issued"}
      BY <1>1 DEF UnitRow
    <3>2. CASE to = "available"
      <4>1. /\ Cardinality(UnitsOf(x, "available")') = Cardinality(UnitsOf(x, "available")) + 1
            /\ Cardinality(UnitsOf(x, "issued")') = Cardinality(UnitsOf(x, "issued")) - 1
        BY <1>3, <1>8, <2>4, <3>1, <3>2 DEF One
      <4> QED
        BY <1>2, <1>8, <2>1, <2>2, <2>4, <3>2, <4>1
    <3>3. CASE to = "issued"
      <4>1. /\ Cardinality(UnitsOf(x, "available")') = Cardinality(UnitsOf(x, "available")) - 1
            /\ Cardinality(UnitsOf(x, "issued")') = Cardinality(UnitsOf(x, "issued")) + 1
        BY <1>3, <1>8, <2>4, <3>1, <3>3 DEF One
      <4> QED
        BY <1>2, <1>8, <2>1, <2>2, <2>4, <3>3, <4>1
    <3> QED
      BY <3>2, <3>3
  <2> QED
    BY <2>3, <2>4
<1>10. UnitsCounted'
  BY <1>2, <1>9 DEF UnitsCounted
<1>11. PlacesKept
  BY <1>2, <1>3, <1>5 DEF PlacesKept
<1>12. \A x \in Units : unit'[x].status = IF x = u THEN to ELSE unit[x].status
  BY <1>3, <1>5
<1> QED
  BY <1>2, <1>6, <1>7, <1>10, <1>11, <1>12 DEF UnitsInv

LEMMA LeadsKeep ==
    ASSUME CodesInv, PlacesKept, UNCHANGED <<code, chosen, strayed>>
    PROVE  /\ CodesLead' /\ CodesResolve'
           /\ \A c \in Codes : Resolves(c) => Resolves(c)'
<1>1. \A t \in Targets : Exists(t) => Exists(t)' /\ SpaceOf(t)' = SpaceOf(t)
  BY TargetsStay
<1>2. CodesLead'
  BY <1>1 DEF CodesInv, CodesTypeOK, CodesLead
<1>3. \A c \in Codes : Resolves(c) => Resolves(c)'
  BY <1>1 DEF CodesInv, CodesLead, Resolves
<1>4. CodesResolve'
  BY <1>3 DEF CodesInv, CodesResolve
<1> QED
  BY <1>2, <1>3, <1>4

LEMMA CheckoutInv ==
    ASSUME TransfersInv, NEW c \in Codes, checkout(c)
    PROVE  TransfersInv'
<1>1. RowsInv /\ UnitsInv /\ CodesInv /\ CodesTypeOK
  BY DEF TransfersInv, CodesInv
<1>2. PICK t \in Targets : t = code[c].target
  BY <1>1 DEF checkout, CodesInv, CodesLead
<1>3. PICK p \in ProductIds : p = IF t[1] = "product" THEN t[2] ELSE unit[t[2]].product
  BY <1>1, <1>2 DEF checkout, CodesInv, CodesLead, Exists, Targets, UnitsInv, UnitsAtHome
<1>4. PICK s : s = Av!IssueAvailable(product[p].stock, 1)
  OBVIOUS
<1>5. /\ RowFits(s) /\ s.total = product[p].stock.total
      /\ s.available = product[p].stock.available - 1
      /\ s.issued = product[p].stock.issued + 1
      /\ product[p].stock.available \in Nat /\ product[p].stock.issued \in Nat
  <2>1. RowFits(product[p].stock) /\ Av!CanIssueAvailable(product[p].stock, 1)
    BY <1>1, <1>2, <1>3, RowsHere DEF checkout
  <2> QED
    BY <1>4, <2>1, IssueFits DEF RowFits, Av!Row
<1>6. /\ StockBecomes(p, s) /\ lent' = [lent EXCEPT ![c] = t]
      /\ UNCHANGED <<code, chosen, received, strayed>> /\ ~QrHasActiveLoan(c)
      /\ code[c].status = "active" /\ Resolves(c)
  <2>1. product' = [product EXCEPT ![p].stock = Av!IssueAvailable(@, 1)]
    BY <1>2, <1>3 DEF checkout
  <2>2. product' = WithStock(product, p, s)
    BY <1>1, <1>4, <2>1, RowsHere DEF WithStock, ProductRow
  <2> QED
    BY <1>2, <2>2 DEF StockBecomes, checkout
<1>7. CASE t[1] = "product"
  <2>1. product[p].tracking_mode = "quantity" /\ unit' = unit /\ p = t[2]
    BY <1>2, <1>3, <1>7 DEF checkout
  <2>2. UnitsInv' /\ RowsInv' /\ PlacesKept
    BY <1>1, <1>5, <1>6, <2>1, QuantityTurns
  <2>3. LentRight'
    BY <1>1, <1>6, <1>7, <2>1, <2>2
    DEF CodesInv, CodesTypeOK, LentRight, QrHasActiveLoan, PlacesKept, Targets
  <2>4. CodesLead' /\ CodesResolve' /\ \A x \in Codes : Resolves(x) => Resolves(x)'
    BY <1>1, <1>6, <2>2, LeadsKeep
  <2>5. LoansKeepTheirCode'
    BY <1>1, <1>2, <1>6, <2>4 DEF CodesInv, CodesTypeOK, LoansKeepTheirCode, QrHasActiveLoan
  <2>6. CodesTypeOK'
    BY <1>1, <1>6 DEF CodesTypeOK
  <2> QED
    BY <2>2, <2>3, <2>4, <2>5, <2>6 DEF TransfersInv, CodesInv
<1>8. CASE t[1] = "asset"
  <2>1. PICK u \in Units : u = t[2]
    BY <1>8 DEF Targets
  <2>2. /\ unit[u].status = "available" /\ p = unit[u].product
        /\ unit' = [unit EXCEPT ![u].status = "issued"]
    BY <1>2, <1>3, <1>8, <2>1 DEF checkout
  <2>3. UnitBecomes(u, [unit[u] EXCEPT !.status = "issued"])
    BY <2>2 DEF UnitBecomes
  <2>4. /\ UnitsInv' /\ RowsInv' /\ PlacesKept
        /\ \A x \in Units : unit'[x].status = IF x = u THEN "issued" ELSE unit[x].status
    <3>1. /\ s.available = product[p].stock.available + (-1)
          /\ s.issued = product[p].stock.issued - (-1)
      BY <1>5
    <3>2. /\ s.available = product[p].stock.available + (IF "issued" = "available" THEN 1 ELSE -1)
          /\ s.issued = product[p].stock.issued - (IF "issued" = "available" THEN 1 ELSE -1)
      BY <3>1
    <3> QED
      BY <1>1, <1>5, <1>6, <2>2, <2>3, <3>2, UnitTurns
  <2>5. LentRight'
    BY <1>1, <1>6, <1>8, <2>1, <2>2, <2>4
       DEF CodesInv, CodesTypeOK, LentRight, QrHasActiveLoan, PlacesKept, Targets
  <2>6. CodesLead' /\ CodesResolve' /\ \A x \in Codes : Resolves(x) => Resolves(x)'
    BY <1>1, <1>6, <2>4, LeadsKeep
  <2>7. LoansKeepTheirCode'
    BY <1>1, <1>2, <1>6, <2>6 DEF CodesInv, CodesTypeOK, LoansKeepTheirCode, QrHasActiveLoan
  <2>8. CodesTypeOK'
    BY <1>1, <1>6 DEF CodesTypeOK
  <2> QED
    BY <2>4, <2>5, <2>6, <2>7, <2>8 DEF TransfersInv, CodesInv
<1> QED
  BY <1>7, <1>8 DEF Targets

LEMMA ReturnInv ==
    ASSUME TransfersInv, NEW c \in Codes, return_tool(c)
    PROVE  TransfersInv'
<1>1. RowsInv /\ UnitsInv /\ CodesInv /\ CodesTypeOK
  BY DEF TransfersInv, CodesInv
<1>2. PICK t \in Targets : t = lent[c]
  BY <1>1 DEF return_tool, QrHasActiveLoan, CodesTypeOK
<1>3. PICK p \in ProductIds : p = IF t[1] = "product" THEN t[2] ELSE unit[t[2]].product
  BY <1>1, <1>2 DEF return_tool, CodesInv, LentRight, Targets, UnitsInv, UnitsAtHome
<1>4. PICK s : s = Av!ReturnToAvailable(product[p].stock, 1)
  OBVIOUS
<1>5. /\ RowFits(s) /\ s.total = product[p].stock.total
      /\ s.available = product[p].stock.available + 1
      /\ s.issued = product[p].stock.issued - 1
  <2>1. RowFits(product[p].stock) /\ Av!CanReturnToAvailable(product[p].stock, 1)
    BY <1>1, <1>2, <1>3, RowsHere DEF return_tool
  <2> QED
    BY <1>4, <2>1, ReturnFits
<1>6. /\ StockBecomes(p, s) /\ lent' = [lent EXCEPT ![c] = Nothing]
      /\ UNCHANGED <<code, chosen, received, strayed>>
  <2>1. product' = [product EXCEPT ![p].stock = Av!ReturnToAvailable(@, 1)]
    BY <1>2, <1>3 DEF return_tool
  <2>2. product' = WithStock(product, p, s)
    BY <1>1, <1>4, <2>1, RowsHere DEF WithStock, ProductRow
  <2> QED
    BY <2>2 DEF StockBecomes, return_tool
<1>7. \A x \in Codes : lent'[x] = IF x = c THEN Nothing ELSE lent[x]
  BY <1>1, <1>6 DEF CodesTypeOK
<1>8. UnitsInv' /\ RowsInv' /\ PlacesKept /\ LentRight'
  <2>1. CASE t[1] = "product"
    <3>1. product[p].tracking_mode = "quantity" /\ unit' = unit
      BY <1>1, <1>2, <1>3, <2>1 DEF return_tool, CodesInv, LentRight
    <3>2. UnitsInv' /\ RowsInv' /\ PlacesKept
      BY <1>1, <1>5, <1>6, <3>1, QuantityTurns
    <3>3. LentRight'
      BY <1>1, <1>7, <3>1, <3>2
         DEF CodesInv, CodesTypeOK, LentRight, QrHasActiveLoan, PlacesKept, Targets
    <3> QED
      BY <3>2, <3>3
  <2>2. CASE t[1] = "asset"
    <3>1. PICK u \in Units : u = t[2]
      BY <2>2 DEF Targets
    <3>2. /\ unit[u].status = "issued" /\ p = unit[u].product
          /\ unit' = [unit EXCEPT ![u].status = "available"]
          /\ \A x \in Codes : lent[x] = t => x = c
      BY <1>1, <1>2, <1>3, <2>2, <3>1 DEF return_tool, CodesInv, LentRight
    <3>3. UnitBecomes(u, [unit[u] EXCEPT !.status = "available"])
      BY <3>2 DEF UnitBecomes
    <3>4. /\ UnitsInv' /\ RowsInv' /\ PlacesKept
          /\ \A x \in Units : unit'[x].status = IF x = u THEN "available" ELSE unit[x].status
      BY <1>1, <1>5, <1>6, <3>2, <3>3, UnitTurns
    <3>5. ASSUME NEW x \in Codes, x # c, lent[x] # Nothing, lent[x][1] = "asset"
          PROVE  lent[x][2] # u
      <4>1. lent[x] # t /\ lent[x] \in Targets
        BY <1>1, <3>2, <3>5 DEF CodesTypeOK
      <4> QED
        BY <2>2, <3>1, <3>5, <4>1 DEF Targets
    <3>6. LentRight'
      BY <1>1, <1>7, <3>4, <3>5
         DEF CodesInv, CodesTypeOK, LentRight, QrHasActiveLoan, PlacesKept, Targets
    <3> QED
      BY <3>4, <3>6
  <2> QED
    BY <2>1, <2>2 DEF Targets
<1>9. CodesLead' /\ CodesResolve' /\ \A x \in Codes : Resolves(x) => Resolves(x)'
  BY <1>1, <1>6, <1>8, LeadsKeep
<1>10. LoansKeepTheirCode'
  BY <1>1, <1>6, <1>7, <1>9 DEF CodesInv, LoansKeepTheirCode, QrHasActiveLoan
<1>11. CodesTypeOK'
  BY <1>1, <1>6 DEF CodesTypeOK
<1> QED
  BY <1>8, <1>9, <1>10, <1>11 DEF TransfersInv, CodesInv

-----------------------------------------------------------------------------
(* A unit moves with its code. *)

CountedIn(rows) ==
    \A p \in DOMAIN rows : rows[p].tracking_mode = "individual" =>
       /\ rows[p].stock.available >= Cardinality(UnitsOf(p, "available"))
       /\ rows[p].stock.issued = Cardinality(UnitsOf(p, "issued"))

\* The destination may be the row the unit comes from, where its code was in
\* another makerspace.
LEMMA MoveUnitKeepsBooks ==
    ASSUME NEW rows, Books(rows), NEW source \in DOMAIN rows, NEW d \in DOMAIN rows,
           Av!CanAdjust(rows[source].stock, -1, 0, 0)
    PROVE  LET new == MoveUnitStock(rows, source, d)
           IN  /\ Books(new) /\ Len(new) = Len(rows) /\ DOMAIN new = DOMAIN rows
               /\ \A x \in DOMAIN rows :
                     /\ new[x].makerspace = rows[x].makerspace
                     /\ new[x].tracking_mode = rows[x].tracking_mode
                     /\ new[x].stock.issued = rows[x].stock.issued
                     /\ new[x].stock.available
                           = rows[x].stock.available - One(x = source) + One(x = d)
               /\ Cardinality(Pieces(new)) = Cardinality(Pieces(rows))
<1> DEFINE s == Av!Adjust(rows[source].stock, -1, 0, 0)
           out == WithStock(rows, source, s)
           t == Av!Adjust(out[d].stock, 1, 0, 0)
           new == WithStock(out, d, t)
<1>1. /\ \A x \in DOMAIN rows : rows[x] \in ProductRow /\ RowFits(rows[x].stock)
      /\ Cardinality(Pieces(rows)) \in Nat
  BY BooksOfRows
<1>2. MoveUnitStock(rows, source, d) = new
  BY DEF MoveUnitStock, WithStock
<1>3. /\ RowFits(s) /\ s.total = rows[source].stock.total + (-1)
      /\ s.available = rows[source].stock.available + (-1)
      /\ s.issued = rows[source].stock.issued
  <2>1. -1 \in Int /\ rows[source].stock.available + (-1) >= 0
    BY <1>1 DEF Av!CanAdjust, RowFits, Av!Row
  <2> QED
    BY <1>1, <2>1, AdjustFits
<1> HIDE DEF s
<1>4. /\ Books(out) /\ OnlyStock(rows, out, source, s)
      /\ Cardinality(Pieces(out)) = Cardinality(Pieces(rows)) - rows[source].stock.total + s.total
  BY <1>3, StockOfOne
<1> HIDE DEF out
<1>5. d \in DOMAIN out /\ RowFits(out[d].stock) /\ out[d] \in ProductRow
  BY <1>4, BooksOfRows DEF OnlyStock
<1>6. /\ RowFits(t) /\ t.total = out[d].stock.total + 1
      /\ t.available = out[d].stock.available + 1 /\ t.issued = out[d].stock.issued
  <2>1. out[d].stock.available + 1 >= 0
    BY <1>5 DEF RowFits, Av!Row
  <2> QED
    BY <1>5, <2>1, AdjustFits
<1> HIDE DEF t
<1>7. /\ Books(new) /\ OnlyStock(out, new, d, t)
      /\ Cardinality(Pieces(new)) = Cardinality(Pieces(out)) - out[d].stock.total + t.total
  BY <1>4, <1>5, <1>6, StockOfOne
<1> HIDE DEF new
<1>8. Cardinality(Pieces(new)) = Cardinality(Pieces(rows))
  <2>1. rows[source].stock.total \in Nat /\ out[d].stock.total \in Nat
    BY <1>1, <1>5 DEF RowFits, Av!Row
  <2> QED
    BY <1>1, <1>3, <1>4, <1>6, <1>7, <2>1
<1>9. ASSUME NEW x \in DOMAIN rows
      PROVE  /\ out[x].makerspace = rows[x].makerspace
             /\ out[x].tracking_mode = rows[x].tracking_mode
             /\ out[x].stock.issued = rows[x].stock.issued
             /\ out[x].stock.available = rows[x].stock.available - One(x = source)
  <2>1. rows[x].stock.available \in Nat
    BY <1>1 DEF RowFits, Av!Row
  <2> QED
    BY <1>1, <1>3, <1>4, <2>1 DEF OnlyStock, ProductRow, One
<1>10. ASSUME NEW x \in DOMAIN rows
       PROVE  /\ new[x].makerspace = out[x].makerspace
              /\ new[x].tracking_mode = out[x].tracking_mode
              /\ new[x].stock.issued = out[x].stock.issued
              /\ new[x].stock.available = out[x].stock.available + One(x = d)
  <2>1. x \in DOMAIN out /\ out[x].stock.available \in Nat
    BY <1>4, BooksOfRows DEF OnlyStock, RowFits, Av!Row
  <2> QED
    BY <1>5, <1>6, <1>7, <2>1 DEF OnlyStock, ProductRow, One
<1> QED
  BY <1>2, <1>4, <1>7, <1>8, <1>9, <1>10 DEF OnlyStock

UnitStockMoves(rows, source, d) == product' = MoveUnitStock(rows, source, d)

UnitGoes(u, d, mk) ==
    unit' = [unit EXCEPT ![u].product = d, ![u].makerspace = mk]

LEMMA MoveCounted ==
    ASSUME unit \in [Units -> UnitRow], NEW rows, Books(rows), CountedIn(rows),
           NEW u \in Units, unit[u].status = "available",
           NEW source \in DOMAIN rows, source = unit[u].product,
           NEW d \in DOMAIN rows, Len(rows) <= MaxRows, NEW mk \in Spaces,
           Av!CanAdjust(rows[source].stock, -1, 0, 0),
           UnitStockMoves(rows, source, d), UnitGoes(u, d, mk)
    PROVE  /\ Books(product') /\ ProductIds' = DOMAIN rows /\ Len(product') <= MaxRows
           /\ \A x \in DOMAIN rows :
                 /\ product'[x].makerspace = rows[x].makerspace
                 /\ product'[x].tracking_mode = rows[x].tracking_mode
           /\ Cardinality(Pieces(product')) = Cardinality(Pieces(rows))
           /\ unit' \in [Units -> UnitRow] /\ UnitsCounted'
           /\ unit'[u].product = d /\ unit'[u].makerspace = mk
           /\ \A x \in Units : /\ unit'[x].status = unit[x].status
                               /\ x # u => unit'[x] = unit[x]
<1> DEFINE row == [unit[u] EXCEPT !.product = d, !.makerspace = mk]
<1>1. /\ Books(product') /\ Len(product') = Len(rows) /\ ProductIds' = DOMAIN rows
      /\ \A x \in DOMAIN rows :
            /\ product'[x].makerspace = rows[x].makerspace
            /\ product'[x].tracking_mode = rows[x].tracking_mode
            /\ product'[x].stock.issued = rows[x].stock.issued
            /\ product'[x].stock.available
                  = rows[x].stock.available - One(x = source) + One(x = d)
      /\ Cardinality(Pieces(product')) = Cardinality(Pieces(rows))
  BY MoveUnitKeepsBooks DEF UnitStockMoves, ProductIds
<1>2. /\ DOMAIN rows = 1..Len(rows) /\ Len(rows) \in Nat
      /\ \A x \in DOMAIN rows : RowFits(rows[x].stock)
  BY BooksOfRows
<1>3. unit[u] \in UnitRow /\ d \in 1..MaxRows /\ MaxRows \in Nat
  BY <1>2, TransfersAssumption DEF TransfersAssumption
<1>4. UnitBecomes(u, row)
  BY <1>3 DEF UnitGoes, UnitBecomes, UnitRow
<1>5. /\ row \in UnitRow /\ row.product = d /\ row.makerspace = mk
      /\ row.status = "available"
  BY <1>3 DEF UnitRow
<1> HIDE DEF row
<1>6. \A x \in Units : unit'[x] = IF x = u THEN row ELSE unit[x]
  BY <1>4 DEF UnitBecomes
<1>7. unit' \in [Units -> UnitRow]
  BY <1>4, <1>5 DEF UnitBecomes
<1>8. ASSUME NEW x \in DOMAIN rows, rows[x].tracking_mode = "individual"
      PROVE  /\ product'[x].stock.available >= Cardinality(UnitsOf(x, "available")')
             /\ product'[x].stock.issued = Cardinality(UnitsOf(x, "issued")')
  <2>1. /\ rows[x].stock.available >= Cardinality(UnitsOf(x, "available"))
        /\ rows[x].stock.issued = Cardinality(UnitsOf(x, "issued"))
    BY <1>8 DEF CountedIn
  <2>2. rows[x].stock.available \in Nat /\ rows[x].stock.issued \in Nat /\ x \in Nat
    <3>1. RowFits(rows[x].stock) /\ x \in 1..Len(rows)
      BY <1>2
    <3>2. x \in Nat
      BY <1>2, <3>1
    <3> QED
      BY <3>1, <3>2 DEF RowFits, Av!Row
  <2>3. /\ Cardinality(UnitsOf(x, "available")) \in Nat
        /\ Cardinality(UnitsOf(x, "available")') = Cardinality(UnitsOf(x, "available"))
                - One(unit[u].product = x /\ unit[u].status = "available")
                + One(row.product = x /\ row.status = "available")
    BY <1>4, <1>5, <2>2, UnitsChange
  <2>4. /\ Cardinality(UnitsOf(x, "issued")) \in Nat
        /\ Cardinality(UnitsOf(x, "issued")') = Cardinality(UnitsOf(x, "issued"))
                - One(unit[u].product = x /\ unit[u].status = "issued")
                + One(row.product = x /\ row.status = "issued")
    BY <1>4, <1>5, <2>2, UnitsChange
  <2>5. Cardinality(UnitsOf(x, "available")')
           = Cardinality(UnitsOf(x, "available")) - One(x = source) + One(x = d)
    BY <1>5, <2>3 DEF One
  <2>6. Cardinality(UnitsOf(x, "issued")') = Cardinality(UnitsOf(x, "issued"))
    BY <1>5, <2>4 DEF One
  <2>7. One(x = source) \in {0, 1} /\ One(x = d) \in {0, 1}
    BY DEF One
  <2> QED
    BY <1>1, <2>1, <2>2, <2>3, <2>5, <2>6, <2>7, SMTT(30)
<1>9. UnitsCounted'
  BY <1>1, <1>8 DEF UnitsCounted
<1> QED
  BY <1>1, <1>5, <1>6, <1>7, <1>9

LEMMA MoveAssetCodes ==
    ASSUME CodesInv, NEW c \in Codes, NEW u \in Units, NEW mk \in Spaces,
           code[c].status = "active", code[c].target = <<"asset", u>>,
           ~QrHasActiveLoan(c), unit[u].status = "available",
           code' = CodeMoved(c, mk), UNCHANGED <<lent, chosen, received, strayed>>,
           \A p \in ProductIds :
              /\ p \in ProductIds' /\ product'[p].makerspace = product[p].makerspace
              /\ product'[p].tracking_mode = product[p].tracking_mode,
           unit'[u].makerspace = mk,
           \A x \in Units : /\ unit'[x].status = unit[x].status
                            /\ x # u => unit'[x] = unit[x]
    PROVE  CodesInv'
<1>1. CodesTypeOK
  BY DEF CodesInv
<1>2. /\ code[c] \in CodeRow /\ code'[c] = [code[c] EXCEPT !.makerspace = mk]
      /\ \A x \in Codes : x # c => code'[x] = code[x]
  BY <1>1 DEF CodeMoved, CodesTypeOK
<1>3. /\ code'[c].status = "active" /\ code'[c].target = <<"asset", u>>
      /\ code'[c].makerspace = mk
  BY <1>2 DEF CodeRow
<1>4. CodesTypeOK'
  <2>1. code'[c] \in CodeRow
    BY <1>2 DEF CodeRow
  <2>2. code' \in [Codes -> CodeRow]
    BY <1>1, <1>2, <2>1 DEF CodeMoved, CodesTypeOK
  <2> QED
    BY <1>1, <2>2 DEF CodesTypeOK
<1>5. \A t \in Targets : Exists(t) =>
         Exists(t)' /\ (t # <<"asset", u>> => SpaceOf(t)' = SpaceOf(t))
  BY DEF Targets, Exists, SpaceOf
<1>6. CodesLead'
  BY <1>1, <1>2, <1>3, <1>5, ZenonT(60) DEF CodesInv, CodesTypeOK, CodesLead
<1>7. LentRight'
  BY <1>1 DEF CodesInv, CodesTypeOK, LentRight, QrHasActiveLoan, Targets
<1>8. SpaceOf(<<"asset", u>>)' = mk
  BY DEF SpaceOf
<1>9. CodesResolve'
  <2>1. SUFFICES ASSUME ~strayed, NEW x \in Codes, code'[x].status = "active"
                 PROVE  /\ Resolves(x)'
                        /\ \A y \in Codes \ {x} :
                              code'[y].status = "active" => code'[y].target # code'[x].target
    BY DEF CodesResolve
  <2>2. \A y \in Codes : code'[y].status = code[y].status /\ code'[y].target = code[y].target
    BY <1>2, <1>3, ZenonT(60)
  <2>3. /\ Resolves(x)
        /\ \A y \in Codes \ {x} : code[y].status = "active" => code[y].target # code[x].target
    BY <2>1, <2>2 DEF CodesInv, CodesResolve
  <2>4. CASE x = c
    BY <1>3, <1>8, <2>2, <2>3, <2>4 DEF Resolves
  <2>5. CASE x # c
    <3>1. code[x].target # <<"asset", u>> /\ code[x].target \in Targets /\ Exists(code[x].target)
      BY <2>1, <2>2, <2>3, <2>5 DEF CodesInv, CodesLead
    <3>2. Resolves(x)'
      BY <1>2, <1>5, <2>3, <2>5, <3>1 DEF Resolves
    <3> QED
      BY <2>2, <2>3, <3>2
  <2> QED
    BY <2>4, <2>5
<1>10. LoansKeepTheirCode'
  <2>1. SUFFICES ASSUME NEW x \in Codes, QrHasActiveLoan(x)'
                 PROVE  code'[x].status = "active" /\ code'[x].target = lent'[x] /\ Resolves(x)'
    BY DEF LoansKeepTheirCode
  <2>2. QrHasActiveLoan(x) /\ x # c
    BY <2>1 DEF QrHasActiveLoan
  <2>3. /\ code[x].status = "active" /\ code[x].target = lent[x] /\ Resolves(x)
        /\ code[x].target \in Targets /\ Exists(code[x].target)
    BY <2>2 DEF CodesInv, LoansKeepTheirCode, CodesLead
  <2>4. code[x].target # <<"asset", u>>
    BY <2>2, <2>3 DEF CodesInv, LentRight
  <2> QED
    BY <1>2, <1>5, <2>2, <2>3, <2>4 DEF Resolves
<1> QED
  BY <1>4, <1>6, <1>7, <1>9, <1>10 DEF CodesInv

LEMMA MoveAssetInv ==
    ASSUME TransfersInv, NEW c \in Codes, NEW mk \in Spaces, NEW d \in 1..MaxRows,
           move_asset(c, mk, d), Len(product') <= MaxRows
    PROVE  TransfersInv'
<1>1. RowsInv /\ UnitsInv /\ CodesInv /\ CodesTypeOK
  BY DEF TransfersInv, CodesInv
<1>2. PICK u \in Units : code[c].target = <<"asset", u>>
  <2>1. code[c].target \in Targets /\ code[c].target[1] = "asset"
    BY <1>1 DEF move_asset, CodesInv, CodesLead
  <2> QED
    BY <2>1 DEF Targets
<1>3. PICK source \in ProductIds : source = unit[u].product
  BY <1>1 DEF UnitsInv, UnitsAtHome
<1>4. /\ code[c].status = "active" /\ unit[u].status = "available" /\ ~QrHasActiveLoan(c)
      /\ Av!CanAdjust(product[source].stock, -1, 0, 0)
      /\ UnitGoes(u, d, mk) /\ code' = CodeMoved(c, mk)
      /\ UNCHANGED <<lent, chosen, received, strayed>>
  BY <1>2, <1>3 DEF move_asset, UnitGoes
<1>5. /\ Len(product) \in Nat /\ ProductIds = 1..Len(product) /\ Books(product)
      /\ Cardinality(Pieces(product)) \in Nat /\ Len(product) <= MaxRows
  BY <1>1, RowsHere DEF RowsInv
<1>6. CountedIn(product)
  BY <1>1 DEF CountedIn, UnitsInv, UnitsCounted, ProductIds
<1>7. PICK rows :
         /\ Books(rows) /\ CountedIn(rows) /\ ProductIds \subseteq DOMAIN rows
         /\ Len(rows) <= MaxRows /\ \A x \in ProductIds : rows[x] = product[x]
         /\ Cardinality(Pieces(rows)) = Cardinality(Pieces(product))
         /\ d \in DOMAIN rows /\ rows[d].tracking_mode = "individual"
         /\ rows[d].makerspace = mk /\ UnitStockMoves(rows, source, d)
  <2>1. CASE /\ d \in Candidates(mk) /\ product[d].tracking_mode = "individual"
             /\ product' = MoveUnitStock(product, source, d)
    <3>1. d \in ProductIds /\ product[d].makerspace = mk
      BY <2>1 DEF Candidates
    <3> QED
      BY <1>5, <1>6, <2>1, <3>1 DEF UnitStockMoves, ProductIds
  <2>2. CASE /\ d = Len(product) + 1
             /\ product' = MoveUnitStock(
                    Append(product, EmptyRow(mk, Nothing, Nothing, "individual")),
                    source, d)
    <3> DEFINE row == EmptyRow(mk, Nothing, Nothing, "individual")
               rows == Append(product, row)
    <3>1. /\ row \in ProductRow /\ RowFits(row.stock) /\ row.stock.total = 0
          /\ row.stock.available = 0 /\ row.stock.issued = 0
          /\ row.makerspace = mk /\ row.tracking_mode = "individual"
      BY NewRowFits DEF EmptyRow, ProductRow, RowFits
    <3> HIDE DEF row
    <3>2. /\ Books(rows) /\ Len(rows) = Len(product) + 1
          /\ DOMAIN rows = ProductIds \cup {d} /\ rows[d] = row
          /\ \A x \in ProductIds : rows[x] = product[x]
          /\ Cardinality(Pieces(rows)) = Cardinality(Pieces(product))
      <4>1. /\ Books(rows) /\ Len(rows) = Len(product) + 1
            /\ DOMAIN rows = DOMAIN product \cup {Len(product) + 1}
            /\ rows[Len(product) + 1] = row
            /\ \A x \in DOMAIN product : rows[x] = product[x]
            /\ Cardinality(Pieces(rows)) = Cardinality(Pieces(product)) + row.stock.total
        BY <1>5, <3>1, OneRowMore DEF RowFits
      <4> QED
        BY <1>5, <2>2, <3>1, <4>1 DEF ProductIds
    <3>3. UnitStockMoves(rows, source, d)
      BY <2>2 DEF UnitStockMoves, row
    <3> HIDE DEF rows
    <3>4. CountedIn(rows)
      <4>1. d \notin ProductIds
        BY <1>5, <2>2
      <4>2. UnitsOf(d, "available") = {} /\ UnitsOf(d, "issued") = {}
        BY <1>1, <4>1 DEF UnitsInv, UnitsAtHome, UnitsOf
      <4>3. /\ rows[d].stock.available >= Cardinality(UnitsOf(d, "available"))
            /\ rows[d].stock.issued = Cardinality(UnitsOf(d, "issued"))
        <5>1. Cardinality({}) = 0
          BY FS_EmptySet
        <5>2. rows[d].stock.available = 0 /\ rows[d].stock.issued = 0
          BY <3>1, <3>2
        <5>3. /\ Cardinality(UnitsOf(d, "available")) = 0
              /\ Cardinality(UnitsOf(d, "issued")) = 0
          BY <4>2, <5>1
        <5> QED
          BY <5>2, <5>3
      <4> QED
        BY <1>6, <3>2, <4>3 DEF CountedIn, ProductIds
    <3>5. Len(rows) <= MaxRows
      BY <2>2, <3>2
    <3> QED
      BY <3>1, <3>2, <3>3, <3>4, <3>5
  <2> QED
    BY <1>2, <1>3, <2>1, <2>2 DEF move_asset
<1>8. rows[source] = product[source] /\ source \in DOMAIN rows
  BY <1>7
<1>9. /\ Books(product') /\ ProductIds' = DOMAIN rows /\ Len(product') <= MaxRows
      /\ \A x \in DOMAIN rows :
            /\ product'[x].makerspace = rows[x].makerspace
            /\ product'[x].tracking_mode = rows[x].tracking_mode
      /\ Cardinality(Pieces(product')) = Cardinality(Pieces(rows))
      /\ unit' \in [Units -> UnitRow] /\ UnitsCounted'
      /\ unit'[u].product = d /\ unit'[u].makerspace = mk
      /\ \A x \in Units : unit'[x].status = unit[x].status /\ (x # u => unit'[x] = unit[x])
  BY <1>1, <1>3, <1>4, <1>7, <1>8, MoveCounted DEF UnitsInv
<1>10. \A p \in ProductIds :
          /\ p \in ProductIds' /\ product'[p].makerspace = product[p].makerspace
          /\ product'[p].tracking_mode = product[p].tracking_mode
  BY <1>7, <1>9
<1>11. RowsInv'
  BY <1>1, <1>4, <1>7, <1>9 DEF RowsInv, StockConserved
<1>12. UnitsInv'
  <2>1. UnitsAtHome'
    BY <1>1, <1>7, <1>9, <1>10 DEF UnitsInv, UnitsAtHome
  <2> QED
    BY <1>9, <2>1 DEF UnitsInv
<1>13. CodesInv'
  BY <1>1, <1>2, <1>4, <1>9, <1>10, MoveAssetCodes
<1> QED
  BY <1>11, <1>12, <1>13 DEF TransfersInv

-----------------------------------------------------------------------------
(* Codes are bound, revoked and created. *)

LEMMA RowsStay ==
    ASSUME RowsInv, UnitsInv, UNCHANGED <<product, unit, received>>
    PROVE  RowsInv' /\ UnitsInv'
BY DEF RowsInv, UnitsInv, Books, StockConserved, UnitsAtHome, UnitsCounted, UnitsOf, ProductIds,
       RowFits

LEMMA RebindInv ==
    ASSUME TransfersInv, NEW c \in Codes, NEW t \in Targets, Exists(t), rebind_qr_target(c, t)
    PROVE  TransfersInv'
<1>1. RowsInv /\ UnitsInv /\ CodesInv /\ CodesTypeOK
  BY DEF TransfersInv, CodesInv
<1>2. RowsInv' /\ UnitsInv'
  BY <1>1, RowsStay DEF rebind_qr_target
<1>3. /\ code' = [code EXCEPT ![c] = [code[c] EXCEPT !.makerspace = SpaceOf(t), !.target = t]]
      /\ code[c] \in CodeRow /\ code[c].status = "active" /\ ~QrHasActiveLoan(c)
  BY <1>1 DEF rebind_qr_target, CodesTypeOK, CodeRow
<1>4. SpaceOf(t) \in Spaces
  BY <1>1, RowsHere DEF SpaceOf, Targets, Exists, ProductRow, UnitsInv, UnitRow
<1>5. /\ code'[c].status = "active" /\ code'[c].target = t /\ code'[c].makerspace = SpaceOf(t)
      /\ \A x \in Codes : x # c => code'[x] = code[x]
      /\ code'[c] \in CodeRow /\ code' \in [Codes -> CodeRow]
  BY <1>1, <1>3, <1>4 DEF CodesTypeOK, CodeRow
<1>6. CodesTypeOK'
  BY <1>1, <1>5 DEF CodesTypeOK, rebind_qr_target
<1>7. \A x \in Targets : (Exists(x) => Exists(x)') /\ SpaceOf(x)' = SpaceOf(x)
  BY DEF rebind_qr_target, Exists, SpaceOf, ProductIds
<1>8. CodesLead'
  BY <1>1, <1>4, <1>5, <1>7 DEF CodesInv, CodesTypeOK, CodesLead, rebind_qr_target
<1>9. LentRight'
  BY <1>1 DEF CodesInv, LentRight, QrHasActiveLoan, rebind_qr_target, ProductIds
<1>10. Resolves(c)' /\ \A x \in Codes \ {c} : code[x].status = "active" /\ Resolves(x) => Resolves(x)'
  BY <1>1, <1>5, <1>7 DEF Resolves, CodesInv, CodesLead
<1>11. ASSUME ~strayed, NEW x \in Codes \ {c}, code[x].status = "active"
       PROVE  code[x].target # t
  <2>1. code[x].makerspace = SpaceOf(code[x].target) /\ code[x] \in CodeRow
    BY <1>1, <1>11 DEF CodesInv, CodesTypeOK, CodesResolve, Resolves
  <2>2. code[x].target = t =>
           code[x] = [status |-> "active", makerspace |-> SpaceOf(t), target |-> t]
    BY <1>11, <2>1 DEF CodeRow
  <2> QED
    BY <2>2 DEF rebind_qr_target, TargetHasQr
<1>12. CodesResolve'
  BY <1>1, <1>5, <1>10, <1>11 DEF CodesInv, CodesResolve, rebind_qr_target
<1>13. LoansKeepTheirCode'
  BY <1>1, <1>3, <1>5, <1>10 DEF CodesInv, LoansKeepTheirCode, QrHasActiveLoan, rebind_qr_target
<1> QED
  BY <1>2, <1>6, <1>8, <1>9, <1>12, <1>13 DEF TransfersInv, CodesInv

LEMMA RevokeInv ==
    ASSUME TransfersInv, NEW c \in Codes, revoke_qr_code(c)
    PROVE  TransfersInv'
<1>1. RowsInv /\ UnitsInv /\ CodesInv /\ CodesTypeOK
  BY DEF TransfersInv, CodesInv
<1>2. RowsInv' /\ UnitsInv'
  BY <1>1, RowsStay DEF revoke_qr_code
<1>3. /\ code'[c] = [code[c] EXCEPT !.status = "revoked"] /\ code'[c].status = "revoked"
      /\ code'[c] \in CodeRow /\ ~QrHasActiveLoan(c)
      /\ \A x \in Codes : x # c => code'[x] = code[x]
  BY <1>1 DEF revoke_qr_code, CodesTypeOK, CodeRow
<1>4. CodesTypeOK'
  BY <1>1, <1>3 DEF CodesTypeOK, revoke_qr_code
<1>5. \A x \in Targets : (Exists(x) => Exists(x)') /\ SpaceOf(x)' = SpaceOf(x)
  BY DEF revoke_qr_code, Exists, SpaceOf, ProductIds
<1>6. CodesLead'
  BY <1>1, <1>3, <1>5 DEF CodesInv, CodesTypeOK, CodesLead, revoke_qr_code
<1>7. LentRight'
  BY <1>1 DEF CodesInv, LentRight, QrHasActiveLoan, revoke_qr_code, ProductIds
<1>8. \A x \in Codes \ {c} : code[x].status = "active" /\ Resolves(x) => Resolves(x)'
  BY <1>1, <1>3, <1>5 DEF Resolves, CodesInv, CodesLead
<1>9. CodesResolve'
  BY <1>1, <1>3, <1>8 DEF CodesInv, CodesResolve, revoke_qr_code
<1>10. LoansKeepTheirCode'
  BY <1>1, <1>3, <1>8 DEF CodesInv, LoansKeepTheirCode, QrHasActiveLoan, revoke_qr_code
<1> QED
  BY <1>2, <1>4, <1>6, <1>7, <1>9, <1>10 DEF TransfersInv, CodesInv

LEMMA ChooseInv ==
    ASSUME TransfersInv, NEW t \in Targets, Exists(t), choose_target(t)
    PROVE  TransfersInv'
<1>1. RowsInv /\ UnitsInv /\ CodesInv /\ CodesTypeOK
  BY DEF TransfersInv, CodesInv
<1>2. RowsInv' /\ UnitsInv'
  BY <1>1, RowsStay DEF choose_target
<1>3. SpaceOf(t) \in Spaces
  BY <1>1, RowsHere DEF SpaceOf, Targets, Exists, ProductRow, UnitsInv, UnitRow
<1>4. chosen' \in [target : Targets, makerspace : Spaces] /\ chosen'.target = t
  BY <1>3 DEF choose_target
<1>5. CodesTypeOK'
  BY <1>1, <1>4 DEF CodesTypeOK, choose_target
<1>6. CodesLead'
  BY <1>1, <1>4 DEF CodesInv, CodesLead, choose_target, Exists, ProductIds
<1>7. LentRight' /\ CodesResolve' /\ LoansKeepTheirCode'
  BY <1>1 DEF CodesInv, LentRight, CodesResolve, LoansKeepTheirCode, QrHasActiveLoan,
     Resolves, SpaceOf, choose_target, ProductIds
<1> QED
  BY <1>2, <1>5, <1>6, <1>7 DEF TransfersInv, CodesInv

LEMMA CreateInv ==
    ASSUME TransfersInv, NEW c \in Codes, get_or_create_qr(c)
    PROVE  TransfersInv'
<1>1. RowsInv /\ UnitsInv /\ CodesInv /\ CodesTypeOK
  BY DEF TransfersInv, CodesInv
<1>2. RowsInv' /\ UnitsInv'
  BY <1>1, RowsStay DEF get_or_create_qr
<1>3. /\ chosen \in [target : Targets, makerspace : Spaces] /\ chosen' = Nothing
      /\ Exists(chosen.target) /\ UNCHANGED <<product, unit, lent, received>>
  BY <1>1 DEF get_or_create_qr, CodesTypeOK, CodesInv, CodesLead
<1>4. \A x \in Targets : (Exists(x) => Exists(x)') /\ SpaceOf(x)' = SpaceOf(x)
  BY <1>3 DEF Exists, SpaceOf, ProductIds
<1>5. LentRight'
  BY <1>1, <1>3 DEF CodesInv, LentRight, QrHasActiveLoan, ProductIds
<1>6. CASE UNCHANGED <<code, strayed>>
  <2>1. CodesTypeOK'
    BY <1>1, <1>3, <1>6 DEF CodesTypeOK
  <2>2. CodesLead' /\ CodesResolve' /\ LoansKeepTheirCode'
    BY <1>1, <1>3, <1>4, <1>6
       DEF CodesInv, CodesLead, CodesResolve, LoansKeepTheirCode, QrHasActiveLoan, Resolves
  <2> QED
    BY <1>2, <1>5, <2>1, <2>2 DEF TransfersInv, CodesInv
<1>7. CASE /\ ~TargetHasQr(Nothing, chosen.target, chosen.makerspace)
           /\ code[c].status = "absent"
           /\ code' = [code EXCEPT ![c] = [status |-> "active",
                           makerspace |-> chosen.makerspace, target |-> chosen.target]]
           /\ strayed' = (strayed \/ SpaceOf(chosen.target) # chosen.makerspace)
  <2>1. /\ code'[c] = [status |-> "active", makerspace |-> chosen.makerspace,
                        target |-> chosen.target]
        /\ \A x \in Codes : x # c => code'[x] = code[x]
        /\ chosen.target \in Targets /\ chosen.makerspace \in Spaces
    BY <1>1, <1>3, <1>7 DEF CodesTypeOK
  <2>2. code'[c] \in CodeRow
    BY <2>1 DEF CodeRow
  <2>3. code' \in [Codes -> CodeRow]
    BY <1>1, <1>7, <2>1, <2>2 DEF CodesTypeOK
  <2>4. CodesTypeOK'
    BY <1>1, <1>3, <1>7, <2>3 DEF CodesTypeOK
  <2>5. CodesLead'
    BY <1>1, <1>3, <1>4, <2>1 DEF CodesInv, CodesLead
  <2>6. \A x \in Codes \ {c} : code[x].status = "active" /\ Resolves(x) => Resolves(x)'
    BY <1>1, <1>4, <2>1 DEF Resolves, CodesInv, CodesLead
  <2>7. ~QrHasActiveLoan(c)
    BY <1>1, <1>7 DEF CodesInv, LoansKeepTheirCode
  <2>8. LoansKeepTheirCode'
    BY <1>1, <1>3, <2>1, <2>6, <2>7 DEF CodesInv, LoansKeepTheirCode, QrHasActiveLoan
  <2>9. CodesResolve'
    <3>1. SUFFICES ASSUME ~strayed'
                   PROVE  CodesResolve'
      BY DEF CodesResolve
    <3>2. ~strayed /\ SpaceOf(chosen.target) = chosen.makerspace
      BY <1>1, <1>7, <3>1 DEF CodesTypeOK
    <3>3. Resolves(c)'
      BY <1>4, <2>1, <3>2 DEF Resolves
    <3>4. ASSUME NEW x \in Codes \ {c}, code[x].status = "active"
          PROVE  code[x].target # chosen.target
      <4>1. code[x].makerspace = SpaceOf(code[x].target) /\ code[x] \in CodeRow
        BY <1>1, <3>2, <3>4 DEF CodesInv, CodesTypeOK, CodesResolve, Resolves
      <4>2. code[x].target = chosen.target =>
               code[x] = [status |-> "active", makerspace |-> chosen.makerspace,
                          target |-> chosen.target]
        BY <3>2, <3>4, <4>1 DEF CodeRow
      <4>3. x \in Codes \ {Nothing}
        BY TransfersAssumption DEF TransfersAssumption
      <4> QED
        BY <1>7, <4>2, <4>3 DEF TargetHasQr
    <3> QED
      BY <1>1, <2>1, <2>6, <3>2, <3>3, <3>4 DEF CodesInv, CodesResolve
  <2> QED
    BY <1>2, <1>5, <2>4, <2>5, <2>8, <2>9 DEF TransfersInv, CodesInv
<1> QED
  BY <1>6, <1>7 DEF get_or_create_qr

-----------------------------------------------------------------------------
LEMMA TransfersStart ==
    ASSUME StartsInOrder, TransfersInit
    PROVE  TransfersInv
<1>1. RowsInv
  <2>1. Books(product)
    BY TransfersAssumption DEF TransfersAssumption, TransfersInit, StartsInOrder, Books
  <2>2. Cardinality(Pieces(InitialRows)) \in Nat
    BY <2>1, BooksOfRows DEF TransfersInit
  <2>3. Cardinality(received) = 0 /\ BoughtQty * 0 = 0
    BY FS_EmptySet, BoughtAssumption DEF TransfersInit, BoughtAssumption
  <2>4. StockConserved
    BY <2>2, <2>3 DEF StockConserved, TransfersInit
  <2> QED
    BY <2>1, <2>4, TransfersAssumption DEF RowsInv, TransfersInit, TransfersAssumption
<1>2. UnitsInv
  <2>1. unit \in [Units -> UnitRow] /\ UnitsAtHome
    BY TransfersAssumption
       DEF TransfersAssumption, TransfersInit, StartsInOrder, UnitsAtHome, ProductIds
  <2>2. ASSUME NEW p \in ProductIds, product[p].tracking_mode = "individual"
        PROVE  /\ product[p].stock.available >= Cardinality(UnitsOf(p, "available"))
               /\ product[p].stock.issued = Cardinality(UnitsOf(p, "issued"))
    BY <2>2 DEF TransfersInit, StartsInOrder, UnitsOf, ProductIds
  <2> QED
    BY <2>1, <2>2 DEF UnitsInv, UnitsCounted
<1>3. CodesTypeOK
  BY TransfersAssumption DEF TransfersAssumption, TransfersInit, CodesTypeOK
<1>4. ASSUME NEW c \in Codes, code[c].status = "active"
      PROVE  /\ code[c].target \in Targets /\ Exists(code[c].target)
             /\ code[c].makerspace \in Spaces /\ Resolves(c)
             /\ \A x \in Codes \ {c} : code[x].status = "active" => code[x].target # code[c].target
  <2> DEFINE t == InitialCodes[c].target
  <2>1. code[c] = InitialCodes[c] /\ InitialCodes[c].status = "active" /\ code = InitialCodes
    BY <1>4 DEF TransfersInit
  <2>2. \A x \in Codes \ {c} : InitialCodes[x].status = "active" => InitialCodes[x].target # t
    BY <2>1 DEF StartsInOrder
  <2>3. /\ Len(InitialRows) \in Nat /\ DOMAIN InitialRows = 1..Len(InitialRows)
        /\ \A p \in DOMAIN InitialRows : InitialRows[p].makerspace \in Spaces
        /\ Len(InitialRows) <= MaxRows /\ MaxRows \in Nat
        /\ \A u \in Units : InitialUnits[u].makerspace \in Spaces
    BY TransfersAssumption, RowsType DEF TransfersAssumption, ProductRow, UnitRow
  <2>4. CASE t[1] = "product"
    <3>1. t \in {"product"} \X DOMAIN InitialRows
          /\ InitialCodes[c].makerspace = InitialRows[t[2]].makerspace
      BY <2>1, <2>4 DEF StartsInOrder
    <3>2. t[2] \in 1..MaxRows
      BY <2>3, <3>1
    <3> QED
      BY <2>1, <2>2, <2>3, <2>4, <3>1, <3>2
         DEF TransfersInit, Targets, Exists, Resolves, SpaceOf, ProductIds
  <2>5. CASE t[1] # "product"
    <3>1. t \in {"asset"} \X Units /\ InitialCodes[c].makerspace = InitialUnits[t[2]].makerspace
      BY <2>1, <2>5 DEF StartsInOrder
    <3> QED
      BY <2>1, <2>2, <2>3, <2>5, <3>1
         DEF TransfersInit, Targets, Exists, Resolves, SpaceOf, ProductIds
  <2> QED
    BY <2>4, <2>5
<1>5. CodesLead /\ CodesResolve
  BY <1>4 DEF CodesLead, CodesResolve, TransfersInit
<1>6. LentRight /\ LoansKeepTheirCode
  BY DEF TransfersInit, LentRight, LoansKeepTheirCode, QrHasActiveLoan
<1> QED
  BY <1>1, <1>2, <1>3, <1>5, <1>6 DEF TransfersInv, CodesInv

LEMMA TransfersStep ==
    ASSUME TransfersInv, [TransfersNext]_transferVars
    PROVE  TransfersInv'
<1>1. ASSUME NEW p \in ProductIds, NEW box \in Places, NEW q \in 1..product[p].stock.available,
             transfer_within(p, box, q), Len(product') <= MaxRows
      PROVE  TransfersInv'
  BY <1>1, WithinInv
<1>2. ASSUME NEW p \in ProductIds, NEW box \in Places, NEW q \in 1..product[p].stock.available,
             NEW mk \in Spaces, transfer_across(p, mk, box, q),
             Len(product') <= MaxRows
      PROVE  TransfersInv'
  BY <1>2, AcrossInv
<1>3. ASSUME NEW i \in Purchases, NEW box \in Places, NEW category \in {Nothing, BuyerOf[i]},
             NEW mode \in {"quantity", "individual"},
             receive_new(i, EmptyRow(BuyerOf[i], box, category, mode), BoughtQty),
             Len(product') <= MaxRows
      PROVE  TransfersInv'
  <2>1. PICK row : row = EmptyRow(BuyerOf[i], box, category, mode)
    OBVIOUS
  <2>2. BuyerOf[i] \in Spaces
    BY TransfersAssumption DEF TransfersAssumption
  <2>3. row \in ProductRow /\ row.stock = Av!NewRow(0, 0)
    BY <2>1, <2>2, NewRowFits DEF EmptyRow, ProductRow, Places, RowFits
  <2> QED
    BY <1>3, <2>1, <2>3, ReceiveNewInv
<1>4. ASSUME NEW i \in Purchases, NEW p \in ProductIds, receive_topup(i, p, BoughtQty),
             Len(product') <= MaxRows
      PROVE  TransfersInv'
  BY <1>4, TopUpInv
<1>5. CASE StockSteps /\ Len(product') <= MaxRows
  BY <1>1, <1>2, <1>3, <1>4, <1>5 DEF StockSteps
<1>6. ASSUME NEW c \in Codes,
             checkout(c) \/ return_tool(c) \/ revoke_qr_code(c) \/ get_or_create_qr(c)
      PROVE  TransfersInv'
  BY <1>6, CheckoutInv, ReturnInv, RevokeInv, CreateInv
<1>7. ASSUME NEW c \in Codes, NEW t \in Targets, Exists(t), rebind_qr_target(c, t)
      PROVE  TransfersInv'
  BY <1>7, RebindInv
<1>8. ASSUME NEW c \in Codes, NEW mk \in Spaces, NEW d \in 1..MaxRows,
             move_asset(c, mk, d), Len(product') <= MaxRows
      PROVE  TransfersInv'
  BY <1>8, MoveAssetInv
<1>9. ASSUME NEW t \in Targets, Exists(t), choose_target(t)
      PROVE  TransfersInv'
  BY <1>9, ChooseInv
<1>10. CASE CodeSteps /\ Len(product') <= MaxRows
  BY <1>6, <1>7, <1>8, <1>9, <1>10 DEF CodeSteps
<1>11. CASE UNCHANGED transferVars
  <2>1. RowsInv' /\ UnitsInv'
    BY <1>11, RowsStay DEF TransfersInv, transferVars
  <2>2. CodesInv'
    BY <1>11 DEF TransfersInv, transferVars, CodesInv, CodesTypeOK, CodesLead, LentRight,
       CodesResolve, LoansKeepTheirCode, QrHasActiveLoan, Resolves, SpaceOf, Exists, ProductIds
  <2> QED
    BY <2>1, <2>2 DEF TransfersInv
<1> QED
  BY <1>5, <1>10, <1>11 DEF TransfersNext

\* In every catalog that starts in order the inductive invariant of stock and
\* codes holds.
THEOREM TransfersInvariant ==
    ASSUME StartsInOrder
    PROVE  TransfersSpec => []TransfersInv
<1>1. TransfersInit => TransfersInv
  BY TransfersStart
<1>2. TransfersInv /\ [TransfersNext]_transferVars => TransfersInv'
  BY TransfersStep
<1> QED
  BY <1>1, <1>2, PTL DEF TransfersSpec

\* However often stock is split, merged, moved between makerspaces, bought and
\* lent, the rows add up to what there was and what was bought.
THEOREM StockIsAccounted ==
    ASSUME StartsInOrder
    PROVE  TransfersSpec => []StockAccounted
<1>1. TransfersInv => StockAccounted
  BY DEF TransfersInv, RowsInv, UnitsInv, StockAccounted, RowsAddUp, Books, ProductIds
<1> QED
  BY <1>1, TransfersInvariant, PTL

\* An active code resolves in its makerspace and is its target's only one, but
\* where a code was created for a target that had moved on, and a lent code
\* still leads to what was lent.
THEOREM CodesAndTargetsAgree ==
    ASSUME StartsInOrder
    PROVE  TransfersSpec => []CodesFollowTargets
<1>1. TransfersInv => CodesFollowTargets
  BY DEF TransfersInv, CodesInv, CodesFollowTargets
<1> QED
  BY <1>1, TransfersInvariant, PTL

-----------------------------------------------------------------------------
(* The types of the rows that are locked. *)

\* FlattenSeq's recursive function, and that it exists.
Flat(f, seqs, n) ==
    f = [i \in 1..n |-> IF i = 1 THEN seqs[i] ELSE f[i - 1] \o seqs[i]]

LEMMA FlatExists ==
    ASSUME NEW seqs, NEW n \in Nat
    PROVE  \E f : Flat(f, seqs, n)
<1> DEFINE Good == {m \in Nat : \E f : Flat(f, seqs, m)}
<1>1. 0 \in Good
  <2>1. Flat([i \in 1..0 |-> << >>], seqs, 0)
    BY DEF Flat
  <2> QED
    BY <2>1
<1>2. ASSUME NEW m \in Nat, m \in Good PROVE m + 1 \in Good
  <2>1. PICK g : Flat(g, seqs, m)
    BY <1>2
  <2> DEFINE f == [i \in 1..m + 1 |-> IF i <= m THEN g[i] ELSE IF i = 1 THEN seqs[i]
                                       ELSE g[i - 1] \o seqs[i]]
  <2>2. \A i \in 1..m : g[i] = IF i = 1 THEN seqs[i] ELSE g[i - 1] \o seqs[i]
    BY <2>1 DEF Flat
  <2>3. \A i \in 1..m + 1 : /\ i <= m => i \in 1..m
                            /\ i # 1 => i - 1 \in 1..m + 1 /\ i - 1 <= m
    OBVIOUS
  <2>4. \A i \in 1..m + 1 : i # 1 => f[i - 1] = g[i - 1]
    BY <2>3
  <2>5. ASSUME NEW i \in 1..m + 1
        PROVE  f[i] = IF i = 1 THEN seqs[i] ELSE f[i - 1] \o seqs[i]
    <3>1. CASE i <= m
      <4>1. f[i] = g[i]
        BY <3>1
      <4> HIDE DEF f
      <4> QED
        BY <2>2, <2>3, <2>4, <3>1, <4>1
    <3>2. CASE ~(i <= m)
      <4>1. f[i] = IF i = 1 THEN seqs[i] ELSE g[i - 1] \o seqs[i]
        BY <3>2
      <4> HIDE DEF f
      <4> QED
        BY <2>4, <4>1
    <3> QED
      BY <3>1, <3>2
  <2>6. Flat(f, seqs, m + 1)
    <3>1. f = [i \in 1..m + 1 |-> f[i]]
      OBVIOUS
    <3> HIDE DEF f
    <3> QED
      BY <2>5, <3>1, Zenon DEF Flat
  <2> HIDE DEF f
  <2> QED
    BY <2>6
<1>3. n \in Good
  <2> HIDE DEF Good
  <2> QED
    BY <1>1, <1>2, SetInduction
<1> QED
  BY <1>3

LEMMA FlattenType ==
    ASSUME NEW T, NEW n \in Nat, NEW seqs \in [1..n -> Seq(T)]
    PROVE  FlattenSeq(seqs) \in Seq(T)
<1>1. Len(seqs) = n
  OBVIOUS
<1>2. CASE n = 0
  <2>1. seqs \in Seq(T)
    BY <1>2
  <2> QED
    BY <1>1, <1>2, <2>1 DEF FlattenSeq
<1>3. CASE n # 0
  <2> DEFINE d == CHOOSE f : Flat(f, seqs, n)
  <2>1. Flat(d, seqs, n)
    BY FlatExists
  <2>2. FlattenSeq(seqs) = d[n]
    BY <1>1, <1>3 DEF FlattenSeq, Flat
  <2> HIDE DEF d
  <2>3. \A i \in 1..n : d[i] = IF i = 1 THEN seqs[i] ELSE d[i - 1] \o seqs[i]
    BY <2>1 DEF Flat
  <2> DEFINE Good == {m \in Nat : m \in 1..n => d[m] \in Seq(T)}
  <2>4. 0 \in Good
    OBVIOUS
  <2>5. ASSUME NEW m \in Nat, m \in Good PROVE m + 1 \in Good
    <3> SUFFICES ASSUME m + 1 \in 1..n PROVE d[m + 1] \in Seq(T)
      OBVIOUS
    <3>1. seqs[m + 1] \in Seq(T)
      OBVIOUS
    <3>2. CASE m = 0
      <4>1. d[m + 1] = seqs[m + 1]
        BY <2>3, <3>2
      <4> QED
        BY <3>1, <4>1
    <3>3. CASE m # 0
      <4>1. m \in 1..n /\ m + 1 # 1 /\ m + 1 - 1 = m
        BY <3>3
      <4>2. d[m + 1] = IF m + 1 = 1 THEN seqs[m + 1] ELSE d[m + 1 - 1] \o seqs[m + 1]
        BY <2>3
      <4>3. d[m] \in Seq(T)
        BY <2>5, <4>1
      <4> QED
        BY <3>1, <4>1, <4>2, <4>3
    <3> QED
      BY <3>2, <3>3
  <2>6. n \in Good
    <3> HIDE DEF Good
    <3> QED
      BY <2>4, <2>5, SetInduction
  <2>7. n \in 1..n
    BY <1>3
  <2> QED
    BY <2>2, <2>6, <2>7
<1> QED
  BY <1>2, <1>3

LEMMA SingleRows ==
    /\ KeepSpace \in LockRows /\ UpdateSpace \in LockRows
    /\ \A n \in Nat : /\ <<"request", n>> \in LockRows /\ <<"box", n>> \in LockRows
                      /\ <<"box_code", n>> \in LockRows /\ <<"code", n>> \in LockRows
                      /\ <<"loan", n>> \in LockRows /\ <<"asset", n>> \in LockRows
                      /\ <<"product", n>> \in LockRows /\ <<"borrower", n>> \in LockRows
                      /\ <<"keep_borrower", n>> \in LockRows
BY DEF LockRows, LockKinds, KeepSpace, UpdateSpace

LEMMA AssetRows ==
    ASSUME NEW a \in Assets
    PROVE  WithProduct(a) \in Seq(LockRows)
<1>1. a \in Nat /\ ProductOf[a] \in Nat
  BY KeysOfRows
<1> DEFINE r == <<"asset", a>>  q == <<"product", ProductOf[a]>>
<1>2. r \in LockRows /\ q \in LockRows /\ WithProduct(a) = <<r, q>>
  BY <1>1, SingleRows DEF WithProduct
<1> HIDE DEF r, q
<1> QED
  BY <1>2

LEMMA ReferredRows ==
    ASSUME NEW u \in Borrowers
    PROVE  RefersTo(u) \in Seq(LockRows)
<1> DEFINE r == KeepSpace  q == <<"keep_borrower", u>>
<1>1. r \in LockRows /\ q \in LockRows /\ RefersTo(u) = <<r, q>>
  BY KeysOfRows, SingleRows DEF RefersTo
<1> HIDE DEF r, q
<1> QED
  BY <1>1

\* Each query locks rows there are.
LEMMA QueriedRows ==
    ASSUME NEW S \in SUBSET Assets
    PROVE  /\ IsFiniteSet(S) /\ ByPk("code", S) \in Seq(LockRows)
           /\ ByPk("asset", S) \in Seq(LockRows) /\ ProductsByPk(S) \in Seq(LockRows)
<1>1. IsFiniteSet(S) /\ S \in SUBSET Nat
  BY FS_Subset, RowLocksAssumption DEF RowLocksAssumption
<1> DEFINE of == [a \in S |-> ProductOf[a]]
           products == {ProductOf[a] : a \in S}
<1>2. IsFiniteSet(products) /\ products \in SUBSET Nat
  <2>1. of \in Surjection(S, products)
    BY DEF Surjection
  <2>2. products \in SUBSET Nat
    BY RowLocksAssumption DEF RowLocksAssumption
  <2> QED
    BY <1>1, <2>1, <2>2, FS_Surjection
<1>3. /\ {"code"} \X S \subseteq LockRows /\ {"asset"} \X S \subseteq LockRows
      /\ {"product"} \X products \subseteq LockRows
  BY <1>1, <1>2 DEF LockRows, LockKinds
<1> HIDE DEF products, of
<1>4. /\ ByPk("code", S) \in Seq({"code"} \X S) /\ ByPk("asset", S) \in Seq({"asset"} \X S)
      /\ ByPk("product", products) \in Seq({"product"} \X products)
  BY <1>1, <1>2, ByPkRows
<1>5. \A X : X \subseteq LockRows => Seq(X) \subseteq Seq(LockRows)
  OBVIOUS
<1> QED
  BY <1>1, <1>3, <1>4, <1>5 DEF ProductsByPk, products

LEMMA ScannedRows ==
    ASSUME NEW S \in SUBSET Assets, NEW order \in SetToSeqs(S)
    PROVE  /\ InOrder(order) \in Seq(LockRows)
           /\ {order[i] : i \in DOMAIN order} \in SUBSET S
<1>1. IsFiniteSet(S)
  BY QueriedRows
<1> DEFINE n == Cardinality(S)
<1>2. n \in Nat
  BY <1>1, FS_CardinalityType
<1>3. order \in [1..n -> S]
  BY DEF SetToSeqs
<1> HIDE DEF n
<1> DEFINE seqs == [i \in DOMAIN order |-> WithProduct(order[i])]
<1>4. \A i \in 1..n : WithProduct(order[i]) \in Seq(LockRows)
  BY <1>3, AssetRows
<1>5. seqs \in [1..n -> Seq(LockRows)]
  BY <1>3, <1>4
<1> HIDE DEF seqs
<1>6. FlattenSeq(seqs) \in Seq(LockRows)
  BY <1>2, <1>5, FlattenType
<1> QED
  BY <1>3, <1>6 DEF InOrder, seqs

LEMMA Joined ==
    ASSUME NEW T, NEW s \in Seq(T), NEW x \in Seq(T)
    PROVE  s \o x \in Seq(T)
OBVIOUS

LEMMA HandoutRows ==
    ASSUME NEW S \in SUBSET Assets, NEW order \in SetToSeqs(S), NEW u \in Borrowers
    PROVE  /\ \A b \in Boxes : CheckoutBox(b, order, u) \in Seq(LockRows)
           /\ \A container \in {{}} \cup {{b} : b \in Boxes} :
                 IssueDirectLoan(container, order, u) \in Seq(LockRows)
<1>1. InOrder(order) \in Seq(LockRows) /\ {order[i] : i \in DOMAIN order} \in SUBSET Assets
  BY ScannedRows
<1>2. RefersTo(u) \in Seq(LockRows)
  BY ReferredRows
<1>3. ASSUME NEW b \in Boxes
      PROVE  CheckoutBox(b, order, u) \in Seq(LockRows)
  <2> DEFINE r == <<"box_code", b>>  q == <<"box", b>>
  <2>1. r \in LockRows /\ q \in LockRows
    BY SingleRows, RowLocksAssumption DEF RowLocksAssumption
  <2>2. CheckoutBox(b, order, u) = <<r, q>> \o InOrder(order) \o RefersTo(u)
    BY DEF CheckoutBox
  <2> HIDE DEF r, q
  <2>3. <<r, q>> \in Seq(LockRows)
    BY <2>1
  <2> QED
    BY <1>1, <1>2, <2>2, <2>3, Joined
<1>4. ASSUME NEW container \in {{}} \cup {{b} : b \in Boxes}
      PROVE  IssueDirectLoan(container, order, u) \in Seq(LockRows)
  <2> DEFINE scanned == {order[i] : i \in DOMAIN order}
  <2>1. ByPk("code", scanned) \in Seq(LockRows)
    BY <1>1, QueriedRows
  <2>2. container \in SUBSET Nat /\ IsFiniteSet(container)
    <3>1. CASE container = {}
      BY <3>1, FS_EmptySet
    <3>2. ASSUME NEW b \in Boxes, container = {b}
          PROVE  container \in SUBSET Nat /\ IsFiniteSet(container)
      <4>1. b \in Nat
        BY RowLocksAssumption DEF RowLocksAssumption
      <4> QED
        BY <3>2, <4>1, FS_Singleton
    <3> QED
      BY <3>1, <3>2
  <2>3. ByPk("box", container) \in Seq({"box"} \X container)
    BY <2>2, ByPkRows
  <2>4. {"box"} \X container \subseteq LockRows
    BY <2>2 DEF LockRows, LockKinds
  <2>5. \A X : X \subseteq LockRows => Seq(X) \subseteq Seq(LockRows)
    OBVIOUS
  <2>6. ByPk("box", container) \in Seq(LockRows)
    BY <2>3, <2>4, <2>5
  <2>7. IssueDirectLoan(container, order, u)
           = ByPk("box", container) \o ByPk("code", scanned) \o InOrder(order) \o RefersTo(u)
    BY DEF IssueDirectLoan
  <2> HIDE DEF scanned
  <2> QED
    BY <1>1, <1>2, <2>1, <2>6, <2>7, Joined
<1> QED
  BY <1>3, <1>4

LEMMA RequestRows ==
    ASSUME NEW r \in LockRequests, NEW S \in SUBSET Assets
    PROVE  IssueRequest(r, S) \in Seq(LockRows) /\ ReturnItems(r, S) \in Seq(LockRows)
<1> DEFINE q == <<"request", r>>  b == <<"box", AssignedBox[r]>>
           u == <<"borrower", RequesterOf[r]>>
<1>1. q \in LockRows /\ b \in LockRows /\ u \in LockRows /\ UpdateSpace \in LockRows
  BY SingleRows, RowLocksAssumption DEF RowLocksAssumption
<1>2. LockedRequest(r) = <<q, UpdateSpace, u>>
  BY DEF LockedRequest
<1>3. IssueRequest(r, S) = LockedRequest(r) \o <<b>> \o ByPk("code", S)
                              \o ByPk("asset", S) \o ProductsByPk(S)
  BY DEF IssueRequest
<1> HIDE DEF q, b, u
<1>4. LockedRequest(r) \in Seq(LockRows) /\ <<b>> \in Seq(LockRows)
  BY <1>1, <1>2
<1>5. /\ ByPk("code", S) \in Seq(LockRows) /\ ByPk("asset", S) \in Seq(LockRows)
      /\ ProductsByPk(S) \in Seq(LockRows)
  BY QueriedRows
<1> QED
  BY <1>3, <1>4, <1>5, Joined DEF ReturnItems

LEMMA ScanRows ==
    /\ \A a \in InStock(Assets), u \in Borrowers : CheckoutTool(a, u) \in Seq(LockRows)
    /\ \A a \in OutAssets : /\ ReturnTool(a) \in Seq(LockRows)
                            /\ ReturnDirectLoan(a) \in Seq(LockRows)
    /\ \A a \in Assets : MoveAsset(a) \in Seq(LockRows)
BY CheckoutAscends, ReturnAscends, MoveAscends DEF Ascends

\* Every service locks rows there are.
LEMMA BeginTypes ==
    ASSUME RowLocksTypeOK, NEW w \in Workers, begin(w)
    PROVE  RowLocksTypeOK'
<1>1. ASSUME NEW name \in Services, NEW rows \in Seq(LockRows), Begin(w, name, rows)
      PROVE  RowLocksTypeOK'
  BY <1>1 DEF RowLocksTypeOK, Begin
<1>2. /\ "checkout_tool" \in Services /\ "checkout_box" \in Services
      /\ "issue_direct_loan" \in Services /\ "issue_request" \in Services
      /\ "return_items" \in Services /\ "return_tool" \in Services
      /\ "return_direct_loan" \in Services /\ "move_asset" \in Services
  BY DEF Services, Reviewed, Handouts
<1>3. OutAssets \subseteq Assets /\ \A b \in Boxes : InStock(Content[b]) \in SUBSET Assets
  BY RowLocksAssumption DEF RowLocksAssumption, InStock
<1>4. \A S \in SUBSET InStock(Assets) : S \in SUBSET Assets
  BY DEF InStock
<1>5. CASE \E a \in InStock(Assets), u \in Borrowers :
              Begin(w, "checkout_tool", CheckoutTool(a, u))
  BY <1>1, <1>2, <1>5, ScanRows
<1>6. CASE \E b \in Boxes, u \in Borrowers : \E order \in SetToSeqs(InStock(Content[b])) :
              Begin(w, "checkout_box", CheckoutBox(b, order, u))
  <2>1. PICK b \in Boxes, u \in Borrowers : \E order \in SetToSeqs(InStock(Content[b])) :
                Begin(w, "checkout_box", CheckoutBox(b, order, u))
    BY <1>6
  <2>2. PICK order \in SetToSeqs(InStock(Content[b])) :
                Begin(w, "checkout_box", CheckoutBox(b, order, u))
    BY <2>1
  <2>3. CheckoutBox(b, order, u) \in Seq(LockRows)
    BY <1>3, HandoutRows
  <2> QED
    BY <1>1, <1>2, <2>2, <2>3
<1>7. CASE \E S \in SUBSET InStock(Assets) \ {{}}, u \in Borrowers :
           \E order \in SetToSeqs(S) : \E container \in {{}} \cup {{b} : b \in Boxes} :
              Begin(w, "issue_direct_loan", IssueDirectLoan(container, order, u))
  <2>1. PICK S \in SUBSET InStock(Assets) \ {{}}, u \in Borrowers :
           \E order \in SetToSeqs(S) : \E container \in {{}} \cup {{b} : b \in Boxes} :
              Begin(w, "issue_direct_loan", IssueDirectLoan(container, order, u))
    BY <1>7
  <2>2. PICK order \in SetToSeqs(S) : \E container \in {{}} \cup {{b} : b \in Boxes} :
              Begin(w, "issue_direct_loan", IssueDirectLoan(container, order, u))
    BY <2>1
  <2>3. PICK container \in {{}} \cup {{b} : b \in Boxes} :
              Begin(w, "issue_direct_loan", IssueDirectLoan(container, order, u))
    BY <2>2
  <2>4. S \in SUBSET Assets
    BY DEF InStock
  <2>5. IssueDirectLoan(container, order, u) \in Seq(LockRows)
    BY <2>4, HandoutRows
  <2> QED
    BY <1>1, <1>2, <2>3, <2>5
<1>8. CASE \E r \in LockRequests, S \in SUBSET InStock(Assets) :
              Begin(w, "issue_request", IssueRequest(r, S))
  BY <1>1, <1>2, <1>4, <1>8, RequestRows
<1>9. CASE \E r \in LockRequests, S \in SUBSET OutAssets :
              Begin(w, "return_items", ReturnItems(r, S))
  <2>1. PICK r \in LockRequests, S \in SUBSET Assets :
              Begin(w, "return_items", ReturnItems(r, S))
    BY <1>3, <1>9
  <2> QED
    BY <1>1, <1>2, <2>1, RequestRows
<1>10. CASE \E a \in OutAssets : \/ Begin(w, "return_tool", ReturnTool(a))
                                \/ Begin(w, "return_direct_loan", ReturnDirectLoan(a))
  BY <1>1, <1>2, <1>10, ScanRows
<1>11. CASE \E a \in Assets : Begin(w, "move_asset", MoveAsset(a))
  BY <1>1, <1>2, <1>11, ScanRows
<1> QED
  BY <1>5, <1>6, <1>7, <1>8, <1>9, <1>10, <1>11 DEF begin

LEMMA LockTypesKept ==
    RowLocksTypeOK /\ [RowLocksNext]_lockVars => RowLocksTypeOK'
<1> SUFFICES ASSUME RowLocksTypeOK, [RowLocksNext]_lockVars PROVE RowLocksTypeOK'
  OBVIOUS
<1>1. ASSUME NEW w \in Workers, lock(w)
      PROVE  RowLocksTypeOK'
  <2>1. /\ todo[w] \in Seq(LockRows) /\ todo[w] # << >>
        /\ held' = [held EXCEPT ![w] = held[w] \cup {Head(todo[w])}]
        /\ todo' = [todo EXCEPT ![w] = Tail(todo[w])] /\ service' = service
    BY <1>1 DEF lock, RowLocksTypeOK
  <2>2. Head(todo[w]) \in LockRows /\ Tail(todo[w]) \in Seq(LockRows)
    BY <2>1
  <2> QED
    BY <2>1, <2>2 DEF RowLocksTypeOK
<1>2. ASSUME NEW w \in Workers, finish(w)
      PROVE  RowLocksTypeOK'
  <2>1. << >> \in Seq(LockRows) /\ "idle" \in Services
    BY DEF Services
  <2> QED
    BY <1>2, <2>1 DEF finish, RowLocksTypeOK
<1>3. CASE UNCHANGED lockVars
  BY <1>3 DEF lockVars, RowLocksTypeOK
<1> QED
  BY <1>1, <1>2, <1>3, BeginTypes DEF RowLocksNext

LEMMA LockTypesStart == RowLocksInit => RowLocksTypeOK
<1>1. << >> \in Seq(LockRows) /\ "idle" \in Services
  BY DEF Services
<1> QED
  BY <1>1 DEF RowLocksInit, RowLocksTypeOK

-----------------------------------------------------------------------------
(* The types of deliveries. *)

LEMMA QueuedType ==
    ASSUME tasks \in [Emails -> [0..MaxRetries -> 0..MaxTasks]],
           NEW e \in Emails, NEW r \in 0..MaxRetries, NEW n \in Int,
           tasks[e][r] + n \in 0..MaxTasks
    PROVE  Queued(e, r, n) \in [Emails -> [0..MaxRetries -> 0..MaxTasks]]
<1> DEFINE row == [tasks[e] EXCEPT ![r] = tasks[e][r] + n]
<1>1. row \in [0..MaxRetries -> 0..MaxTasks]
  OBVIOUS
<1>2. Queued(e, r, n) = [tasks EXCEPT ![e] = row]
  BY DEF Queued
<1> QED
  BY <1>1, <1>2

\* What a task that is put back does to its queue.
LEMMA TaskAdded ==
    ASSUME DeliveryTypeOK, NEW e \in Emails, NEW r \in 0..MaxRetries, NEW n \in {0, 1},
           tasks[e][r] + n <= MaxTasks
    PROVE  Queued(e, r, n) \in [Emails -> [0..MaxRetries -> 0..MaxTasks]]
<1>1. MaxTasks \in Nat /\ tasks \in [Emails -> [0..MaxRetries -> 0..MaxTasks]]
  BY DeliveryAssumption DEF DeliveryAssumption, DeliveryTypeOK
<1>2. tasks[e][r] \in 0..MaxTasks
  BY <1>1
<1>3. \A x \in 0..MaxTasks : x + n <= MaxTasks => x + n \in 0..MaxTasks
  BY <1>1
<1> QED
  BY <1>1, <1>2, <1>3, QueuedType

LEMMA DoubtType ==
    ASSUME DeliveryTypeOK, NEW e \in Emails, NEW is_doubt \in BOOLEAN, Doubt(e, is_doubt)
    PROVE  doubts' \in [Emails -> 0..MaxDoubts]
<1>1. MaxDoubts \in Nat /\ doubts \in [Emails -> 0..MaxDoubts]
  BY DeliveryAssumption DEF DeliveryAssumption, DeliveryTypeOK
<1>2. doubts[e] \in 0..MaxDoubts
  BY <1>1
<1>3. CASE is_doubt
  <2>1. doubts[e] < MaxDoubts /\ doubts' = [doubts EXCEPT ![e] = doubts[e] + 1]
    BY <1>3 DEF Doubt
  <2>2. doubts[e] + 1 \in 0..MaxDoubts
    BY <1>1, <1>2, <2>1
  <2> QED
    BY <1>1, <2>1, <2>2
<1>4. CASE ~is_doubt
  <2>1. doubts' = [doubts EXCEPT ![e] = doubts[e] + 0]
    BY <1>4 DEF Doubt
  <2>2. doubts[e] + 0 \in 0..MaxDoubts
    BY <1>1, <1>2
  <2> QED
    BY <1>1, <2>1, <2>2
<1> QED
  BY <1>3, <1>4

LEMMA CarriedBy ==
    ASSUME DeliveryTypeOK, NEW w \in DeliveryWorkers, courier[w] # Free
    PROVE  /\ courier[w].email \in Emails /\ courier[w].retries \in 0..MaxRetries
           /\ courier[w].step \in {"claimed", "accepted", "raised", "recorded"}
           /\ \A s \in {"claimed", "accepted", "raised", "recorded"} :
                 [courier EXCEPT ![w].step = s] \in [DeliveryWorkers -> {Free} \cup Carrying]
<1>1. courier \in [DeliveryWorkers -> {Free} \cup Carrying] /\ courier[w] \in Carrying
  BY DEF DeliveryTypeOK
<1>2. \A s \in {"claimed", "accepted", "raised", "recorded"} :
         [courier[w] EXCEPT !.step = s] \in Carrying
  BY <1>1 DEF Carrying
<1> QED
  BY <1>1, <1>2 DEF Carrying

LEMMA RowStepTypes ==
    ASSUME DeliveryTypeOK, NEW e \in Emails,
           \/ dispatch_email(e) \/ enqueue_failed(e) \/ retry_email_log(e)
           \/ \E outcome \in {"none", "raised"} : enqueue(e, outcome)
    PROVE  DeliveryTypeOK'
<1>1. CASE dispatch_email(e)
  <2>1. sends' \in 0..EmailLimit
    BY <1>1, DeliveryAssumption DEF DeliveryAssumption, dispatch_email, DeliveryTypeOK
  <2>2. UNCHANGED <<tasks, courier, copies, doubts>>
    BY <1>1 DEF dispatch_email
  <2>3. /\ log' \in [Emails -> {"absent", "pending", "sending", "sent", "failed"}]
        /\ outbox' \in [Emails -> {"none", "due", "raised"}]
    BY <1>1 DEF dispatch_email, DeliveryTypeOK
  <2> QED
    BY <2>1, <2>2, <2>3 DEF DeliveryTypeOK
<1>2. CASE enqueue_failed(e)
  <2>1. doubts' \in [Emails -> 0..MaxDoubts]
    <3>1. (log[e] \in {"sending", "sent"}) \in BOOLEAN
      OBVIOUS
    <3>2. Doubt(e, log[e] \in {"sending", "sent"})
      BY <1>2 DEF enqueue_failed
    <3> QED
      BY <3>1, <3>2, DoubtType
  <2> QED
    BY <1>2, <2>1 DEF enqueue_failed, DeliveryTypeOK
<1>3. CASE retry_email_log(e)
  BY <1>3 DEF retry_email_log, DeliveryTypeOK
<1>4. ASSUME NEW outcome \in {"none", "raised"}, enqueue(e, outcome)
      PROVE  DeliveryTypeOK'
  <2>1. PICK n \in {0, 1} : tasks[e][0] + n <= MaxTasks /\ tasks' = Queued(e, 0, n)
    BY <1>4 DEF enqueue
  <2>2. 0 \in 0..MaxRetries
    BY DeliveryAssumption DEF DeliveryAssumption
  <2>3. tasks' \in [Emails -> [0..MaxRetries -> 0..MaxTasks]]
    BY <2>1, <2>2, TaskAdded
  <2>4. /\ outbox' \in [Emails -> {"none", "due", "raised"}]
        /\ UNCHANGED <<log, sends, courier, copies, doubts>>
    BY <1>4 DEF enqueue, DeliveryTypeOK
  <2> QED
    BY <2>3, <2>4 DEF DeliveryTypeOK
<1> QED
  BY <1>1, <1>2, <1>3, <1>4

LEMMA WorkerStepTypes ==
    ASSUME DeliveryTypeOK, NEW w \in DeliveryWorkers,
           \/ \E e \in Emails, r \in 0..MaxRetries : deliver_email_task(w, e, r)
           \/ deliver(w) \/ record_result(w) \/ end_task(w) \/ die(w)
    PROVE  DeliveryTypeOK'
<1>1. ASSUME NEW e \in Emails, NEW r \in 0..MaxRetries, deliver_email_task(w, e, r)
      PROVE  DeliveryTypeOK'
  <2>1. /\ tasks \in [Emails -> [0..MaxRetries -> 0..MaxTasks]]
        /\ tasks[e][r] > 0 /\ tasks' = Queued(e, r, -1)
    BY <1>1 DEF deliver_email_task, DeliveryTypeOK
  <2>2. tasks[e][r] \in 0..MaxTasks /\ MaxTasks \in Nat
    BY <2>1, DeliveryAssumption DEF DeliveryAssumption
  <2>3. tasks[e][r] + (-1) \in 0..MaxTasks
    BY <2>1, <2>2
  <2>4. tasks' \in [Emails -> [0..MaxRetries -> 0..MaxTasks]]
    BY <2>1, <2>3, QueuedType
  <2>5. [step |-> "claimed", email |-> e, retries |-> r] \in Carrying
    BY DEF Carrying
  <2>6. /\ log' \in [Emails -> {"absent", "pending", "sending", "sent", "failed"}]
        /\ courier' \in [DeliveryWorkers -> {Free} \cup Carrying]
    BY <1>1, <2>5 DEF deliver_email_task, DeliveryTypeOK
  <2>7. UNCHANGED <<sends, outbox, copies, doubts>>
    BY <1>1 DEF deliver_email_task
  <2> QED
    BY <2>4, <2>6, <2>7 DEF DeliveryTypeOK
<1>2. CASE deliver(w)
  <2>1. courier[w] # Free /\ courier[w].email \in Emails
    BY <1>2, CarriedBy DEF deliver
  <2>2. courier' \in [DeliveryWorkers -> {Free} \cup Carrying]
    <3>1. PICK step \in {"accepted", "raised"} : courier' = [courier EXCEPT ![w].step = step]
      BY <1>2 DEF deliver
    <3> QED
      BY <2>1, <3>1, CarriedBy
  <2> DEFINE e == courier[w].email
  <2>3. copies' \in [Emails -> Nat]
    <3>1. \E n \in {0, 1} : copies' = [copies EXCEPT ![e] = copies[e] + n]
      BY <1>2 DEF deliver
    <3>2. copies \in [Emails -> Nat] /\ e \in Emails
      BY <2>1 DEF DeliveryTypeOK
    <3> HIDE DEF e
    <3> QED
      BY <3>1, <3>2
  <2>4. doubts' \in [Emails -> 0..MaxDoubts]
    <3>1. \E b \in BOOLEAN : Doubt(e, b)
      BY <1>2 DEF deliver
    <3> QED
      BY <2>1, <3>1, DoubtType
  <2> QED
    BY <1>2, <2>2, <2>3, <2>4 DEF deliver, DeliveryTypeOK
<1>3. CASE record_result(w)
  <2>1. courier[w] # Free /\ courier[w].email \in Emails
    BY <1>3, CarriedBy DEF record_result
  <2>2. courier' \in [DeliveryWorkers -> {Free} \cup Carrying]
    BY <1>3, <2>1, CarriedBy DEF record_result
  <2>3. log' \in [Emails -> {"absent", "pending", "sending", "sent", "failed"}]
    BY <1>3, <2>1 DEF record_result, DeliveryTypeOK
  <2> QED
    BY <1>3, <2>2, <2>3 DEF record_result, DeliveryTypeOK
<1>4. [courier EXCEPT ![w] = Free] \in [DeliveryWorkers -> {Free} \cup Carrying]
  BY DEF DeliveryTypeOK
<1>5. CASE end_task(w)
  <2> DEFINE e == courier[w].email  r == courier[w].retries + 1
  <2>1. courier[w] # Free /\ e \in Emails /\ courier[w].retries \in 0..MaxRetries
    BY <1>5, CarriedBy DEF end_task
  <2>2. \/ r <= MaxRetries /\ tasks[e][r] < MaxTasks /\ tasks' = Queued(e, r, 1)
        \/ tasks' = tasks
    BY <1>5 DEF end_task
  <2>3. r <= MaxRetries => r \in 0..MaxRetries
    BY <2>1, DeliveryAssumption DEF DeliveryAssumption
  <2> HIDE DEF e, r
  <2>4. tasks' \in [Emails -> [0..MaxRetries -> 0..MaxTasks]]
    <3>1. CASE tasks' = tasks
      BY <3>1 DEF DeliveryTypeOK
    <3>2. CASE r <= MaxRetries /\ tasks[e][r] < MaxTasks /\ tasks' = Queued(e, r, 1)
      <4>1. r \in 0..MaxRetries /\ tasks[e][r] \in 0..MaxTasks /\ MaxTasks \in Nat
        BY <2>1, <2>3, <3>2, DeliveryAssumption DEF DeliveryAssumption, DeliveryTypeOK
      <4>2. tasks[e][r] + 1 <= MaxTasks
        BY <3>2, <4>1
      <4> QED
        BY <2>1, <3>2, <4>1, <4>2, TaskAdded
    <3> QED
      BY <2>2, <3>1, <3>2
  <2>5. courier' = [courier EXCEPT ![w] = Free] /\ UNCHANGED <<log, sends, outbox, copies, doubts>>
    BY <1>5 DEF end_task
  <2> QED
    BY <1>4, <2>4, <2>5 DEF DeliveryTypeOK
<1>6. CASE die(w)
  <2> DEFINE e == courier[w].email  r == courier[w].retries
  <2>1. courier[w] # Free /\ e \in Emails /\ r \in 0..MaxRetries
    BY <1>6, CarriedBy DEF die
  <2>2. /\ \E n \in {0, 1} : tasks[e][r] + n <= MaxTasks /\ tasks' = Queued(e, r, n)
        /\ Doubt(e, courier[w].step = "accepted")
    BY <1>6 DEF die
  <2> HIDE DEF e, r
  <2>3. tasks' \in [Emails -> [0..MaxRetries -> 0..MaxTasks]]
    BY <2>1, <2>2, TaskAdded
  <2>4. doubts' \in [Emails -> 0..MaxDoubts]
    BY <2>1, <2>2, DoubtType
  <2>5. courier' = [courier EXCEPT ![w] = Free] /\ UNCHANGED <<log, sends, outbox, copies>>
    BY <1>6 DEF die
  <2> QED
    BY <1>4, <2>3, <2>4, <2>5 DEF DeliveryTypeOK
<1> QED
  BY <1>1, <1>2, <1>3, <1>5, <1>6

LEMMA DeliveryTypesKept ==
    DeliveryTypeOK /\ [DeliveryNext]_deliveryVars => DeliveryTypeOK'
<1>1. ASSUME DeliveryTypeOK, UNCHANGED deliveryVars PROVE DeliveryTypeOK'
  BY <1>1 DEF deliveryVars, DeliveryTypeOK
<1> QED
  BY <1>1, RowStepTypes, WorkerStepTypes DEF DeliveryNext

LEMMA DeliveryTypesStart == DeliveryInit => DeliveryTypeOK
<1>1. 0 \in 0..EmailLimit /\ 0 \in 0..MaxTasks /\ 0 \in 0..MaxDoubts
  BY DeliveryAssumption DEF DeliveryAssumption
<1> QED
  BY <1>1 DEF DeliveryInit, DeliveryTypeOK

-----------------------------------------------------------------------------
(* The eight parts side by side. *)

LEMMA PartsStep ==
    ASSUME [ServicesNext]_<<vars, bookingsVars, serviceVars, lockVars, membershipVars,
               deliveryVars, reminderVars, transferVars, part>>
    PROVE  /\ [Next]_vars /\ [BookingsNext]_bookingsVars /\ [ServiceNext]_serviceVars
           /\ [RowLocksNext]_lockVars /\ [MembershipsNext]_membershipVars
           /\ [DeliveryNext]_deliveryVars /\ [RemindersNext]_reminderVars
           /\ [TransfersNext]_transferVars
<1>1. CASE UNCHANGED <<vars, bookingsVars, serviceVars, lockVars, membershipVars,
               deliveryVars, reminderVars, transferVars, part>>
  BY <1>1
<1>2. CASE ServicesNext
  BY <1>2 DEF ServicesNext, Turn
<1> QED
  BY <1>1, <1>2

\* In the composition each part behaves as it does alone.
THEOREM PartsBehaveAsAlone ==
    ServicesSpec => /\ Spec /\ BookingsSpec /\ ServiceSpec /\ RowLocksSpec
                    /\ MembershipsSpec /\ DeliverySpec /\ RemindersSpec /\ TransfersSpec
<1>1. ServicesInit => /\ Init /\ BookingsInit /\ ServiceInit /\ RowLocksInit
                      /\ MembershipsInit /\ DeliveryInit /\ RemindersInit /\ TransfersInit
  BY DEF ServicesInit
<1> QED
  BY <1>1, PartsStep, PTL DEF ServicesSpec, Spec, BookingsSpec, ServiceSpec, RowLocksSpec,
     MembershipsSpec, DeliverySpec, RemindersSpec, TransfersSpec

\* Every row of the eight parts keeps its type.
THEOREM ServicesTypesAreKept == ServicesSpec => []ServicesTypeOK
<1>1. BookingsSpec => []BookingsTypeOK
  <2>1. BookingsTypeOK /\ [BookingsNext]_bookingsVars => BookingsTypeOK'
    BY BookingTypesStep
  <2> QED
    BY <2>1, BookingTypesStart, PTL DEF BookingsSpec
<1>2. ServiceSpec => []ServiceTypeOK
  <2>1. MachineInv => ServiceTypeOK
    BY DEF MachineInv
  <2> QED
    BY <2>1, MachineInitInv, MachineNextInv, PTL DEF ServiceSpec
<1>3. RowLocksSpec => []RowLocksTypeOK
  BY LockTypesStart, LockTypesKept, PTL DEF RowLocksSpec
<1>4. MembershipsSpec => []MembershipsTypeOK
  <2>1. EntryInv => MembershipsTypeOK
    BY DEF EntryInv
  <2> QED
    BY <2>1, MembershipsStart, EntryStep, PTL DEF MembershipsSpec
<1>5. DeliverySpec => []DeliveryTypeOK
  BY DeliveryTypesStart, DeliveryTypesKept, PTL DEF DeliverySpec
<1>6. RemindersSpec => []RemindersTypeOK
  <2>1. ReminderInv => RemindersTypeOK
    BY DEF ReminderInv
  <2> QED
    BY <2>1, ReminderInitInv, ReminderNextInv, PTL DEF RemindersSpec
<1>7. TransfersSpec => []TransfersTypeOK
  <2>1. TransfersInv => TransfersTypeOK
    BY DEF TransfersInv, RowsInv, UnitsInv, CodesInv, CodesTypeOK, Books, TransfersTypeOK
  <2>2. TransfersSpec => []TransfersInv
    BY CatalogInOrder, TransfersInvariant
  <2> QED
    BY <2>1, <2>2, PTL
<1>8. /\ EventsTypeOK /\ BookingsTypeOK /\ ServiceTypeOK /\ RowLocksTypeOK
      /\ MembershipsTypeOK /\ DeliveryTypeOK /\ RemindersTypeOK /\ TransfersTypeOK
      => ServicesTypeOK
  BY DEF ServicesTypeOK
<1> QED
  BY <1>1, <1>2, <1>3, <1>4, <1>5, <1>6, <1>7, <1>8, EventTypesAreKept, PartsBehaveAsAlone, PTL
=============================================================================
