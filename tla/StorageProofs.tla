---------------------------- MODULE StorageProofs ----------------------------
(***************************************************************************)
(* Theorems about what is stored: the protected rows (WriteFence), for     *)
(* every set of rows, writers and keys, and the uploaded files (Uploads),  *)
(* for every set of files, number of calls and limit.                      *)
(*                                                                         *)
(* A save under way means that no fence is closed, so nothing but the      *)
(* command writes behind a closed one; and an operation's identity is used *)
(* once, so as long as its fences are closed what it did stays done.       *)
(*                                                                         *)
(* Two calls meet on a file only if it is torn, so what the one call of an *)
(* untorn file measured is what is there when it attaches the file, and no *)
(* call that could delete the object is left behind.                       *)
(***************************************************************************)
EXTENDS WriteFence, Uploads, CountingProofs

-----------------------------------------------------------------------------
(* Write fences. *)

\* A session that passed the check keeps every fence open.
SavesKeepFencesOpen == Sharing # {} => \A f \in Fences : ~Closed(f)

\* A fresh envelope uses the active key.
FreshIsActive ==
    \A w \in Writers : writer[w].step = "encrypted" /\ writer[w].fresh =>
       writer[w].value \in Versions /\ key[writer[w].value] = "active"

\* The batch ends at a row of its own.
IsLast(last) == last \in command.batch /\ \A pk \in command.batch : pk <= last

\* A batch is held by the command that reads on, and holds rows that exist.
BatchHeld ==
    /\ IF command.step = "holding" THEN \E last : IsLast(last) ELSE command.batch = {}
    /\ \A pk \in command.batch : row[pk] # Absent

FenceInv ==
    WriteFenceTypeOK /\ SavesKeepFencesOpen /\ FreshIsActive /\ BatchHeld

-----------------------------------------------------------------------------
LEMMA FenceStart == WriteFenceInit => FenceInv
<1> SUFFICES ASSUME WriteFenceInit PROVE FenceInv
  OBVIOUS
<1>1. WriteFenceTypeOK
  BY WriteFenceAssumption
  DEF WriteFenceInit, WriteFenceTypeOK, WriteFenceAssumption, Open, Idle, Off, Kinds,
      Stored, Versions, Absent, Plain, Checkpoints, NoOperation, Operations
<1>2. SavesKeepFencesOpen /\ FreshIsActive /\ BatchHeld
  BY DEF WriteFenceInit, SavesKeepFencesOpen, FreshIsActive, BatchHeld, IsLast, Sharing, Idle, Off
<1> QED
  BY <1>1, <1>2 DEF FenceInv

LEMMA FencesKeep ==
    ASSUME FenceInv, FenceSteps PROVE FenceInv'
<1>1. ASSUME NEW o \in Operations, NEW S \in SUBSET Fences, NEW k \in Kinds,
             close_fences(S, o, k)
      PROVE  FenceInv'
  <2>1. fence' \in [Fences -> [operation : Operations \cup {NoOperation}, kind : Kinds]]
    BY <1>1 DEF close_fences, FenceInv, WriteFenceTypeOK
  <2>2. closings' \in 0..MaxOperations
    BY <1>1, WriteFenceAssumption DEF close_fences, Operations, WriteFenceAssumption
  <2> QED
    BY <1>1, <2>1, <2>2 DEF close_fences, Drained, Sharing, FenceInv, WriteFenceTypeOK,
       SavesKeepFencesOpen, FreshIsActive, BatchHeld, IsLast
<1>2. ASSUME NEW o \in Operations, reopen(o) PROVE FenceInv'
  <2>1. fence' \in [Fences -> [operation : Operations \cup {NoOperation}, kind : Kinds]]
    BY <1>2 DEF reopen, FenceInv, WriteFenceTypeOK, Open, Kinds
  <2> QED
    BY <1>2, <2>1 DEF reopen, Drained, Sharing, FenceInv, WriteFenceTypeOK,
       SavesKeepFencesOpen, FreshIsActive, BatchHeld, IsLast
<1>3. {"global"} \in SUBSET Fences /\ {"tenant"} \in SUBSET Fences /\ Fences \in SUBSET Fences
  BY DEF Fences
<1> QED
  BY <1>1, <1>2, <1>3 DEF FenceSteps

LEMMA WriterTypes ==
    ASSUME WriteFenceTypeOK, NEW w \in Writers, NEW to,
           to \in [step : {"idle", "loaded", "allowed", "encrypted"},
                   pk : Checkpoints, value : Stored, fresh : BOOLEAN],
           Become(w, to)
    PROVE  /\ writer' \in [Writers -> [step : {"idle", "loaded", "allowed", "encrypted"},
                                      pk : Checkpoints, value : Stored, fresh : BOOLEAN]]
           /\ writer'[w] = to /\ \A v \in Writers \ {w} : writer'[v] = writer[v]
           /\ UNCHANGED <<fence, key, command, printed, closings>>
BY DEF Become, WriteFenceTypeOK

LEMMA IdleType ==
    Idle \in [step : {"idle", "loaded", "allowed", "encrypted"},
              pk : Checkpoints, value : Stored, fresh : BOOLEAN]
BY DEF Idle, Checkpoints, Stored

\* A writer that leaves its save, or has not begun one.
LEMMA OutsideKeeps ==
    ASSUME FenceInv, NEW w \in Writers, NEW to,
           to \in [step : {"idle", "loaded", "allowed", "encrypted"},
                   pk : Checkpoints, value : Stored, fresh : BOOLEAN],
           to.step \in {"idle", "loaded"}, Become(w, to),
           row' \in [PiiRows -> Stored], \A pk \in command.batch : row'[pk] = row[pk]
    PROVE  FenceInv'
<1> USE DEF FenceInv
<1>1. /\ writer' \in [Writers -> [step : {"idle", "loaded", "allowed", "encrypted"},
                                 pk : Checkpoints, value : Stored, fresh : BOOLEAN]]
      /\ writer'[w] = to /\ \A v \in Writers \ {w} : writer'[v] = writer[v]
      /\ UNCHANGED <<fence, key, command, printed, closings>>
  BY WriterTypes
<1>2. WriteFenceTypeOK'
  BY <1>1 DEF WriteFenceTypeOK
<1>3. Sharing' \subseteq Sharing
  BY <1>1 DEF Sharing
<1>4. SavesKeepFencesOpen'
  BY <1>1, <1>3 DEF SavesKeepFencesOpen, Closed
<1>5. FreshIsActive'
  BY <1>1 DEF FreshIsActive
<1>6. BatchHeld'
  BY <1>1 DEF BatchHeld, IsLast
<1> QED
  BY <1>2, <1>4, <1>5, <1>6

LEMMA WritersKeep ==
    ASSUME FenceInv, WriterSteps PROVE FenceInv'
<1> USE DEF FenceInv
<1>1. ASSUME NEW w \in Writers, NEW pk \in PiiRows, NEW changed \in BOOLEAN,
             load(w, pk, changed)
      PROVE  FenceInv'
  <2> DEFINE to == [step |-> "loaded", pk |-> pk, value |-> row[pk],
                    fresh |-> changed \/ row[pk] \in {Absent, Plain}]
  <2>1. to \in [step : {"idle", "loaded", "allowed", "encrypted"},
                pk : Checkpoints, value : Stored, fresh : BOOLEAN]
    BY DEF WriteFenceTypeOK, Checkpoints
  <2>2. Become(w, to) /\ UNCHANGED row
    BY <1>1 DEF load
  <2>3. row' \in [PiiRows -> Stored] /\ \A q \in command.batch : row'[q] = row[q]
    BY <2>2 DEF WriteFenceTypeOK
  <2>4. to.step = "loaded"
    OBVIOUS
  <2> HIDE DEF to
  <2> QED
    BY <2>1, <2>2, <2>3, <2>4, OutsideKeeps
<1>2. ASSUME NEW w \in Writers, check_fence(w) PROVE FenceInv'
  <2>1. CASE Allowed(NoOperation)
    <3>1. \A f \in Fences : ~Closed(f)
      BY <2>1 DEF Allowed, Closed
    <3>2. Become(w, [writer[w] EXCEPT !.step = "allowed"]) /\ UNCHANGED row
      BY <1>2, <2>1 DEF check_fence
    <3>3. [writer[w] EXCEPT !.step = "allowed"] \in
             [step : {"idle", "loaded", "allowed", "encrypted"},
              pk : Checkpoints, value : Stored, fresh : BOOLEAN]
      BY DEF WriteFenceTypeOK
    <3> QED
      BY <3>1, <3>2, <3>3, WriterTypes DEF WriteFenceTypeOK, SavesKeepFencesOpen, Sharing,
         FreshIsActive, BatchHeld, IsLast, Closed
  <2>2. CASE ~Allowed(NoOperation)
    <3>1. Become(w, Idle) /\ row' \in [PiiRows -> Stored]
          /\ \A q \in command.batch : row'[q] = row[q]
      BY <1>2, <2>2 DEF check_fence, WriteFenceTypeOK
    <3> QED
      BY <3>1, IdleType, OutsideKeeps DEF Idle
  <2> QED
    BY <2>1, <2>2
<1>3. ASSUME NEW w \in Writers, encrypt(w) PROVE FenceInv'
  <2>1. /\ writer[w].step = "allowed" /\ UNCHANGED <<fence, command, printed, closings, row>>
        /\ writer' \in [Writers -> [step : {"idle", "loaded", "allowed", "encrypted"},
                                   pk : Checkpoints, value : Stored, fresh : BOOLEAN]]
        /\ key' \in [Versions -> {"absent", "active", "rotated", "disabled"}]
        /\ writer'[w].step = "encrypted" /\ writer'[w].fresh = writer[w].fresh
        /\ \A v \in Writers \ {w} : writer'[v] = writer[v]
        /\ \A v \in Versions : key[v] = "active" => key'[v] = "active"
        /\ writer[w].fresh => /\ writer'[w].value \in Versions
                              /\ key'[writer'[w].value] = "active"
    BY <1>3, SMTT(30) DEF encrypt, Become, WriteFenceTypeOK, ActiveDeks, Stored
  <2> QED
    BY <2>1 DEF WriteFenceTypeOK, SavesKeepFencesOpen, Sharing, FreshIsActive, BatchHeld, IsLast,
       Closed
<1>4. ASSUME NEW w \in Writers, commit(w) PROVE FenceInv'
  <2>1. row' \in [PiiRows -> Stored] /\ \A pk \in command.batch : row'[pk] = row[pk]
    BY <1>4 DEF commit, WriteFenceTypeOK
  <2> QED
    BY <1>4, <2>1, IdleType, OutsideKeeps DEF commit, Idle
<1>5. ASSUME NEW w \in Writers, roll_back(w) PROVE FenceInv'
  <2>1. row' \in [PiiRows -> Stored] /\ \A q \in command.batch : row'[q] = row[q]
    BY <1>5 DEF roll_back, WriteFenceTypeOK
  <2> QED
    BY <1>5, <2>1, IdleType, OutsideKeeps DEF roll_back, Idle
<1> QED
  BY <1>1, <1>2, <1>3, <1>4, <1>5 DEF WriterSteps

LEMMA KeysKeep ==
    ASSUME FenceInv, rotate_dek \/ \E v \in Versions : disable_dek(v) PROVE FenceInv'
<1> USE DEF FenceInv
<1>1. /\ UNCHANGED <<fence, row, writer, command, printed, closings>> /\ MakerspaceUnlocked
      /\ key' \in [Versions -> {"absent", "active", "rotated", "disabled"}]
  BY DEF rotate_dek, disable_dek, WriteFenceTypeOK
<1> QED
  BY <1>1 DEF MakerspaceUnlocked, WriteFenceTypeOK, SavesKeepFencesOpen, Sharing,
     FreshIsActive, BatchHeld, IsLast, Closed

LEMMA BatchMax ==
    ASSUME FenceInv, command.step = "holding"
    PROVE  /\ Max(command.batch) \in command.batch
           /\ \A pk \in command.batch : pk <= Max(command.batch)
           /\ command.batch \subseteq PiiRows
<1>1. command.batch \subseteq PiiRows
  BY DEF FenceInv, WriteFenceTypeOK
<1>2. \A pk \in command.batch : pk \in Int
  BY <1>1, WriteFenceAssumption DEF WriteFenceAssumption
<1>3. PICK last : IsLast(last)
  BY DEF FenceInv, BatchHeld
<1>4. \E x \in command.batch : \A y \in command.batch : x >= y
  BY <1>2, <1>3 DEF IsLast
<1>5. /\ Max(command.batch) \in command.batch
      /\ \A y \in command.batch : Max(command.batch) >= y
  BY <1>4 DEF Max
<1> QED
  BY <1>1, <1>2, <1>5

LEMMA CommandsKeep ==
    ASSUME FenceInv, CommandSteps PROVE FenceInv'
<1> USE DEF FenceInv
<1> DEFINE CommandType == [step : {"off", "reading", "holding", "done"},
                           operation : Operations \cup {NoOperation},
                           checkpoint : Checkpoints, batch : SUBSET PiiRows]
<1>0. ASSUME command' \in CommandType, row' \in [PiiRows -> Stored],
             printed' \in [Operations -> Checkpoints], BatchHeld',
             UNCHANGED <<fence, key, writer, closings>>
      PROVE  FenceInv'
  BY <1>0 DEF WriteFenceTypeOK, SavesKeepFencesOpen, Sharing, FreshIsActive, Closed
<1>1. ASSUME NEW o \in Operations, NEW resume \in BOOLEAN, start_command(o, resume)
      PROVE  FenceInv'
  <2>1. command' \in CommandType
    BY <1>1 DEF start_command, Command, WriteFenceTypeOK, Checkpoints
  <2>2. command'.step = "reading" /\ command'.batch = {}
    BY <1>1 DEF start_command, Command
  <2> QED
    BY <1>0, <1>1, <2>1, <2>2 DEF start_command, Command, WriteFenceTypeOK, BatchHeld
<1>2. ASSUME NEW last \in PiiRows, lock_batch(last) PROVE FenceInv'
  <2> DEFINE rows == {pk \in RowsToDecrypt : pk <= last}
  <2>1. /\ command' = [command EXCEPT !.step = "holding", !.batch = rows]
        /\ UNCHANGED <<fence, key, writer, closings, row, printed>>
    BY <1>2 DEF lock_batch, Command
  <2>2. /\ rows \in SUBSET PiiRows /\ last \in rows
        /\ \A pk \in rows : row[pk] # Absent /\ pk <= last
    BY <1>2, WriteFenceAssumption DEF lock_batch, RowsToDecrypt, WriteFenceAssumption
  <2> HIDE DEF rows
  <2>3. command' \in CommandType /\ command'.step = "holding" /\ command'.batch = rows
    BY <2>1, <2>2 DEF WriteFenceTypeOK
  <2>4. BatchHeld'
    BY <2>1, <2>2, <2>3 DEF BatchHeld, IsLast
  <2> QED
    BY <1>0, <2>1, <2>3, <2>4 DEF WriteFenceTypeOK
<1>3. CASE commit_batch
  <2>1. Max(command.batch) \in PiiRows
    BY <1>3, BatchMax DEF commit_batch
  <2>2. command' \in CommandType /\ command'.step = "reading" /\ command'.batch = {}
    BY <1>3, <2>1 DEF commit_batch, Command, WriteFenceTypeOK, Checkpoints
  <2>3. row' \in [PiiRows -> Stored]
    BY <1>3 DEF commit_batch, WriteFenceTypeOK, Stored
  <2>4. printed' \in [Operations -> Checkpoints]
    BY <1>3, <2>1 DEF commit_batch, WriteFenceTypeOK, Checkpoints
  <2>5. BatchHeld'
    BY <2>2 DEF BatchHeld
  <2> QED
    BY <1>0, <1>3, <2>2, <2>3, <2>4, <2>5 DEF commit_batch, Command
<1>4. CASE end_command
  <2>1. command' \in CommandType /\ command'.step = "done" /\ command'.batch = command.batch
    BY <1>4 DEF end_command, Command, WriteFenceTypeOK
  <2> QED
    BY <1>0, <1>4, <2>1 DEF end_command, Command, WriteFenceTypeOK, BatchHeld
<1>5. CASE abort_command
  <2>1. command' = Off /\ UNCHANGED <<fence, key, writer, closings, row, printed>>
    BY <1>5 DEF abort_command, Command, PrintedLate
  <2>2. Off \in CommandType
    BY DEF Off, Checkpoints
  <2> QED
    BY <1>0, <2>1, <2>2 DEF WriteFenceTypeOK, BatchHeld, Off
<1> QED
  BY <1>1, <1>2, <1>3, <1>4, <1>5 DEF CommandSteps

LEMMA FenceStep == FenceInv /\ [WriteFenceNext]_fenceVars => FenceInv'
<1> SUFFICES ASSUME FenceInv, [WriteFenceNext]_fenceVars PROVE FenceInv'
  OBVIOUS
<1>1. CASE UNCHANGED fenceVars
  BY <1>1 DEF fenceVars, FenceInv, WriteFenceTypeOK, SavesKeepFencesOpen, Sharing, Closed,
     FreshIsActive, BatchHeld, IsLast
<1> QED
  BY <1>1, FencesKeep, WritersKeep, CommandsKeep, KeysKeep DEF WriteFenceNext

\* The write fences' invariant (encryption/write_fence.py): open saves keep their
\* fences open, a batch is held under its own fence, a fresh key is the active one.
THEOREM FenceHolds == WriteFenceSpec => []FenceInv
BY FenceStart, FenceStep, PTL DEF WriteFenceSpec

\* What a save is about to commit is encrypted with the active key.
THEOREM SavesUseTheLiveKey == WriteFenceSpec => []WritesUseLiveKey
<1>1. FenceInv => WritesUseLiveKey
  BY DEF FenceInv, FreshIsActive, WritesUseLiveKey
<1> QED
  BY <1>1, FenceHolds, PTL

-----------------------------------------------------------------------------
\* Where rows change: a save, for which no fence is closed, or a batch.
LEMMA RowsChange ==
    ASSUME FenceInv, WriteFenceNext
    PROVE  \/ UNCHANGED row
           \/ UNCHANGED <<fence, command, printed, closings>> /\ \A f \in Fences : ~Closed(f)
           \/ commit_batch
<1>1. ASSUME NEW w \in Writers, commit(w)
      PROVE  UNCHANGED <<fence, command, printed, closings>> /\ \A f \in Fences : ~Closed(f)
  <2>1. w \in Sharing
    BY <1>1 DEF commit, Sharing
  <2> QED
    BY <1>1, <2>1 DEF commit, Become, FenceInv, SavesKeepFencesOpen
<1>2. CASE WriterSteps
  BY <1>1, <1>2 DEF WriterSteps, load, check_fence, encrypt, roll_back
<1>3. CASE CommandSteps
  BY <1>3 DEF CommandSteps, start_command, lock_batch, end_command, abort_command
<1> QED
  BY <1>2, <1>3 DEF WriteFenceNext, FenceSteps, close_fences, reopen, rotate_dek, disable_dek

\* Behind a closed fence only the rollback of its operation changes a row that
\* the trigger protects.
THEOREM ClosedFencesAreQuiet == WriteFenceSpec => QuietWhenClosed
<1> DEFINE Quiet == \A f \in Fences, pk \in Triggered :
              Closed(f) /\ row'[pk] # row[pk] =>
                 row'[pk] = Plain /\ fence[f].operation = command.operation
<1>1. ASSUME FenceInv, [WriteFenceNext]_fenceVars PROVE [Quiet]_fenceVars
  <2>1. CASE commit_batch
    <3> SUFFICES ASSUME NEW f \in Fences, NEW pk \in Triggered, Closed(f), row'[pk] # row[pk]
                 PROVE  row'[pk] = Plain /\ fence[f].operation = command.operation
      OBVIOUS
    <3>1. pk \in command.batch /\ pk \in PiiRows /\ row'[pk] = Plain
      BY <2>1, WriteFenceAssumption DEF commit_batch, WriteFenceAssumption, FenceInv,
         WriteFenceTypeOK
    <3>2. row[pk] \in Versions
      BY <1>1, <3>1 DEF FenceInv, BatchHeld, WriteFenceTypeOK, Stored
    <3>3. Allowed(command.operation)
      BY <2>1, <3>1, <3>2 DEF commit_batch
    <3> QED
      BY <3>1, <3>3 DEF Allowed
  <2> QED
    BY <1>1, <2>1, RowsChange DEF fenceVars
<1> QED
  BY <1>1, FenceHolds, PTL DEF WriteFenceSpec, QuietWhenClosed

-----------------------------------------------------------------------------
Clear(pk) == row[pk] \in {Absent, Plain}
ClearUpTo(last) == \A pk \in PiiRows : pk <= last => Clear(pk)

\* An operation that has not been closes nothing and has printed nothing.
OperationsOnce ==
    /\ \A f \in Fences : fence[f].operation <= closings
    /\ \A o \in Operations : o > closings => printed[o] = 0
    /\ command.operation <= closings
    /\ command.operation = NoOperation => command.checkpoint = 0 /\ command.step = "off"

\* While the fences of an operation are closed, what it printed and what its
\* command has passed is clear, and so are the rows its batch left out.
Passed ==
    /\ \A o \in Operations : FencesMatch(o) => ClearUpTo(printed[o])
    /\ FencesMatch(command.operation) =>
          /\ ClearUpTo(command.checkpoint)
          /\ command.step = "holding" =>
                \A pk \in PiiRows \ command.batch : pk <= Max(command.batch) => Clear(pk)

RollbackInv == FenceInv /\ OperationsOnce /\ Passed /\ RollbackComplete

LEMMA RollbackStart == WriteFenceInit => RollbackInv
<1> SUFFICES ASSUME WriteFenceInit PROVE RollbackInv
  OBVIOUS
<1>1. FenceInv
  BY FenceStart
<1>2. OperationsOnce
  BY DEF WriteFenceInit, OperationsOnce, Open, Off, NoOperation
<1>3. ClearUpTo(0)
  BY WriteFenceAssumption DEF ClearUpTo, WriteFenceAssumption
<1>4. Passed /\ RollbackComplete
  BY <1>3 DEF WriteFenceInit, Passed, RollbackComplete, Off
<1> QED
  BY <1>1, <1>2, <1>4 DEF RollbackInv

\* The fences of an operation that has begun are not closed again.
LEMMA MatchedBefore ==
    ASSUME RollbackInv, [WriteFenceNext]_fenceVars, NEW o \in Operations, FencesMatch(o)',
           o <= closings
    PROVE  FencesMatch(o)
<1>0. o \in Nat /\ o # 0 /\ closings \in Nat
  BY WriteFenceAssumption
  DEF RollbackInv, FenceInv, WriteFenceTypeOK, Operations, WriteFenceAssumption
<1>1. ASSUME NEW q \in Operations, NEW S \in SUBSET Fences, NEW k \in Kinds,
             close_fences(S, q, k)
      PROVE  FencesMatch(o)
  <2>1. q # o /\ \A f \in Fences : fence'[f] = IF f \in S THEN [operation |-> q, kind |-> k]
                                             ELSE fence[f]
    BY <1>0, <1>1 DEF close_fences
  <2> QED
    BY <2>1 DEF FencesMatch
<1>2. ASSUME NEW q \in Operations, reopen(q) PROVE FencesMatch(o)
  <2>1. \A f \in Fences : fence'[f] = fence[f] \/ fence'[f] = Open
    BY <1>2 DEF reopen
  <2> QED
    BY <1>0, <2>1 DEF FencesMatch, Open, NoOperation
<1>3. {"global"} \in SUBSET Fences /\ {"tenant"} \in SUBSET Fences /\ Fences \in SUBSET Fences
  BY DEF Fences
<1>4. CASE FenceSteps
  BY <1>1, <1>2, <1>3, <1>4 DEF FenceSteps
<1>5. CASE UNCHANGED fence
  BY <1>5 DEF FencesMatch
<1>6. WriterSteps \/ CommandSteps \/ rotate_dek \/ (\E v \in Versions : disable_dek(v))
         => UNCHANGED fence
  BY DEF WriterSteps, load, check_fence, encrypt, commit, roll_back, Become, CommandSteps,
     start_command, lock_batch, commit_batch, end_command, abort_command, Command,
     rotate_dek, disable_dek
<1> QED
  BY <1>4, <1>5, <1>6 DEF WriteFenceNext, fenceVars

\* What is clear under an operation's fences stays so.
LEMMA ClearStays ==
    ASSUME RollbackInv, [WriteFenceNext]_fenceVars, NEW o \in Operations, FencesMatch(o),
           NEW pk \in PiiRows, Clear(pk)
    PROVE  Clear(pk)'
<1>1. \A f \in Fences : Closed(f)
  BY DEF FencesMatch, Closed, Operations, NoOperation
<1>2. "global" \in Fences
  BY DEF Fences
<1>3. CASE UNCHANGED row
  BY <1>3 DEF Clear
<1>4. CASE commit_batch
  BY <1>4 DEF commit_batch, Clear, RollbackInv, FenceInv, WriteFenceTypeOK
<1> QED
  BY <1>1, <1>2, <1>3, <1>4, RowsChange DEF RollbackInv, fenceVars

LEMMA OperationsStep ==
    ASSUME RollbackInv, [WriteFenceNext]_fenceVars PROVE OperationsOnce'
<1> USE DEF RollbackInv
<1>0. /\ closings \in Nat /\ command.operation \in Nat
      /\ \A f \in Fences : fence[f].operation \in Nat
      /\ \A o \in Operations : o \in Nat /\ o # 0
  BY WriteFenceAssumption DEF FenceInv, WriteFenceTypeOK, Operations, NoOperation,
     WriteFenceAssumption
<1>1. ASSUME NEW o \in Operations, NEW S \in SUBSET Fences, NEW k \in Kinds,
             close_fences(S, o, k)
      PROVE  OperationsOnce'
  BY <1>0, <1>1 DEF close_fences, OperationsOnce
<1>2. ASSUME NEW o \in Operations, reopen(o) PROVE OperationsOnce'
  BY <1>0, <1>2 DEF reopen, OperationsOnce, Open, NoOperation
<1>3. {"global"} \in SUBSET Fences /\ {"tenant"} \in SUBSET Fences /\ Fences \in SUBSET Fences
  BY DEF Fences
<1>4. CASE FenceSteps
  BY <1>1, <1>2, <1>3, <1>4 DEF FenceSteps
<1>5. ASSUME UNCHANGED <<fence, command, printed, closings>> PROVE OperationsOnce'
  BY <1>5 DEF OperationsOnce
<1>6. CASE WriterSteps \/ rotate_dek \/ \E v \in Versions : disable_dek(v)
  BY <1>5, <1>6 DEF WriterSteps, load, check_fence, encrypt, commit, roll_back, Become,
     rotate_dek, disable_dek
<1>7. ASSUME NEW o \in Operations, NEW resume \in BOOLEAN, start_command(o, resume)
      PROVE  OperationsOnce'
  <2>1. "global" \in Fences
    BY DEF Fences
  <2>2. /\ command'.operation = o /\ fence["global"].operation = o
        /\ UNCHANGED <<fence, printed, closings>>
    BY <1>7, <2>1 DEF start_command, Command, FencesMatch
  <2> QED
    BY <1>0, <2>1, <2>2 DEF OperationsOnce, NoOperation
<1>8. ASSUME NEW last \in PiiRows, lock_batch(last) PROVE OperationsOnce'
  BY <1>0, <1>8 DEF lock_batch, Command, OperationsOnce, FenceInv, WriteFenceTypeOK
<1>9. CASE end_command
  BY <1>0, <1>9 DEF end_command, Command, OperationsOnce, FenceInv, WriteFenceTypeOK
<1>10. CASE abort_command
  BY <1>0, <1>10 DEF abort_command, Command, PrintedLate, OperationsOnce, Off, NoOperation
<1>11. CASE commit_batch
  <2>1. /\ command.operation # NoOperation /\ command'.operation = command.operation
        /\ UNCHANGED <<fence, closings>>
    BY <1>11 DEF commit_batch, Command, OperationsOnce, FenceInv, WriteFenceTypeOK
  <2>2. \A o \in Operations : o # command.operation => printed'[o] = printed[o]
    BY <1>11 DEF commit_batch, FenceInv, WriteFenceTypeOK
  <2> QED
    BY <1>0, <2>1, <2>2 DEF OperationsOnce
<1>12. CASE UNCHANGED fenceVars
  BY <1>5, <1>12 DEF fenceVars
<1> QED
  BY <1>4, <1>6, <1>7, <1>8, <1>9, <1>10, <1>11, <1>12 DEF WriteFenceNext, CommandSteps

\* A committed batch leaves everything clear up to its last row.
LEMMA BatchClears ==
    ASSUME RollbackInv, commit_batch, FencesMatch(command.operation)
    PROVE  \A pk \in PiiRows : pk <= Max(command.batch) => Clear(pk)'
<1> SUFFICES ASSUME NEW pk \in PiiRows, pk <= Max(command.batch) PROVE Clear(pk)'
  OBVIOUS
<1>1. row'[pk] = IF pk \in command.batch THEN Plain ELSE row[pk]
  BY DEF commit_batch
<1>2. pk \notin command.batch => Clear(pk)
  BY DEF commit_batch, RollbackInv, Passed
<1> QED
  BY <1>1, <1>2 DEF Clear

LEMMA PrintedStep ==
    ASSUME RollbackInv, [WriteFenceNext]_fenceVars, NEW o \in Operations, FencesMatch(o)',
           NEW pk \in PiiRows, pk <= printed'[o]
    PROVE  Clear(pk)'
<1>0. /\ pk \in Nat /\ pk # 0 /\ o \in Nat /\ closings \in Nat
      /\ command.operation <= closings /\ command.operation \in Nat
  BY WriteFenceAssumption DEF RollbackInv, FenceInv, WriteFenceTypeOK, OperationsOnce,
     Operations, NoOperation, WriteFenceAssumption
<1>1. UNCHANGED printed \/ commit_batch
  BY DEF WriteFenceNext, FenceSteps, close_fences, reopen, WriterSteps, load, check_fence,
     encrypt, commit, roll_back, Become, CommandSteps, start_command, lock_batch, end_command,
     abort_command, PrintedLate, rotate_dek, disable_dek, fenceVars
<1>2. commit_batch /\ printed'[o] # printed[o] =>
         o = command.operation /\ printed'[o] = Max(command.batch)
  BY DEF commit_batch, RollbackInv, FenceInv, WriteFenceTypeOK
<1>3. CASE o > closings
  <2>1. printed'[o] = 0
    BY <1>0, <1>1, <1>2, <1>3 DEF RollbackInv, OperationsOnce
  <2> QED
    BY <1>0, <2>1
<1>4. CASE o <= closings
  <2>1. FencesMatch(o)
    BY <1>4, MatchedBefore
  <2>2. CASE printed'[o] = printed[o]
    <3>1. Clear(pk)
      BY <2>1, <2>2 DEF RollbackInv, Passed, ClearUpTo
    <3> QED
      BY <2>1, <3>1, ClearStays
  <2>3. CASE printed'[o] # printed[o]
    BY <1>1, <1>2, <2>1, <2>3, BatchClears
  <2> QED
    BY <2>2, <2>3
<1> QED
  BY <1>0, <1>3, <1>4

\* The parts of Passed and RollbackComplete that are about the command.
LEMMA CommandStep ==
    ASSUME RollbackInv, [WriteFenceNext]_fenceVars, FenceInv', OperationsOnce',
           FencesMatch(command.operation)', NEW pk \in PiiRows
    PROVE  /\ pk <= command'.checkpoint => Clear(pk)'
           /\ command'.step = "holding" /\ pk \notin command'.batch
                 /\ pk <= Max(command'.batch) => Clear(pk)'
           /\ command'.step = "done" => Clear(pk)'
<1>0. /\ pk \in Nat /\ pk # 0 /\ closings \in Nat /\ command.operation <= closings
      /\ command.checkpoint \in Int
      /\ command'.operation \in Operations \/ command'.operation = NoOperation
  <2>1. pk \in Nat /\ pk # 0
    BY WriteFenceAssumption DEF WriteFenceAssumption
  <2>2. closings \in Nat /\ command.operation <= closings
    BY WriteFenceAssumption DEF RollbackInv, FenceInv, WriteFenceTypeOK, OperationsOnce,
       WriteFenceAssumption
  <2>3. command.checkpoint \in Int
    <3>1. command.checkpoint \in PiiRows \cup {0}
      BY DEF RollbackInv, FenceInv, WriteFenceTypeOK, Checkpoints
    <3>2. \A last \in PiiRows \cup {0} : last \in Int
      BY WriteFenceAssumption DEF WriteFenceAssumption
    <3> QED
      BY <3>1, <3>2
  <2>4. command'.operation \in Operations \cup {NoOperation}
    BY DEF FenceInv, WriteFenceTypeOK
  <2> QED
    BY <2>1, <2>2, <2>3, <2>4
<1>1. CASE command'.operation = NoOperation
  BY <1>0, <1>1 DEF OperationsOnce
<1>2. ASSUME command'.operation = command.operation, command'.operation \in Operations
      PROVE  FencesMatch(command.operation)
  <2>1. PICK o \in Operations : o = command.operation
    BY <1>2
  <2>2. FencesMatch(o)'
    BY <1>2, <2>1 DEF FencesMatch
  <2> QED
    BY <1>0, <2>1, <2>2, MatchedBefore
<1>3. CASE UNCHANGED command /\ command.operation \in Operations
  <2>1. FencesMatch(command.operation)
    BY <1>2, <1>3
  <2>2. Clear(pk) => Clear(pk)'
    BY <1>3, <2>1, ClearStays
  <2> QED
    BY <1>3, <2>1, <2>2 DEF RollbackInv, Passed, ClearUpTo, RollbackComplete, Clear
<1>4. ASSUME NEW o \in Operations, NEW resume \in BOOLEAN, start_command(o, resume)
      PROVE  /\ pk <= command'.checkpoint => Clear(pk)'
             /\ command'.step = "reading"
  <2>1. command'.checkpoint \in {0, printed[o]} /\ command'.step = "reading"
        /\ FencesMatch(o) /\ UNCHANGED row
    BY <1>4 DEF start_command, Command
  <2> QED
    BY <1>0, <2>1 DEF RollbackInv, Passed, ClearUpTo, Clear
<1>5. ASSUME NEW last \in PiiRows, lock_batch(last), command'.operation \in Operations
      PROVE  /\ pk <= command'.checkpoint => Clear(pk)'
             /\ pk \notin command'.batch /\ pk <= Max(command'.batch) => Clear(pk)'
             /\ command'.step = "holding"
  <2>1. /\ command'.operation = command.operation /\ command'.step = "holding"
        /\ command'.checkpoint = command.checkpoint
        /\ command'.batch = {q \in RowsToDecrypt : q <= last} /\ UNCHANGED row
    BY <1>5 DEF lock_batch, Command, RollbackInv, FenceInv, WriteFenceTypeOK
  <2>2. FencesMatch(command.operation)
    BY <1>2, <1>5, <2>1
  <2>3. pk <= command.checkpoint => Clear(pk)
    BY <2>2 DEF RollbackInv, Passed, ClearUpTo
  <2>4. Max(command'.batch) \in command'.batch
    <3>1. last \in command'.batch /\ \A q \in command'.batch : last >= q
      BY <1>5, <2>1, WriteFenceAssumption DEF lock_batch, RowsToDecrypt, WriteFenceAssumption
    <3> QED
      BY <3>1 DEF Max
  <2>5. ASSUME pk \notin command'.batch, pk <= Max(command'.batch) PROVE Clear(pk)
    <3>1. Max(command'.batch) <= last /\ Max(command'.batch) \in Nat /\ last \in Nat
      BY <2>1, <2>4, WriteFenceAssumption DEF RowsToDecrypt, WriteFenceAssumption
    <3>2. pk \notin RowsToDecrypt
      BY <1>0, <2>1, <2>5, <3>1
    <3> QED
      BY <1>0, <2>3, <3>2 DEF RowsToDecrypt, Clear
  <2> QED
    BY <2>1, <2>3, <2>5 DEF Clear
<1>6. CASE end_command /\ command'.operation \in Operations
  <2>1. /\ command'.operation = command.operation /\ command'.step = "done"
        /\ command'.checkpoint = command.checkpoint /\ UNCHANGED row /\ RowsToDecrypt = {}
    BY <1>6 DEF end_command, Command, RollbackInv, FenceInv, WriteFenceTypeOK
  <2>2. FencesMatch(command.operation)
    BY <1>2, <1>6, <2>1
  <2>3. pk <= command.checkpoint => Clear(pk)
    BY <2>2 DEF RollbackInv, Passed, ClearUpTo
  <2>4. Clear(pk)
    BY <1>0, <2>1, <2>3 DEF RowsToDecrypt, Clear
  <2> QED
    BY <2>1, <2>4 DEF Clear
<1>7. CASE commit_batch /\ command'.operation \in Operations
  <2>1. /\ command'.operation = command.operation /\ command'.step = "reading"
        /\ command'.checkpoint = Max(command.batch)
    BY <1>7 DEF commit_batch, Command, RollbackInv, FenceInv, WriteFenceTypeOK
  <2>2. FencesMatch(command.operation)
    BY <1>2, <1>7, <2>1
  <2> QED
    BY <1>7, <2>1, <2>2, BatchClears
<1>8. CASE abort_command
  BY <1>1, <1>8 DEF abort_command, Command, Off
<1>9. UNCHANGED command \/ CommandSteps
  BY DEF WriteFenceNext, FenceSteps, close_fences, reopen, WriterSteps, load, check_fence,
     encrypt, commit, roll_back, Become, rotate_dek, disable_dek, fenceVars
<1>10. CASE CommandSteps
  BY <1>0, <1>1, <1>4, <1>5, <1>6, <1>7, <1>8, <1>10 DEF CommandSteps
<1> QED
  BY <1>0, <1>1, <1>3, <1>9, <1>10

\* However often the command crashes and is resumed, when it is done and its
\* fences are closed no envelope is left.
THEOREM RollbackLeavesNoEnvelope == WriteFenceSpec => []RollbackComplete
<1>1. ASSUME RollbackInv, [WriteFenceNext]_fenceVars PROVE RollbackInv'
  <2>1. FenceInv' /\ OperationsOnce'
    BY <1>1, FenceStep, OperationsStep DEF RollbackInv
  <2>2. Passed'
    BY <1>1, <2>1, PrintedStep, CommandStep DEF Passed, ClearUpTo
  <2>3. RollbackComplete'
    BY <1>1, <2>1, CommandStep DEF RollbackComplete, Clear
  <2> QED
    BY <2>1, <2>2, <2>3 DEF RollbackInv
<1>2. RollbackInv => RollbackComplete
  BY DEF RollbackInv
<1> QED
  BY <1>1, <1>2, RollbackStart, PTL DEF WriteFenceSpec

-----------------------------------------------------------------------------
(* Uploads. *)

\* A call has a file exactly while it is at work.
CallsNamed ==
    \A c \in UploadCalls :
       IF At(c, "idle") THEN call[c].file = NoFile ELSE call[c].file \in Files

\* Only the documents of logs and machines have a deletion to commit.
CommitsDelete ==
    \A c \in UploadCalls : At(c, "commit") => kind \in {"log", "document"}

\* Two calls met on a file that has two.
OneCallEach ==
    \A f \in Files \ torn, c, d \in UploadCalls : BusyWith(c, f) /\ BusyWith(d, f) => c = d

\* A file that is attached has no call but one that deletes it.
AttachedAtRest ==
    \A f \in AttachedFiles \ torn, c \in UploadCalls : BusyWith(c, f) => At(c, "commit")

\* What a call measured is what is under the final key.
SizesTrue ==
    \A f \in Files \ torn, c \in UploadCalls : BusyWith(c, f) =>
       /\ At(c, "attach") => Accepted(call[c].size) /\ call[c].size = final[f]
       /\ At(c, "validate") /\ kind \in {"photo", "image"} => call[c].size = final[f]

ChargedIfAttached == \A f \in Files : file[f] # "attached" => recorded[f] = 0

OneImage == kind = "image" => \A f, g \in AttachedFiles : f = g

CallsInv == CallsNamed /\ CommitsDelete /\ OneCallEach /\ AttachedAtRest /\ SizesTrue

UploadsInv ==
    /\ UploadsTypeOK /\ CallsInv /\ AttachedIsStored
    /\ ChargedIfAttached /\ OneImage /\ UsageExplained

UploadCall == [file : Files \union {NoFile}, at : UploadSteps, size : ObjectSizes]

LEMMA SizesAreNumbers ==
    ASSUME UploadsTypeOK
    PROVE  /\ ObjectSizes \subseteq Nat /\ 0 \in ObjectSizes /\ used \in Nat
           /\ MaxBytes[kind] \in Nat \ {0} /\ StorageLimit \in Nat
           /\ recorded \in [Files -> Nat]
<1>1. MaxBytes[kind] \in Nat \ {0} /\ StorageLimit \in Nat
  BY UploadsAssumption DEF UploadsAssumption, UploadsTypeOK
<1>2. ObjectSizes \subseteq Nat /\ 0 \in ObjectSizes
  BY <1>1 DEF ObjectSizes
<1>3. recorded \in [Files -> ObjectSizes] /\ used \in 0..StorageLimit
  BY DEF UploadsTypeOK
<1>4. recorded \in [Files -> Nat]
  BY <1>2, <1>3
<1> QED
  BY <1>1, <1>2, <1>3, <1>4

LEMMA UploadsStart == UploadsInit => UploadsInv
<1> SUFFICES ASSUME UploadsInit PROVE UploadsInv
  OBVIOUS
<1>1. UploadsTypeOK
  <2>1. MaxBytes[kind] \in Nat \ {0} /\ StorageLimit \in Nat
    BY UploadsAssumption DEF UploadsAssumption, UploadsInit
  <2>2. 0 \in ObjectSizes /\ "idle" \in UploadSteps /\ 0 \in 0..StorageLimit
    BY <2>1 DEF ObjectSizes, UploadSteps
  <2> QED
    BY <2>2 DEF UploadsInit, UploadsTypeOK, NoCall
<1>2. CallsInv
  BY UploadsAssumption
     DEF UploadsAssumption, UploadsInit, CallsInv, CallsNamed, CommitsDelete, OneCallEach,
         AttachedAtRest, AttachedFiles, SizesTrue, BusyWith, At, NoCall
<1>3. AttachedFiles = {}
  BY DEF UploadsInit, AttachedFiles
<1>4. AttachedIsStored /\ ChargedIfAttached /\ OneImage
  BY <1>3 DEF UploadsInit, AttachedIsStored, ChargedIfAttached, OneImage
<1>5. UsageExplained
  <2>1. BytesCharged = {}
    BY DEF BytesCharged, UploadsInit
  <2> QED
    BY <2>1, FS_EmptySet DEF UsageExplained, UploadsInit
<1> QED
  BY <1>1, <1>2, <1>4, <1>5 DEF UploadsInv

LEMMA UploadsRest ==
    ASSUME UploadsInv, UNCHANGED <<kind, final, file, recorded, used, call, torn>>,
           staging' \in [Files -> ObjectSizes]
    PROVE  UploadsInv'
<1>1. UploadsTypeOK'
  BY DEF UploadsInv, UploadsTypeOK, ObjectSizes
<1> QED
  BY <1>1
     DEF UploadsInv, CallsInv, CallsNamed, CommitsDelete, OneCallEach, AttachedAtRest, SizesTrue,
         BusyWith, At, Accepted, AttachedIsStored, AttachedFiles, BeingDeleted,
         ChargedIfAttached, OneImage, UsageExplained, BytesCharged

-----------------------------------------------------------------------------
(* A call on its way. *)

CallBecomes(c, to) == call' = [call EXCEPT ![c] = to]

\* The objects of one file may change, of the others none does.
OnlyTouches(f) ==
    /\ staging' \in [Files -> ObjectSizes] /\ final' \in [Files -> ObjectSizes]
    /\ \A g \in Files \ {f} : final'[g] = final[g]

\* What the call is to attach or to check is what it measured.
Measured(f, to) ==
    /\ to.at = "attach" => Accepted(to.size) /\ to.size = final'[f]
    /\ to.at = "validate" /\ kind \in {"photo", "image"} => to.size = final'[f]

\* A call goes on or leaves; if it dies before the commit of a deletion, the
\* file is torn.
LEMMA CallGoes ==
    ASSUME UploadsInv, NEW c \in UploadCalls, NEW f \in Files, NEW to,
           BusyWith(c, f), CallBecomes(c, to), to \in UploadCall,
           to = NoCall \/ (to.file = f /\ to.at \notin {"idle", "commit"}),
           torn' \in {torn, torn \union {f}},
           At(c, "commit") => to = NoCall /\ f \in torn',
           UNCHANGED <<kind, file, recorded, used>>,
           OnlyTouches(f), f \notin torn' => Measured(f, to)
    PROVE  UploadsInv'
<1>1. UploadsTypeOK'
  BY DEF UploadsInv, UploadsTypeOK, ObjectSizes, CallBecomes, OnlyTouches, UploadCall
<1>2. /\ call'[c] = to /\ \A d \in UploadCalls \ {c} : call'[d] = call[d]
      /\ torn \subseteq torn' /\ \A g \in Files \ {f} : g \in torn' <=> g \in torn
      /\ NoCall.file = NoFile /\ NoCall.at = "idle" /\ NoFile \notin Files
  BY UploadsAssumption DEF UploadsAssumption, UploadsInv, UploadsTypeOK, CallBecomes, NoCall
<1>3. f \in AttachedFiles => f \in torn'
  BY <1>2 DEF UploadsInv, CallsInv, AttachedAtRest
<1>4. CallsNamed' /\ CommitsDelete' /\ OneCallEach'
  BY <1>2 DEF UploadsInv, CallsInv, CallsNamed, CommitsDelete, OneCallEach, BusyWith, At
<1>5. AttachedAtRest'
  BY <1>2, <1>3 DEF UploadsInv, CallsInv, AttachedAtRest, AttachedFiles, BusyWith, At
<1>6. SizesTrue'
  <2> SUFFICES ASSUME NEW g \in Files \ torn', NEW d \in UploadCalls, BusyWith(d, g)'
               PROVE  (/\ At(d, "attach") => Accepted(call[d].size) /\ call[d].size = final[g]
                       /\ At(d, "validate") /\ kind \in {"photo", "image"}
                             => call[d].size = final[g])'
    BY DEF SizesTrue
  <2>1. CASE d = c
    <3>1. to # NoCall /\ g = f
      BY <1>2, <2>1 DEF BusyWith
    <3> QED
      BY <1>2, <2>1, <3>1 DEF Measured, At, Accepted
  <2>2. CASE d # c
    <3>1. g \notin torn /\ BusyWith(d, g)
      BY <1>2, <2>2 DEF BusyWith
    <3>2. g # f
      BY <2>2, <3>1 DEF UploadsInv, CallsInv, OneCallEach
    <3> QED
      BY <1>2, <2>2, <3>1, <3>2
         DEF UploadsInv, CallsInv, SizesTrue, OnlyTouches, At, Accepted
  <2> QED
    BY <2>1, <2>2
<1>7. AttachedIsStored'
  <2> SUFFICES ASSUME NEW g \in AttachedFiles', g \notin torn', ~BeingDeleted(g)'
               PROVE  Accepted(final[g])' /\ final'[g] = recorded'[g]
    BY DEF AttachedIsStored
  <2>1. g \in AttachedFiles /\ g \in Files /\ g # f /\ g \notin torn
    BY <1>2, <1>3 DEF AttachedFiles
  <2>2. ~BeingDeleted(g)
    BY <1>2, <2>1 DEF BeingDeleted, BusyWith, At
  <2> QED
    BY <2>1, <2>2 DEF UploadsInv, AttachedIsStored, OnlyTouches, Accepted
<1>8. ChargedIfAttached' /\ OneImage'
  BY DEF UploadsInv, ChargedIfAttached, OneImage, AttachedFiles
<1>9. UsageExplained'
  BY <1>2 DEF UploadsInv, UsageExplained, BytesCharged
<1> QED
  BY <1>1, <1>4, <1>5, <1>6, <1>7, <1>8, <1>9 DEF UploadsInv, CallsInv

LEMMA DeletedTypes ==
    ASSUME UploadsTypeOK, NEW f \in Files
    PROVE  /\ \A g \in Deleted(staging, f) : g \in [Files -> ObjectSizes]
           /\ \A g \in Deleted(final, f) :
                 g \in [Files -> ObjectSizes] /\ \A h \in Files \ {f} : g[h] = final[h]
<1>1. 0 \in ObjectSizes
  BY SizesAreNumbers
<1> QED
  BY <1>1 DEF UploadsTypeOK, Deleted

\* A call that is at work has a file.
LEMMA CallHasFile ==
    ASSUME UploadsInv, NEW c \in UploadCalls, ~At(c, "idle")
    PROVE  call[c].file \in Files /\ BusyWith(c, call[c].file) /\ call[c] \in UploadCall
BY DEF UploadsInv, CallsInv, CallsNamed, UploadsTypeOK, BusyWith, UploadCall

\* A call goes to another step of its work.
LEMMA CallSteps ==
    ASSUME UploadsInv, NEW c \in UploadCalls, ~At(c, "idle"), ~At(c, "commit"),
           NEW step \in UploadSteps \ {"idle", "commit"}, NEW size \in ObjectSizes,
           GotoWith(c, step, size) \/ (Goto(c, step) /\ size = call[c].size),
           UNCHANGED fileRecords, OnlyTouches(call[c].file),
           call[c].file \notin torn =>
              /\ step = "attach" => Accepted(size) /\ size = final'[call[c].file]
              /\ step = "validate" /\ kind \in {"photo", "image"} => size = final'[call[c].file]
    PROVE  UploadsInv'
<1>1. PICK f \in Files : f = call[c].file
  BY CallHasFile
<1>2. PICK to : to = [file |-> f, at |-> step, size |-> size]
  OBVIOUS
<1>3. CallBecomes(c, to)
  <2>1. call[c] = [file |-> f, at |-> call[c].at, size |-> call[c].size]
    BY <1>1, CallHasFile DEF UploadCall
  <2> QED
    BY <1>2, <2>1 DEF CallBecomes, Goto, GotoWith, UploadsInv, UploadsTypeOK
<1>4. to \in UploadCall /\ to.file = f /\ to.at \notin {"idle", "commit"} /\ to.size = size
  BY <1>2 DEF UploadCall
<1>5. Measured(f, to) \/ f \in torn'
  BY <1>1, <1>2 DEF Measured, fileRecords
<1> QED
  BY <1>1, <1>3, <1>4, <1>5, CallGoes, CallHasFile DEF fileRecords

\* A call leaves.
LEMMA CallLeaves ==
    ASSUME UploadsInv, NEW c \in UploadCalls, ~At(c, "idle"), Leave(c),
           UNCHANGED <<kind, file, recorded, used>>, OnlyTouches(call[c].file),
           torn' = IF At(c, "commit") THEN torn \union {call[c].file} ELSE torn
    PROVE  UploadsInv'
<1>1. PICK f \in Files : f = call[c].file
  BY CallHasFile
<1>2. PICK to : to = NoCall
  OBVIOUS
<1>3. to \in UploadCall /\ Measured(f, to)
  <2>1. 0 \in ObjectSizes
    BY SizesAreNumbers DEF UploadsInv
  <2> QED
    BY <1>2, <2>1 DEF NoCall, UploadCall, UploadSteps, Measured
<1> QED
  BY <1>1, <1>2, <1>3, CallGoes, CallHasFile DEF CallBecomes, Leave

LEMMA StoreSteps ==
    ASSUME UploadsInv, NEW c \in UploadCalls,
           \/ head_final(c) \/ head_staging(c) \/ copy_object(c) \/ delete_staging(c)
           \/ recheck(c) \/ validate_object(c) \/ refused(c)
    PROVE  UploadsInv'
<1>0. PICK f \in Files \cup {NoFile} : f = call[c].file
  BY DEF UploadsInv, UploadsTypeOK
<1>1. ~At(c, "idle") /\ ~At(c, "commit")
  BY DEF head_final, head_staging, copy_object, delete_staging, recheck, validate_object,
         refused, At
<1>2. f \in Files /\ BusyWith(c, f)
  BY <1>0, <1>1, CallHasFile
<1>3. /\ UploadsTypeOK /\ 0 \in ObjectSizes
      /\ staging \in [Files -> ObjectSizes] /\ final \in [Files -> ObjectSizes]
      /\ call[c].size \in ObjectSizes
  BY SizesAreNumbers DEF UploadsInv, UploadsTypeOK
<1>4. /\ \A g \in Deleted(staging, f) : g \in [Files -> ObjectSizes]
      /\ \A g \in Deleted(final, f) :
            g \in [Files -> ObjectSizes] /\ \A h \in Files \ {f} : g[h] = final[h]
  BY <1>2, <1>3, DeletedTypes
<1>5. CASE head_final(c)
  <2>1. CASE final[f] # 0
    <3>1. PICK size \in ObjectSizes : size = final[f]
      BY <1>2, <1>3
    <3>2. GotoWith(c, "validate", size) /\ UNCHANGED <<fileRecords, final>> /\ OnlyTouches(f)
      BY <1>0, <1>3, <1>4, <1>5, <2>1, <3>1 DEF head_final, OnlyTouches
    <3> QED
      BY <1>0, <1>1, <3>1, <3>2, CallSteps DEF UploadSteps
  <2>2. CASE final[f] = 0
    <3>1. Goto(c, "source") /\ UNCHANGED <<fileRecords, final, staging>> /\ OnlyTouches(f)
      BY <1>0, <1>3, <1>5, <2>2 DEF head_final, OnlyTouches
    <3>2. PICK size \in ObjectSizes : size = call[c].size
      BY <1>3
    <3> QED
      BY <1>0, <1>1, <3>1, <3>2, CallSteps DEF UploadSteps
  <2> QED
    BY <2>1, <2>2
<1>6. CASE head_staging(c)
  <2>1. PICK step \in {"copy", "failed"} : Goto(c, step)
    BY <1>6 DEF head_staging
  <2>2. UNCHANGED fileRecords /\ OnlyTouches(f)
    BY <1>3, <1>6 DEF head_staging, OnlyTouches
  <2>3. PICK size \in ObjectSizes : size = call[c].size
    BY <1>3
  <2> QED
    BY <1>0, <1>1, <2>1, <2>2, <2>3, CallSteps DEF UploadSteps
<1>7. CASE copy_object(c)
  <2>1. PICK step \in {"sweep", "failed"} : Goto(c, step)
    BY <1>7 DEF copy_object
  <2>2. UNCHANGED fileRecords /\ OnlyTouches(f)
    BY <1>0, <1>2, <1>3, <1>7 DEF copy_object, OnlyTouches
  <2>3. PICK size \in ObjectSizes : size = call[c].size
    BY <1>3
  <2> QED
    BY <1>0, <1>1, <2>1, <2>2, <2>3, CallSteps DEF UploadSteps
<1>8. CASE delete_staging(c)
  <2>1. PICK step \in {"validate", "recheck"} :
           Goto(c, step) /\ (step = "validate" => kind = "log")
    BY <1>8 DEF delete_staging
  <2>2. UNCHANGED fileRecords /\ OnlyTouches(f)
    BY <1>0, <1>3, <1>4, <1>8 DEF delete_staging, OnlyTouches
  <2>3. PICK size \in ObjectSizes : size = call[c].size
    BY <1>3
  <2> QED
    BY <1>0, <1>1, <2>1, <2>2, <2>3, CallSteps DEF UploadSteps
<1>9. CASE recheck(c)
  <2>1. CASE Accepted(final[f])
    <3>1. PICK size \in ObjectSizes : size = final[f]
      BY <1>2, <1>3
    <3>2. GotoWith(c, "validate", size) /\ UNCHANGED <<fileRecords, final>> /\ OnlyTouches(f)
      BY <1>0, <1>3, <1>9, <2>1, <3>1 DEF recheck, OnlyTouches
    <3> QED
      BY <1>0, <1>1, <3>1, <3>2, CallSteps DEF UploadSteps
  <2>2. CASE ~Accepted(final[f])
    <3>1. Goto(c, "failed") /\ UNCHANGED fileRecords /\ OnlyTouches(f)
      BY <1>0, <1>3, <1>4, <1>9, <2>2 DEF recheck, OnlyTouches
    <3>2. PICK size \in ObjectSizes : size = call[c].size
      BY <1>3
    <3> QED
      BY <1>0, <1>1, <3>1, <3>2, CallSteps DEF UploadSteps
  <2> QED
    BY <2>1, <2>2
<1>10. CASE validate_object(c)
  <2>1. UNCHANGED <<fileRecords, final>> /\ OnlyTouches(f)
    BY <1>3, <1>10 DEF validate_object, OnlyTouches
  <2>2. CASE GotoWith(c, "failed", 0)
    BY <1>0, <1>1, <1>3, <2>1, <2>2, CallSteps DEF UploadSteps
  <2>3. CASE ~GotoWith(c, "failed", 0)
    <3>1. PICK size \in ObjectSizes :
             size = IF kind \in {"photo", "image"} THEN call[c].size ELSE final[f]
      BY <1>2, <1>3
    <3>2. At(c, "validate") /\ Accepted(size) /\ GotoWith(c, "attach", size)
      BY <1>0, <1>10, <2>3, <3>1 DEF validate_object
    <3>3. f \notin torn => size = final'[f]
      BY <1>2, <2>1, <3>1, <3>2 DEF UploadsInv, CallsInv, SizesTrue
    <3> QED
      BY <1>0, <1>1, <2>1, <3>2, <3>3, CallSteps DEF UploadSteps
  <2> QED
    BY <2>2, <2>3
<1>11. CASE refused(c)
  <2>1. GotoWith(c, "failed", 0) /\ UNCHANGED fileRecords /\ OnlyTouches(f)
    BY <1>3, <1>11 DEF refused, OnlyTouches
  <2> QED
    BY <1>0, <1>1, <1>3, <2>1, CallSteps DEF UploadSteps
<1> QED
  BY <1>5, <1>6, <1>7, <1>8, <1>9, <1>10, <1>11

LEMMA LeavingSteps ==
    ASSUME UploadsInv, NEW c \in UploadCalls,
           failed(c) \/ cleanup_upload(c) \/ dispose(c) \/ dies(c)
    PROVE  UploadsInv'
<1>0. PICK f \in Files \cup {NoFile} : f = call[c].file
  BY DEF UploadsInv, UploadsTypeOK
<1>1. ~At(c, "idle") /\ (At(c, "commit") => dies(c))
  BY DEF failed, cleanup_upload, dispose, dies, At
<1>2. f \in Files
  BY <1>0, <1>1, CallHasFile
<1>3. /\ UploadsTypeOK /\ staging \in [Files -> ObjectSizes] /\ final \in [Files -> ObjectSizes]
      /\ call[c].size \in ObjectSizes
  BY DEF UploadsInv, UploadsTypeOK
<1>4. /\ \A g \in Deleted(staging, f) : g \in [Files -> ObjectSizes]
      /\ \A g \in Deleted(final, f) :
            g \in [Files -> ObjectSizes] /\ \A h \in Files \ {f} : g[h] = final[h]
  BY <1>2, <1>3, DeletedTypes
<1>5. UNCHANGED <<kind, file, recorded, used>> /\ OnlyTouches(f)
  BY <1>0, <1>3, <1>4 DEF failed, cleanup_upload, dispose, dies, OnlyTouches, fileRecords
<1>6. torn' = IF At(c, "commit") THEN torn \union {f} ELSE torn
  BY <1>0, <1>1 DEF failed, cleanup_upload, dispose, dies, fileRecords, At
<1>7. CASE Leave(c)
  BY <1>0, <1>1, <1>5, <1>6, <1>7, CallLeaves
<1>8. CASE ~Leave(c)
  <2>1. ~At(c, "commit")
    BY <1>1, <1>8 DEF dies
  <2>2. PICK step \in {"cleanup", "cleanup_staging"} : Goto(c, step)
    BY <1>8 DEF failed, cleanup_upload, dispose, dies
  <2>3. PICK size \in ObjectSizes : size = call[c].size
    BY <1>3
  <2>4. UNCHANGED fileRecords
    BY <1>5, <1>6, <2>1 DEF fileRecords
  <2> QED
    BY <1>0, <1>1, <1>5, <2>1, <2>2, <2>3, <2>4, CallSteps DEF UploadSteps
<1> QED
  BY <1>7, <1>8

-----------------------------------------------------------------------------
(* Records and the bytes they are charged with. *)

LEMMA BytesArePieces ==
    ASSUME UploadsTypeOK, kind \in Metered
    PROVE  BytesCharged = PieceSet(recorded)
BY DEF BytesCharged, PieceSet, UploadsTypeOK

LEMMA ZeroAtLeast ==
    ASSUME NEW n \in Int
    PROVE  Max({n, 0}) = IF n >= 0 THEN n ELSE 0
BY DEF Max

\* Bytes that are freed stay within the limit.
LEMMA FreeBounds ==
    ASSUME UploadsTypeOK, NEW bytes \in 0..StorageLimit, NEW size \in Nat
    PROVE  /\ FreeStorage(bytes, size) \in 0..StorageLimit
           /\ kind \in Metered /\ size <= bytes => FreeStorage(bytes, size) = bytes - size
<1>1. StorageLimit \in Nat /\ bytes - size \in Int
  BY SizesAreNumbers
<1>2. Max({bytes - size, 0}) = IF bytes - size >= 0 THEN bytes - size ELSE 0
  BY <1>1, ZeroAtLeast
<1> QED
  BY <1>1, <1>2 DEF FreeStorage

\* The charge of one file: the sum with it and without it.
LEMMA ChargeChanges ==
    ASSUME UploadsTypeOK, NEW f \in Files, NEW size \in Nat
    PROVE  /\ Cardinality(PieceSet(recorded)) \in Nat
           /\ recorded[f] <= Cardinality(PieceSet(recorded))
           /\ Cardinality(PieceSet([recorded EXCEPT ![f] = size]))
                 = Cardinality(PieceSet(recorded)) - recorded[f] + size
<1>1. recorded \in [Files -> Nat] /\ IsFiniteSet(Files)
  BY SizesAreNumbers, UploadsAssumption DEF UploadsAssumption
<1>2. Cardinality(PieceSet(recorded)) \in Nat
  BY <1>1, PiecesFinite, FS_CardinalityType
<1>3. ASSUME NEW n \in Nat
      PROVE  /\ Cardinality(PieceSet([recorded EXCEPT ![f] = n])) \in Nat
             /\ Cardinality(PieceSet([recorded EXCEPT ![f] = n]))
                   = Cardinality(PieceSet(recorded)) - recorded[f] + n
  <2> DEFINE to == [recorded EXCEPT ![f] = n]
  <2>1. to \in [Files -> Nat] /\ to[f] = n /\ \A x \in Files : x # f => to[x] = recorded[x]
    BY <1>1
  <2> HIDE DEF to
  <2>2. Cardinality(PieceSet(to)) = Cardinality(PieceSet(recorded)) - recorded[f] + to[f]
    BY <1>1, <2>1, OnePieceChanges
  <2>3. Cardinality(PieceSet(to)) \in Nat
    BY <1>1, <2>1, PiecesFinite, FS_CardinalityType
  <2> QED
    BY <2>1, <2>2, <2>3 DEF to
<1>4. recorded[f] \in Nat /\ 0 \in Nat
  BY <1>1
<1>5. /\ Cardinality(PieceSet([recorded EXCEPT ![f] = 0])) \in Nat
      /\ Cardinality(PieceSet([recorded EXCEPT ![f] = 0]))
            = Cardinality(PieceSet(recorded)) - recorded[f] + 0
  BY <1>3
<1>6. recorded[f] <= Cardinality(PieceSet(recorded))
  BY <1>2, <1>4, <1>5
<1> QED
  BY <1>2, <1>3, <1>6

\* What is known when the charge is to be explained.
LEMMA Explained ==
    ASSUME UploadsInv, kind = "image" => torn = {}
    PROVE  IF kind \in Metered THEN used = Cardinality(PieceSet(recorded)) ELSE used = 0
<1>1. used = Cardinality(BytesCharged)
  BY DEF UploadsInv, UsageExplained
<1>2. CASE kind \in Metered
  BY <1>1, <1>2, BytesArePieces DEF UploadsInv
<1>3. CASE kind \notin Metered
  BY <1>1, <1>3, FS_EmptySet DEF BytesCharged
<1> QED
  BY <1>2, <1>3

\* A record that goes gives back what it was charged with.
LEMMA FreedExplained ==
    ASSUME UploadsInv, NEW f \in Files, NEW size \in Nat, UploadsTypeOK', kind' = kind,
           torn \subseteq torn', recorded' = [recorded EXCEPT ![f] = 0],
           used' = FreeStorage(used, size),
           (kind = "image" => torn = {}) => size = recorded[f]
    PROVE  UsageExplained'
<1> SUFFICES ASSUME kind = "image" => torn' = {}
             PROVE  used' = Cardinality(BytesCharged')
  BY DEF UsageExplained
<1>1. UploadsTypeOK /\ (kind = "image" => torn = {}) /\ used \in 0..StorageLimit
  BY DEF UploadsInv, UploadsTypeOK
<1>2. CASE kind \in Metered
  <2>1. used = Cardinality(PieceSet(recorded)) /\ size = recorded[f]
    BY <1>1, <1>2, Explained
  <2>2. /\ Cardinality(PieceSet(recorded)) \in Nat /\ size <= used
        /\ Cardinality(PieceSet(recorded')) = used - size + 0
    BY <1>1, <2>1, ChargeChanges
  <2>3. used' = used - size
    BY <1>1, <1>2, <2>2, FreeBounds
  <2>4. BytesCharged' = PieceSet(recorded')
    BY <1>2 DEF BytesCharged, PieceSet, UploadsTypeOK
  <2> QED
    BY <2>1, <2>2, <2>3, <2>4
<1>3. CASE kind \notin Metered
  <2>1. used = 0
    BY <1>1, <1>3, Explained
  <2> QED
    BY <1>3, <2>1, FS_EmptySet DEF FreeStorage, BytesCharged, Metered
<1> QED
  BY <1>2, <1>3

\* A call enters: what becomes of the calls.
LEMMA CallEnters ==
    ASSUME UploadsInv, NEW c \in UploadCalls, NEW f \in Files,
           NEW step \in UploadSteps \ {"idle"}, Enter(c, f, step), kind' = kind
    PROVE  /\ call' \in [UploadCalls -> UploadCall]
           /\ call'[c] = [file |-> f, at |-> step, size |-> 0]
           /\ \A d \in UploadCalls \ {c} : call'[d] = call[d]
           /\ call[c].file \notin Files /\ call[c].at = "idle"
           /\ torn' \subseteq Files /\ torn \subseteq torn' /\ torn' \subseteq torn \union {f}
           /\ f \notin torn' => \A d \in UploadCalls : call[d].file # f
           /\ CallsNamed' /\ OneCallEach'
<1>1. 0 \in ObjectSizes
  BY SizesAreNumbers DEF UploadsInv
<1>2. /\ call' \in [UploadCalls -> UploadCall]
      /\ call'[c] = [file |-> f, at |-> step, size |-> 0]
      /\ \A d \in UploadCalls \ {c} : call'[d] = call[d]
  BY <1>1 DEF Enter, UploadsInv, UploadsTypeOK, UploadCall
<1>3. call[c].file \notin Files /\ call[c].at = "idle"
  BY UploadsAssumption DEF UploadsAssumption, UploadsInv, CallsInv, CallsNamed, Enter, At
<1>4. /\ torn' \subseteq Files /\ torn \subseteq torn' /\ torn' \subseteq torn \union {f}
      /\ f \notin torn' => \A d \in UploadCalls : call[d].file # f
  BY DEF Enter, BusyWith, UploadsInv, UploadsTypeOK
<1>5. CallsNamed'
  BY <1>2 DEF UploadsInv, CallsInv, CallsNamed, At
<1>6. OneCallEach'
  BY <1>2, <1>4 DEF UploadsInv, CallsInv, OneCallEach, BusyWith
<1> QED
  BY <1>2, <1>3, <1>4, <1>5, <1>6

\* A call begins on a file that is not attached, or no longer.
LEMMA BeginsKeep ==
    ASSUME UploadsInv, NEW c \in UploadCalls, NEW f \in Files,
           NEW step \in {"head", "cleanup", "dispose"}, Enter(c, f, step), kind' = kind,
           file' \in [Files -> {"none", "staged", "attached", "deleted"}],
           file'[f] # "attached", \A g \in Files \ {f} : file'[g] = file[g],
           recorded' = [recorded EXCEPT ![f] = 0],
           UNCHANGED <<staging, final>>, used' \in 0..StorageLimit, UsageExplained'
    PROVE  UploadsInv'
<1>1. /\ call' \in [UploadCalls -> UploadCall]
      /\ call'[c] = [file |-> f, at |-> step, size |-> 0]
      /\ \A d \in UploadCalls \ {c} : call'[d] = call[d]
      /\ call[c].file \notin Files /\ call[c].at = "idle"
      /\ torn' \subseteq Files /\ torn \subseteq torn' /\ torn' \subseteq torn \union {f}
      /\ f \notin torn' => \A d \in UploadCalls : call[d].file # f
      /\ CallsNamed' /\ OneCallEach'
  BY CallEnters DEF UploadSteps
<1>2. 0 \in ObjectSizes
  BY SizesAreNumbers DEF UploadsInv
<1>3. UploadsTypeOK'
  BY <1>1, <1>2 DEF UploadsInv, UploadsTypeOK, UploadCall, ObjectSizes
<1>4. AttachedFiles' = AttachedFiles \ {f}
  BY DEF AttachedFiles
<1>5. CommitsDelete'
  BY <1>1 DEF UploadsInv, CallsInv, CommitsDelete, At
<1>6. AttachedAtRest'
  BY <1>1, <1>4 DEF UploadsInv, CallsInv, AttachedAtRest, BusyWith, At, AttachedFiles
<1>7. SizesTrue'
  BY <1>1 DEF UploadsInv, CallsInv, SizesTrue, BusyWith, At, Accepted
<1>8. AttachedIsStored'
  <2> SUFFICES ASSUME NEW g \in AttachedFiles', g \notin torn', ~BeingDeleted(g)'
               PROVE  (Accepted(final[g]) /\ final[g] = recorded[g])'
    BY DEF AttachedIsStored
  <2>1. g \in AttachedFiles /\ g \in Files /\ g # f /\ g \notin torn
    BY <1>1, <1>4 DEF AttachedFiles
  <2>2. ~BeingDeleted(g)
    BY <1>1, <2>1 DEF BeingDeleted, BusyWith, At
  <2>3. recorded'[g] = recorded[g]
    BY <2>1 DEF UploadsInv, UploadsTypeOK
  <2> QED
    BY <2>1, <2>2, <2>3 DEF UploadsInv, AttachedIsStored, Accepted
<1>9. ChargedIfAttached'
  BY DEF UploadsInv, UploadsTypeOK, ChargedIfAttached
<1>10. OneImage'
  BY <1>4 DEF UploadsInv, OneImage
<1> QED
  BY <1>1, <1>3, <1>5, <1>6, <1>7, <1>8, <1>9, <1>10 DEF UploadsInv, CallsInv

\* A new call on a file that is not attached charges nothing.
LEMMA BeginSteps ==
    ASSUME UploadsInv, NEW c \in UploadCalls, NEW f \in Files,
           finalize(c, f) \/ delete_staged_file(c, f)
    PROVE  UploadsInv'
<1>1. file[f] = "staged" /\ recorded \in [Files -> ObjectSizes]
      /\ file \in [Files -> {"none", "staged", "attached", "deleted"}] /\ used \in 0..StorageLimit
  BY DEF finalize, delete_staged_file, UploadsInv, UploadsTypeOK
<1>2. recorded' = [recorded EXCEPT ![f] = 0] /\ UNCHANGED <<kind, staging, final, recorded, used>>
  BY <1>1 DEF finalize, delete_staged_file, UploadsInv, ChargedIfAttached
<1>3. /\ file' \in [Files -> {"none", "staged", "attached", "deleted"}]
      /\ file'[f] # "attached" /\ \A g \in Files \ {f} : file'[g] = file[g]
  BY <1>1 DEF finalize, delete_staged_file
<1>4. PICK step \in {"head", "cleanup", "dispose"} : Enter(c, f, step)
  BY DEF finalize, delete_staged_file
<1>5. torn \subseteq torn'
  BY DEF finalize, delete_staged_file, Enter
<1>6. UsageExplained'
  BY <1>2, <1>5 DEF UploadsInv, UsageExplained, BytesCharged
<1> QED
  BY <1>1, <1>2, <1>3, <1>4, <1>6, BeginsKeep

\* The image of a space goes: with it the size that is read now.
LEMMA RemoveImageKeeps ==
    ASSUME UploadsInv, NEW c \in UploadCalls, NEW f \in Files, remove_space_image(c, f)
    PROVE  UploadsInv'
<1>1. /\ kind = "image" /\ file[f] = "attached" /\ Enter(c, f, "dispose")
      /\ file' = [file EXCEPT ![f] = "staged"] /\ recorded' = [recorded EXCEPT ![f] = 0]
      /\ UNCHANGED <<kind, staging, final>> /\ torn \subseteq torn' /\ f \in AttachedFiles
  BY DEF remove_space_image, Enter, AttachedFiles
<1>2. PICK size \in Nat : size = final[f]
  BY SizesAreNumbers DEF UploadsInv, UploadsTypeOK
<1>3. /\ UploadsTypeOK /\ used \in 0..StorageLimit /\ 0 \in ObjectSizes
      /\ recorded \in [Files -> ObjectSizes]
      /\ file \in [Files -> {"none", "staged", "attached", "deleted"}]
  BY SizesAreNumbers DEF UploadsInv, UploadsTypeOK
<1>4. used' = FreeStorage(used, size) /\ used' \in 0..StorageLimit
  BY <1>2, <1>3, FreeBounds DEF remove_space_image
<1>5. torn = {} => size = recorded[f]
  BY <1>1, <1>2 DEF UploadsInv, AttachedIsStored, CallsInv, CommitsDelete, BeingDeleted
<1>6. UploadsTypeOK'
  <2>1. call' \in [UploadCalls -> UploadCall] /\ torn' \subseteq Files
    BY <1>1, CallEnters DEF UploadSteps
  <2> QED
    BY <1>1, <1>3, <1>4, <2>1 DEF UploadsTypeOK, UploadCall, ObjectSizes
<1>7. UsageExplained'
  BY <1>1, <1>4, <1>5, <1>6, FreedExplained
<1>8. /\ file' \in [Files -> {"none", "staged", "attached", "deleted"}]
      /\ file'[f] # "attached" /\ \A g \in Files \ {f} : file'[g] = file[g]
  BY <1>1, <1>3
<1> QED
  BY <1>1, <1>4, <1>7, <1>8, BeginsKeep

\* The object goes first, the record at the commit.
LEMMA DeleteDocumentKeeps ==
    ASSUME UploadsInv, NEW c \in UploadCalls, NEW f \in Files, delete_document(c, f)
    PROVE  UploadsInv'
<1>1. /\ kind \in {"log", "document"} /\ Enter(c, f, "commit") /\ final' \in Deleted(final, f)
      /\ UNCHANGED <<kind, staging, file, recorded, used>>
  BY DEF delete_document
<1>2. /\ call' \in [UploadCalls -> UploadCall]
      /\ call'[c] = [file |-> f, at |-> "commit", size |-> 0]
      /\ \A d \in UploadCalls \ {c} : call'[d] = call[d]
      /\ call[c].file \notin Files /\ call[c].at = "idle"
      /\ torn' \subseteq Files /\ torn \subseteq torn' /\ torn' \subseteq torn \union {f}
      /\ f \notin torn' => \A d \in UploadCalls : call[d].file # f
      /\ CallsNamed' /\ OneCallEach'
  BY <1>1, CallEnters DEF UploadSteps
<1>3. final' \in [Files -> ObjectSizes] /\ \A g \in Files \ {f} : final'[g] = final[g]
  BY <1>1, DeletedTypes DEF UploadsInv
<1>4. UploadsTypeOK'
  BY <1>1, <1>2, <1>3 DEF UploadsInv, UploadsTypeOK, UploadCall, ObjectSizes
<1>5. CommitsDelete'
  BY <1>1, <1>2 DEF UploadsInv, CallsInv, CommitsDelete, At
<1>6. AttachedAtRest'
  BY <1>1, <1>2 DEF UploadsInv, CallsInv, AttachedAtRest, BusyWith, At, AttachedFiles
<1>7. SizesTrue'
  <2> SUFFICES ASSUME NEW g \in Files \ torn', NEW d \in UploadCalls, BusyWith(d, g)'
               PROVE  (/\ At(d, "attach") => Accepted(call[d].size) /\ call[d].size = final[g]
                       /\ At(d, "validate") /\ kind \in {"photo", "image"}
                             => call[d].size = final[g])'
    BY DEF SizesTrue
  <2>1. CASE d = c
    BY <1>2, <2>1 DEF At
  <2>2. CASE d # c
    <3>1. g \notin torn /\ BusyWith(d, g) /\ g # f
      BY <1>2, <2>2 DEF BusyWith
    <3> QED
      BY <1>1, <1>2, <1>3, <2>2, <3>1 DEF UploadsInv, CallsInv, SizesTrue, At, Accepted
  <2> QED
    BY <2>1, <2>2
<1>8. AttachedIsStored'
  <2> SUFFICES ASSUME NEW g \in AttachedFiles', g \notin torn', ~BeingDeleted(g)'
               PROVE  (Accepted(final[g]) /\ final[g] = recorded[g])'
    BY DEF AttachedIsStored
  <2>1. g # f
    BY <1>2 DEF BeingDeleted, BusyWith, At
  <2>2. g \in AttachedFiles /\ g \in Files /\ g \notin torn
    BY <1>1, <1>2 DEF AttachedFiles
  <2>3. ~BeingDeleted(g)
    BY <1>2, <2>2 DEF BeingDeleted, BusyWith, At
  <2> QED
    BY <1>1, <1>3, <2>1, <2>2, <2>3 DEF UploadsInv, AttachedIsStored, Accepted
<1>9. ChargedIfAttached' /\ OneImage'
  BY <1>1 DEF UploadsInv, ChargedIfAttached, OneImage, AttachedFiles
<1>10. UsageExplained'
  BY <1>1, <1>2 DEF UploadsInv, UsageExplained, BytesCharged
<1> QED
  BY <1>2, <1>4, <1>5, <1>6, <1>7, <1>8, <1>9, <1>10 DEF UploadsInv, CallsInv

\* A call ends that changes records: what becomes of the calls.
LEMMA LeaverGone ==
    ASSUME UploadsInv, NEW c \in UploadCalls, NEW f \in Files, BusyWith(c, f), Leave(c),
           UNCHANGED <<kind, torn>>
    PROVE  /\ call' \in [UploadCalls -> UploadCall]
           /\ \A g \in Files, d \in UploadCalls :
                 BusyWith(d, g)' => BusyWith(d, g) /\ call'[d] = call[d] /\ (g \notin torn => g # f)
           /\ CallsNamed' /\ OneCallEach' /\ CommitsDelete'
<1>1. 0 \in ObjectSizes
  BY SizesAreNumbers DEF UploadsInv
<1>2. /\ call' \in [UploadCalls -> UploadCall] /\ call'[c] = NoCall
      /\ \A d \in UploadCalls \ {c} : call'[d] = call[d]
      /\ NoCall.file = NoFile /\ NoCall.at = "idle" /\ NoFile \notin Files
  BY <1>1, UploadsAssumption
     DEF UploadsAssumption, Leave, NoCall, UploadsInv, UploadsTypeOK, UploadCall, UploadSteps
<1>3. \A g \in Files, d \in UploadCalls :
         BusyWith(d, g)' => BusyWith(d, g) /\ d # c /\ (g \notin torn => g # f)
  BY <1>2 DEF UploadsInv, CallsInv, OneCallEach, BusyWith
<1>4. CallsNamed' /\ OneCallEach' /\ CommitsDelete'
  BY <1>2 DEF UploadsInv, CallsInv, CallsNamed, OneCallEach, CommitsDelete, BusyWith, At
<1> QED
  BY <1>2, <1>3, <1>4

\* The record goes with its charge.
LEMMA DeleteCommitKeeps ==
    ASSUME UploadsInv, NEW c \in UploadCalls, delete_document_commit(c)
    PROVE  UploadsInv'
<1>1. PICK f \in Files : f = call[c].file
  BY CallHasFile DEF delete_document_commit, At
<1>2. /\ BusyWith(c, f) /\ Leave(c) /\ kind \in {"log", "document"}
      /\ file' = [file EXCEPT ![f] = "staged"] /\ used' = FreeStorage(used, recorded[f])
      /\ recorded' = [recorded EXCEPT ![f] = 0] /\ UNCHANGED <<kind, staging, final, torn>>
  BY <1>1 DEF delete_document_commit, BusyWith, UploadsInv, CallsInv, CommitsDelete
<1>3. /\ call' \in [UploadCalls -> UploadCall]
      /\ \A g \in Files, d \in UploadCalls :
            BusyWith(d, g)' => BusyWith(d, g) /\ call'[d] = call[d] /\ (g \notin torn => g # f)
      /\ CallsNamed' /\ OneCallEach' /\ CommitsDelete'
  BY <1>2, LeaverGone
<1>4. /\ UploadsTypeOK /\ used \in 0..StorageLimit /\ 0 \in ObjectSizes
      /\ recorded \in [Files -> ObjectSizes] /\ recorded \in [Files -> Nat]
      /\ file \in [Files -> {"none", "staged", "attached", "deleted"}]
  BY SizesAreNumbers DEF UploadsInv, UploadsTypeOK
<1>5. PICK size \in Nat : size = recorded[f]
  BY <1>4
<1>6. used' = FreeStorage(used, size) /\ used' \in 0..StorageLimit
  BY <1>2, <1>4, <1>5, FreeBounds
<1>7. UploadsTypeOK'
  BY <1>2, <1>3, <1>4, <1>6 DEF UploadsTypeOK, UploadCall, ObjectSizes
<1>8. AttachedFiles' = AttachedFiles \ {f}
  BY <1>2, <1>4 DEF AttachedFiles
<1>9. AttachedAtRest' /\ SizesTrue'
  <2>1. AttachedAtRest'
    BY <1>2, <1>3, <1>8 DEF UploadsInv, CallsInv, AttachedAtRest, At, AttachedFiles
  <2>2. SizesTrue'
    BY <1>2, <1>3 DEF UploadsInv, CallsInv, SizesTrue, At, Accepted
  <2> QED
    BY <2>1, <2>2
<1>10. AttachedIsStored'
  <2> SUFFICES ASSUME NEW g \in AttachedFiles', g \notin torn', ~BeingDeleted(g)'
               PROVE  (Accepted(final[g]) /\ final[g] = recorded[g])'
    BY DEF AttachedIsStored
  <2>1. g # f /\ g \in AttachedFiles /\ g \in Files /\ g \notin torn
    BY <1>2, <1>8 DEF AttachedFiles
  <2>2. ~BeingDeleted(g)
    <3>1. \A d \in UploadCalls \ {c} : call'[d] = call[d]
      BY <1>2 DEF Leave, UploadsInv, UploadsTypeOK
    <3> QED
      BY <1>2, <2>1, <3>1 DEF BeingDeleted, BusyWith, At
  <2>3. recorded'[g] = recorded[g]
    BY <1>2, <1>4, <2>1
  <2> QED
    BY <1>2, <2>1, <2>2, <2>3 DEF UploadsInv, AttachedIsStored, Accepted
<1>11. ChargedIfAttached' /\ OneImage'
  BY <1>2, <1>4, <1>8 DEF UploadsInv, ChargedIfAttached, OneImage
<1>12. UsageExplained'
  BY <1>2, <1>5, <1>6, <1>7, FreedExplained
<1> QED
  BY <1>3, <1>7, <1>9, <1>10, <1>11, <1>12 DEF UploadsInv, CallsInv

\* The first file, or the next, of a record that keeps those it has.
LEMMA AttachKeeps ==
    ASSUME UploadsInv, NEW c \in UploadCalls, attach(c), Former(call[c].file) = {}
    PROVE  UploadsInv'
<1>1. PICK f \in Files : f = call[c].file
  BY CallHasFile DEF attach, At
<1>2. PICK size \in ObjectSizes : size = call[c].size
  BY DEF UploadsInv, UploadsTypeOK
<1>3. /\ UploadsTypeOK /\ used \in Nat /\ StorageLimit \in Nat /\ size \in Nat
      /\ recorded \in [Files -> ObjectSizes] /\ recorded \in [Files -> Nat]
      /\ file \in [Files -> {"none", "staged", "attached", "deleted"}]
  BY SizesAreNumbers DEF UploadsInv, UploadsTypeOK
<1>4. /\ BusyWith(c, f) /\ At(c, "attach") /\ Leave(c) /\ file[f] = "staged"
      /\ file' = [file EXCEPT ![f] = "attached"] /\ recorded' = [recorded EXCEPT ![f] = size]
      /\ used' = AddStorage(size) /\ used' <= StorageLimit
      /\ UNCHANGED <<kind, staging, final, torn>>
  BY <1>1, <1>2, <1>3 DEF attach, BusyWith, Unattached
<1>5. /\ call' \in [UploadCalls -> UploadCall]
      /\ \A g \in Files, d \in UploadCalls :
            BusyWith(d, g)' => BusyWith(d, g) /\ call'[d] = call[d] /\ (g \notin torn => g # f)
      /\ CallsNamed' /\ OneCallEach' /\ CommitsDelete'
  BY <1>4, LeaverGone
<1>6. UploadsTypeOK'
  BY <1>3, <1>4, <1>5 DEF UploadsTypeOK, UploadCall, ObjectSizes, AddStorage
<1>7. AttachedFiles' = AttachedFiles \union {f}
  BY <1>3, <1>4 DEF AttachedFiles
<1>8. AttachedAtRest'
  BY <1>4, <1>5, <1>7 DEF UploadsInv, CallsInv, AttachedAtRest, At, AttachedFiles
<1>9. SizesTrue'
  BY <1>4, <1>5 DEF UploadsInv, CallsInv, SizesTrue, At, Accepted
<1>10. AttachedIsStored'
  <2> SUFFICES ASSUME NEW g \in AttachedFiles', g \notin torn', ~BeingDeleted(g)'
               PROVE  (Accepted(final[g]) /\ final[g] = recorded[g])'
    BY DEF AttachedIsStored
  <2>1. CASE g = f
    <3>1. Accepted(size) /\ size = final[f]
      BY <1>2, <1>4, <2>1 DEF UploadsInv, CallsInv, SizesTrue
    <3> QED
      BY <1>3, <1>4, <2>1, <3>1 DEF Accepted
  <2>2. CASE g # f
    <3>1. g \in AttachedFiles /\ g \in Files /\ g \notin torn
      BY <1>4, <1>7, <2>2 DEF AttachedFiles
    <3>2. ~BeingDeleted(g)
      <4>1. \A d \in UploadCalls \ {c} : call'[d] = call[d]
        BY <1>4 DEF Leave, UploadsInv, UploadsTypeOK
      <4> QED
        BY <1>4, <2>2, <3>1, <4>1 DEF BeingDeleted, BusyWith, At
    <3>3. recorded'[g] = recorded[g]
      BY <1>3, <1>4, <2>2, <3>1
    <3> QED
      BY <1>4, <3>1, <3>2, <3>3 DEF UploadsInv, AttachedIsStored, Accepted
  <2> QED
    BY <2>1, <2>2
<1>11. ChargedIfAttached'
  BY <1>3, <1>4 DEF UploadsInv, ChargedIfAttached
<1>12. OneImage'
  BY <1>1, <1>4, <1>7 DEF OneImage, Former
<1>13. UsageExplained'
  <2> SUFFICES ASSUME kind = "image" => torn = {}
               PROVE  used' = Cardinality(BytesCharged')
    BY <1>4 DEF UsageExplained
  <2>1. CASE kind \in Metered
    <3>1. used = Cardinality(PieceSet(recorded)) /\ recorded[f] = 0
      BY <1>4, <2>1, Explained DEF UploadsInv, ChargedIfAttached
    <3>2. Cardinality(PieceSet(recorded')) = used - 0 + size
      BY <1>3, <1>4, <3>1, ChargeChanges
    <3>3. used' = used + size
      BY <1>4, <2>1 DEF AddStorage
    <3>4. BytesCharged' = PieceSet(recorded')
      BY <1>4, <1>6, <2>1 DEF BytesCharged, PieceSet, UploadsTypeOK
    <3> QED
      BY <1>3, <3>2, <3>3, <3>4
  <2>2. CASE kind \notin Metered
    <3>1. used = 0
      BY <2>2, Explained
    <3> QED
      BY <1>4, <2>2, <3>1, FS_EmptySet DEF AddStorage, BytesCharged
  <2> QED
    BY <2>1, <2>2
<1> QED
  BY <1>5, <1>6, <1>8, <1>9, <1>10, <1>11, <1>12, <1>13 DEF UploadsInv, CallsInv

\* An image takes the place, and the charge, of the one the space had.
LEMMA ReplaceKeeps ==
    ASSUME UploadsInv, NEW c \in UploadCalls, attach(c), Former(call[c].file) # {}
    PROVE  UploadsInv'
<1>1. PICK f \in Files : f = call[c].file
  BY CallHasFile DEF attach, At
<1>2. PICK size \in ObjectSizes : size = call[c].size
  BY DEF UploadsInv, UploadsTypeOK
<1>3. /\ UploadsTypeOK /\ used \in Nat /\ StorageLimit \in Nat /\ size \in Nat
      /\ 0 \in ObjectSizes /\ ObjectSizes \subseteq Nat /\ final \in [Files -> ObjectSizes]
      /\ recorded \in [Files -> ObjectSizes] /\ recorded \in [Files -> Nat]
      /\ file \in [Files -> {"none", "staged", "attached", "deleted"}]
  BY SizesAreNumbers DEF UploadsInv, UploadsTypeOK
<1>4. PICK g \in Former(f) :
         /\ used' = FreeStorage(AddStorage(size), final[g])
         /\ call' = [call EXCEPT ![c] = [file |-> g, at |-> "dispose", size |-> 0]]
  BY <1>1, <1>2 DEF attach
<1>5. kind = "image" /\ g \in Files /\ g # f /\ AttachedFiles = {g} /\ file[g] = "attached"
      /\ Former(f) = {g}
  BY <1>4 DEF Former, UploadsInv, OneImage, AttachedFiles
<1>6. /\ BusyWith(c, f) /\ At(c, "attach") /\ file[f] = "staged"
      /\ AddStorage(size) <= StorageLimit /\ UNCHANGED <<kind, staging, final, torn>>
      /\ file' = [h \in Files |-> IF h = f THEN "attached"
                                  ELSE IF h = g THEN "staged" ELSE file[h]]
      /\ recorded' = [h \in Files |-> IF h = f THEN size
                                      ELSE IF h = g THEN 0 ELSE recorded[h]]
  BY <1>1, <1>2, <1>5 DEF attach, BusyWith, Unattached
<1>7. /\ call' \in [UploadCalls -> UploadCall]
      /\ call'[c] = [file |-> g, at |-> "dispose", size |-> 0]
      /\ \A d \in UploadCalls \ {c} : call'[d] = call[d]
  BY <1>3, <1>4, <1>5 DEF UploadsTypeOK, UploadCall, UploadSteps
<1>8. \A d \in UploadCalls : ~At(d, "commit") /\ (g \notin torn => call[d].file # g)
  BY <1>5 DEF UploadsInv, CallsInv, CommitsDelete, AttachedAtRest, BusyWith
<1>9. PICK freed \in Nat : freed = final[g]
  BY <1>3, <1>5
<1>10. AddStorage(size) \in 0..StorageLimit /\ AddStorage(size) = used + size
  BY <1>3, <1>5, <1>6 DEF AddStorage, Metered, UploadKinds
<1>11. used' \in 0..StorageLimit
  BY <1>3, <1>4, <1>9, <1>10, FreeBounds
<1>12. UploadsTypeOK'
  <2>1. /\ file' \in [Files -> {"none", "staged", "attached", "deleted"}]
        /\ recorded' \in [Files -> ObjectSizes]
    BY <1>3, <1>6
  <2> QED
    BY <1>6, <1>7, <1>11, <2>1 DEF UploadsInv, UploadsTypeOK, UploadCall, ObjectSizes
<1>13. AttachedFiles' = {f}
  BY <1>5, <1>6 DEF AttachedFiles
<1>14. CallsNamed' /\ CommitsDelete' /\ OneCallEach'
  <2>1. CallsNamed' /\ CommitsDelete'
    BY <1>5, <1>6, <1>7 DEF UploadsInv, CallsInv, CallsNamed, CommitsDelete, At
  <2>2. OneCallEach'
    BY <1>5, <1>6, <1>7, <1>8 DEF UploadsInv, CallsInv, OneCallEach, BusyWith
  <2> QED
    BY <2>1, <2>2
<1>15. \A d \in UploadCalls : f \notin torn => call'[d].file # f
  BY <1>5, <1>6, <1>7 DEF UploadsInv, CallsInv, OneCallEach, BusyWith
<1>16. AttachedAtRest'
  BY <1>6, <1>13, <1>15 DEF AttachedAtRest, BusyWith
<1>17. SizesTrue'
  <2> SUFFICES ASSUME NEW h \in Files \ torn', NEW d \in UploadCalls, BusyWith(d, h)'
               PROVE  (/\ At(d, "attach") => Accepted(call[d].size) /\ call[d].size = final[h]
                       /\ At(d, "validate") /\ kind \in {"photo", "image"}
                             => call[d].size = final[h])'
    BY DEF SizesTrue
  <2>1. CASE d = c
    BY <1>7, <2>1 DEF At
  <2>2. CASE d # c
    BY <1>6, <1>7, <2>2 DEF UploadsInv, CallsInv, SizesTrue, BusyWith, At, Accepted
  <2> QED
    BY <2>1, <2>2
<1>18. AttachedIsStored'
  <2>1. f \notin torn => Accepted(size) /\ size = final[f]
    BY <1>2, <1>6 DEF UploadsInv, CallsInv, SizesTrue
  <2>2. recorded'[f] = size
    BY <1>6
  <2> QED
    BY <1>6, <1>13, <2>1, <2>2 DEF AttachedIsStored, Accepted
<1>19. ChargedIfAttached' /\ OneImage'
  BY <1>3, <1>6, <1>13 DEF UploadsInv, ChargedIfAttached, OneImage
<1>20. UsageExplained'
  <2> SUFFICES ASSUME torn = {}
               PROVE  used' = Cardinality(BytesCharged')
    BY <1>5, <1>6 DEF UsageExplained
  <2> DEFINE first == [recorded EXCEPT ![f] = size]
  <2>1. first \in [Files -> Nat] /\ recorded' \in [Files -> Nat] /\ first[g] = recorded[g]
        /\ recorded'[g] = 0 /\ \A h \in Files : h # g => recorded'[h] = first[h]
    BY <1>3, <1>5, <1>6
  <2>2. freed = recorded[g]
    BY <1>5, <1>8, <1>9 DEF UploadsInv, AttachedIsStored, BeingDeleted
  <2>3. used = Cardinality(PieceSet(recorded)) /\ recorded[f] = 0
    BY <1>5, <1>6, Explained DEF UploadsInv, ChargedIfAttached, Metered, UploadKinds
  <2>4. /\ Cardinality(PieceSet(first)) = used - 0 + size
        /\ recorded[g] <= used
    BY <1>3, <1>5, <2>3, ChargeChanges
  <2>5. IsFiniteSet(Files)
    BY UploadsAssumption DEF UploadsAssumption
  <2> HIDE DEF first
  <2>6. Cardinality(PieceSet(recorded')) = Cardinality(PieceSet(first)) - first[g] + recorded'[g]
    <3> DEFINE after == recorded'
    <3>1. after \in [Files -> Nat] /\ \A h \in Files : h # g => after[h] = first[h]
      BY <2>1
    <3> HIDE DEF after
    <3>2. Cardinality(PieceSet(after)) = Cardinality(PieceSet(first)) - first[g] + after[g]
      BY <1>5, <2>1, <2>5, <3>1, OnePieceChanges
    <3> QED
      BY <3>2 DEF after
  <2>7. used' = used + size - freed
    BY <1>3, <1>4, <1>5, <1>9, <1>10, <2>2, <2>4, FreeBounds DEF Metered, UploadKinds
  <2>8. BytesCharged' = PieceSet(recorded')
    BY <1>5, <1>6, <1>12 DEF BytesCharged, PieceSet, UploadsTypeOK, Metered, UploadKinds
  <2> QED
    BY <1>3, <1>9, <2>1, <2>2, <2>4, <2>6, <2>7, <2>8
<1> QED
  BY <1>12, <1>14, <1>16, <1>17, <1>18, <1>19, <1>20 DEF UploadsInv, CallsInv

-----------------------------------------------------------------------------
LEMMA UploadsStep == UploadsInv /\ [UploadsNext]_uploadVars => UploadsInv'
<1> SUFFICES ASSUME UploadsInv, [UploadsNext]_uploadVars PROVE UploadsInv'
  OBVIOUS
<1>1. CASE UNCHANGED uploadVars
  BY <1>1, UploadsRest DEF uploadVars, UploadsInv, UploadsTypeOK
<1>2. ASSUME NEW f \in Files, put(f) PROVE UploadsInv'
  <2>1. staging' \in [Files -> ObjectSizes]
    BY <1>2 DEF put, UploadsInv, UploadsTypeOK
  <2> QED
    BY <1>2, <2>1, UploadsRest DEF put
<1>3. ASSUME NEW c \in UploadCalls, attach(c) PROVE UploadsInv'
  BY <1>3, AttachKeeps, ReplaceKeeps
<1>4. ASSUME NEW c \in UploadCalls, NEW f \in Files,
             \/ finalize(c, f) \/ delete_staged_file(c, f)
             \/ delete_document(c, f) \/ remove_space_image(c, f)
      PROVE  UploadsInv'
  BY <1>4, BeginSteps, DeleteDocumentKeeps, RemoveImageKeeps
<1>5. ASSUME NEW c \in UploadCalls,
             \/ head_final(c) \/ head_staging(c) \/ copy_object(c) \/ delete_staging(c)
             \/ recheck(c) \/ validate_object(c) \/ refused(c)
      PROVE  UploadsInv'
  BY <1>5, StoreSteps
<1>6. ASSUME NEW c \in UploadCalls,
             failed(c) \/ cleanup_upload(c) \/ dispose(c) \/ dies(c)
      PROVE  UploadsInv'
  BY <1>6, LeavingSteps
<1>7. ASSUME NEW c \in UploadCalls, delete_document_commit(c) PROVE UploadsInv'
  BY <1>7, DeleteCommitKeeps
<1> QED
  BY <1>1, <1>2, <1>3, <1>4, <1>5, <1>6, <1>7 DEF UploadsNext

\* The uploads' invariant: who is at work on which file, what each call has
\* measured, what is attached and what that is charged with.
THEOREM UploadsHold == UploadsSpec => []UploadsInv
BY UploadsStart, UploadsStep, PTL DEF UploadsSpec

\* What a record points at is in the store as it was measured, unless two
\* calls met on the file or a deletion died before its commit.
THEOREM AttachedFilesAreThere == UploadsSpec => []AttachedIsStored
<1>1. UploadsInv => AttachedIsStored
  BY DEF UploadsInv
<1> QED
  BY <1>1, UploadsHold, PTL

\* The bytes a makerspace is charged with are those of the attached files.
THEOREM ChargesExplained == UploadsSpec => []UsageExplained
<1>1. UploadsInv => UsageExplained
  BY DEF UploadsInv
<1> QED
  BY <1>1, UploadsHold, PTL
=============================================================================
