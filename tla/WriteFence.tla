------------------------------ MODULE WriteFence ------------------------------
(***************************************************************************)
(* The write fence around the encrypted personal data of one makerspace    *)
(* (apps/encryption): saves of mapped rows, the keys they use, the fences  *)
(* that maintenance closes, and the rollback command that turns envelopes  *)
(* back into plain text batch by batch, may crash and is resumed.  A save  *)
(* holds shared advisory locks from its check to its commit; the makerspace *)
(* row is locked from the choice of a key to the commit.  Encryption is    *)
(* enabled throughout, and one command runs at a time.                     *)
(***************************************************************************)
EXTENDS Integers, FiniteSetsExt

CONSTANTS
    PiiRows,       \* primary keys of the rows of one mapped model
    Triggered,     \* those whose table has the fence's trigger
    MaxOperations, \* bound: how often fences are closed
    Writers,       \* sessions that save mapped rows
    KeyVersions    \* bound on the versions of the makerspace's key

ASSUME WriteFenceAssumption ==
    /\ PiiRows \subseteq Nat \ {0} /\ Triggered \subseteq PiiRows
    /\ MaxOperations \in Nat /\ KeyVersions \in Nat \ {0}

VARIABLES
    fence,    \* the global fence and that of the makerspace
    row,      \* what is stored: nothing, plain text or an envelope's version
    key,      \* status of each MakerspaceEncryptionKey
    writer,   \* the save each session is in
    command,  \* decrypt_scoped_pii
    printed,  \* the last checkpoint it printed for each operation
    closings  \* history: the operations there have been

fenceVars == <<fence, row, key, writer, command, printed, closings>>

Fences == {"global", "tenant"}
\* uuid4() of each closing, in their order.
Operations == 1..MaxOperations
NoOperation == 0
Kinds == {"enable_transition", "decrypt_rollback", "search_rotation"}
Open == [operation |-> NoOperation, kind |-> "enable_transition"]
Versions == 1..KeyVersions
Absent == -1
Plain == 0
Stored == {Absent, Plain} \cup Versions
Checkpoints == PiiRows \cup {0}

Idle == [step |-> "idle", pk |-> 0, value |-> Absent, fresh |-> FALSE]
Off == [step |-> "off", operation |-> NoOperation, checkpoint |-> 0, batch |-> {}]

WriteFenceTypeOK ==
    /\ fence \in [Fences -> [operation : Operations \cup {NoOperation}, kind : Kinds]]
    /\ row \in [PiiRows -> Stored]
    /\ key \in [Versions -> {"absent", "active", "rotated", "disabled"}]
    /\ writer \in [Writers -> [step : {"idle", "loaded", "allowed", "encrypted"},
                               pk : Checkpoints, value : Stored, fresh : BOOLEAN]]
    /\ command \in [step : {"off", "reading", "holding", "done"},
                    operation : Operations \cup {NoOperation},
                    checkpoint : Checkpoints, batch : SUBSET PiiRows]
    /\ printed \in [Operations -> Checkpoints]
    /\ closings \in 0..MaxOperations

\* Rows from before encryption was enabled, and rows saved since.
WriteFenceInit ==
    /\ fence = [f \in Fences |-> Open]
    /\ row \in [PiiRows -> {Absent, Plain, 1}]
    /\ key = [v \in Versions |-> IF v = 1 THEN "active" ELSE "absent"]
    /\ writer = [w \in Writers |-> Idle]
    /\ command = Off
    /\ printed = [o \in Operations |-> 0]
    /\ closings = 0

-----------------------------------------------------------------------------
Closed(f) == fence[f].operation # NoOperation

\* pii_assert_mapped_write_allowed for a session with this operation.
Allowed(operation) ==
    \A f \in Fences : Closed(f) =>
       fence[f].operation = operation /\ fence[f].kind \in Kinds

\* Sessions that hold the shared advisory locks.
Sharing == {w \in Writers : writer[w].step \in {"allowed", "encrypted"}}

\* Fault: closing does not wait for the saves under way.
AlwaysDrained == TRUE

\* pg_advisory_xact_lock waits for them.
Drained == Sharing = {}

\* close_global, with the makerspaces or without, and close_makerspace.
close_fences(S, o, kind) ==
    /\ o = closings + 1 /\ Drained
    /\ \A f \in S : ~Closed(f)
    /\ fence' = [f \in Fences |-> IF f \in S THEN [operation |-> o, kind |-> kind]
                                  ELSE fence[f]]
    /\ closings' = o
    /\ UNCHANGED <<row, key, writer, command, printed>>

\* All the fences this operation closed.
reopen(o) ==
    LET S == {f \in Fences : fence[f].operation = o}
    IN  /\ S # {} /\ Drained
        /\ fence' = [f \in Fences |-> IF f \in S THEN Open ELSE fence[f]]
        /\ UNCHANGED <<row, key, writer, command, printed, closings>>

-----------------------------------------------------------------------------
Become(w, to) ==
    /\ writer' = [writer EXCEPT ![w] = to]
    /\ UNCHANGED <<fence, key, command, printed, closings>>

\* A row is read some time before it is saved; a new one only gets its key
\* (_reserve_pk) in the save.  fresh: the value was changed, or read as plain text.
load(w, pk, changed) ==
    /\ writer[w].step = "idle"
    /\ Become(w, [step |-> "loaded", pk |-> pk, value |-> row[pk],
                  fresh |-> changed \/ row[pk] \in {Absent, Plain}])
    /\ UNCHANGED row

\* MappedModel.save: refused, or holding the locks from here to the commit.
check_fence(w) ==
    /\ writer[w].step = "loaded"
    /\ Become(w, IF Allowed(NoOperation) THEN [writer[w] EXCEPT !.step = "allowed"] ELSE Idle)
    /\ UNCHANGED row

\* Fault: the makerspace row is locked while a key is looked up only.
AlwaysUnlocked == TRUE

\* The makerspace row is free: it is locked from get_or_create_active_dek to
\* the commit of the save, and during a batch of the command.
MakerspaceUnlocked ==
    /\ \A w \in Writers : ~(writer[w].step = "encrypted" /\ writer[w].fresh)
    /\ command.step # "holding"

ActiveDeks == {v \in Versions : key[v] = "active"}
NextVersion == Max({v \in Versions : key[v] # "absent"} \cup {0}) + 1

\* An envelope read and left alone is written back; anything else is encrypted
\* with the active key, which is created when there is none.
encrypt(w) ==
    /\ writer[w].step = "allowed"
    /\ \/ /\ ~writer[w].fresh
          /\ Become(w, [writer[w] EXCEPT !.step = "encrypted"])
       \/ /\ writer[w].fresh /\ MakerspaceUnlocked
          /\ \E v \in IF ActiveDeks # {} THEN ActiveDeks ELSE {NextVersion} \cap Versions :
                /\ writer' = [writer EXCEPT ![w].step = "encrypted", ![w].value = v]
                /\ key' = [key EXCEPT ![v] = "active"]
          /\ UNCHANGED <<fence, command, printed, closings>>
    /\ UNCHANGED row

\* The command may hold the row.
commit(w) ==
    /\ writer[w].step = "encrypted" /\ writer[w].pk \notin command.batch
    /\ row' = [row EXCEPT ![writer[w].pk] = writer[w].value]
    /\ Become(w, Idle)

\* A failed save; the check may also be the last thing a session does.
roll_back(w) ==
    /\ writer[w].step # "idle"
    /\ Become(w, Idle)
    /\ UNCHANGED row

-----------------------------------------------------------------------------
rotate_dek ==
    /\ MakerspaceUnlocked /\ ActiveDeks # {} /\ NextVersion \in Versions
    /\ key' = [v \in Versions |-> IF v = NextVersion THEN "active"
                                  ELSE IF v \in ActiveDeks THEN "rotated" ELSE key[v]]
    /\ UNCHANGED <<fence, row, writer, command, printed, closings>>

disable_dek(v) ==
    /\ MakerspaceUnlocked /\ key[v] # "absent"
    /\ key' = [key EXCEPT ![v] = "disabled"]
    /\ UNCHANGED <<fence, row, writer, command, printed, closings>>

-----------------------------------------------------------------------------
Command(to) ==
    /\ command' = to
    /\ UNCHANGED <<fence, key, writer, closings>>

\* _assert_fences
FencesMatch(o) == \A f \in Fences : fence[f] = [operation |-> o, kind |-> "decrypt_rollback"]

\* From the beginning, or --resume-after-pk with what was printed.
start_command(o, resume) ==
    /\ command.step \in {"off", "done"} /\ FencesMatch(o)
    /\ Command([step |-> "reading", operation |-> o, batch |-> {},
                checkpoint |-> IF resume THEN printed[o] ELSE 0])
    /\ UNCHANGED <<row, printed>>

RowsToDecrypt == {pk \in PiiRows : pk > command.checkpoint /\ row[pk] # Absent}

\* The next rows by pk, as many as the batch size allows, and the lock on the
\* makerspace.
lock_batch(last) ==
    /\ command.step = "reading" /\ last \in RowsToDecrypt /\ MakerspaceUnlocked
    /\ Command([command EXCEPT !.step = "holding",
                               !.batch = {pk \in RowsToDecrypt : pk <= last}])
    /\ UNCHANGED <<row, printed>>

end_command ==
    /\ command.step = "reading" /\ RowsToDecrypt = {}
    /\ Command([command EXCEPT !.step = "done"])
    /\ UNCHANGED <<row, printed>>

Readable(pk) == row[pk] \in Versions => key[row[pk]] \in {"active", "rotated"}

\* Fault: the checkpoint is printed before the batch is committed.
PrintedEarly == [printed EXCEPT ![command.operation] = Max(command.batch)]

PrintedLate == printed

\* An envelope whose key is disabled, a value the old schema refuses, or a
\* trigger that finds another operation's fence undoes the batch and ends the
\* command, as a crash does.
abort_command ==
    /\ command.step \in {"reading", "holding"}
    /\ Command(Off)
    /\ printed' = IF command.step = "holding" THEN PrintedLate ELSE printed
    /\ UNCHANGED row

commit_batch ==
    /\ command.step = "holding"
    /\ \A pk \in command.batch : Readable(pk)
    /\ (\E pk \in command.batch \cap Triggered : row[pk] \in Versions)
          => Allowed(command.operation)
    /\ row' = [pk \in PiiRows |-> IF pk \in command.batch THEN Plain ELSE row[pk]]
    /\ Command([command EXCEPT !.step = "reading", !.batch = {},
                               !.checkpoint = Max(command.batch)])
    \* A crash may come before the checkpoint is printed.
    /\ printed' \in {printed, [printed EXCEPT ![command.operation] = Max(command.batch)]}

FenceSteps ==
    \E o \in Operations :
       \/ \E S \in {{"global"}, {"tenant"}, Fences}, kind \in Kinds : close_fences(S, o, kind)
       \/ reopen(o)

WriterSteps ==
    \E w \in Writers :
       \/ \E pk \in PiiRows, changed \in BOOLEAN : load(w, pk, changed)
       \/ check_fence(w) \/ encrypt(w) \/ commit(w) \/ roll_back(w)

CommandSteps ==
    \/ \E o \in Operations, resume \in BOOLEAN : start_command(o, resume)
    \/ \E last \in PiiRows : lock_batch(last)
    \/ commit_batch \/ end_command \/ abort_command

WriteFenceNext ==
    \/ FenceSteps \/ WriterSteps \/ CommandSteps
    \/ rotate_dek \/ \E v \in Versions : disable_dek(v)

WriteFenceSpec == WriteFenceInit /\ [][WriteFenceNext]_fenceVars

-----------------------------------------------------------------------------
\* While a fence is closed a row changes only by the rollback of the operation
\* that closed it; a table without the trigger is not protected from a command
\* that goes on after its fence was reopened.
QuietWhenClosed ==
    [][\A f \in Fences, pk \in Triggered :
          Closed(f) /\ row'[pk] # row[pk] =>
             row'[pk] = Plain /\ fence[f].operation = command.operation]_fenceVars

\* When the command is through, no matter how often it crashed and was
\* resumed, no envelope is left as long as its fences stay closed.
RollbackComplete ==
    command.step = "done" /\ FencesMatch(command.operation) =>
       \A pk \in PiiRows : row[pk] \in {Absent, Plain}

\* What a save is about to commit is encrypted with the active key.
WritesUseLiveKey ==
    \A w \in Writers : writer[w].step = "encrypted" /\ writer[w].fresh =>
       key[writer[w].value] = "active"
=============================================================================
