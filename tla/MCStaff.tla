------------------------------- MODULE MCStaff -------------------------------
(***************************************************************************)
(* What staff and operators do, for TLC: at the console or in a stocktake  *)
(* beside the lending services, with one product p in the box b1 that is   *)
(* tracked by quantity until its unit is given the asset row a1; with the  *)
(* write fence of encrypted rows; with uploaded files; and with updates of *)
(* the software.  The last three share no rows with lending, so a          *)
(* behaviour moves the part it starts with and leaves the others as they   *)
(* are.                                                                    *)
(***************************************************************************)
EXTENDS StaffConsole, Stocktake, WriteFence, MCUploads, Updates, TLC

CONSTANTS
    p, a1, b1,
    o1  \* the file of a behaviour with one file

OneProduct == {p}
PStock == [x \in {p} |-> NewRow(1, 1)]
PBox == [x \in {p} |-> b1]
QTracking == [x \in {p} |-> "quantity"]
OneAsset == {a1}
AProduct == [a \in {a1} |-> p]
ABox == [a \in {a1} |-> b1]
NoAssetYet == [a \in {a1} |-> "absent"]
FlatBoxes == [b \in Boxes |-> {b}]

VARIABLE part

staffVars == <<vars, console, takes, fenceVars, uploadVars, updateVars, part>>

\* Rows of the parts at rest do not vary; two files matter where one takes
\* the place of the other.
StaffAtRest ==
    /\ part # "fence" => \A pk \in PiiRows : row[pk] = Absent
    /\ part # "uploads" => kind = "log" /\ \A f \in Files : file[f] = "none"
    /\ part = "uploads" =>
          \A f \in Files : file[f] = IF f = o1 \/ kind = "image" THEN "staged" ELSE "none"

StaffInit ==
    /\ part \in {"console", "stocktake", "fence", "uploads", "updates"}
    /\ ConsoleInit /\ StocktakeInit /\ WriteFenceInit /\ UploadsInit /\ UpdatesInit
    /\ StaffAtRest

LendingUnchanged == UNCHANGED <<vars, console, takes>>

StaffNext ==
    /\ UNCHANGED part
    /\ part \in {"console", "stocktake"} \/ LendingUnchanged
    /\ part # "fence" => UNCHANGED fenceVars
    /\ part # "uploads" => UNCHANGED uploadVars
    /\ part # "updates" => UNCHANGED updateVars
    /\ \/ part \in {"console", "stocktake"} /\ Next /\ UNCHANGED <<console, takes>>
       \/ part = "console" /\ ConsoleSteps /\ UNCHANGED takes
       \/ part = "stocktake" /\ StocktakeSteps /\ UNCHANGED console
       \/ part = "fence" /\ WriteFenceNext
       \/ part = "uploads" /\ UploadsNext
       \/ part = "updates" /\ UpdatesNext

StaffSpec == StaffInit /\ [][StaffNext]_staffVars

\* Nothing is promised of updaters once two have overlapped: TLC goes no further.
NoOverlapYet == "overlap" \notin astray
=============================================================================
