-------------------------------- MODULE IosFds --------------------------------
(***************************************************************************)
(* The descriptor table that IOS (external) keeps for the PowerPC, as the     *)
(* programs of iostest/ use it.  Any command may fail for a reason of its    *)
(* own, and then has no effect.                                             *)
(*                                                                         *)
(* A descriptor is the first free entry of the table, as in ipc_timing.cpp,   *)
(* which opens as many as there are and closes them by number.               *)
(***************************************************************************)
EXTENDS Integers

CONSTANTS
    NumFds,         \* entries of the table (24)
    MaxBadCloses,   \* bound on the Close commands of open descriptors that fail
    Repeats         \* iterations of a test: 1000 in ipc_timing, 100 or 20 in fs_timing

ASSUME FdsExist == NumFds \in Nat \ {0}
ASSUME BadClosesCounted == MaxBadCloses \in Nat
ASSUME RepeatsSome == Repeats \in Nat \ {0}

VARIABLES
    table,      \* the descriptors that are open
    faulted,    \* a command failed since this was last reset
    badCloses   \* how often a Close of an open descriptor failed

fdVars == <<table, faulted, badCloses>>

Fds == 0 .. NumFds - 1
Error == -1
Results == Fds \cup {Error}

IsLowestFree(fd) == fd \in Fds \ table /\ 0 .. fd - 1 \subseteq table

(* ipc::Open of something that may or may not be there. *)
Open(there, result) ==
    \/ /\ there /\ IsLowestFree(result)
       /\ table' = table \cup {result}
       /\ UNCHANGED <<faulted, badCloses>>
    \/ /\ result = Error
       /\ faulted' = (faulted \/ (there /\ table # Fds))
       /\ UNCHANGED <<table, badCloses>>

(* ipc::Close; a number that is not open is refused. *)
Close(fd, ok) ==
    \/ /\ ok /\ fd \in table
       /\ table' = table \ {fd}
       /\ UNCHANGED <<faulted, badCloses>>
    \/ /\ ~ok /\ fd \notin table
       /\ UNCHANGED fdVars
    \/ /\ ~ok /\ fd \in table /\ badCloses < MaxBadCloses
       /\ badCloses' = badCloses + 1
       /\ faulted' = TRUE
       /\ UNCHANGED table

(* Any other command, given whether it can succeed. *)
Command(can, ok) ==
    /\ ok => can
    /\ faulted' = (faulted \/ (can /\ ~ok))
    /\ UNCHANGED <<table, badCloses>>

FdsClosed == table = {} /\ faulted = FALSE /\ badCloses = 0
FdsTypeOK == table \subseteq Fds /\ faulted \in BOOLEAN /\ badCloses \in 0 .. MaxBadCloses

=============================================================================
