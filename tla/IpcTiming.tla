------------------------------ MODULE IpcTiming -------------------------------
(***************************************************************************)
(* iostest/ipc_timing.cpp: how long IOS takes to refuse a command.  One test  *)
(* fills the descriptor table and measures the next Open, one opens a device  *)
(* that is not there, two use a descriptor that is not open.  What each test  *)
(* measures depends on what the one before has left in the table.           *)
(***************************************************************************)
EXTENDS IosFds, FiniteSets

VARIABLES
    call,       \* the command that is issued next
    iteration,  \* iterations of the test that are done
    j,          \* the counter of the loop inside an iteration
    measured,   \* whether the Open that is timed succeeded
    badBefore   \* badCloses when the iteration began

ipcvars == <<call, iteration, j, measured, badBefore>>

Unopened == NumFds + 1      \* 2000: beyond the table

-----------------------------------------------------------------------------
(* TestOpenWithFdTableFullTiming. *)
BeginFull ==
    /\ call = "begin" /\ iteration < Repeats
    /\ call' = "fill"
    /\ j' = 0 /\ faulted' = FALSE /\ badBefore' = badCloses
    /\ UNCHANGED <<table, badCloses, iteration, measured>>

FillOpenShort ==    \* mutant: one too few
    /\ call = "fill"
    /\ \E result \in Results : Open(TRUE, result)
    /\ \/ j + 2 < NumFds /\ j' = j + 1 /\ UNCHANGED call
       \/ j + 2 = NumFds /\ j' = 0 /\ call' = "measure"
    /\ UNCHANGED <<iteration, measured, badBefore>>

FillOpen ==
    /\ call = "fill"
    /\ \E result \in Results : Open(TRUE, result)
    /\ \/ j + 1 < NumFds /\ j' = j + 1 /\ UNCHANGED call
       \/ j + 1 = NumFds /\ j' = 0 /\ call' = "measure"
    /\ UNCHANGED <<iteration, measured, badBefore>>

MeasuredOpen ==
    /\ call = "measure"
    /\ \E result \in Results : Open(TRUE, result) /\ measured' = (result # Error)
    /\ call' = "close"
    /\ UNCHANGED <<iteration, j, badBefore>>

CloseAllButLast ==  \* mutant: stops one short
    /\ call = "close"
    /\ \E ok \in BOOLEAN : Close(j, ok)
    /\ \/ j + 2 < NumFds /\ j' = j + 1 /\ UNCHANGED <<call, iteration>>
       \/ j + 2 >= NumFds /\ j' = 0 /\ call' = "begin" /\ iteration' = iteration + 1
    /\ UNCHANGED <<measured, badBefore>>

CloseAll ==
    /\ call = "close"
    /\ \E ok \in BOOLEAN : Close(j, ok)
    /\ \/ j + 1 < NumFds /\ j' = j + 1 /\ UNCHANGED <<call, iteration>>
       \/ j + 1 = NumFds /\ j' = 0 /\ call' = "begin" /\ iteration' = iteration + 1
    /\ UNCHANGED <<measured, badBefore>>

(* TestInvalidOpenTiming, then TestInvalidFdTiming with 0 and with 2000. *)
NextTest(test) == call' = test /\ iteration' = 0
Refused(test, next) ==
    /\ IF iteration + 1 < Repeats THEN iteration' = iteration + 1 /\ UNCHANGED call ELSE NextTest(next)
    /\ UNCHANGED <<j, measured, badBefore>>

BeginInvalid ==
    /\ call = "begin" /\ iteration = Repeats
    /\ NextTest("invalid_open")
    /\ UNCHANGED <<table, faulted, badCloses, j, measured, badBefore>>

InvalidOpen ==
    /\ call = "invalid_open"
    /\ \E result \in Results : Open(FALSE, result)
    /\ Refused("invalid_open", "invalid_fd_0")

InvalidFd(test, fd, next) ==
    /\ call = test
    /\ \E ok \in BOOLEAN : Command(fd \in table, ok)
    /\ Refused(test, next)

InvalidFd0 == InvalidFd("invalid_fd_0", 0, "invalid_fd_2000")
InvalidFd2000 == InvalidFd("invalid_fd_2000", Unopened, "end")
End == call = "end" /\ UNCHANGED <<fdVars, ipcvars>>

(* main runs the tests of the invalid command first; they open nothing. *)
IpcInit ==
    /\ FdsClosed
    /\ call = "begin" /\ iteration = 0 /\ j = 0 /\ measured = FALSE /\ badBefore = 0

IpcNext ==
    \/ BeginFull \/ FillOpen \/ MeasuredOpen \/ CloseAll
    \/ BeginInvalid \/ InvalidOpen \/ InvalidFd0 \/ InvalidFd2000 \/ End

IpcSpec == IpcInit /\ [][IpcNext]_<<fdVars, ipcvars>>

-----------------------------------------------------------------------------
Calls == {"begin", "fill", "measure", "close", "invalid_open", "invalid_fd_0",
          "invalid_fd_2000", "end"}

(* Every variable keeps its type. *)
IpcTypeOK ==
    /\ FdsTypeOK
    /\ call \in Calls /\ iteration \in 0 .. Repeats /\ j \in 0 .. NumFds - 1
    /\ measured \in BOOLEAN /\ badBefore \in 0 .. badCloses

(* An iteration leaves the table empty whatever it found there and whichever    *)
(* Opens failed: only its own failing Closes leave descriptors open.         *)
TableHeals ==
    call \in {"begin", "invalid_open"} => Cardinality(table) <= badCloses - badBefore

(* The Open that is timed succeeds only if a command of the same iteration has  *)
(* failed: what an earlier iteration left open does not matter.              *)
TimedOpenRefused == call = "close" /\ measured => faulted

=============================================================================
