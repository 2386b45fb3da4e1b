------------------------------ MODULE MCIosTests ------------------------------
(* The two timing programs of iostest/ for TLC: the loader starts one or the   *)
(* other, and IOS has no descriptor open for it then.  Beside them, the harness  *)
(* they report through, with any program above it, and the statistics of       *)
(* ipc_timing, over any sample.                                             *)
(*                                                                         *)
(* Both have the real table of 24, and fs_timing its real list of tests.  Two  *)
(* iterations of a test are the first, and one that finds what another has    *)
(* left.  For fs_timing, five failing Closes are one more than OnlyReadsLeak    *)
(* allows for; ipc_timing gets two, which leave a hole anywhere in the    *)
(* table.  A u64 has 15 bits: 181 is the largest distance whose square fits.  *)
EXTENDS FsTiming, IpcTiming, HwTests, IpcStatistics

VARIABLE component      \* which of the four this behaviour is about

IpcBadCloses == 2

fsvars == <<k, pc, i, fd, file_fd, ticks, files, inherited>>
MCvars == <<component, fdVars, fsvars, ipcvars, hwvars, statistics>>

(* What a component that does not run holds. *)
NoFs ==
    /\ k = 1 /\ pc = "none" /\ i = 0 /\ fd = Error /\ file_fd = Error /\ ticks = 0
    /\ files = [f \in Temp |-> "none"]
    /\ inherited = [fds |-> {}, files |-> files]
NoIpc == call = "end" /\ iteration = 0 /\ j = 0 /\ measured = FALSE /\ badBefore = 0
NoHarness ==
    /\ kind = "none" /\ at = "returned" /\ status = <<>> /\ totals = <<>> /\ results = 0
    /\ taken = FALSE /\ peer = "none" /\ client = "gone" /\ sent = <<>> /\ received = 0

MCInit ==
    /\ StatisticsInit
    /\ \/ component = "fs_timing" /\ Init /\ NoIpc /\ NoHarness
       \/ component = "ipc_timing" /\ IpcInit /\ NoFs /\ NoHarness
       \/ component = "harness" /\ HwInit /\ FdsClosed /\ NoFs /\ NoIpc
       \/ component = "statistics" /\ FdsClosed /\ NoFs /\ NoIpc /\ NoHarness

FsStep ==
    /\ component = "fs_timing" /\ Next
    /\ UNCHANGED <<component, ipcvars, hwvars, statistics>>
IpcStep ==
    /\ component = "ipc_timing" /\ IpcNext
    /\ badCloses' <= IpcBadCloses
    /\ UNCHANGED <<component, fsvars, hwvars, statistics>>
Harness(step) ==
    /\ component = "harness" /\ step
    /\ UNCHANGED <<component, fdVars, fsvars, ipcvars, statistics>>
StatisticsStep ==
    /\ component = "statistics" /\ StatisticsNext
    /\ UNCHANGED <<component, fdVars, fsvars, ipcvars, hwvars>>
MCNext == FsStep \/ IpcStep \/ Harness(HwNext) \/ StatisticsStep

(* The program and netcat go on while they can; that anyone connects, or quits,  *)
(* is not assumed.                                                          *)
Fairness == WF_MCvars(Harness(ProgramStep)) /\ WF_MCvars(Harness(ClientStep))

MCSpec == MCInit /\ [][MCNext]_MCvars /\ Fairness
=============================================================================
