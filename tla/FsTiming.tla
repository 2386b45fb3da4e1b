------------------------------- MODULE FsTiming -------------------------------
(***************************************************************************)
(* iostest/fs_timing.cpp: 45 tests, one after the other, that time commands   *)
(* of IOS.  They share its descriptor table and two files in /tmp, so that   *)
(* what one test leaves behind when a command fails is there for the next.   *)
(*                                                                         *)
(* Each action is one IPC command with the code up to the next.  The ticks     *)
(* of a command are abstracted to having been recorded.                     *)
(***************************************************************************)
EXTENDS IosFds, Sequences, FiniteSets

VARIABLES
    k,          \* the test that runs, or runs next
    pc,         \* the command that is issued next; "idle" between two tests
    i,          \* the loop counter
    fd,         \* the local of that name
    file_fd,    \* the local of that name
    ticks,      \* iterations the test has recorded
    files,      \* the two files in /tmp: "none", "empty" or "full"
    inherited   \* what the test found open and in /tmp

locals == <<fd, file_fd>>
vars == <<table, faulted, badCloses, k, pc, i, fd, file_fd, ticks, files, inherited>>

Temp == {"test", "writetest"}

-----------------------------------------------------------------------------
(* main's tests.  For those that open a path, whether it is there; for reads,  *)
(* whether the file is read once before; for writes, whether it is filled.   *)
Test(kind, flag) == [kind |-> kind, flag |-> flag]
Times(n, test) == [j \in 1 .. n |-> test]
Tests ==
    Times(3, Test("opens", FALSE)) \o Times(2, Test("opens", TRUE)) \o Times(1, Test("closes", TRUE))
    \o Times(9, Test("reads", FALSE)) \o Times(9, Test("reads", TRUE))
    \o Times(1, Test("create", TRUE)) \o Times(4, Test("metadata", TRUE))
    \o Times(8, Test("writes", FALSE)) \o Times(8, Test("writes", TRUE))

Running(kind, step) == pc = step /\ Tests[k].kind = kind
Goto(step) == pc' = step /\ UNCHANGED <<k, i, ticks>>
Iterate(head, tail) ==
    /\ i' = i + 1
    /\ pc' = IF i + 1 < Repeats THEN head ELSE tail
    /\ UNCHANGED k
Record == ticks' = ticks + 1

(* The end of a test, with what it has recorded or with {}. *)
Finish ==
    /\ pc' = "idle"
    /\ k' = k + 1
    /\ i' = 0 /\ fd' = Error /\ file_fd' = Error
Return == Finish /\ UNCHANGED ticks
ReturnNothing == Finish /\ ticks' = 0

NoFileZero == 0     \* mutant: a number that is a descriptor
NoFile == Error

Begin ==
    /\ pc = "idle" /\ k <= Len(Tests)
    /\ pc' = IF Tests[k].kind \in {"opens", "closes", "reads"} THEN "open" ELSE "open_fs"
    /\ file_fd' = IF Tests[k].kind = "writes" THEN NoFile ELSE Error
    /\ ticks' = 0
    /\ faulted' = FALSE
    /\ inherited' = [fds |-> table, files |-> files]
    /\ UNCHANGED <<k, i, fd, files, table, badCloses>>

-----------------------------------------------------------------------------
(* TestOpens, TestCloses and TestReads. *)
IterateOrReturn ==
    IF i + 1 < Repeats THEN Iterate("open", "open") /\ UNCHANGED locals ELSE Finish

OpenTested ==
    /\ pc = "open"
    /\ \E result \in Results :
         /\ Open(Tests[k].kind # "opens" \/ Tests[k].flag, result)
         /\ \/ /\ result # Error
               /\ fd' = result
               /\ Goto(CASE Tests[k].kind # "reads" -> "close"
                         [] Tests[k].flag -> "read_first"
                         [] OTHER -> "read")
               /\ UNCHANGED file_fd
            \/ /\ result = Error /\ Tests[k] # Test("opens", FALSE)
               /\ ReturnNothing
            \/ /\ result = Error /\ Tests[k] = Test("opens", FALSE)
               /\ Record
               /\ IterateOrReturn
    /\ UNCHANGED <<files, inherited>>

(* Bringing the file into the cache, and the read itself: a failure returns    *)
(* without closing fd.                                                      *)
ReadStep(step, next) ==
    /\ Running("reads", step)
    /\ \E ok \in BOOLEAN :
         /\ Command(fd \in table, ok)
         /\ IF ok THEN Goto(next) /\ UNCHANGED locals ELSE ReturnNothing
    /\ UNCHANGED <<files, inherited>>
ReadFirst == ReadStep("read_first", "seek")
Seek == ReadStep("seek", "read")
Read == ReadStep("read", "close")

CloseTested ==
    /\ pc = "close"
    /\ \E ok \in BOOLEAN :
         /\ Close(fd, ok)
         /\ IF ok THEN Record /\ IterateOrReturn ELSE ReturnNothing
    /\ UNCHANGED <<files, inherited>>

-----------------------------------------------------------------------------
(* TestFileCreationAndDeletion, TestWrites and TestGetMetadata hold /dev/fs. *)
FirstStep == CASE Tests[k].kind = "create" -> "create"
               [] Tests[k].kind = "metadata" -> "get_metadata"
               [] OTHER -> "create_file"

OpenFs ==
    /\ pc = "open_fs"
    /\ \E result \in Results :
         /\ Open(TRUE, result)
         /\ \/ /\ result # Error
               /\ fd' = result
               /\ Goto(FirstStep)
               /\ UNCHANGED file_fd
            \/ /\ result = Error
               /\ ReturnNothing
    /\ UNCHANGED <<files, inherited>>

CloseFs ==
    /\ pc = "close_fs"
    /\ \E ok \in BOOLEAN : Close(fd, ok)
    /\ IF Tests[k].kind = "writes" THEN Goto("close_file") /\ UNCHANGED locals ELSE Return
    /\ UNCHANGED <<files, inherited>>

(* fs::GetMetadata; after a failure the ticks are dropped. *)
GetMetadataLeaks ==     \* mutant: returns without closing fd
    /\ Running("metadata", "get_metadata")
    /\ \E ok \in BOOLEAN :
         /\ Command(TRUE, ok)
         /\ IF ok THEN Record /\ Iterate("get_metadata", "close_fs") /\ UNCHANGED locals
                  ELSE ReturnNothing
    /\ UNCHANGED <<files, inherited>>

GetMetadata ==
    /\ Running("metadata", "get_metadata")
    /\ \E ok \in BOOLEAN :
         /\ Command(TRUE, ok)
         /\ \/ ok /\ Record /\ Iterate("get_metadata", "close_fs")
            \/ ~ok /\ ticks' = 0 /\ pc' = "close_fs" /\ UNCHANGED <<k, i>>
    /\ UNCHANGED <<files, inherited, locals>>

(* fs::CreateFile refuses a file that is there. *)
CreateFile(file, ok) ==
    /\ Command(files[file] = "none", ok)
    /\ files' = IF ok THEN [files EXCEPT ![file] = "empty"] ELSE files
DeleteFile(file, ok) ==
    /\ Command(files[file] # "none", ok)
    /\ files' = IF ok THEN [files EXCEPT ![file] = "none"] ELSE files

Create ==
    /\ Running("create", "create")
    /\ \E ok \in BOOLEAN : CreateFile("test", ok) /\ Goto(IF ok THEN "delete" ELSE "close_fs")
    /\ UNCHANGED <<inherited, locals>>

Delete ==
    /\ Running("create", "delete")
    /\ \E ok \in BOOLEAN :
         /\ DeleteFile("test", ok)
         /\ IF ok THEN Record /\ Iterate("create", "close_fs") ELSE Goto("close_fs")
    /\ UNCHANGED <<inherited, locals>>

-----------------------------------------------------------------------------
(* TestWrites. *)
CreateWriteUnchecked ==     \* mutant: the result is ignored
    /\ Running("writes", "create_file")
    /\ \E ok \in BOOLEAN : CreateFile("writetest", ok) /\ Goto("open_file")
    /\ UNCHANGED <<inherited, locals>>

CreateWrite ==
    /\ Running("writes", "create_file")
    /\ \E ok \in BOOLEAN :
         CreateFile("writetest", ok) /\ Goto(IF ok THEN "open_file" ELSE "close_fs")
    /\ UNCHANGED <<inherited, locals>>

OpenStep(step, next) ==
    /\ Running("writes", step)
    /\ \E result \in Results :
         /\ Open(files["writetest"] # "none", result)
         /\ file_fd' = result
         /\ Goto(IF result # Error THEN next ELSE "close_fs")
    /\ UNCHANGED <<files, inherited, fd>>
OpenFile == OpenStep("open_file", IF Tests[k].flag THEN "fill" ELSE "write")
Reopen == OpenStep("reopen", "write")

(* What a write that fails leaves in the file is unknown; one of no bytes      *)
(* leaves it as it is.                                                      *)
Fill ==
    /\ Running("writes", "fill")
    /\ \E ok \in BOOLEAN :
         /\ Command(file_fd \in table, ok)
         /\ Goto(IF ok THEN "close_filled" ELSE "close_fs")
         /\ \/ files' = [files EXCEPT !["writetest"] = "full"]
            \/ ~ok /\ UNCHANGED files
    /\ UNCHANGED <<inherited, locals>>

CloseFilled ==
    /\ Running("writes", "close_filled")
    /\ \E ok \in BOOLEAN :
         Close(file_fd, ok) /\ Goto(IF ok THEN "reopen" ELSE "close_fs")
    /\ UNCHANGED <<files, inherited, locals>>

Write ==
    /\ Running("writes", "write")
    /\ \E ok \in BOOLEAN :
         Command(file_fd \in table, ok) /\ Goto(IF ok THEN "close_written" ELSE "close_fs")
    /\ files' \in {files, [files EXCEPT !["writetest"] = "full"]}
    /\ UNCHANGED <<inherited, locals>>

CloseWritten ==
    /\ Running("writes", "close_written")
    /\ \E ok \in BOOLEAN :
         /\ Close(file_fd, ok)
         /\ \/ ok /\ Record /\ pc' = "delete_file" /\ UNCHANGED <<k, i>>
            \/ ~ok /\ Goto("close_fs")
    /\ UNCHANGED <<files, inherited, locals>>

DeleteWriteForgotten ==     \* mutant: the file is left for the next iteration
    /\ Running("writes", "delete_file")
    /\ Iterate("create_file", "close_fs")
    /\ UNCHANGED <<fdVars, files, ticks, inherited, locals>>

(* The result is ignored. *)
DeleteWrite ==
    /\ Running("writes", "delete_file")
    /\ \E ok \in BOOLEAN : DeleteFile("writetest", ok)
    /\ Iterate("create_file", "close_fs")
    /\ UNCHANGED <<ticks, inherited, locals>>

(* By now file_fd has been closed, is still open after an error, or is -1. *)
CloseFile ==
    /\ Running("writes", "close_file")
    /\ \E ok \in BOOLEAN : Close(file_fd, ok)
    /\ Return
    /\ UNCHANGED <<files, inherited>>

-----------------------------------------------------------------------------
(* An earlier run may have left files in /tmp. *)
Init ==
    /\ FdsClosed
    /\ k = 1 /\ pc = "idle" /\ i = 0 /\ fd = Error /\ file_fd = Error /\ ticks = 0
    /\ files \in [Temp -> {"none", "empty", "full"}]
    /\ inherited = [fds |-> {}, files |-> files]

(* main goes on to ipc::Shutdown and prints. *)
Done == pc = "idle" /\ k > Len(Tests) /\ UNCHANGED vars

Next ==
    \/ Begin \/ OpenTested \/ ReadFirst \/ Seek \/ Read \/ CloseTested
    \/ OpenFs \/ CloseFs \/ GetMetadata \/ Create \/ Delete
    \/ CreateWrite \/ OpenFile \/ Fill \/ CloseFilled \/ Reopen
    \/ Write \/ CloseWritten \/ DeleteWrite \/ CloseFile
    \/ Done

Spec == Init /\ [][Next]_vars

-----------------------------------------------------------------------------
ReadsBefore(n) == Cardinality({j \in 1 .. n - 1 : Tests[j].kind = "reads"})
Steps == {"idle", "open", "read_first", "seek", "read", "close", "open_fs", "close_fs",
          "get_metadata", "create", "delete", "create_file", "open_file", "fill", "close_filled",
          "reopen", "write", "close_written", "delete_file", "close_file"}

(* Every variable keeps its type. *)
TypeOK ==
    /\ FdsTypeOK
    /\ k \in 1 .. Len(Tests) + 1 /\ pc \in Steps /\ i \in 0 .. Repeats
    /\ fd \in Results /\ file_fd \in Results /\ ticks \in 0 .. Repeats
    /\ files \in [Temp -> {"none", "empty", "full"}]
    /\ inherited \in [fds : SUBSET Fds, files : [Temp -> {"none", "empty", "full"}]]

(* Only TestReads leaks a descriptor when one of its commands fails, and at     *)
(* most one a test; every other descriptor left open is one that Close did    *)
(* not close.  So the table does not fill up, however many commands fail: only  *)
(* from the fifth failing Close on can an Open find it full.                 *)
OnlyReadsLeak ==
    /\ pc = "idle" => Cardinality(table) <= ReadsBefore(k) + badCloses
    /\ badCloses <= 4 /\ pc \in {"open", "open_fs", "open_file", "reopen"} =>
           table # Fds

(* Whatever fails, no test closes a descriptor it did not open, although        *)
(* TestWrites ends with a Close of a number that may be long closed.         *)
OwnCloses == inherited.fds \subseteq table

(* A test records less than all its iterations only if one of its own          *)
(* commands failed, or if it found the file in /tmp that it wants to create.  *)
FailureExplained ==
    pc = "idle" /\ k > 1 /\ badCloses <= 4 /\ ticks < Repeats =>
        \/ faulted
        \/ Tests[k - 1].kind = "create" /\ inherited.files["test"] # "none"
        \/ Tests[k - 1].kind = "writes" /\ inherited.files["writetest"] # "none"

(* The write that is timed goes to a new, empty file in blank mode and to a     *)
(* filled one in the other, whatever failed in the tests before.             *)
MeasuresMode ==
    pc = "write" => files["writetest"] = IF Tests[k].flag THEN "full" ELSE "empty"

=============================================================================
