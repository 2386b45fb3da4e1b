------------------------------- MODULE HwTests --------------------------------
(***************************************************************************)
(* The harness every test program links (Common/hwtests.cpp), from its start to *)
(* its return, and the run.sh on the other side of the network, which sends   *)
(* the program to the console, sleeps and runs netcat.                       *)
(*                                                                         *)
(* A program of kind "tests" or "reports" listens first and sends every line as  *)
(* it comes; one that "times" keeps its results in a ResultPrinter and listens  *)
(* when it has measured, because the network goes through the IPC it times.   *)
(* The sockets are TCP: lines arrive in order, or the connection is gone.     *)
(***************************************************************************)
EXTENDS Integers, Sequences, FiniteSets

CONSTANTS
    MaxTests,       \* bounds the tests, or timings, of a program
    MaxSubtests     \* bounds the subtests of a test

ASSUME ProgramBounds == MaxTests \in Nat /\ MaxSubtests \in Nat

VARIABLES
    kind,       \* "tests", "reports" or "times"
    at,         \* what the program does next
    status,     \* passes and failures of the current test
    totals,     \* tests, testsPassed, subtests, subtestsPassed: the four counters
    results,    \* how many results the ResultPrinter holds
    taken,      \* whether somebody still has port 16784
    peer,       \* client_socket: "none", "open", "closed"
    client,     \* run.sh: "sleeping", "refused", "connected", "gone", "ended"
    sent,       \* the lines the program has sent
    received    \* how many of them netcat has shown

program == <<kind, at, status, totals, results, peer, sent>>
hwvars == <<kind, at, status, totals, results, taken, peer, client, sent, received>>

Line(text, numbers) == [text |-> text, numbers |-> numbers]
network_printf(line) == sent' = Append(sent, line)
Quietly == UNCHANGED <<taken, client, received>>

-----------------------------------------------------------------------------
Kinds == {"tests", "reports", "times"}
Main(k) == IF k = "times" THEN "measuring" ELSE "binding"   \* what main does first
TestStatus == [passes |-> 0, failures |-> 0]
Counters == [tests |-> 0, testsPassed |-> 0, subtests |-> 0, subtestsPassed |-> 0]

HwInit ==
    /\ kind \in Kinds /\ at = Main(kind)
    /\ status = TestStatus /\ totals = Counters /\ results = 0
    /\ peer = "none" /\ sent = <<>>
    /\ taken \in BOOLEAN
    /\ client = "sleeping" /\ received = 0

Add ==
    /\ at = "measuring" /\ results < MaxTests
    /\ results' = results + 1
    /\ UNCHANGED <<kind, at, status, totals, peer, sent>> /\ Quietly

Measured ==
    /\ at = "measuring" /\ results = MaxTests
    /\ at' = "binding"
    /\ UNCHANGED <<kind, status, totals, results, peer, sent>> /\ Quietly

(* network_init: the socket, and net_bind until it succeeds; net_listen.       *)
Bind ==
    /\ at = "binding" /\ ~taken
    /\ at' = "accepting"
    /\ UNCHANGED <<kind, status, totals, results, peer, sent>> /\ Quietly

Accept ==
    /\ at = "accepting" /\ client \in {"connected", "gone"}
    /\ peer' = "open"
    /\ network_printf(Line("hello", <<>>))
    /\ at' = IF kind = "times" THEN "printing" ELSE "between_tests"
    /\ UNCHANGED <<kind, status, totals, results>> /\ Quietly

-----------------------------------------------------------------------------
privStartTest ==
    /\ at = "between_tests" /\ totals.tests < MaxTests
    /\ status' = TestStatus
    /\ totals' = [totals EXCEPT !.tests = @ + 1]
    /\ at' = "testing"
    /\ UNCHANGED <<kind, results, peer, sent>> /\ Quietly

num_subtests == status.passes + status.failures

privTestPassed ==
    /\ at = "testing" /\ num_subtests < MaxSubtests
    /\ status' = [status EXCEPT !.passes = @ + 1]
    /\ UNCHANGED <<kind, at, totals, results, peer, sent>> /\ Quietly

privTestFailed ==
    /\ at = "testing" /\ num_subtests < MaxSubtests
    /\ status' = [status EXCEPT !.failures = @ + 1]
    /\ network_printf(Line("subtest_failed", <<num_subtests + 1>>))
    /\ UNCHANGED <<kind, at, totals, results, peer>> /\ Quietly

TestPassedAlways == TRUE    \* mutant: every ended test counts
TestPassed == status.failures = 0

privEndTest ==
    /\ at = "testing"
    /\ totals' = [totals EXCEPT
            !.testsPassed = IF TestPassed THEN @ + 1 ELSE @,
            !.subtests = @ + num_subtests,
            !.subtestsPassed = @ + status.passes]
    /\ network_printf(Line(IF status.failures = 0 THEN "test_passed" ELSE "test_failed",
                           <<totals.tests, num_subtests>>))
    /\ at' = "between_tests"
    /\ UNCHANGED <<kind, status, results, peer>> /\ Quietly

(* report_test_results: only copyfilter and intensity call it. *)
report_test_results ==
    /\ at = "between_tests" /\ kind = "reports"
    /\ LET reported == Append(sent, Line("tests_passed_out_of",
                <<totals.testsPassed, totals.tests, totals.subtestsPassed, totals.subtests>>))
       IN sent' = IF totals.testsPassed = totals.tests
                  THEN Append(reported, Line("all_tests_passed", <<>>)) ELSE reported
    /\ at' = "finishing"
    /\ UNCHANGED <<kind, status, totals, results, peer>> /\ Quietly

FinishTests ==  \* the programs that do not report
    /\ at = "between_tests" /\ kind = "tests"
    /\ at' = "finishing"
    /\ UNCHANGED <<kind, status, totals, results, peer, sent>> /\ Quietly

(* ResultPrinter::Print, one result a line, in the order they were added. *)
PrintResults ==
    /\ at = "printing"
    /\ sent' = sent \o [n \in 1 .. results |-> Line("result", <<n>>)]
    /\ at' = "finishing"
    /\ UNCHANGED <<kind, status, totals, results, peer>> /\ Quietly

ShutdownServer ==       \* mutant: closes server_socket alone
    /\ at = "finishing" /\ at' = "returned"
    /\ UNCHANGED <<kind, status, totals, results, peer, sent>> /\ Quietly

network_shutdown ==
    /\ at = "finishing" /\ at' = "returned"
    /\ peer' = "closed"
    /\ UNCHANGED <<kind, status, totals, results, sent>> /\ Quietly

-----------------------------------------------------------------------------
(* run.sh after its sleep, or a telnet by hand: a port that nobody listens on   *)
(* refuses it, and run.sh does not try again.                                *)
Connect ==
    /\ client = "sleeping"
    /\ client' = IF at = "accepting" THEN "connected" ELSE "refused"
    /\ UNCHANGED <<program, taken, received>>

Telnet ==
    /\ client = "refused" /\ at = "accepting"
    /\ client' = "connected"
    /\ UNCHANGED <<program, taken, received>>

Receive ==
    /\ client = "connected" /\ received < Len(sent)
    /\ received' = received + 1
    /\ UNCHANGED <<program, taken, client>>

Ends ==     \* the end of the stream
    /\ client = "connected" /\ peer = "closed" /\ received = Len(sent)
    /\ client' = "ended"
    /\ UNCHANGED <<program, taken, received>>

Quit ==     \* interrupted; what the program still sends is lost
    /\ client = "connected" /\ client' = "gone"
    /\ UNCHANGED <<program, taken, received>>

Release ==  \* the program before is gone from the port
    /\ taken /\ taken' = FALSE
    /\ UNCHANGED <<program, client, received>>

Run ==      \* the next program, when this one is back in its loader
    /\ at = "returned" /\ client \in {"ended", "gone"}
    /\ kind' \in Kinds /\ at' = Main(kind')
    /\ status' = TestStatus /\ totals' = Counters /\ results' = 0
    /\ peer' = "none" /\ sent' = <<>>
    /\ taken' \in BOOLEAN
    /\ client' = "sleeping" /\ received' = 0

ProgramStep ==
    \/ Add \/ Measured \/ Bind \/ Accept
    \/ privStartTest \/ privTestPassed \/ privTestFailed \/ privEndTest
    \/ report_test_results \/ FinishTests \/ PrintResults \/ network_shutdown
ClientStep == Receive \/ Ends
HwNext == ProgramStep \/ ClientStep \/ Connect \/ Telnet \/ Quit \/ Release \/ Run

HwSpec == HwInit /\ [][HwNext]_hwvars

-----------------------------------------------------------------------------
Sent(text) == {n \in DOMAIN sent : sent[n].text = text}
Count(text) == Cardinality(Sent(text))

(* What report_test_results says of the run agrees with the lines sent before   *)
(* it: as many tests passed and failed as it counts, and "All tests passed"     *)
(* exactly when no line says that a subtest failed.                          *)
VerdictSound ==
    \A n \in Sent("tests_passed_out_of") :
        LET numbers == sent[n].numbers
        IN /\ numbers[1] = Count("test_passed")
           /\ numbers[2] = numbers[1] + Count("test_failed")
           /\ numbers[4] = numbers[3] + Count("subtest_failed")
           /\ Sent("all_tests_passed") # {} <=> Sent("subtest_failed") = {}

(* A client that is connected is let go with all that the program had to say,   *)
(* once the program has returned, unless it quits.                           *)
ReportArrives ==
    client = "connected" ~>
        \/ client = "gone"
        \/ client = "ended" /\ at = "returned" /\ received = Len(sent)
=============================================================================
