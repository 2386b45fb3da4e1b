------------------------------- MODULE IpcCall -------------------------------
(***************************************************************************)
(* What iostest/ipc.h promises its callers: SendRequest and                 *)
(* SendRequestWithInterrupt are remote calls.  Requests are numbered in the *)
(* order in which they are made; IOS executes each one once, in that order, *)
(* after it was issued and before its call returns, and the result a call   *)
(* returns is the one of its own request.  Every call returns.              *)
(***************************************************************************)
EXTENDS Naturals

CONSTANT MaxCalls  \* bound: the number of calls

VARIABLES
    issued,    \* requests made so far
    executed,  \* requests IOS has executed
    returned,  \* calls that have returned
    answer     \* the request whose result the last call returned, 0 for none

vars == <<issued, executed, returned, answer>>

Init == issued = 0 /\ executed = 0 /\ returned = 0 /\ answer = 0

Issue ==
    /\ issued = returned
    /\ issued < MaxCalls
    /\ issued' = issued + 1
    /\ UNCHANGED <<executed, returned, answer>>

Execute ==
    /\ executed < issued
    /\ executed' = executed + 1
    /\ UNCHANGED <<issued, returned, answer>>

Return ==
    /\ returned < executed
    /\ returned' = returned + 1
    /\ answer' = returned + 1
    /\ UNCHANGED <<issued, executed>>

Next == Issue \/ Execute \/ Return

Spec == Init /\ [][Next]_vars

Fairness == WF_vars(Execute) /\ WF_vars(Return)

FairSpec == Spec /\ Fairness

=============================================================================
