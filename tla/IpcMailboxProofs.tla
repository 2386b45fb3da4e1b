-------------------------- MODULE IpcMailboxProofs --------------------------
(***************************************************************************)
(* IpcMailbox for any number of calls and any run of the clock.  The        *)
(* inductive invariant has three parts that build on one another: where the *)
(* protocol is (Protocol), what cache and memory hold (Memory), and in what *)
(* order the time stamps were taken (Clock).                               *)
(***************************************************************************)
EXTENDS IpcMailbox, TLAPS

PreRing == {"unmask", "store", "flush", "ppcmsg", "start_tb", "ring"}
PollRing ==
    {"wait_ack", "ack_tb", "clear_y2", "wait_reply", "reply_tb", "armmsg", "clear_y1",
     "ring_x2", "invalidate", "return"}
IrqRing == {"wait_complete", "mask", "free", "armmsg", "invalidate", "return"}
PostRing == PollRing \cup IrqRing

(* How far IOS has come with the request of the current call. *)
Sent     == "X1" \in ctrl /\ arm = "idle" /\ executed = calls - 1
Working  == "X1" \notin ctrl /\ arm = "working" /\ job = "ours" /\ executed = calls - 1
Done     == "X1" \notin ctrl /\ arm = "done" /\ job = "ours" /\ executed = calls
Answered == "X1" \notin ctrl /\ arm = "idle" /\ armmsg = "ours" /\ executed = calls
Accepted == Working \/ Done \/ Answered

Released == owed => "X2" \in ctrl

Quiet ==
    /\ irqpc = "none" /\ ~flag
    /\ arm = "idle" /\ executed = returned
    /\ "X1" \notin ctrl /\ "Y1" \notin ctrl /\ "Y2" \notin ctrl
    /\ Released

(* A call of SendRequest, after its doorbell. *)
Polling ==
    /\ pc \in PollRing
    /\ irqpc = "none" /\ ~flag
    /\ "IY1" \notin ctrl /\ "IY2" \notin ctrl
    /\ pc = "wait_ack" => (Sent \/ Accepted) /\ ("Y2" \in ctrl <=> Accepted)
    /\ pc \in {"ack_tb", "clear_y2"} => Accepted /\ "Y2" \in ctrl
    /\ pc \notin {"wait_ack", "ack_tb", "clear_y2"} => Accepted /\ "Y2" \notin ctrl
    /\ pc \in {"wait_ack", "ack_tb", "clear_y2", "wait_reply"} =>
            ("Y1" \in ctrl <=> Answered)
    /\ pc \in {"reply_tb", "armmsg", "clear_y1"} => Answered /\ "Y1" \in ctrl
    /\ pc \in {"ring_x2", "invalidate", "return"} => Answered /\ "Y1" \notin ctrl
    /\ pc \in {"invalidate", "return"} => Released

(* A call of SendRequestWithInterrupt, after its doorbell: the handler waits *)
(* for Y2, then for Y1, then releases the reply, and the program goes on.    *)
AwaitAck ==
    /\ irqpc \in {"none", "check_y2", "ack_tb", "clear_y2"}
    /\ "IY2" \in ctrl /\ "IY1" \notin ctrl
    /\ Sent \/ Accepted
    /\ "Y2" \in ctrl <=> Accepted
    /\ "Y1" \in ctrl <=> Answered
    /\ irqpc # "none" => Accepted
    /\ flag <=> "Y2" \in ctrl

AwaitReply ==
    /\ irqpc \in {"none", "check_y2", "ack_y2", "check_y1", "reply_tb", "clear_y1"}
    /\ "IY1" \in ctrl /\ "IY2" \notin ctrl /\ "Y2" \notin ctrl
    /\ Accepted
    /\ "Y1" \in ctrl <=> Answered
    /\ irqpc \in {"check_y2", "reply_tb", "clear_y1"} => Answered
    /\ irqpc = "none" => (flag <=> "Y1" \in ctrl)
    /\ irqpc = "check_y1" /\ flag => "Y1" \in ctrl

Silenced ==
    /\ Answered
    /\ "IY1" \notin ctrl /\ "IY2" \notin ctrl /\ "Y1" \notin ctrl /\ "Y2" \notin ctrl

Releasing ==
    /\ irqpc \in {"ring_x2", "ack_y1", "complete"}
    /\ Silenced
    /\ irqpc # "ring_x2" => Released
    /\ irqpc = "complete" => ~flag

Finished == irqpc = "none" /\ ~flag /\ Silenced /\ Released

Interrupting ==
    /\ pc \in IrqRing
    /\ pc # "wait_complete" => complete
    /\ complete => Finished
    /\ ~complete => AwaitAck \/ AwaitReply \/ Releasing

Protocol ==
    /\ pc # "aborted"
    /\ pc \in {"idle", "off"} => returned = calls
    /\ pc \notin {"idle", "off"} => returned = calls - 1
    /\ pc \in {"idle", "off"} \cup PreRing => Quiet
    /\ pc \in {"start_tb", "ring"} \cup PostRing => ppcmsg = "ours"
    /\ mode = "irq" /\ pc \in PreRing => ~complete
    /\ mode = "poll" /\ pc \in PostRing => Polling
    /\ mode = "irq" /\ pc \in PostRing => Interrupting

Fresh == [req |-> calls, done |-> FALSE]

Memory ==
    /\ pc \in {"idle", "off", "unmask", "store"} => cache # "dirty"
    /\ pc = "flush" => IF cache = "dirty" THEN cline = Fresh ELSE dram = Fresh
    /\ pc \in {"ppcmsg", "start_tb", "ring"} => cache # "dirty" /\ dram = Fresh
    /\ pc \in PostRing => cache # "dirty" /\ dram = [req |-> calls, done |-> executed = calls]
    /\ pc = "return" => cache = "none" \/ cline = dram

(* The acknowledgement, and the reply, have been time-stamped. *)
AckRead ==
    /\ pc \in PostRing
    /\ mode = "poll" => pc \notin {"wait_ack", "ack_tb"}
    /\ mode = "irq" => irqpc = "clear_y2" \/ "IY2" \notin ctrl

ReplyRead ==
    /\ pc \in PostRing
    /\ mode = "poll" => pc \in {"armmsg", "clear_y1", "ring_x2", "invalidate", "return"}
    /\ mode = "irq" => irqpc = "clear_y1" \/ ("IY1" \notin ctrl /\ "IY2" \notin ctrl)

Covered ==
    /\ acked_at - rung_at \in 0 .. ack_ticks
    /\ replied_at - rung_at \in 0 .. ack_ticks + reply_ticks

Clock ==
    /\ pc = "ring" => start_tb <= tb
    /\ pc \in PostRing => start_tb <= rung_at /\ rung_at <= tb
    /\ pc \in PostRing /\ "X1" \notin ctrl => rung_at <= acked_at /\ acked_at <= tb
    /\ pc \in PostRing /\ "X1" \notin ctrl /\ arm = "idle" =>
            acked_at <= replied_at /\ replied_at <= tb
    /\ AckRead => acked_at <= ack_tb /\ ack_tb <= tb
    /\ ReplyRead => replied_at <= reply_tb /\ reply_tb <= tb /\ ack_tb <= reply_tb
    /\ pc \in {"idle", "off"} /\ returned > 0 => Covered

(* The whole inductive invariant. *)
IInv == TypeOK /\ Protocol /\ Memory /\ Clock

-----------------------------------------------------------------------------
(* The initial states satisfy the invariant. *)
LEMMA InitIInv == Init => IInv
<1> SUFFICES ASSUME Init PROVE IInv
  OBVIOUS
<1> USE CallBound, TimeBound DEF Init
<1>1. TypeOK
  <2>1. Booleans
    BY DEF Booleans
  <2>2. Others
    BY DEF Others, Bits, Owners, Lines, Times, ProgramCounters, HandlerCounters
  <2> QED BY <2>1, <2>2 DEF TypeOK, Booleans, Others
<1>2. Protocol
  BY DEF Protocol, Quiet, Released, PreRing, PollRing, IrqRing, PostRing
<1>3. Memory
  BY DEF Memory, PollRing, IrqRing, PostRing
<1>4. Clock
  BY DEF Clock, AckRead, ReplyRead, PollRing, IrqRing, PostRing
<1> QED BY <1>1, <1>2, <1>3, <1>4 DEF IInv

(* Every step keeps the Boolean variables Boolean. *)
LEMMA NextBooleans == TypeOK /\ [Next]_vars => Booleans'
<1> SUFFICES ASSUME TypeOK, [Next]_vars PROVE Booleans'
  OBVIOUS
<1> USE DEF TypeOK, Booleans,
       At, HandlerAt, ArmSets, KeepProgram, KeepRegisters, program, irq, stamps, memory, ios,
       ipc_bell, ipc_ack_interrupt, Latched, Line, Interrupted
(* The program. *)
<1>1. CASE InitIpc
  BY <1>1 DEF InitIpc
<1>2. CASE Shutdown
  BY <1>2 DEF Shutdown
<1>3. CASE BeginPoll
  BY <1>3 DEF BeginPoll
<1>4. CASE BeginIrq
  BY <1>4 DEF BeginIrq
<1>5. CASE Unmask
  BY <1>5 DEF Unmask
<1>6. CASE Store
  BY <1>6 DEF Store
<1>7. CASE Flush
  BY <1>7 DEF Flush
<1>8. CASE WritePpcMsg
  BY <1>8 DEF WritePpcMsg
<1>9. CASE ReadStart
  BY <1>9 DEF ReadStart
<1>10. CASE Ring
  BY <1>10 DEF Ring
<1>11. CASE ipc_wait_ack
  BY <1>11 DEF ipc_wait_ack
<1>12. CASE ReadAck
  BY <1>12 DEF ReadAck
<1>13. CASE ClearY2
  BY <1>13 DEF ClearY2
<1>14. CASE ipc_wait_reply
  BY <1>14 DEF ipc_wait_reply
<1>15. CASE ReadReply
  BY <1>15 DEF ReadReply
<1>16. CASE ClearY1
  BY <1>16 DEF ClearY1
<1>17. CASE RingX2
  BY <1>17 DEF RingX2
<1>18. CASE WaitComplete
  BY <1>18 DEF WaitComplete
<1>19. CASE Mask
  BY <1>19 DEF Mask
<1>20. CASE Free
  BY <1>20 DEF Free
<1>21. CASE ReadArmMsg
  BY <1>21 DEF ReadArmMsg
<1>22. CASE Invalidate
  BY <1>22 DEF Invalidate
<1>23. CASE Return
  BY <1>23 DEF Return
(* The handler. *)
<1>24. CASE EnterHandler
  BY <1>24 DEF EnterHandler
<1>25. CASE CheckY2
  BY <1>25 DEF CheckY2
<1>26. CASE HandlerReadAck
  BY <1>26 DEF HandlerReadAck
<1>27. CASE HandlerClearY2
  BY <1>27 DEF HandlerClearY2
<1>28. CASE HandlerAckY2
  BY <1>28 DEF HandlerAckY2
<1>29. CASE CheckY1
  BY <1>29 DEF CheckY1
<1>30. CASE HandlerReadReply
  BY <1>30 DEF HandlerReadReply
<1>31. CASE HandlerClearY1
  BY <1>31 DEF HandlerClearY1
<1>32. CASE HandlerRingX2
  BY <1>32 DEF HandlerRingX2
<1>33. CASE HandlerAckY1
  BY <1>33 DEF HandlerAckY1
<1>34. CASE HandlerComplete
  BY <1>34 DEF HandlerComplete
(* IOS. *)
<1>35. CASE ArmAccept
  BY <1>35 DEF ArmAccept
<1>36. CASE ArmExecute
  BY <1>36 DEF ArmExecute
<1>37. CASE ArmReply
  BY <1>37 DEF ArmReply
<1>38. CASE ArmRelaunch
  BY <1>38 DEF ArmRelaunch
(* The data cache and the time base. *)
<1>39. CASE Fetch
  BY <1>39 DEF Fetch
<1>40. CASE Evict
  BY <1>40 DEF Evict
<1>41. CASE Tick
  BY <1>41 DEF Tick
<1>42. CASE UNCHANGED vars
  BY <1>42 DEF vars
<1> QED
  BY <1>1, <1>2, <1>3, <1>4, <1>5, <1>6, <1>7, <1>8, <1>9, <1>10, <1>11, <1>12, <1>13, <1>14, <1>15, <1>16, <1>17, <1>18, <1>19, <1>20, <1>21, <1>22, <1>23, <1>24, <1>25, <1>26, <1>27, <1>28, <1>29, <1>30, <1>31, <1>32, <1>33, <1>34, <1>35, <1>36, <1>37, <1>38, <1>39, <1>40, <1>41, <1>42
     DEF Next, CallStep, HandlerStep, ArmStep

(* Every step keeps the types.  Protocol bounds the counters, Clock makes    *)
(* the differences that Return computes non-negative.                       *)
LEMMA NextOthers == IInv /\ [Next]_vars => Others'
<1> SUFFICES ASSUME IInv, [Next]_vars PROVE Others'
  OBVIOUS
<1> USE CallBound, TimeBound
    DEF IInv, TypeOK, Booleans, Others, Bits, Owners, Lines, Times, ProgramCounters, HandlerCounters,
       At, HandlerAt, ArmSets, KeepProgram, KeepRegisters, program, irq, stamps, memory, ios,
       ipc_bell, ipc_ack_interrupt, Latched, Line, Interrupted
(* The program. *)
<1>1. CASE InitIpc
  BY <1>1 DEF InitIpc
<1>2. CASE Shutdown
  BY <1>2 DEF Shutdown
<1>3. CASE BeginPoll
  BY <1>3 DEF BeginPoll
<1>4. CASE BeginIrq
  BY <1>4 DEF BeginIrq
<1>5. CASE Unmask
  BY <1>5 DEF Unmask
<1>6. CASE Store
  BY <1>6 DEF Store
<1>7. CASE Flush
  BY <1>7 DEF Flush, sync_after_write
<1>8. CASE WritePpcMsg
  BY <1>8 DEF WritePpcMsg
<1>9. CASE ReadStart
  BY <1>9 DEF ReadStart
<1>10. CASE Ring
  BY <1>10 DEF Ring
<1>11. CASE ipc_wait_ack
  BY <1>11 DEF ipc_wait_ack
<1>12. CASE ReadAck
  BY <1>12 DEF ReadAck
<1>13. CASE ClearY2
  BY <1>13 DEF ClearY2
<1>14. CASE ipc_wait_reply
  BY <1>14 DEF ipc_wait_reply
<1>15. CASE ReadReply
  BY <1>15 DEF ReadReply
<1>16. CASE ClearY1
  BY <1>16 DEF ClearY1
<1>17. CASE RingX2
  BY <1>17 DEF RingX2
<1>18. CASE WaitComplete
  BY <1>18 DEF WaitComplete
<1>19. CASE Mask
  BY <1>19 DEF Mask
<1>20. CASE Free
  BY <1>20 DEF Free
<1>21. CASE ReadArmMsg
  BY <1>21 DEF ReadArmMsg
<1>22. CASE Invalidate
  BY <1>22 DEF Invalidate, sync_before_read
<1>23. CASE Return
  BY <1>23 DEF Return, Loaded, Clock, AckRead, ReplyRead,
       Protocol, Quiet, Polling, Interrupting, AwaitAck, AwaitReply, Releasing, Finished,
       Silenced, Sent, Working, Done, Answered, Accepted, Released,
       PreRing, PollRing, IrqRing, PostRing
(* The handler. *)
<1>24. CASE EnterHandler
  BY <1>24 DEF EnterHandler
<1>25. CASE CheckY2
  BY <1>25 DEF CheckY2
<1>26. CASE HandlerReadAck
  BY <1>26 DEF HandlerReadAck
<1>27. CASE HandlerClearY2
  BY <1>27 DEF HandlerClearY2
<1>28. CASE HandlerAckY2
  BY <1>28 DEF HandlerAckY2
<1>29. CASE CheckY1
  BY <1>29 DEF CheckY1
<1>30. CASE HandlerReadReply
  BY <1>30 DEF HandlerReadReply
<1>31. CASE HandlerClearY1
  BY <1>31 DEF HandlerClearY1
<1>32. CASE HandlerRingX2
  BY <1>32 DEF HandlerRingX2
<1>33. CASE HandlerAckY1
  BY <1>33 DEF HandlerAckY1
<1>34. CASE HandlerComplete
  BY <1>34 DEF HandlerComplete
(* IOS. *)
<1>35. CASE ArmAccept
  BY <1>35 DEF ArmAccept
<1>36. CASE ArmExecute
  <2>1. dram' \in Lines
    BY <1>36 DEF ArmExecute
  <2>2. executed' \in 0 .. MaxCalls
    BY <1>36 DEF ArmExecute,
         Protocol, Quiet, Polling, Interrupting, AwaitAck, AwaitReply, Releasing, Finished,
         Silenced, Sent, Working, Done, Answered, Accepted, Released,
         PreRing, PollRing, IrqRing, PostRing
  <2> QED BY <1>36, <2>1, <2>2 DEF ArmExecute
<1>37. CASE ArmReply
  BY <1>37 DEF ArmReply
<1>38. CASE ArmRelaunch
  BY <1>38 DEF ArmRelaunch
(* The data cache and the time base. *)
<1>39. CASE Fetch
  BY <1>39 DEF Fetch
<1>40. CASE Evict
  BY <1>40 DEF Evict, sync_after_write
<1>41. CASE Tick
  BY <1>41 DEF Tick
<1>42. CASE UNCHANGED vars
  BY <1>42 DEF vars
<1> QED
  BY <1>1, <1>2, <1>3, <1>4, <1>5, <1>6, <1>7, <1>8, <1>9, <1>10, <1>11, <1>12, <1>13, <1>14, <1>15, <1>16, <1>17, <1>18, <1>19, <1>20, <1>21, <1>22, <1>23, <1>24, <1>25, <1>26, <1>27, <1>28, <1>29, <1>30, <1>31, <1>32, <1>33, <1>34, <1>35, <1>36, <1>37, <1>38, <1>39, <1>40, <1>41, <1>42
     DEF Next, CallStep, HandlerStep, ArmStep

LEMMA NextTypeOK == IInv /\ [Next]_vars => TypeOK'
  BY NextBooleans, NextOthers DEF IInv, TypeOK, Booleans, Others

(* Every step keeps the protocol. *)
LEMMA NextProtocol == TypeOK /\ Protocol /\ [Next]_vars => Protocol'
<1> SUFFICES ASSUME TypeOK, Protocol, [Next]_vars PROVE Protocol'
  OBVIOUS
<1> USE DEF TypeOK, Booleans, Others,
       Protocol, Quiet, Polling, Interrupting, AwaitAck, AwaitReply, Releasing, Finished,
       Silenced, Sent, Working, Done, Answered, Accepted, Released,
       PreRing, PollRing, IrqRing, PostRing,
       At, HandlerAt, ArmSets, KeepProgram, KeepRegisters, program, irq, stamps, memory, ios,
       ipc_bell, ipc_ack_interrupt, Latched, Line, Interrupted
(* The program. *)
<1>1. CASE InitIpc
  BY <1>1 DEF InitIpc
<1>2. CASE Shutdown
  BY <1>2 DEF Shutdown
<1>3. CASE BeginPoll
  BY <1>3 DEF BeginPoll
<1>4. CASE BeginIrq
  BY <1>4 DEF BeginIrq
<1>5. CASE Unmask
  BY <1>5 DEF Unmask
<1>6. CASE Store
  BY <1>6 DEF Store
<1>7. CASE Flush
  BY <1>7 DEF Flush
<1>8. CASE WritePpcMsg
  BY <1>8 DEF WritePpcMsg
<1>9. CASE ReadStart
  BY <1>9 DEF ReadStart
<1>10. CASE Ring
  BY <1>10 DEF Ring
<1>11. CASE ipc_wait_ack
  BY <1>11 DEF ipc_wait_ack
<1>12. CASE ReadAck
  BY <1>12 DEF ReadAck
<1>13. CASE ClearY2
  BY <1>13 DEF ClearY2
<1>14. CASE ipc_wait_reply
  BY <1>14 DEF ipc_wait_reply
<1>15. CASE ReadReply
  BY <1>15 DEF ReadReply
<1>16. CASE ClearY1
  BY <1>16 DEF ClearY1
<1>17. CASE RingX2
  BY <1>17 DEF RingX2
<1>18. CASE WaitComplete
  BY <1>18 DEF WaitComplete
<1>19. CASE Mask
  BY <1>19 DEF Mask
<1>20. CASE Free
  BY <1>20 DEF Free
<1>21. CASE ReadArmMsg
  BY <1>21 DEF ReadArmMsg
<1>22. CASE Invalidate
  BY <1>22 DEF Invalidate
<1>23. CASE Return
  BY <1>23 DEF Return
(* The handler. *)
<1>24. CASE EnterHandler
  BY <1>24 DEF EnterHandler
<1>25. CASE CheckY2
  BY <1>25 DEF CheckY2
<1>26. CASE HandlerReadAck
  BY <1>26 DEF HandlerReadAck
<1>27. CASE HandlerClearY2
  BY <1>27 DEF HandlerClearY2
<1>28. CASE HandlerAckY2
  BY <1>28 DEF HandlerAckY2
<1>29. CASE CheckY1
  BY <1>29 DEF CheckY1
<1>30. CASE HandlerReadReply
  BY <1>30 DEF HandlerReadReply
<1>31. CASE HandlerClearY1
  BY <1>31 DEF HandlerClearY1
<1>32. CASE HandlerRingX2
  BY <1>32 DEF HandlerRingX2
<1>33. CASE HandlerAckY1
  BY <1>33 DEF HandlerAckY1
<1>34. CASE HandlerComplete
  BY <1>34 DEF HandlerComplete
(* IOS. *)
<1>35. CASE ArmAccept
  BY <1>35 DEF ArmAccept
<1>36. CASE ArmExecute
  BY <1>36 DEF ArmExecute
<1>37. CASE ArmReply
  BY <1>37 DEF ArmReply
<1>38. CASE ArmRelaunch
  BY <1>38 DEF ArmRelaunch
(* The data cache and the time base. *)
<1>39. CASE Fetch
  BY <1>39 DEF Fetch
<1>40. CASE Evict
  BY <1>40 DEF Evict
<1>41. CASE Tick
  BY <1>41 DEF Tick
<1>42. CASE UNCHANGED vars
  BY <1>42 DEF vars
<1> QED
  BY <1>1, <1>2, <1>3, <1>4, <1>5, <1>6, <1>7, <1>8, <1>9, <1>10, <1>11, <1>12, <1>13, <1>14, <1>15, <1>16, <1>17, <1>18, <1>19, <1>20, <1>21, <1>22, <1>23, <1>24, <1>25, <1>26, <1>27, <1>28, <1>29, <1>30, <1>31, <1>32, <1>33, <1>34, <1>35, <1>36, <1>37, <1>38, <1>39, <1>40, <1>41, <1>42
     DEF Next, CallStep, HandlerStep, ArmStep

(* Every step keeps what cache and memory hold. *)
LEMMA NextMemory == TypeOK /\ Protocol /\ Memory /\ [Next]_vars => Memory'
<1> SUFFICES ASSUME TypeOK, Protocol, Memory, [Next]_vars PROVE Memory'
  OBVIOUS
<1> USE DEF Memory, Fresh, sync_after_write, sync_before_read, TypeOK, Booleans, Others, Lines,
       Protocol, Quiet, Polling, Interrupting, AwaitAck, AwaitReply, Releasing, Finished,
       Silenced, Sent, Working, Done, Answered, Accepted, Released,
       PreRing, PollRing, IrqRing, PostRing,
       At, HandlerAt, ArmSets, KeepProgram, KeepRegisters, program, irq, stamps, memory, ios,
       ipc_bell, ipc_ack_interrupt, Latched, Line, Interrupted
(* The program. *)
<1>1. CASE InitIpc
  BY <1>1 DEF InitIpc
<1>2. CASE Shutdown
  BY <1>2 DEF Shutdown
<1>3. CASE BeginPoll
  BY <1>3 DEF BeginPoll
<1>4. CASE BeginIrq
  BY <1>4 DEF BeginIrq
<1>5. CASE Unmask
  BY <1>5 DEF Unmask
<1>6. CASE Store
  BY <1>6 DEF Store
<1>7. CASE Flush
  BY <1>7 DEF Flush
<1>8. CASE WritePpcMsg
  BY <1>8 DEF WritePpcMsg
<1>9. CASE ReadStart
  BY <1>9 DEF ReadStart
<1>10. CASE Ring
  BY <1>10 DEF Ring
<1>11. CASE ipc_wait_ack
  BY <1>11 DEF ipc_wait_ack
<1>12. CASE ReadAck
  BY <1>12 DEF ReadAck
<1>13. CASE ClearY2
  BY <1>13 DEF ClearY2
<1>14. CASE ipc_wait_reply
  BY <1>14 DEF ipc_wait_reply
<1>15. CASE ReadReply
  BY <1>15 DEF ReadReply
<1>16. CASE ClearY1
  BY <1>16 DEF ClearY1
<1>17. CASE RingX2
  BY <1>17 DEF RingX2
<1>18. CASE WaitComplete
  BY <1>18 DEF WaitComplete
<1>19. CASE Mask
  BY <1>19 DEF Mask
<1>20. CASE Free
  BY <1>20 DEF Free
<1>21. CASE ReadArmMsg
  BY <1>21 DEF ReadArmMsg
<1>22. CASE Invalidate
  BY <1>22 DEF Invalidate
<1>23. CASE Return
  BY <1>23 DEF Return
(* The handler. *)
<1>24. CASE EnterHandler
  BY <1>24 DEF EnterHandler
<1>25. CASE CheckY2
  BY <1>25 DEF CheckY2
<1>26. CASE HandlerReadAck
  BY <1>26 DEF HandlerReadAck
<1>27. CASE HandlerClearY2
  BY <1>27 DEF HandlerClearY2
<1>28. CASE HandlerAckY2
  BY <1>28 DEF HandlerAckY2
<1>29. CASE CheckY1
  BY <1>29 DEF CheckY1
<1>30. CASE HandlerReadReply
  BY <1>30 DEF HandlerReadReply
<1>31. CASE HandlerClearY1
  BY <1>31 DEF HandlerClearY1
<1>32. CASE HandlerRingX2
  BY <1>32 DEF HandlerRingX2
<1>33. CASE HandlerAckY1
  BY <1>33 DEF HandlerAckY1
<1>34. CASE HandlerComplete
  BY <1>34 DEF HandlerComplete
(* IOS. *)
<1>35. CASE ArmAccept
  BY <1>35 DEF ArmAccept
<1>36. CASE ArmExecute
  <2>1. arm = "working" /\ job = "ours" /\ executed = calls - 1 /\ pc \in PostRing
    BY <1>36 DEF ArmExecute, ProgramCounters
  <2>2. dram = Fresh
    BY <2>1
  <2>3. executed' = calls /\ dram' = [req |-> calls, done |-> TRUE]
    <3>1. executed' = executed + 1 /\ dram' = [dram EXCEPT !.done = TRUE]
      BY <1>36, <2>1 DEF ArmExecute
    <3>2. executed + 1 = calls
      BY <2>1, CallBound
    <3> QED BY <2>2, <3>1, <3>2
  <2>4. (executed = calls)' = TRUE
    BY <1>36, <2>3 DEF ArmExecute
  <2>5. UNCHANGED <<pc, calls, cache, cline>> /\ pc # "return"
    BY <1>36, <2>1 DEF ArmExecute
  <2> QED BY <2>1, <2>3, <2>4, <2>5
<1>37. CASE ArmReply
  BY <1>37 DEF ArmReply
<1>38. CASE ArmRelaunch
  BY <1>38 DEF ArmRelaunch
(* The data cache and the time base. *)
<1>39. CASE Fetch
  BY <1>39 DEF Fetch
<1>40. CASE Evict
  BY <1>40 DEF Evict
<1>41. CASE Tick
  BY <1>41 DEF Tick
<1>42. CASE UNCHANGED vars
  BY <1>42 DEF vars
<1> QED
  BY <1>1, <1>2, <1>3, <1>4, <1>5, <1>6, <1>7, <1>8, <1>9, <1>10, <1>11, <1>12, <1>13, <1>14, <1>15, <1>16, <1>17, <1>18, <1>19, <1>20, <1>21, <1>22, <1>23, <1>24, <1>25, <1>26, <1>27, <1>28, <1>29, <1>30, <1>31, <1>32, <1>33, <1>34, <1>35, <1>36, <1>37, <1>38, <1>39, <1>40, <1>41, <1>42
     DEF Next, CallStep, HandlerStep, ArmStep

(* Every step keeps the order of the time stamps. *)
LEMMA NextClock == TypeOK /\ Protocol /\ Clock /\ [Next]_vars => Clock'
<1> SUFFICES ASSUME TypeOK, Protocol, Clock, [Next]_vars PROVE Clock'
  OBVIOUS
<1> USE DEF Clock, AckRead, ReplyRead, Covered, TypeOK, Booleans, Others, Times,
       Protocol, Quiet, Polling, Interrupting, AwaitAck, AwaitReply, Releasing, Finished,
       Silenced, Sent, Working, Done, Answered, Accepted, Released,
       PreRing, PollRing, IrqRing, PostRing,
       At, HandlerAt, ArmSets, KeepProgram, KeepRegisters, program, irq, stamps, memory, ios,
       ipc_bell, ipc_ack_interrupt, Latched, Line, Interrupted
(* The program. *)
<1>1. CASE InitIpc
  BY <1>1 DEF InitIpc
<1>2. CASE Shutdown
  BY <1>2 DEF Shutdown
<1>3. CASE BeginPoll
  BY <1>3 DEF BeginPoll
<1>4. CASE BeginIrq
  BY <1>4 DEF BeginIrq
<1>5. CASE Unmask
  BY <1>5 DEF Unmask
<1>6. CASE Store
  BY <1>6 DEF Store
<1>7. CASE Flush
  BY <1>7 DEF Flush
<1>8. CASE WritePpcMsg
  BY <1>8 DEF WritePpcMsg
<1>9. CASE ReadStart
  BY <1>9 DEF ReadStart
<1>10. CASE Ring
  BY <1>10 DEF Ring
<1>11. CASE ipc_wait_ack
  BY <1>11 DEF ipc_wait_ack
<1>12. CASE ReadAck
  BY <1>12 DEF ReadAck
<1>13. CASE ClearY2
  BY <1>13 DEF ClearY2
<1>14. CASE ipc_wait_reply
  BY <1>14 DEF ipc_wait_reply
<1>15. CASE ReadReply
  BY <1>15 DEF ReadReply
<1>16. CASE ClearY1
  BY <1>16 DEF ClearY1
<1>17. CASE RingX2
  BY <1>17 DEF RingX2
<1>18. CASE WaitComplete
  BY <1>18 DEF WaitComplete
<1>19. CASE Mask
  BY <1>19 DEF Mask
<1>20. CASE Free
  BY <1>20 DEF Free
<1>21. CASE ReadArmMsg
  BY <1>21 DEF ReadArmMsg
<1>22. CASE Invalidate
  BY <1>22 DEF Invalidate
<1>23. CASE Return
  BY <1>23 DEF Return
(* The handler. *)
<1>24. CASE EnterHandler
  BY <1>24 DEF EnterHandler
<1>25. CASE CheckY2
  BY <1>25 DEF CheckY2
<1>26. CASE HandlerReadAck
  BY <1>26 DEF HandlerReadAck
<1>27. CASE HandlerClearY2
  BY <1>27 DEF HandlerClearY2
<1>28. CASE HandlerAckY2
  BY <1>28 DEF HandlerAckY2
<1>29. CASE CheckY1
  BY <1>29 DEF CheckY1
<1>30. CASE HandlerReadReply
  BY <1>30 DEF HandlerReadReply
<1>31. CASE HandlerClearY1
  BY <1>31 DEF HandlerClearY1
<1>32. CASE HandlerRingX2
  BY <1>32 DEF HandlerRingX2
<1>33. CASE HandlerAckY1
  BY <1>33 DEF HandlerAckY1
<1>34. CASE HandlerComplete
  BY <1>34 DEF HandlerComplete
(* IOS. *)
<1>35. CASE ArmAccept
  BY <1>35 DEF ArmAccept
<1>36. CASE ArmExecute
  BY <1>36 DEF ArmExecute
<1>37. CASE ArmReply
  BY <1>37 DEF ArmReply
<1>38. CASE ArmRelaunch
  BY <1>38 DEF ArmRelaunch
(* The data cache and the time base. *)
<1>39. CASE Fetch
  BY <1>39 DEF Fetch
<1>40. CASE Evict
  BY <1>40 DEF Evict
<1>41. CASE Tick
  BY <1>41 DEF Tick
<1>42. CASE UNCHANGED vars
  BY <1>42 DEF vars
<1> QED
  BY <1>1, <1>2, <1>3, <1>4, <1>5, <1>6, <1>7, <1>8, <1>9, <1>10, <1>11, <1>12, <1>13, <1>14, <1>15, <1>16, <1>17, <1>18, <1>19, <1>20, <1>21, <1>22, <1>23, <1>24, <1>25, <1>26, <1>27, <1>28, <1>29, <1>30, <1>31, <1>32, <1>33, <1>34, <1>35, <1>36, <1>37, <1>38, <1>39, <1>40, <1>41, <1>42
     DEF Next, CallStep, HandlerStep, ArmStep

(* The inductive invariant holds in every reachable state. *)
THEOREM Invariance == Spec => []IInv
<1>1. IInv /\ [Next]_vars => IInv'
  BY NextTypeOK, NextProtocol, NextMemory, NextClock DEF IInv
<1> QED BY InitIInv, <1>1, PTL DEF Spec

-----------------------------------------------------------------------------
(* Every variable keeps its type; in particular the tick counts that the      *)
(* code computes as unsigned differences are not negative.                  *)
THEOREM TypeCorrect == Spec => []TypeOK
  BY Invariance, PTL DEF IInv

(* No interrupt of IOS is lost, and none is pending that the handler would   *)
(* not acknowledge, whatever calls were made before.                        *)
THEOREM InterruptExact == Spec => []IrqFlagExact
<1>1. IInv => IrqFlagExact
  BY DEF IInv, IrqFlagExact, Line, TypeOK, Booleans, Others, ProgramCounters, 
         Protocol, Quiet, Polling, Interrupting, AwaitAck, AwaitReply, Releasing, Finished,
         Silenced, PreRing, PollRing, IrqRing, PostRing
<1> QED BY <1>1, Invariance, PTL

(* The assertion that ARMMSG points to s_ipc_request never fails. *)
THEOREM NoAbort == Spec => []NeverAborts
<1>1. IInv => NeverAborts
  BY DEF IInv, Protocol, NeverAborts
<1> QED BY <1>1, Invariance, PTL

(* The ticks a call reports cover the time IOS took. *)
THEOREM TicksNeverShort == Spec => []TicksCover
<1>1. IInv => TicksCover
  BY DEF IInv, Clock, TicksCover, Covered
<1> QED BY <1>1, Invariance, PTL

(* Between calls nothing of the last call is left in the mailbox. *)
THEOREM RestBetweenCalls == Spec => []AtRest
<1>1. IInv => AtRest
  BY DEF IInv, Protocol, Memory, Quiet, Released, AtRest
<1> QED BY <1>1, Invariance, PTL

(* Both versions implement the remote call of IpcCall, for any number of     *)
(* calls: executed once, in order, each returning its own request's result. *)
THEOREM Implements == Spec => ImplementsCall
<1>1. Init => Call!Init
  BY DEF Init, Call!Init, AnswerOf
<1>2. IInv /\ [Next]_vars => [Call!Next]_Call!vars
  <2> SUFFICES ASSUME IInv, [Next]_vars PROVE Call!Next \/ UNCHANGED Call!vars
    OBVIOUS
  <2>1. CASE BeginPoll \/ BeginIrq
    <3>1. calls' = calls + 1 /\ calls < MaxCalls /\ pc = "idle"
          /\ UNCHANGED <<executed, returned, result>>
      BY <2>1 DEF BeginPoll, BeginIrq, At, ios
    <3>2. returned = calls
      BY <3>1 DEF IInv, Protocol
    <3> QED BY <3>1, <3>2 DEF Call!Next, Call!Issue
  <2>2. CASE ArmExecute
    <3>1. arm = "working" /\ UNCHANGED <<calls, returned, result>>
      BY <2>2 DEF ArmExecute, program
    <3>2. Working
      BY <3>1 DEF IInv, TypeOK, Booleans, Others, ProgramCounters,
           Protocol, Quiet, Polling, Interrupting, AwaitAck, AwaitReply, Releasing, Finished,
           Silenced, Sent, Working, Done, Answered, Accepted, Released,
           PreRing, PollRing, IrqRing, PostRing,
           Memory
    <3>3. executed < calls /\ executed' = executed + 1
      BY <2>2, <3>2, CallBound DEF ArmExecute, Working, IInv, TypeOK, Others
    <3> QED BY <3>1, <3>3 DEF Call!Next, Call!Execute
  <2>3. CASE Return
    <3>1. pc = "return" /\ returned' = returned + 1 /\ result' = Loaded
          /\ UNCHANGED <<calls, executed>>
      BY <2>3 DEF Return, At, ios
    <3>2. executed = calls /\ returned = calls - 1
      BY <3>1 DEF IInv, TypeOK, Others,
           Protocol, Quiet, Polling, Interrupting, AwaitAck, AwaitReply, Releasing, Finished,
           Silenced, Sent, Working, Done, Answered, Accepted, Released,
           PreRing, PollRing, IrqRing, PostRing
    <3>3. Loaded = dram /\ dram = [req |-> calls, done |-> TRUE]
      BY <3>1, <3>2 DEF IInv, Memory, Loaded, PollRing, PostRing
    <3>4. returned < executed /\ calls = returned + 1
      BY <3>2, CallBound DEF IInv, TypeOK, Others
    <3>5. AnswerOf(result') = returned + 1
      BY <3>1, <3>3, <3>4 DEF AnswerOf
    <3> QED BY <3>1, <3>4, <3>5 DEF Call!Next, Call!Return
  <2>4. CASE UNCHANGED vars
    BY <2>4 DEF vars, program, ios, Call!vars
  <2>5. CASE Next /\ ~(BeginPoll \/ BeginIrq \/ ArmExecute \/ Return)
    BY <2>5
       DEF Next, CallStep, HandlerStep, ArmStep,
           InitIpc, Shutdown, Unmask, Store, Flush, WritePpcMsg, ReadStart,
           Ring, ipc_wait_ack, ReadAck, ClearY2, ipc_wait_reply, ReadReply, ClearY1,
           RingX2, WaitComplete, Mask, Free, ReadArmMsg, Invalidate, EnterHandler,
           CheckY2, HandlerReadAck, HandlerClearY2, HandlerAckY2, CheckY1, HandlerReadReply, HandlerClearY1,
           HandlerRingX2, HandlerAckY1, HandlerComplete, ArmAccept, ArmReply, ArmRelaunch, Fetch,
           Evict, Tick,
           At, HandlerAt, ArmSets, KeepProgram, program, ios, Call!vars
  <2> QED BY <2>1, <2>2, <2>3, <2>4, <2>5
<1> QED BY <1>1, <1>2, Invariance, PTL DEF Spec, ImplementsCall, Call!Spec

=============================================================================
