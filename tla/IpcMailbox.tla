----------------------------- MODULE IpcMailbox -----------------------------
(***************************************************************************)
(* iostest/ipc.cpp: one IPC call from the PowerPC to IOS, polling           *)
(* (SendRequest) or with the IPC interrupt (SendRequestWithInterrupt).      *)
(*                                                                         *)
(* Three things run concurrently: the program, the interrupt handler that   *)
(* preempts it, and IOS on the other processor (external).  They share the  *)
(* doorbell bits of PPCCTRL, the two message registers, the latched flag in *)
(* PPCIRQFLAG, and s_ipc_request, which the program sees through its data   *)
(* cache and IOS sees in memory.  GetTimebase is atomic here: TimebaseProofs *)
(* shows that its value is one the counter held during the call.            *)
(***************************************************************************)
EXTENDS Integers

CONSTANTS
    MaxCalls,  \* bound: calls made in a behaviour
    MaxTb      \* bound: largest value of the time base

ASSUME CallBound == MaxCalls \in Nat
ASSUME TimeBound == MaxTb \in Nat

VARIABLES
    pc,        \* next statement of the program
    mode,      \* "poll" or "irq": which function the current call is in
    irqpc,     \* next statement of the IRQ_Request handler, "none" outside it
    ctrl,      \* the bits set in PPCCTRL
    flag,      \* the latched IPC bit of PPCIRQFLAG
    masked,    \* __MaskIrq / __UnmaskIrq of IRQ_PI_ACR
    handler,   \* who IRQ_Request installed: "ogc", "ours", "none"
    ppcmsg,    \* PPCMSG: whose request block it points to
    armmsg,    \* ARMMSG, likewise
    complete,  \* context.complete
    cache,     \* the data cache's line of s_ipc_request: "none", "clean", "dirty"
    cline,     \* what the line holds, while cached
    dram,      \* s_ipc_request in memory
    arm,       \* IOS: "idle", "working", "done"
    job,       \* IOS: the request block it was pointed to
    owed,      \* IOS: a reply was posted and not yet released by X2
    tb,        \* the time base
    start_tb, ack_tb, reply_tb,
    ack_ticks, reply_ticks, result,  \* the Result of the last call
    calls,     \* requests made so far; the number identifies the request
    executed,  \* history: requests IOS has executed
    returned,  \* history: calls that have returned
    rung_at, acked_at, replied_at    \* history: when X1, Y2, Y1 were set

program  == <<pc, mode, calls, returned, start_tb, ack_ticks, reply_ticks, result>>
irq      == <<irqpc, masked, handler, complete>>
stamps   == <<ack_tb, reply_tb>>
memory   == <<cache, cline, dram>>
ios      == <<arm, job, owed, armmsg, executed, acked_at, replied_at>>
vars     == <<program, irq, stamps, memory, ios, ctrl, flag, ppcmsg, tb, rung_at>>

-----------------------------------------------------------------------------
(* Registers *)

Bits == {"X1", "Y2", "Y1", "X2", "IY1", "IY2"}  \* bits 0 to 5 of PPCCTRL
Owners == {"ogc", "ours"}                       \* libogc's block, or s_ipc_request

(* What s_ipc_request holds: a request, or IOS's reply to it. *)
Lines == [req : 0 .. MaxCalls, done : BOOLEAN]

(* The interrupt line: an enabled Y bit is set. *)
Line(c) == {"IY1", "Y1"} \subseteq c \/ {"IY2", "Y2"} \subseteq c

(* PPCIRQFLAG after PPCCTRL becomes new.  The flag rises with the line;     *)
(* whether it also rises while the line merely stays high is the hardware's *)
(* choice (external), and the program has to work with both.                *)
Latched(new) ==
    {flag \/ (Line(new) /\ ~Line(ctrl)), flag \/ Line(new)}

(* A store to PPCCTRL: X bits are set by a 1, Y bits cleared by a 1, and    *)
(* the two interrupt enables take the value written.  The mutant keeps an   *)
(* enable that was not written.                                            *)
StickyEnables(w) ==
    /\ ctrl' = (ctrl \ (w \cap {"Y1", "Y2"})) \cup (w \cap {"X1", "X2", "IY1", "IY2"})
    /\ flag' \in Latched(ctrl')

ipc_bell(w) ==
    /\ ctrl' = (ctrl \ ((w \cap {"Y1", "Y2"}) \cup {"IY1", "IY2"}))
                  \cup (w \cap {"X1", "X2", "IY1", "IY2"})
    /\ flag' \in Latched(ctrl')

(* A store to PPCIRQFLAG: the flag falls, unless the line is still high and *)
(* the hardware latches levels.                                            *)
ipc_ack_interrupt ==
    /\ flag' \in {FALSE, Line(ctrl)}
    /\ UNCHANGED ctrl

(* dcbf: write a modified line back and drop it.  dcbi: drop it. *)
sync_after_write ==
    /\ dram' = IF cache = "dirty" THEN cline ELSE dram
    /\ cache' = "none"
    /\ UNCHANGED cline

sync_before_read ==
    /\ cache' = "none"
    /\ UNCHANGED <<cline, dram>>

(* What a load of s_ipc_request returns. *)
Loaded == IF cache = "none" THEN dram ELSE cline

-----------------------------------------------------------------------------
(* The program.  It runs while the handler does not, and no interrupt is    *)
(* pending: an unmasked interrupt is taken before the next statement.       *)

Interrupted == irqpc # "none" \/ (flag /\ ~masked)

At(here, next) ==
    /\ pc = here
    /\ ~Interrupted
    /\ pc' = next

(* Statements that touch nothing but the registers, or nothing at all. *)
KeepProgram == UNCHANGED <<mode, calls, returned, start_tb, ack_ticks, reply_ticks, result>>
KeepRegisters == UNCHANGED <<ctrl, flag, ppcmsg, rung_at>>

(* ipc::Init: libogc's IPC driver is shut down, the interrupt masked and    *)
(* its handler removed.                                                    *)
InitIpc ==
    /\ At("off", "idle")
    /\ masked' = TRUE
    /\ handler' = "none"
    /\ KeepProgram /\ KeepRegisters
    /\ UNCHANGED <<irqpc, complete, stamps, memory, ios, tb>>

(* ipc::Shutdown: libogc's handler is put back and its driver restarted,    *)
(* which sends messages of its own (external).                             *)
Shutdown ==
    /\ At("idle", "off")
    /\ handler' = "ogc"
    /\ masked' = FALSE
    /\ \E w \in SUBSET {"IY1", "IY2"} : ipc_bell(w)
    /\ ppcmsg' = "ogc"
    /\ armmsg' = "ogc"
    /\ KeepProgram
    /\ UNCHANGED <<irqpc, complete, stamps, memory, tb, rung_at,
                   arm, job, owed, executed, acked_at, replied_at>>

BeginPoll ==
    /\ At("idle", "store")
    /\ calls < MaxCalls
    /\ mode' = "poll"
    /\ calls' = calls + 1
    /\ KeepRegisters
    /\ UNCHANGED <<returned, start_tb, ack_ticks, reply_ticks, result,
                   irq, stamps, memory, ios, tb>>

(* A new context, and IRQ_Request.  The mutant's context is static: complete *)
(* is still set by the call before.                                        *)
BeginIrqStatic ==
    /\ At("idle", "unmask")
    /\ calls < MaxCalls
    /\ mode' = "irq"
    /\ calls' = calls + 1
    /\ handler' = "ours"
    /\ KeepRegisters
    /\ UNCHANGED <<returned, start_tb, ack_ticks, reply_ticks, result, complete,
                   stamps, irqpc, masked, memory, ios, tb>>

BeginIrq ==
    /\ At("idle", "unmask")
    /\ calls < MaxCalls
    /\ mode' = "irq"
    /\ calls' = calls + 1
    /\ complete' = FALSE
    /\ ack_tb' = 0 /\ reply_tb' = 0
    /\ handler' = "ours"
    /\ KeepRegisters
    /\ UNCHANGED <<returned, start_tb, ack_ticks, reply_ticks, result,
                   irqpc, masked, memory, ios, tb>>

Unmask ==
    /\ At("unmask", "store")
    /\ masked' = FALSE
    /\ KeepProgram /\ KeepRegisters
    /\ UNCHANGED <<irqpc, handler, complete, stamps, memory, ios, tb>>

(* s_ipc_request = request *)
Store ==
    /\ At("store", "flush")
    /\ cache' = "dirty"
    /\ cline' = [req |-> calls, done |-> FALSE]
    /\ KeepProgram /\ KeepRegisters
    /\ UNCHANGED <<dram, irq, stamps, ios, tb>>

Flush ==
    /\ At("flush", "ppcmsg")
    /\ sync_after_write
    /\ KeepProgram /\ KeepRegisters
    /\ UNCHANGED <<irq, stamps, ios, tb>>

WritePpcMsg ==
    /\ At("ppcmsg", "start_tb")
    /\ ppcmsg' = "ours"
    /\ KeepProgram
    /\ UNCHANGED <<ctrl, flag, rung_at, irq, stamps, memory, ios, tb>>

ReadStart ==
    /\ At("start_tb", "ring")
    /\ start_tb' = tb
    /\ KeepRegisters
    /\ UNCHANGED <<mode, calls, returned, ack_ticks, reply_ticks, result,
                   irq, stamps, memory, ios, tb>>

(* The doorbell: X1, and for the interrupt version IY2 with it. *)
Ring ==
    /\ At("ring", IF mode = "poll" THEN "wait_ack" ELSE "wait_complete")
    /\ ipc_bell(IF mode = "poll" THEN {"X1"} ELSE {"X1", "IY2"})
    /\ rung_at' = tb
    /\ KeepProgram
    /\ UNCHANGED <<ppcmsg, irq, stamps, memory, ios, tb>>

-----------------------------------------------------------------------------
(* The polling half of SendRequest. *)

ipc_wait_ack ==
    /\ At("wait_ack", "ack_tb")
    /\ "Y2" \in ctrl
    /\ KeepProgram /\ KeepRegisters
    /\ UNCHANGED <<irq, stamps, memory, ios, tb>>

ReadAck ==
    /\ At("ack_tb", "clear_y2")
    /\ ack_tb' = tb
    /\ KeepProgram /\ KeepRegisters
    /\ UNCHANGED <<reply_tb, irq, memory, ios, tb>>

ClearY2 ==
    /\ At("clear_y2", "wait_reply")
    /\ ipc_bell({"Y2"})
    /\ KeepProgram
    /\ UNCHANGED <<ppcmsg, rung_at, irq, stamps, memory, ios, tb>>

ipc_wait_any ==  \* mutant: the reply is not waited for
    /\ At("wait_reply", "reply_tb")
    /\ KeepProgram /\ KeepRegisters
    /\ UNCHANGED <<irq, stamps, memory, ios, tb>>

ipc_wait_reply ==
    /\ At("wait_reply", "reply_tb")
    /\ "Y1" \in ctrl
    /\ KeepProgram /\ KeepRegisters
    /\ UNCHANGED <<irq, stamps, memory, ios, tb>>

ReadReply ==
    /\ At("reply_tb", "armmsg")
    /\ reply_tb' = tb
    /\ KeepProgram /\ KeepRegisters
    /\ UNCHANGED <<ack_tb, irq, memory, ios, tb>>

ClearY1 ==
    /\ At("clear_y1", "ring_x2")
    /\ ipc_bell({"Y1"})
    /\ KeepProgram
    /\ UNCHANGED <<ppcmsg, rung_at, irq, stamps, memory, ios, tb>>

RingX2 ==
    /\ At("ring_x2", "invalidate")
    /\ ipc_bell({"X2"})
    /\ KeepProgram
    /\ UNCHANGED <<ppcmsg, rung_at, irq, stamps, memory, ios, tb>>

(* The interrupt half of SendRequestWithInterrupt. *)

WaitComplete ==
    /\ At("wait_complete", "mask")
    /\ complete
    /\ KeepProgram /\ KeepRegisters
    /\ UNCHANGED <<irq, stamps, memory, ios, tb>>

Mask ==
    /\ At("mask", "free")
    /\ masked' = TRUE
    /\ KeepProgram /\ KeepRegisters
    /\ UNCHANGED <<irqpc, handler, complete, stamps, memory, ios, tb>>

Free ==
    /\ At("free", "armmsg")
    /\ handler' = "none"
    /\ KeepProgram /\ KeepRegisters
    /\ UNCHANGED <<irqpc, masked, complete, stamps, memory, ios, tb>>

(* Both versions: the reply must point to s_ipc_request, or assert aborts. *)
ReadArmMsg ==
    /\ At("armmsg", IF armmsg # "ours" THEN "aborted"
                    ELSE IF mode = "poll" THEN "clear_y1" ELSE "invalidate")
    /\ KeepProgram /\ KeepRegisters
    /\ UNCHANGED <<irq, stamps, memory, ios, tb>>

InvalidateForgotten ==  \* mutant: no sync_before_read
    /\ At("invalidate", "return")
    /\ KeepProgram /\ KeepRegisters
    /\ UNCHANGED <<memory, irq, stamps, ios, tb>>

Invalidate ==
    /\ At("invalidate", "return")
    /\ sync_before_read
    /\ KeepProgram /\ KeepRegisters
    /\ UNCHANGED <<irq, stamps, ios, tb>>

Return ==
    /\ At("return", "idle")
    /\ ack_ticks' = ack_tb - start_tb
    /\ reply_ticks' = reply_tb - ack_tb
    /\ result' = Loaded
    /\ returned' = returned + 1
    /\ KeepRegisters
    /\ UNCHANGED <<mode, calls, start_tb, irq, stamps, memory, ios, tb>>

-----------------------------------------------------------------------------
(* The handler of SendRequestWithInterrupt: entered between two statements   *)
(* of the program, it runs to its end before the program continues.         *)

HandlerAt(here, next) ==
    /\ irqpc = here
    /\ irqpc' = next
    /\ UNCHANGED <<program, masked, handler, memory, ios, ppcmsg, tb, rung_at>>

EnterHandler ==
    /\ flag /\ ~masked /\ handler = "ours"
    /\ HandlerAt("none", "check_y2")
    /\ UNCHANGED <<complete, stamps, ctrl, flag>>

CheckY2 ==
    /\ HandlerAt("check_y2", IF {"IY2", "Y2"} \subseteq ctrl THEN "ack_tb" ELSE "check_y1")
    /\ UNCHANGED <<complete, stamps, ctrl, flag>>

HandlerReadAck ==
    /\ HandlerAt("ack_tb", "clear_y2")
    /\ ack_tb' = tb
    /\ UNCHANGED <<complete, reply_tb, ctrl, flag>>

HandlerClearY2Only ==  \* mutant: Y2 is cleared, but IY1 not enabled
    /\ HandlerAt("clear_y2", "ack_y2")
    /\ ipc_bell({"Y2"})
    /\ UNCHANGED <<complete, stamps>>

HandlerClearY2 ==
    /\ HandlerAt("clear_y2", "ack_y2")
    /\ ipc_bell({"IY1", "Y2"})
    /\ UNCHANGED <<complete, stamps>>

HandlerAckY2 ==
    /\ HandlerAt("ack_y2", "check_y1")
    /\ ipc_ack_interrupt
    /\ UNCHANGED <<complete, stamps>>

CheckY1 ==
    /\ HandlerAt("check_y1", IF {"IY1", "Y1"} \subseteq ctrl THEN "reply_tb" ELSE "none")
    /\ UNCHANGED <<complete, stamps, ctrl, flag>>

HandlerReadReply ==
    /\ HandlerAt("reply_tb", "clear_y1")
    /\ reply_tb' = tb
    /\ UNCHANGED <<complete, ack_tb, ctrl, flag>>

HandlerClearY1 ==
    /\ HandlerAt("clear_y1", "ring_x2")
    /\ ipc_bell({"Y1"})
    /\ UNCHANGED <<complete, stamps>>

HandlerRingX2 ==
    /\ HandlerAt("ring_x2", "ack_y1")
    /\ ipc_bell({"X2"})
    /\ UNCHANGED <<complete, stamps>>

HandlerAckY1Forgotten ==  \* mutant: the second ipc_ack_interrupt is missing
    /\ HandlerAt("ack_y1", "complete")
    /\ UNCHANGED <<complete, stamps, ctrl, flag>>

HandlerAckY1 ==
    /\ HandlerAt("ack_y1", "complete")
    /\ ipc_ack_interrupt
    /\ UNCHANGED <<complete, stamps>>

HandlerComplete ==
    /\ HandlerAt("complete", "none")
    /\ complete' = TRUE
    /\ UNCHANGED <<stamps, ctrl, flag>>

-----------------------------------------------------------------------------
(* IOS (external), as the code uses it: it takes the request when X1 rings   *)
(* and acknowledges with Y2, replies in place and says so with ARMMSG and    *)
(* Y1, and posts no further reply until X2 released the last one.           *)

ArmSets(add, remove) ==
    /\ ctrl' = (ctrl \ remove) \cup add
    /\ flag' \in Latched(ctrl')
    /\ UNCHANGED <<program, irq, stamps, cache, cline, ppcmsg, tb, rung_at>>

ArmAccept ==
    /\ arm = "idle"
    /\ "X1" \in ctrl
    /\ ArmSets({"Y2"}, {"X1"})
    /\ job' = ppcmsg
    /\ arm' = "working"
    /\ acked_at' = tb
    /\ UNCHANGED <<dram, owed, armmsg, executed, replied_at>>

ArmExecute ==
    /\ arm = "working"
    /\ arm' = "done"
    /\ dram' = IF job = "ours" THEN [dram EXCEPT !.done = TRUE] ELSE dram
    /\ executed' = IF job = "ours" THEN executed + 1 ELSE executed
    /\ UNCHANGED <<job, owed, armmsg, acked_at, replied_at, program, irq, stamps,
                   cache, cline, ctrl, flag, ppcmsg, tb, rung_at>>

ArmReply ==
    /\ arm = "done"
    /\ ~owed
    /\ ArmSets({"Y1"}, {})
    /\ armmsg' = job
    /\ owed' = TRUE
    /\ arm' = "idle"
    /\ replied_at' = tb
    /\ UNCHANGED <<dram, job, executed, acked_at>>

ArmRelaunch ==
    /\ "X2" \in ctrl
    /\ ArmSets({}, {"X2"})
    /\ owed' = FALSE
    /\ UNCHANGED <<dram, arm, job, armmsg, executed, acked_at, replied_at>>

(* The data cache may load or drop the line at any time (external). *)
Fetch ==
    /\ cache = "none"
    /\ cache' = "clean"
    /\ cline' = dram
    /\ UNCHANGED <<dram, program, irq, stamps, ios, ctrl, flag, ppcmsg, tb, rung_at>>

Evict ==
    /\ cache # "none"
    /\ sync_after_write
    /\ UNCHANGED <<program, irq, stamps, ios, ctrl, flag, ppcmsg, tb, rung_at>>

Tick ==
    /\ tb < MaxTb
    /\ tb' = tb + 1
    /\ UNCHANGED <<program, irq, stamps, memory, ios, ctrl, flag, ppcmsg, rung_at>>

-----------------------------------------------------------------------------
(* libogc owns the mailbox and is at rest; its last reply may not have been  *)
(* released yet.                                                           *)
Init ==
    /\ pc = "off" /\ mode = "poll" /\ irqpc = "none"
    /\ ctrl \in SUBSET {"X2", "IY1", "IY2"}
    /\ flag = FALSE /\ masked = FALSE /\ handler = "ogc"
    /\ ppcmsg = "ogc" /\ armmsg = "ogc"
    /\ complete = FALSE
    /\ cache = "none"
    /\ cline = [req |-> 0, done |-> FALSE] /\ dram = cline /\ result = cline
    /\ arm = "idle" /\ job = "ogc"
    /\ owed \in BOOLEAN /\ (owed => "X2" \in ctrl)
    /\ tb = 0 /\ start_tb = 0 /\ ack_tb = 0 /\ reply_tb = 0
    /\ ack_ticks = 0 /\ reply_ticks = 0
    /\ calls = 0 /\ executed = 0 /\ returned = 0
    /\ rung_at = 0 /\ acked_at = 0 /\ replied_at = 0

(* The statements of a call once it has begun. *)
CallStep ==
    \/ Unmask \/ Store \/ Flush \/ WritePpcMsg \/ ReadStart \/ Ring
    \/ ipc_wait_ack \/ ReadAck \/ ClearY2 \/ ipc_wait_reply \/ ReadReply
    \/ ClearY1 \/ RingX2
    \/ WaitComplete \/ Mask \/ Free
    \/ ReadArmMsg \/ Invalidate \/ Return

HandlerStep ==
    \/ EnterHandler \/ CheckY2 \/ HandlerReadAck \/ HandlerClearY2 \/ HandlerAckY2
    \/ CheckY1 \/ HandlerReadReply \/ HandlerClearY1 \/ HandlerRingX2
    \/ HandlerAckY1 \/ HandlerComplete

ArmStep == ArmAccept \/ ArmExecute \/ ArmReply \/ ArmRelaunch

Next ==
    \/ InitIpc \/ Shutdown \/ BeginPoll \/ BeginIrq
    \/ CallStep \/ HandlerStep \/ ArmStep
    \/ Fetch \/ Evict \/ Tick

Spec == Init /\ [][Next]_vars

(* The processor executes the program and the handler, and IOS serves what  *)
(* it is sent.  Nothing makes the program call, the cache act or time pass. *)
Fairness ==
    /\ WF_vars(CallStep)
    /\ WF_vars(HandlerStep)
    /\ WF_vars(ArmAccept) /\ WF_vars(ArmExecute) /\ WF_vars(ArmReply) /\ WF_vars(ArmRelaunch)

FairSpec == Spec /\ Fairness

-----------------------------------------------------------------------------
(* Properties *)

ProgramCounters ==
    {"off", "idle", "unmask", "store", "flush", "ppcmsg", "start_tb", "ring",
     "wait_ack", "ack_tb", "clear_y2", "wait_reply", "reply_tb", "clear_y1", "ring_x2",
     "wait_complete", "mask", "free", "armmsg", "invalidate", "return", "aborted"}

HandlerCounters ==
    {"none", "check_y2", "ack_tb", "clear_y2", "ack_y2",
     "check_y1", "reply_tb", "clear_y1", "ring_x2", "ack_y1", "complete"}

Times == 0 .. MaxTb

Booleans == flag \in BOOLEAN /\ masked \in BOOLEAN /\ complete \in BOOLEAN /\ owed \in BOOLEAN

Others ==
    /\ pc \in ProgramCounters /\ irqpc \in HandlerCounters
    /\ mode \in {"poll", "irq"}
    /\ ctrl \in SUBSET Bits
    /\ handler \in {"ogc", "ours", "none"}
    /\ ppcmsg \in Owners /\ armmsg \in Owners /\ job \in Owners
    /\ cache \in {"none", "clean", "dirty"}
    /\ cline \in Lines /\ dram \in Lines /\ result \in Lines
    /\ arm \in {"idle", "working", "done"}
    /\ tb \in Times /\ start_tb \in Times /\ ack_tb \in Times /\ reply_tb \in Times
    /\ rung_at \in Times /\ acked_at \in Times /\ replied_at \in Times
    /\ ack_ticks \in Times /\ reply_ticks \in Times
    /\ calls \in 0 .. MaxCalls /\ executed \in 0 .. MaxCalls /\ returned \in 0 .. MaxCalls

(* Every variable keeps its type.  The two tick counts are unsigned in the   *)
(* code: that they are differences of times in 0 .. MaxTb says that neither  *)
(* subtraction in SendRequest wraps around.                                 *)
TypeOK == Booleans /\ Others

(* Outside the handler the latched interrupt is pending exactly while an     *)
(* enabled Y bit is set: no acknowledgement of IOS is lost (the program      *)
(* would spin on context.complete for ever), and none is left over that the  *)
(* handler would find no bit for, never acknowledge and be re-entered by for *)
(* ever.  This is what "must be done after clearing Y1" is about, and it     *)
(* holds across calls of both versions and across Shutdown and Init.         *)
IrqFlagExact == irqpc = "none" => (flag <=> Line(ctrl))

(* The assertion on ARMMSG never fails, although the interrupt version reads *)
(* the register after it has rung X2 and so allowed IOS to post another     *)
(* reply.                                                                  *)
NeverAborts == pc # "aborted"

(* A call never measures less than what happened: IOS acknowledged, after    *)
(* the doorbell was rung, within ack_ticks, and had replied within the sum   *)
(* of both.                                                                *)
TicksCover ==
    pc = "idle" /\ returned > 0 =>
        /\ acked_at - rung_at \in 0 .. ack_ticks
        /\ replied_at - rung_at \in 0 .. ack_ticks + reply_ticks

(* Between calls, and when the mailbox is handed back to libogc, nothing of  *)
(* the last call is left: IOS is idle, no request, acknowledgement, reply or *)
(* interrupt is pending, IOS's reply is released or about to be, and no      *)
(* modified cache line can overwrite s_ipc_request later.                   *)
AtRest ==
    pc \in {"idle", "off"} =>
        /\ arm = "idle" /\ irqpc = "none" /\ ~flag
        /\ ctrl \cap {"X1", "Y1", "Y2"} = {}
        /\ owed => "X2" \in ctrl
        /\ cache # "dirty"

(* Both functions implement the remote call of IpcCall: IOS executes the     *)
(* request that was stored, once, and the result returned is the one it      *)
(* wrote for this request.  A line the cache kept or fetched too early, or a *)
(* Y bit left over from an earlier call, would show here.                   *)
AnswerOf(line) == IF line.done THEN line.req ELSE 0

Call == INSTANCE IpcCall WITH issued <- calls, answer <- AnswerOf(result)

ImplementsCall == Call!Spec

(* Every call that was begun returns, if the processor and IOS keep running. *)
CallsReturn == Call!FairSpec

=============================================================================
