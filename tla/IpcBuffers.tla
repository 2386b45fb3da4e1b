------------------------------ MODULE IpcBuffers ------------------------------
(***************************************************************************)
(* iostest/ipc.cpp, the commands: how the caller's buffers get to IOS and     *)
(* back.  IOS reads and writes memory; the program reads and writes its data *)
(* cache.  A command writes the lines of its input back before the request   *)
(* and discards the lines of its output after the reply, so that the next    *)
(* load fetches what IOS wrote.  A buffer need not fill its lines             *)
(* (ISFSParams has 74 bytes and lies on the stack): a line also holds other   *)
(* data, which a discarded line takes along: variables of the caller, the     *)
(* result that SendRequest builds in a caller's frame, the frames of the      *)
(* functions the command calls.  Where they lie is the compiler's choice, so  *)
(* what lies beside a buffer may be stored to at any time.                   *)
(*                                                                         *)
(* A request is what IpcCall says: executed once, then answered.             *)
(***************************************************************************)
EXTENDS Integers

CONSTANTS
    MaxCalls,    \* bound: commands in a behaviour
    MaxStores    \* bound: stores beside a buffer

ASSUME BuffersAssumption == MaxCalls \in Nat /\ MaxStores \in Nat

VARIABLES
    pc,         \* next statement of the command
    command,    \* the command under way
    calls,      \* commands issued; the number stands for what they carry
    cache,      \* state of the line of each buffer: "absent", "clean", "dirty"
    cbuf, cside,  \* what a cached line holds: the buffer, and the data beside it
    buf, side,  \* what memory holds there
    stored,     \* how often the caller has stored beside each buffer; each store
                \* is known by its number
    settled,    \* history: the last of them that no command was to discard
    crossed,    \* history: whether one of them, in this command, went to a line of
                \* the output that did not hold IOS's answer
    ios,        \* whether IOS has executed the request
    received,   \* the input IOS read
    found       \* the output the caller found

line == <<cache, cbuf, cside>>
memory == <<buf, side>>
stores == <<stored, settled, crossed>>
vars == <<pc, command, calls, line, memory, stores, ios, received, found>>

(* The path or the parameters; what GetMetadata fills; the aligned buffer of  *)
(* TestReads and TestWrites, which fills its lines.                          *)
Lines == {"in", "out", "page"}
Shared == {"in", "out"}

(* Open; CreateFile and DeleteFile; GetMetadata.  Close and Seek have no      *)
(* buffer, and no caller uses Ioctlv.                                        *)
Commands == {"Open", "Write", "Read", "IoctlIn", "Ioctl"}
Input == [Open |-> "in", Write |-> "page", Read |-> "null", IoctlIn |-> "in", Ioctl |-> "in"]
Output == [Open |-> "null", Write |-> "null", Read |-> "page", IoctlIn |-> "null", Ioctl |-> "out"]
IsIoctl == command \in {"IoctlIn", "Ioctl"}

Contents == 0 .. MaxCalls
Stores == 0 .. MaxStores

-----------------------------------------------------------------------------
At(here, next) == pc = here /\ pc' = next

(* What a load finds, and what a line holds once a load or a store needs it.  *)
Loaded(l, held, mem) == IF cache[l] = "absent" THEN mem[l] ELSE held[l]

(* An ioctl has flushed the line and has yet to discard it. *)
ToDiscard(l) ==
    /\ IsIoctl
    /\ \/ l = Input[command] /\ pc \in {"flush_out", "wait", "invalidate_in"}
       \/ l = Output[command] /\ pc \in {"wait", "invalidate_in", "invalidate_out"}

(* The program stores beside a buffer: between commands; as SendRequest's     *)
(* result, once IOS has replied; or in the frame of a function it calls.      *)
StoreBeside(l) ==
    LET store == stored[l] + 1
    IN  /\ store <= MaxStores
        /\ stored' = [stored EXCEPT ![l] = store]
        /\ settled' = IF ToDiscard(l) THEN settled ELSE [settled EXCEPT ![l] = store]
        /\ crossed' = (crossed \/ (l = Output[command] /\ ToDiscard(l) /\ Loaded(l, cbuf, buf) # calls))
        /\ cache' = [cache EXCEPT ![l] = "dirty"]
        /\ cbuf' = [cbuf EXCEPT ![l] = Loaded(l, cbuf, buf)]
        /\ cside' = [cside EXCEPT ![l] = store]
        /\ UNCHANGED <<pc, command, calls, memory, ios, received, found>>

(* The caller fills the input, GetMetadata also the path in its output: that   *)
(* is why Ioctl flushes both.                                                *)
Issue(c) ==
    LET filled == {Input[c]} \union (IF c = "Read" THEN {} ELSE {Output[c]})
    IN  /\ At("idle", "flush_in")
        /\ calls < MaxCalls
        /\ command' = c /\ calls' = calls + 1
        /\ cache' = [l \in Lines |-> IF l \in filled THEN "dirty" ELSE cache[l]]
        /\ cbuf' = [l \in Lines |-> IF l = Input[c] THEN calls + 1 ELSE Loaded(l, cbuf, buf)]
        /\ cside' = [l \in Lines |-> Loaded(l, cside, side)]
        /\ crossed' = FALSE
        /\ UNCHANGED <<memory, stored, settled, ios, received, found>>

FlushInForgotten ==  \* mutant
    At("flush_in", "flush_out")
    /\ UNCHANGED <<command, calls, line, memory, stores, ios, received, found>>

(* sync_after_write: dcbf writes a modified line back and drops it. *)
WriteBack(l) ==
    /\ buf' = IF cache[l] = "dirty" THEN [buf EXCEPT ![l] = cbuf[l]] ELSE buf
    /\ side' = IF cache[l] = "dirty" THEN [side EXCEPT ![l] = cside[l]] ELSE side
sync_after_write(l) ==
    IF l = "null" THEN UNCHANGED <<memory, cache>>
    ELSE WriteBack(l) /\ cache' = [cache EXCEPT ![l] = "absent"]

FlushIn ==
    /\ At("flush_in", "flush_out")
    /\ sync_after_write(Input[command])
    /\ UNCHANGED <<command, calls, cbuf, cside, stores, ios, received, found>>

FlushOutForgotten ==  \* mutant
    At("flush_out", "wait") /\ ios' = FALSE
    /\ UNCHANGED <<command, calls, line, memory, stores, received, found>>

(* Ioctl writes its output back too; Read does not. *)
FlushOut ==
    /\ At("flush_out", "wait")
    /\ ios' = FALSE
    /\ sync_after_write(IF IsIoctl THEN Output[command] ELSE "null")
    /\ UNCHANGED <<command, calls, cbuf, cside, stores, received, found>>

SendRequest ==
    /\ At("wait", "invalidate_in") /\ ios
    /\ UNCHANGED <<command, calls, line, memory, stores, ios, received, found>>

(* sync_before_read: dcbi drops the lines, modified or not. *)
sync_before_read(lost) ==
    cache' = [l \in Lines |-> IF l = lost THEN "absent" ELSE cache[l]]

InvalidateIn ==
    /\ At("invalidate_in", "invalidate_out")
    /\ sync_before_read(IF IsIoctl THEN Input[command] ELSE "null")
    /\ UNCHANGED <<command, calls, cbuf, cside, memory, stores, ios, received, found>>

InvalidateOutIoctl ==  \* mutant: Read forgets it
    /\ At("invalidate_out", "use")
    /\ sync_before_read(IF IsIoctl THEN Output[command] ELSE "null")
    /\ UNCHANGED <<command, calls, cbuf, cside, memory, stores, ios, received, found>>

InvalidateOut ==
    /\ At("invalidate_out", "use")
    /\ sync_before_read(Output[command])
    /\ UNCHANGED <<command, calls, cbuf, cside, memory, stores, ios, received, found>>

(* The command has returned; the caller looks at its output. *)
Use ==
    /\ At("use", "done")
    /\ found' = IF Output[command] = "null" THEN found
                ELSE Loaded(Output[command], cbuf, buf)
    /\ UNCHANGED <<command, calls, line, memory, stores, ios, received>>

NextCall ==
    /\ At("done", "idle")
    /\ UNCHANGED <<command, calls, line, memory, stores, ios, received, found>>

-----------------------------------------------------------------------------
(* IOS (external) reads the input and writes the output, in memory. *)
Execute ==
    /\ pc = "wait" /\ ~ios
    /\ ios' = TRUE
    /\ received' = IF Input[command] = "null" THEN received ELSE buf[Input[command]]
    /\ buf' = [l \in Lines |-> IF l = Output[command] THEN calls ELSE buf[l]]
    /\ UNCHANGED <<pc, command, calls, line, side, stores, found>>

(* The data cache (external) writes a line back to make room, or fetches it   *)
(* because the program loads what lies beside the buffer.                    *)
Evict(l) ==
    /\ cache[l] # "absent"
    /\ WriteBack(l)
    /\ cache' = [cache EXCEPT ![l] = "absent"]
    /\ UNCHANGED <<pc, command, calls, cbuf, cside, stores, ios, received, found>>

Fetch(l) ==
    /\ cache[l] = "absent"
    /\ cache' = [cache EXCEPT ![l] = "clean"]
    /\ cbuf' = [cbuf EXCEPT ![l] = buf[l]]
    /\ cside' = [cside EXCEPT ![l] = side[l]]
    /\ UNCHANGED <<pc, command, calls, memory, stores, ios, received, found>>

-----------------------------------------------------------------------------
Nothing == [l \in Lines |-> 0]

Init ==
    /\ pc = "idle" /\ command = "Open" /\ calls = 0
    /\ cache = [l \in Lines |-> "absent"]
    /\ cbuf = Nothing /\ cside = Nothing /\ buf = Nothing /\ side = Nothing
    /\ stored = Nothing /\ settled = Nothing /\ crossed = FALSE
    /\ ios = FALSE /\ received = 0 /\ found = 0

Next ==
    \/ \E l \in Shared : StoreBeside(l)
    \/ \E c \in Commands : Issue(c)
    \/ FlushIn \/ FlushOut \/ SendRequest \/ InvalidateIn \/ InvalidateOut
    \/ Use \/ NextCall
    \/ Execute
    \/ \E l \in Lines : Evict(l) \/ Fetch(l)

Spec == Init /\ [][Next]_vars

-----------------------------------------------------------------------------
(* Every variable keeps its type. *)
TypeOK ==
    /\ pc \in {"idle", "flush_in", "flush_out", "wait", "invalidate_in", "invalidate_out",
               "use", "done"}
    /\ command \in Commands
    /\ calls \in Contents
    /\ cache \in [Lines -> {"absent", "clean", "dirty"}]
    /\ cbuf \in [Lines -> Contents] /\ cside \in [Lines -> Stores]
    /\ buf \in [Lines -> Contents] /\ side \in [Lines -> Stores]
    /\ stored \in [Lines -> Stores] /\ settled \in [Lines -> Stores]
    /\ crossed \in BOOLEAN
    /\ ios \in BOOLEAN
    /\ received \in Contents /\ found \in Contents

(* IOS works on the input of this command, whatever the cache still held of    *)
(* an earlier one (Open, Write and Ioctl flush their input).                 *)
InputArrives ==
    pc \in {"wait", "invalidate_in", "invalidate_out", "use", "done"} /\ ios
        /\ Input[command] # "null" => received = calls

(* The caller finds the output IOS wrote: not what it had stored there        *)
(* itself, not the output of an earlier command, and no line written back    *)
(* late has destroyed it (Read and Ioctl discard their output's lines).  One  *)
(* thing can: a store beside the output, during the command, to a line that   *)
(* does not hold the answer.  It makes that line dirty, and if it is evicted  *)
(* before it is discarded it is written over the answer.  The result that     *)
(* SendRequest stores is harmless unless the line was loaded before IOS       *)
(* answered.                                                                *)
OutputArrives == pc = "done" /\ Output[command] # "null" => found = calls \/ crossed

(* What lies beside a buffer is never older than the last store that was not   *)
(* made between an ioctl's flush of the line and its dcbi: such a store is     *)
(* never lost, although whole lines are discarded and evicted.  A store       *)
(* between the two may be, the result SendRequest writes beside GetMetadata's *)
(* output among them; what is found then is one of the stores since.          *)
NeighboursKept == \A l \in Lines : Loaded(l, cside, side) \in settled[l] .. stored[l]

=============================================================================
