----------------------------- MODULE EfbReadback -----------------------------
(***************************************************************************)
(* gxtest/util.cpp and cgx.cpp: how a test gets at what the GPU rendered.   *)
(* CopyToTestBuffer clears test_buffer through the data cache, sends the    *)
(* copy command, and only then invalidates the lines the copy will fill;    *)
(* the test waits for the GPU and reads the lines back.  The GPU writes     *)
(* memory behind the cache's back, at any time after the command was sent,  *)
(* and the cache may write a modified line back at any time.                *)
(*                                                                         *)
(* The wait is the fence of GpuFence, which CgxFence implements.            *)
(***************************************************************************)
EXTENDS Integers

CONSTANTS
    NumLines,     \* cache lines of test_buffer
    MaxCopies     \* bound: copies made in a behaviour

ASSUME LinesAreCounted == NumLines \in Nat \ {0}
ASSUME CopyBound == MaxCopies \in Nat

VARIABLES
    pc,        \* next statement of the test
    cursor,    \* next line of the memset or of DCInvalidateRange
    area,      \* lines the current copy fills, from the start of test_buffer
    copies,    \* copies made; the number stands for what the copy contains
    copy_at,   \* number of the command that triggers the current copy
    written, done, waiting,  \* the fence
    cache,     \* state of each line: "none", "clean", "dirty"
    cline,     \* what a cached line holds
    dram,      \* what memory holds
    evicted,   \* history: a line was evicted while the current copy was issued
    seen       \* what ReadTestBuffer returned since the last copy

fence  == <<written, done, waiting>>
memory == <<cache, cline, dram>>
vars   == <<pc, cursor, area, copies, copy_at, fence, memory, evicted, seen>>

Fence == INSTANCE GpuFence

Lines == 1 .. NumLines
Zero == 0                              \* what the memset leaves
Garbage == -1                          \* what memalign leaves
Contents == Garbage .. MaxCopies

-----------------------------------------------------------------------------
At(here, next) == pc = here /\ pc' = next

(* A test calls CopyToTestBuffer for a rectangle that fills n lines. *)
CopyToTestBuffer(n) ==
    /\ At("idle", "memset")
    /\ copies < MaxCopies
    /\ copies' = copies + 1
    /\ area' = n
    /\ cursor' = 1
    /\ evicted' = FALSE
    /\ seen' = {}
    /\ UNCHANGED <<copy_at, fence, memory>>

(* memset(test_buffer, 0, TEST_BUFFER_SIZE), one line at a time. *)
Memset ==
    /\ At("memset", IF cursor = NumLines THEN "trigger" ELSE "memset")
    /\ cache' = [cache EXCEPT ![cursor] = "dirty"]
    /\ cline' = [cline EXCEPT ![cursor] = Zero]
    /\ cursor' = IF cursor = NumLines THEN 1 ELSE cursor + 1
    /\ UNCHANGED <<area, copies, copy_at, fence, dram, evicted, seen>>

(* The command that makes the GPU copy. *)
Trigger ==
    /\ At("trigger", "invalidate")
    /\ Fence!Write
    /\ copy_at' = written + 1
    /\ UNCHANGED <<cursor, area, copies, memory, evicted, seen>>

(* DCInvalidateRange, one line at a time.  The mutant stops a line early. *)
DCInvalidateRangeShort ==
    /\ At("invalidate", IF cursor = area THEN "wait" ELSE "invalidate")
    /\ cache' = IF cursor = area THEN cache ELSE [cache EXCEPT ![cursor] = "none"]
    /\ cursor' = IF cursor = area THEN 1 ELSE cursor + 1
    /\ UNCHANGED <<area, copies, copy_at, fence, cline, dram, evicted, seen>>

DCInvalidateRange ==
    /\ At("invalidate", IF cursor = area THEN "wait" ELSE "invalidate")
    /\ cache' = [cache EXCEPT ![cursor] = "none"]
    /\ cursor' = IF cursor = area THEN 1 ELSE cursor + 1
    /\ UNCHANGED <<area, copies, copy_at, fence, cline, dram, evicted, seen>>

(* CGX_WaitForGpuToFinish: it begins, writes its draw-done, and returns. *)
Wait ==
    /\ At("wait", "drawdone")
    /\ Fence!Wait
    /\ UNCHANGED <<cursor, area, copies, copy_at, memory, evicted, seen>>

DrawDone ==
    /\ At("drawdone", "return")
    /\ Fence!Write
    /\ UNCHANGED <<cursor, area, copies, copy_at, memory, evicted, seen>>

ReturnAtOnce ==  \* mutant: the caller does not wait
    /\ At("return", "read")
    /\ waiting' = FALSE
    /\ UNCHANGED <<cursor, area, copies, copy_at, written, done, memory, evicted, seen>>

Return ==
    /\ At("return", "read")
    /\ Fence!Return
    /\ UNCHANGED <<cursor, area, copies, copy_at, memory, evicted, seen>>

(* ReadTestBuffer: a load fetches the line if the cache does not hold it. *)
ReadTestBuffer(l) ==
    /\ At("read", "read")
    /\ l <= area
    /\ IF cache[l] = "none"
       THEN /\ cache' = [cache EXCEPT ![l] = "clean"]
            /\ cline' = [cline EXCEPT ![l] = dram[l]]
       ELSE UNCHANGED <<cache, cline>>
    /\ seen' = seen \cup {cline'[l]}
    /\ UNCHANGED <<cursor, area, copies, copy_at, fence, dram, evicted>>

(* The test has read what it wanted. *)
Finish ==
    /\ At("read", "idle")
    /\ UNCHANGED <<cursor, area, copies, copy_at, fence, memory, evicted, seen>>

-----------------------------------------------------------------------------
(* The data cache (external) writes a line back to make room.  While a copy  *)
(* is issued the program itself loads and stores nothing cached, so then     *)
(* this takes an interrupt handler.                                        *)
Evict(l) ==
    /\ cache[l] # "none"
    /\ dram' = IF cache[l] = "dirty" THEN [dram EXCEPT ![l] = cline[l]] ELSE dram
    /\ cache' = [cache EXCEPT ![l] = "none"]
    /\ evicted' = (evicted \/ pc = "invalidate")
    /\ UNCHANGED <<pc, cursor, area, copies, copy_at, fence, cline, seen>>

(* The GPU (external) executes the next command. *)
Execute ==
    /\ Fence!Execute
    /\ dram' = IF done' = copy_at THEN [l \in Lines |-> IF l <= area THEN copies ELSE dram[l]]
               ELSE dram
    /\ UNCHANGED <<pc, cursor, area, copies, copy_at, cache, cline, evicted, seen>>

-----------------------------------------------------------------------------
Init ==
    /\ pc = "idle"
    /\ cursor = 1 /\ area = 1 /\ copies = 0 /\ copy_at = 0
    /\ Fence!Init
    /\ cache = [l \in Lines |-> "none"]
    /\ cline = [l \in Lines |-> Garbage]
    /\ dram = [l \in Lines |-> Garbage]
    /\ evicted = FALSE
    /\ seen = {}

(* The behaviour may end between copies, when all MaxCopies are made. *)
AllCopied == pc = "idle" /\ copies = MaxCopies /\ UNCHANGED vars

Next ==
    \/ \E n \in Lines : CopyToTestBuffer(n)
    \/ Memset \/ Trigger \/ DCInvalidateRange
    \/ Wait \/ DrawDone \/ Return
    \/ \E l \in Lines : ReadTestBuffer(l)
    \/ Finish
    \/ \E l \in Lines : Evict(l)
    \/ Execute
    \/ AllCopied

Spec == Init /\ [][Next]_vars

-----------------------------------------------------------------------------
(* Every variable keeps its type. *)
TypeOK ==
    /\ pc \in {"idle", "memset", "trigger", "invalidate", "wait", "drawdone", "return", "read"}
    /\ cursor \in Lines /\ area \in Lines
    /\ copies \in 0 .. MaxCopies
    /\ written \in Nat /\ done \in 0 .. written /\ copy_at \in 0 .. written
    /\ waiting \in BOOLEAN
    /\ cache \in [Lines -> {"none", "clean", "dirty"}]
    /\ cline \in [Lines -> Contents]
    /\ dram \in [Lines -> Contents]
    /\ evicted \in BOOLEAN
    /\ seen \subseteq Contents

(* What a test reads is never left over from an earlier copy, nor from        *)
(* before the first: it is the current copy or the zeros of the memset, even  *)
(* if an interrupt evicts lines while the copy is issued.                    *)
NeverStale == seen \subseteq {Zero, copies}

(* What a test reads is the current copy, if nothing was evicted while the   *)
(* copy was issued.  The condition is needed: the invalidation comes after   *)
(* the command that lets the GPU write, and a line of zeros written back in   *)
(* between would replace what the GPU wrote.                               *)
ReadExact == evicted \/ seen \subseteq {copies}

(* Once a copy has been read, nothing can change it behind the test's back   *)
(* before the next memset: the GPU has nothing left to write, and no line of *)
(* the copy is modified in the cache.                                       *)
Settled ==
    pc \in {"read", "idle"} =>
        /\ done = written
        /\ \A l \in Lines : copies > 0 /\ l <= area => cache[l] # "dirty"

=============================================================================
