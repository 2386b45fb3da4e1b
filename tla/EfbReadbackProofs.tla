-------------------------- MODULE EfbReadbackProofs --------------------------
(* EfbReadback for a test_buffer of any size and any number of copies.       *)
EXTENDS EfbReadback, TLAPS

(* What a line of the current copy may hold in the end. *)
Good == IF evicted THEN {Zero, copies} ELSE {copies}

Cleared == {"trigger", "invalidate"}

(* The fence waits between the draw-done's two neighbours, and nowhere else. *)
Waiting == waiting <=> pc \in {"drawdone", "return"}

(* Which commands are outstanding: while a copy is issued the trigger is the *)
(* last command, or the one before the draw-done.                           *)
Commands ==
    /\ pc \in {"idle", "memset", "trigger", "read"} => done = written /\ copy_at <= done
    /\ pc \in {"invalidate", "wait", "drawdone"} => copy_at = written
    /\ pc = "return" => copy_at = written - 1
    /\ pc # "idle" => copies > 0
    /\ copies = 0 => copy_at = 0
    /\ pc \notin {"read", "idle"} => seen = {}

(* The lines the memset has passed hold zeros: modified ones in the cache,   *)
(* the others in memory.                                                    *)
Holds(l) ==
    /\ cache[l] = "none" => dram[l] = Zero
    /\ cache[l] # "none" => cache[l] = "dirty" /\ cline[l] = Zero

Zeroed ==
    /\ pc = "memset" => \A l \in Lines : l < cursor => Holds(l)
    /\ pc = "trigger" => cursor = 1 /\ \A l \in Lines : Holds(l)

(* The lines of the copy, from its command to the next one. *)
Copied ==
    /\ pc = "invalidate" =>
        /\ cursor <= area
        /\ \A l \in Lines : l <= area =>
            /\ l < cursor => cache[l] = "none"
            /\ l >= cursor /\ cache[l] # "none" => cline[l] = Zero
            /\ copy_at <= done => dram[l] \in Good
    /\ pc \in {"wait", "drawdone", "return"} =>
        \A l \in Lines : l <= area =>
            /\ cache[l] = "none"
            /\ copy_at <= done => dram[l] \in Good
    /\ pc \in {"read", "idle"} /\ copies > 0 =>
        \A l \in Lines : l <= area =>
            /\ cache[l] # "dirty"
            /\ cache[l] # "none" => cline[l] \in Good
            /\ dram[l] \in Good
    /\ pc \in {"read", "idle"} => seen \subseteq Good

IInv == TypeOK /\ Waiting /\ Commands /\ Zeroed /\ Copied

-----------------------------------------------------------------------------
(* The initial states satisfy the invariant. *)
LEMMA InitIInv == Init => IInv
<1> USE LinesAreCounted, CopyBound DEF Lines, Contents, Garbage, Zero
<1> SUFFICES ASSUME Init PROVE IInv
  OBVIOUS
<1>1. TypeOK
  <2>1. waiting \in BOOLEAN
    BY DEF Init, Fence!Init
  <2>2. 1 \in Lines /\ -1 \in Contents
    OBVIOUS
  <2> HIDE DEF Lines, Contents
  <2>3. cache \in [Lines -> {"none", "clean", "dirty"}]
    BY DEF Init
  <2>4. cline \in [Lines -> Contents] /\ dram \in [Lines -> Contents]
    BY <2>2 DEF Init
  <2>5. evicted \in BOOLEAN
    BY DEF Init
  <2> QED BY <2>1, <2>2, <2>3, <2>4, <2>5 DEF Init, TypeOK, Fence!Init
<1>2. Waiting
  BY DEF Init, Waiting, Fence!Init
<1>3. Commands
  BY DEF Init, Commands, Fence!Init
<1>4. Zeroed /\ Copied
  BY DEF Init, Zeroed, Holds, Copied
<1> QED BY <1>1, <1>2, <1>3, <1>4 DEF IInv

(* Every step keeps the types. *)
LEMMA NextTypeOK == IInv /\ [Next]_vars => TypeOK'
<1> SUFFICES ASSUME IInv, [Next]_vars PROVE TypeOK'
  OBVIOUS
<1> USE LinesAreCounted, CopyBound DEF IInv, TypeOK, Waiting, Commands, Zeroed, Holds, Copied, Good, Lines,
       Contents, Garbage, Zero, At, fence, memory
<1>1. ASSUME NEW n \in Lines, CopyToTestBuffer(n) PROVE TypeOK'
  <2>1. evicted' \in BOOLEAN
    BY <1>1 DEF CopyToTestBuffer
  <2> QED BY <1>1, <2>1 DEF CopyToTestBuffer
<1>2. CASE Memset
  BY <1>2 DEF Memset
<1>3. CASE Trigger
  BY <1>3 DEF Trigger, Fence!Write
<1>4. CASE DCInvalidateRange
  BY <1>4 DEF DCInvalidateRange
<1>5. CASE Wait
  BY <1>5 DEF Wait, Fence!Wait
<1>6. CASE DrawDone
  BY <1>6 DEF DrawDone, Fence!Write
<1>7. CASE Return
  BY <1>7 DEF Return, Fence!Return
<1>8. ASSUME NEW l \in Lines, ReadTestBuffer(l) PROVE TypeOK'
  <2>1. cache' \in [Lines -> {"none", "clean", "dirty"}]
    BY <1>8 DEF ReadTestBuffer
  <2>3. cline' \in [Lines -> Contents]
    BY <1>8 DEF ReadTestBuffer
  <2>2. seen' \subseteq Contents
    <3>1. cline'[l] \in Contents
      BY <2>3
    <3> QED BY <1>8, <3>1 DEF ReadTestBuffer
  <2> QED BY <1>8, <2>1, <2>2, <2>3 DEF ReadTestBuffer
<1>9. CASE Finish
  BY <1>9 DEF Finish
<1>10. ASSUME NEW l \in Lines, Evict(l) PROVE TypeOK'
  BY <1>10 DEF Evict
<1>11. CASE Execute
  BY <1>11 DEF Execute, Fence!Execute
<1>12. CASE AllCopied \/ UNCHANGED vars
  BY <1>12 DEF AllCopied, vars
<1> HIDE DEF IInv, TypeOK, Waiting, Commands, Zeroed, Copied, Good, Lines
<1> QED BY <1>1, <1>2, <1>3, <1>4, <1>5, <1>6, <1>7, <1>8, <1>9, <1>10, <1>11, <1>12 DEF Next

(* Every step keeps the fence where the test is. *)
LEMMA NextWaiting == IInv /\ [Next]_vars => Waiting'
<1> SUFFICES ASSUME IInv, [Next]_vars PROVE Waiting'
  OBVIOUS
<1> USE LinesAreCounted, CopyBound DEF IInv, TypeOK, Waiting, Commands, Zeroed, Holds, Copied, Good, Lines,
       Contents, Garbage, Zero, At, fence, memory
<1>1. ASSUME NEW n \in Lines, CopyToTestBuffer(n) PROVE Waiting'
  BY <1>1 DEF CopyToTestBuffer
<1>2. CASE Memset
  BY <1>2 DEF Memset
<1>3. CASE Trigger
  BY <1>3 DEF Trigger, Fence!Write
<1>4. CASE DCInvalidateRange
  BY <1>4 DEF DCInvalidateRange
<1>5. CASE Wait
  BY <1>5 DEF Wait, Fence!Wait
<1>6. CASE DrawDone
  BY <1>6 DEF DrawDone, Fence!Write
<1>7. CASE Return
  BY <1>7 DEF Return, Fence!Return
<1>8. ASSUME NEW l \in Lines, ReadTestBuffer(l) PROVE Waiting'
  BY <1>8 DEF ReadTestBuffer
<1>9. CASE Finish
  BY <1>9 DEF Finish
<1>10. ASSUME NEW l \in Lines, Evict(l) PROVE Waiting'
  BY <1>10 DEF Evict
<1>11. CASE Execute
  BY <1>11 DEF Execute, Fence!Execute
<1>12. CASE AllCopied \/ UNCHANGED vars
  BY <1>12 DEF AllCopied, vars
<1> HIDE DEF IInv, TypeOK, Waiting, Commands, Zeroed, Copied, Good, Lines
<1> QED BY <1>1, <1>2, <1>3, <1>4, <1>5, <1>6, <1>7, <1>8, <1>9, <1>10, <1>11, <1>12 DEF Next

(* Every step keeps at most the trigger and the draw-done outstanding. *)
LEMMA NextCommands == IInv /\ [Next]_vars => Commands'
<1> SUFFICES ASSUME IInv, [Next]_vars PROVE Commands'
  OBVIOUS
<1> USE LinesAreCounted, CopyBound DEF IInv, TypeOK, Waiting, Commands, Zeroed, Holds, Copied, Good, Lines,
       Contents, Garbage, Zero, At, fence, memory
<1>1. ASSUME NEW n \in Lines, CopyToTestBuffer(n) PROVE Commands'
  BY <1>1 DEF CopyToTestBuffer
<1>2. CASE Memset
  BY <1>2 DEF Memset
<1>3. CASE Trigger
  BY <1>3 DEF Trigger, Fence!Write
<1>4. CASE DCInvalidateRange
  BY <1>4 DEF DCInvalidateRange
<1>5. CASE Wait
  BY <1>5 DEF Wait, Fence!Wait
<1>6. CASE DrawDone
  BY <1>6 DEF DrawDone, Fence!Write
<1>7. CASE Return
  BY <1>7 DEF Return, Fence!Return
<1>8. ASSUME NEW l \in Lines, ReadTestBuffer(l) PROVE Commands'
  BY <1>8 DEF ReadTestBuffer
<1>9. CASE Finish
  BY <1>9 DEF Finish
<1>10. ASSUME NEW l \in Lines, Evict(l) PROVE Commands'
  BY <1>10 DEF Evict
<1>11. CASE Execute
  BY <1>11 DEF Execute, Fence!Execute
<1>12. CASE AllCopied \/ UNCHANGED vars
  BY <1>12 DEF AllCopied, vars
<1> HIDE DEF IInv, TypeOK, Waiting, Commands, Zeroed, Copied, Good, Lines
<1> QED BY <1>1, <1>2, <1>3, <1>4, <1>5, <1>6, <1>7, <1>8, <1>9, <1>10, <1>11, <1>12 DEF Next

(* Every step keeps the lines the memset has passed zero. *)
LEMMA NextZeroed == IInv /\ [Next]_vars => Zeroed'
<1> SUFFICES ASSUME IInv, [Next]_vars PROVE Zeroed'
  OBVIOUS
<1> USE LinesAreCounted, CopyBound DEF IInv, TypeOK, Waiting, Commands, Zeroed, Holds, Copied, Good, Lines,
       Contents, Garbage, Zero, At, fence, memory
<1>1. ASSUME NEW n \in Lines, CopyToTestBuffer(n) PROVE Zeroed'
  BY <1>1 DEF CopyToTestBuffer
<1>2. CASE Memset
  BY <1>2 DEF Memset
<1>3. CASE Trigger
  BY <1>3 DEF Trigger, Fence!Write
<1>4. CASE DCInvalidateRange
  BY <1>4 DEF DCInvalidateRange
<1>5. CASE Wait
  BY <1>5 DEF Wait, Fence!Wait
<1>6. CASE DrawDone
  BY <1>6 DEF DrawDone, Fence!Write
<1>7. CASE Return
  BY <1>7 DEF Return, Fence!Return
<1>8. ASSUME NEW l \in Lines, ReadTestBuffer(l) PROVE Zeroed'
  BY <1>8 DEF ReadTestBuffer
<1>9. CASE Finish
  BY <1>9 DEF Finish
<1>10. ASSUME NEW l \in Lines, Evict(l) PROVE Zeroed'
  BY <1>10 DEF Evict
<1>11. CASE Execute
  BY <1>11 DEF Execute, Fence!Execute
<1>12. CASE AllCopied \/ UNCHANGED vars
  BY <1>12 DEF AllCopied, vars
<1> HIDE DEF IInv, TypeOK, Waiting, Commands, Zeroed, Copied, Good, Lines
<1> QED BY <1>1, <1>2, <1>3, <1>4, <1>5, <1>6, <1>7, <1>8, <1>9, <1>10, <1>11, <1>12 DEF Next

(* Every step keeps what the lines of the copy may hold. *)
LEMMA NextCopied == IInv /\ [Next]_vars => Copied'
<1> SUFFICES ASSUME IInv, [Next]_vars PROVE Copied'
  OBVIOUS
<1> USE LinesAreCounted, CopyBound DEF IInv, TypeOK, Waiting, Commands, Zeroed, Holds, Copied, Good, Lines,
       Contents, Garbage, Zero, At, fence, memory
<1>1. ASSUME NEW n \in Lines, CopyToTestBuffer(n) PROVE Copied'
  BY <1>1 DEF CopyToTestBuffer
<1>2. CASE Memset
  BY <1>2 DEF Memset
<1>3. CASE Trigger
  BY <1>3 DEF Trigger, Fence!Write
<1>4. CASE DCInvalidateRange
  BY <1>4 DEF DCInvalidateRange
<1>5. CASE Wait
  BY <1>5 DEF Wait, Fence!Wait
<1>6. CASE DrawDone
  BY <1>6 DEF DrawDone, Fence!Write
<1>7. CASE Return
  BY <1>7 DEF Return, Fence!Return
<1>8. ASSUME NEW l \in Lines, ReadTestBuffer(l) PROVE Copied'
  BY <1>8 DEF ReadTestBuffer
<1>9. CASE Finish
  BY <1>9 DEF Finish
<1>10. ASSUME NEW l \in Lines, Evict(l) PROVE Copied'
  <2>1. evicted' = (evicted \/ pc = "invalidate") /\ evicted \in BOOLEAN
    BY <1>10 DEF Evict
  <2>2. CASE pc = "invalidate"
    <3>1. evicted' = TRUE
      BY <2>1, <2>2
    <3> QED BY <1>10, <2>2, <3>1 DEF Evict
  <2>3. CASE pc # "invalidate"
    <3>1. evicted' = evicted
      BY <2>1, <2>3
    <3>2. Good' = Good
      BY <1>10, <3>1 DEF Evict
    <3> HIDE DEF Good
    <3> QED BY <1>10, <2>3, <3>2 DEF Evict
  <2> QED BY <2>2, <2>3
<1>11. CASE Execute
  BY <1>11 DEF Execute, Fence!Execute
<1>12. CASE AllCopied \/ UNCHANGED vars
  <2>1. /\ pc' = pc /\ cursor' = cursor /\ area' = area /\ copies' = copies
        /\ copy_at' = copy_at /\ done' = done
        /\ cache' = cache /\ cline' = cline /\ dram' = dram /\ seen' = seen
        /\ evicted' = evicted
    BY <1>12 DEF AllCopied, vars
  <2> QED BY ONLY Copied, <2>1 DEF Copied, Good, Lines, Zero
<1> HIDE DEF IInv, TypeOK, Waiting, Commands, Zeroed, Copied, Good, Lines
<1> QED BY <1>1, <1>2, <1>3, <1>4, <1>5, <1>6, <1>7, <1>8, <1>9, <1>10, <1>11, <1>12 DEF Next

(* The inductive invariant holds in every reachable state. *)
THEOREM Invariance == Spec => []IInv
<1>1. IInv /\ [Next]_vars => IInv'
  BY NextTypeOK, NextWaiting, NextCommands, NextZeroed, NextCopied DEF IInv
<1> QED BY InitIInv, <1>1, PTL DEF Spec

(* Every variable keeps its type, for a buffer of any size. *)
THEOREM TypeCorrect == Spec => []TypeOK
  BY Invariance, PTL DEF IInv

(* A test reads the current copy or zeros, never an earlier copy, whatever   *)
(* the cache writes back and whenever the GPU copies.                       *)
THEOREM NeverReadsStale == Spec => []NeverStale
<1>1. IInv => NeverStale
  BY DEF IInv, Commands, Copied, Good, NeverStale, TypeOK
<1> QED BY <1>1, Invariance, PTL

(* A test reads the current copy, if no interrupt evicts a modified line      *)
(* between the copy command and the end of the invalidation.                *)
THEOREM ReadsExactly == Spec => []ReadExact
<1>1. IInv => ReadExact
  BY DEF IInv, Commands, Copied, Good, ReadExact, TypeOK
<1> QED BY <1>1, Invariance, PTL

(* Once a copy has been waited for, nothing changes it behind the test. *)
THEOREM CopySettled == Spec => []Settled
<1>1. IInv => Settled
  BY DEF IInv, Commands, Copied, Settled
<1> QED BY <1>1, Invariance, PTL

=============================================================================
