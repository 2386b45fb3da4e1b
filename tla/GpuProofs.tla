------------------------------ MODULE GpuProofs ------------------------------
(* The GPU and the programs that run ahead of it: CgxFence, how a program     *)
(* waits for what it has sent, for any number and any sizes of commands; and  *)
(* GxPrograms, what the tests send and read between those waits, for all      *)
(* values of the loops' counters.  (The two are not composed: GxPrograms      *)
(* waits as GpuFence does, which CgxFence implements.)                       *)
EXTENDS CgxFence, GxPrograms, SequenceTheorems, TLAPS

USE DEF Burst, Word, Pads, BpLoad

(* A store into the pipe keeps the pipe shorter than a burst, numbers the    *)
(* commands on, and never takes a command back.                             *)
LEMMA StoreCounts ==
    ASSUME NEW n \in Nat, NEW c \in Nat, Store(n, c),
           fill \in 0 .. Burst - 1, held \in Nat, sent \in Nat
    PROVE  /\ fill' \in 0 .. Burst - 1
           /\ held' \in Nat /\ sent' \in Nat
           /\ written' = written + c
           /\ sent <= sent'
           /\ held' <= held + c
           /\ n > 0 /\ held' > 0 => fill' > 0
  BY DEF Store, written

(* A padding word either leaves the pipe longer by four bytes or drives all  *)
(* commands out of it.                                                     *)
LEMMA StoreWord ==
    ASSUME Store(Word, 0), fill \in 0 .. Burst - 1, held \in Nat, sent \in Nat
    PROVE  (fill' = fill + Word /\ held' = held) \/ held' = 0
  BY DEF Store, written

-----------------------------------------------------------------------------
Padded == {"clear", "enable", "disable", "test", "sleep", "asleep", "restore"}
Armed == {"enable", "disable", "test", "sleep", "asleep", "restore"}

(* Where the commands are.  A command in the pipe needs a byte there, so      *)
(* eight words of padding, 32 bytes, cannot all fit behind it.               *)
Pipe ==
    /\ held > 0 => fill > 0
    /\ pc = "flush" => pads > 0 /\ (held > 0 => fill > Word * (Pads - pads))
    /\ pc \in Padded => held = 0
    /\ written <= MaxCmds
    /\ pc = "drawdone" => written < MaxCmds

(* Which draw-done the GPU has still to execute: none, or the one the program *)
(* waits for, which is the last command written.                            *)
Fences ==
    /\ pc \in {"run", "drawdone"} => \A f \in fences : f <= done
    /\ pc \in {"flush"} \cup Padded =>
            written \in fences /\ \A f \in fences : f <= done \/ f = written

(* Where the notification is: not raised, pending, in the handler, or seen.   *)
Notification ==
    /\ ints <=> pc \in {"run", "disable", "asleep"}
    /\ hpc # "none" => pc \in {"disable", "asleep"}
    /\ pc \in {"run", "drawdone"} => ~finish
    /\ pc \in {"flush", "clear"} => (finish <=> done = written)
    /\ pc \in Armed /\ finished => done = written /\ ~finish /\ hpc \in {"none", "broadcast"}
    /\ pc \in Armed /\ ~finished =>
            /\ hpc \in {"none", "ack", "set"}
            /\ hpc = "ack" => finish
            /\ hpc = "set" => done = written /\ ~finish
            /\ hpc # "set" => (finish <=> done = written)
    /\ pc = "sleep" => ~finished
    /\ pc = "asleep" /\ hpc = "none" => ~finished
    /\ pc = "restore" => finished

IInv == TypeOK /\ Pipe /\ Fences /\ Notification

(* The initial states satisfy the invariant. *)
LEMMA InitIInv == Init => IInv
<1> SUFFICES ASSUME Init PROVE IInv
  OBVIOUS
<1>1. TypeOK
  <2>1. finish \in BOOLEAN /\ finished \in BOOLEAN /\ ints \in BOOLEAN
    BY DEF Init
  <2> QED BY <2>1, CmdBound DEF Init, TypeOK
<1>2. Pipe
  BY CmdBound DEF Init, Pipe, Padded, written
<1>3. Fences
  BY DEF Init, Fences, Padded
<1>4. Notification
  BY DEF Init, Notification, Armed
<1> QED BY <1>1, <1>2, <1>3, <1>4 DEF IInv

(* Every step keeps the types. *)
LEMMA NextTypeOK == IInv /\ [Next]_vars => TypeOK'
<1> SUFFICES ASSUME IInv, [Next]_vars PROVE TypeOK'
  OBVIOUS
<1> USE CmdBound DEF IInv, TypeOK, Pipe, Fences, Notification, Padded, Armed, At, HandlerAt,
       Interrupted, written, pipe
<1>1. ASSUME NEW n \in CmdSizes, Write(n) PROVE TypeOK'
  BY <1>1, SizesArePositive, StoreCounts DEF Write
<1>2. CASE Disable
  BY <1>2 DEF Disable
<1>3. CASE DrawDone
  BY <1>3, StoreCounts, StoreWord DEF DrawDone
<1>4. CASE CGX_ForcePipelineFlush
  BY <1>4, StoreCounts, StoreWord DEF CGX_ForcePipelineFlush
<1>5. CASE Clear
  BY <1>5 DEF Clear
<1>6. CASE FlashEnable
  BY <1>6 DEF FlashEnable
<1>7. CASE FlashDisable
  BY <1>7 DEF FlashDisable
<1>8. CASE Test
  BY <1>8 DEF Test
<1>9. CASE Sleep
  BY <1>9 DEF Sleep
<1>10. CASE Restore
  BY <1>10 DEF Restore
<1>11. CASE EnterHandler
  BY <1>11 DEF EnterHandler
<1>12. CASE Ack
  BY <1>12 DEF Ack
<1>13. CASE Set
  BY <1>13 DEF Set
<1>14. CASE Broadcast
  BY <1>14 DEF Broadcast
<1>15. CASE Execute
  BY <1>15 DEF Execute
<1>16. CASE UNCHANGED vars
  BY <1>16 DEF vars
<1>17. CASE AllWritten
  BY <1>17 DEF AllWritten, vars
<1> QED
  BY <1>1, <1>2, <1>3, <1>4, <1>5, <1>6, <1>7, <1>8, <1>9, <1>10, <1>11, <1>12, <1>13, <1>14, <1>15, <1>16, <1>17 DEF Next, ProgramStep, HandlerStep

(* Every step keeps the commands in order, and padding drives them out. *)
LEMMA NextPipe == IInv /\ [Next]_vars => Pipe'
<1> SUFFICES ASSUME IInv, [Next]_vars PROVE Pipe'
  OBVIOUS
<1> USE CmdBound DEF IInv, TypeOK, Pipe, Fences, Notification, Padded, Armed, At, HandlerAt,
       Interrupted, written, pipe
<1>1. ASSUME NEW n \in CmdSizes, Write(n) PROVE Pipe'
  BY <1>1, SizesArePositive, StoreCounts DEF Write
<1>2. CASE Disable
  BY <1>2 DEF Disable
<1>3. CASE DrawDone
  BY <1>3, StoreCounts, StoreWord DEF DrawDone
<1>4. CASE CGX_ForcePipelineFlush
  BY <1>4, StoreCounts, StoreWord DEF CGX_ForcePipelineFlush
<1>5. CASE Clear
  BY <1>5 DEF Clear
<1>6. CASE FlashEnable
  BY <1>6 DEF FlashEnable
<1>7. CASE FlashDisable
  BY <1>7 DEF FlashDisable
<1>8. CASE Test
  BY <1>8 DEF Test
<1>9. CASE Sleep
  BY <1>9 DEF Sleep
<1>10. CASE Restore
  BY <1>10 DEF Restore
<1>11. CASE EnterHandler
  BY <1>11 DEF EnterHandler
<1>12. CASE Ack
  BY <1>12 DEF Ack
<1>13. CASE Set
  BY <1>13 DEF Set
<1>14. CASE Broadcast
  BY <1>14 DEF Broadcast
<1>15. CASE Execute
  BY <1>15 DEF Execute
<1>16. CASE UNCHANGED vars
  BY <1>16 DEF vars
<1>17. CASE AllWritten
  BY <1>17 DEF AllWritten, vars
<1> QED
  BY <1>1, <1>2, <1>3, <1>4, <1>5, <1>6, <1>7, <1>8, <1>9, <1>10, <1>11, <1>12, <1>13, <1>14, <1>15, <1>16, <1>17 DEF Next, ProgramStep, HandlerStep

(* Every step leaves at most the last draw-done to be executed. *)
LEMMA NextFences == IInv /\ [Next]_vars => Fences'
<1> SUFFICES ASSUME IInv, [Next]_vars PROVE Fences'
  OBVIOUS
<1> USE CmdBound DEF IInv, TypeOK, Pipe, Fences, Notification, Padded, Armed, At, HandlerAt,
       Interrupted, written, pipe
<1>1. ASSUME NEW n \in CmdSizes, Write(n) PROVE Fences'
  BY <1>1, SizesArePositive, StoreCounts DEF Write
<1>2. CASE Disable
  BY <1>2 DEF Disable
<1>3. CASE DrawDone
  BY <1>3, StoreCounts, StoreWord DEF DrawDone
<1>4. CASE CGX_ForcePipelineFlush
  BY <1>4, StoreCounts, StoreWord DEF CGX_ForcePipelineFlush
<1>5. CASE Clear
  BY <1>5 DEF Clear
<1>6. CASE FlashEnable
  BY <1>6 DEF FlashEnable
<1>7. CASE FlashDisable
  BY <1>7 DEF FlashDisable
<1>8. CASE Test
  BY <1>8 DEF Test
<1>9. CASE Sleep
  BY <1>9 DEF Sleep
<1>10. CASE Restore
  BY <1>10 DEF Restore
<1>11. CASE EnterHandler
  BY <1>11 DEF EnterHandler
<1>12. CASE Ack
  BY <1>12 DEF Ack
<1>13. CASE Set
  BY <1>13 DEF Set
<1>14. CASE Broadcast
  BY <1>14 DEF Broadcast
<1>15. CASE Execute
  BY <1>15 DEF Execute
<1>16. CASE UNCHANGED vars
  BY <1>16 DEF vars
<1>17. CASE AllWritten
  BY <1>17 DEF AllWritten, vars
<1> QED
  BY <1>1, <1>2, <1>3, <1>4, <1>5, <1>6, <1>7, <1>8, <1>9, <1>10, <1>11, <1>12, <1>13, <1>14, <1>15, <1>16, <1>17 DEF Next, ProgramStep, HandlerStep

(* Every step moves the notification on. *)
LEMMA NextNotification == IInv /\ [Next]_vars => Notification'
<1> SUFFICES ASSUME IInv, [Next]_vars PROVE Notification'
  OBVIOUS
<1> USE CmdBound DEF IInv, TypeOK, Pipe, Fences, Notification, Padded, Armed, At, HandlerAt,
       Interrupted, written, pipe
<1>1. ASSUME NEW n \in CmdSizes, Write(n) PROVE Notification'
  BY <1>1, SizesArePositive, StoreCounts DEF Write
<1>2. CASE Disable
  BY <1>2 DEF Disable
<1>3. CASE DrawDone
  BY <1>3, StoreCounts, StoreWord DEF DrawDone
<1>4. CASE CGX_ForcePipelineFlush
  BY <1>4, StoreCounts, StoreWord DEF CGX_ForcePipelineFlush
<1>5. CASE Clear
  BY <1>5 DEF Clear
<1>6. CASE FlashEnable
  BY <1>6 DEF FlashEnable
<1>7. CASE FlashDisable
  BY <1>7 DEF FlashDisable
<1>8. CASE Test
  BY <1>8 DEF Test
<1>9. CASE Sleep
  BY <1>9 DEF Sleep
<1>10. CASE Restore
  BY <1>10 DEF Restore
<1>11. CASE EnterHandler
  BY <1>11 DEF EnterHandler
<1>12. CASE Ack
  BY <1>12 DEF Ack
<1>13. CASE Set
  BY <1>13 DEF Set
<1>14. CASE Broadcast
  BY <1>14 DEF Broadcast
<1>15. CASE Execute
  <2>1. /\ done < written /\ done' = done + 1 /\ written' = written
        /\ UNCHANGED <<finished, ints, pc, hpc>>
    BY <1>15 DEF Execute
  <2>2. CASE pc \in {"run", "drawdone"}
    <3>1. done + 1 \notin fences
      BY <2>2
    <3>2. ~finish'
      BY <1>15, <2>2, <3>1 DEF Execute
    <3> QED BY <2>1, <2>2, <3>2
  <2>3. CASE pc \in {"flush"} \cup Padded
    <3>1. done + 1 \in fences <=> done + 1 = written
      BY <2>1, <2>3
    <3>2. ~finish /\ (pc \in Armed => ~finished /\ hpc = "none")
      BY <2>1, <2>3
    <3>3. finish' <=> done' = written'
      BY <1>15, <2>1, <3>1, <3>2 DEF Execute
    <3> QED BY <2>1, <2>3, <3>2, <3>3
  <2> QED BY <2>2, <2>3
<1>16. CASE UNCHANGED vars
  BY <1>16 DEF vars
<1>17. CASE AllWritten
  BY <1>17 DEF AllWritten, vars
<1> QED
  BY <1>1, <1>2, <1>3, <1>4, <1>5, <1>6, <1>7, <1>8, <1>9, <1>10, <1>11, <1>12, <1>13, <1>14, <1>15, <1>16, <1>17 DEF Next, ProgramStep, HandlerStep

(* The inductive invariant holds in every reachable state. *)
THEOREM Invariance == Spec => []IInv
<1>1. IInv /\ [Next]_vars => IInv'
  BY NextTypeOK, NextPipe, NextFences, NextNotification DEF IInv
<1> QED BY InitIInv, <1>1, PTL DEF Spec

(* Every variable keeps its type. *)
THEOREM TypeCorrect == Spec => []TypeOK
  BY Invariance, PTL DEF IInv

(* A wait returns only when the GPU has executed all that was written. *)
THEOREM FenceHolds == Spec => []FenceComplete
<1>1. IInv => FenceComplete
  BY DEF IInv, Notification, Armed, FenceComplete
<1> QED BY <1>1, Invariance, PTL

(* The program never sleeps without a wakeup on its way: the 32 bytes of      *)
(* padding have driven the draw-done out, and its interrupt cannot be missed. *)
THEOREM NoLostWakeup == Spec => []WakeupComing
<1>1. IInv => WakeupComing
  BY DEF IInv, TypeOK, Pipe, Fences, Notification, Padded, Armed, WakeupComing, written
<1> QED BY <1>1, Invariance, PTL

(* A wait leaves no interrupt and no draw-done behind. *)
THEOREM NothingLeftBehind == Spec => []NothingLeft
<1>1. IInv => NothingLeft
  BY DEF IInv, Fences, Notification, NothingLeft
<1> QED BY <1>1, Invariance, PTL

-----------------------------------------------------------------------------
(* Every step of the wait is a step of the fence, or changes nothing of it. *)
LEMMA StepFence == IInv /\ [Next]_vars => [Fence!Next]_(Fence!vars)
<1> SUFFICES ASSUME IInv, [Next]_vars PROVE [Fence!Next]_(Fence!vars)
  OBVIOUS
<1> USE CmdBound DEF IInv, TypeOK, Pipe, Fences, Notification, Padded, Armed, At, HandlerAt,
       Interrupted, pipe, Fence!vars, Fence!Next
<1>1. ASSUME NEW n \in CmdSizes, Write(n) PROVE Fence!Write
  <2>1. written' = written + 1
    BY <1>1, SizesArePositive, StoreCounts DEF Write
  <2> QED BY <1>1, <2>1 DEF Write, Fence!Write
<1>2. CASE Disable
  BY <1>2 DEF Disable, Fence!Wait, written
<1>3. CASE DrawDone
  <2>1. written' = written + 1
    BY <1>3, StoreCounts DEF DrawDone
  <2> QED BY <1>3, <2>1 DEF DrawDone, Fence!Write
<1>4. CASE CGX_ForcePipelineFlush
  <2>1. written' = written
    BY <1>4, StoreCounts DEF CGX_ForcePipelineFlush, written
  <2> QED BY <1>4, <2>1 DEF CGX_ForcePipelineFlush
<1>5. CASE Clear \/ FlashEnable \/ FlashDisable \/ Test \/ Sleep
  BY <1>5 DEF Clear, FlashEnable, FlashDisable, Test, Sleep, written
<1>6. CASE Restore
  BY <1>6 DEF Restore, Fence!Return, written
<1>7. CASE HandlerStep
  BY <1>7 DEF HandlerStep, EnterHandler, Ack, Set, Broadcast, written
<1>8. CASE Execute
  BY <1>8 DEF Execute, Fence!Execute, written
<1>9. CASE UNCHANGED vars \/ AllWritten
  BY <1>9 DEF vars, AllWritten, written
<1> QED
  BY <1>1, <1>2, <1>3, <1>4, <1>5, <1>6, <1>7, <1>8, <1>9 DEF Next, ProgramStep

(* The wait implements the fence that tests rely on. *)
THEOREM Implements == Spec => ImplementsFence
<1>1. Init => Fence!Init
  BY DEF Init, Fence!Init, written
<1> QED BY <1>1, StepFence, Invariance, PTL DEF Spec, ImplementsFence, Fence!Spec

HIDE DEF Burst, Word, Pads, BpLoad

-----------------------------------------------------------------------------
(* Sequences: what is put together, and what is dropped.                    *)

Sequence(s) == \E S : s \in Seq(S)

(* What is put together has the elements of both, in their order. *)
LEMMA Joined ==
    ASSUME NEW s, NEW t, Sequence(s), Sequence(t)
    PROVE  /\ Sequence(s \o t) /\ Len(s) \in Nat /\ Len(t) \in Nat
           /\ Len(s \o t) = Len(s) + Len(t)
           /\ DOMAIN s = 1 .. Len(s)
           /\ \A i \in 1 .. Len(s) : (s \o t)[i] = s[i]
           /\ \A i \in 1 .. Len(t) : (s \o t)[Len(s) + i] = t[i]
<1>1. PICK S, T : s \in Seq(S) /\ t \in Seq(T)
  BY DEF Sequence
<1>2. s \in Seq(S \cup T) /\ t \in Seq(S \cup T)
  BY <1>1, SeqMonotonic
<1>3. Len(s) \in Nat /\ Len(t) \in Nat /\ DOMAIN s = 1 .. Len(s)
  BY <1>2, LenProperties
<1>4. s \o t \in Seq(S \cup T) /\ Len(s \o t) = Len(s) + Len(t)
  BY <1>2, ConcatProperties
<1>5. \A i \in 1 .. Len(s) + Len(t) : (s \o t)[i] = IF i <= Len(s) THEN s[i] ELSE t[i - Len(s)]
  BY <1>2, ConcatProperties
<1>6. ASSUME NEW i \in 1 .. Len(s) PROVE (s \o t)[i] = s[i]
  BY <1>3, <1>5
<1>7. ASSUME NEW i \in 1 .. Len(t) PROVE (s \o t)[Len(s) + i] = t[i]
  <2>1. Len(s) + i \in 1 .. Len(s) + Len(t) /\ ~(Len(s) + i <= Len(s)) /\ (Len(s) + i) - Len(s) = i
    BY <1>3
  <2> QED BY <1>5, <2>1
<1> QED BY <1>3, <1>4, <1>6, <1>7 DEF Sequence

(* Without its head, a sequence is shorter by one. *)
LEMMA Dropped ==
    ASSUME NEW s, Sequence(s), s # <<>>
    PROVE  /\ Sequence(Tail(s)) /\ Len(s) \in Nat \ {0} /\ Len(Tail(s)) = Len(s) - 1
           /\ Head(s) = s[1] /\ \A i \in 1 .. Len(s) - 1 : Tail(s)[i] = s[i + 1]
<1>1. PICK S : s \in Seq(S)
  BY DEF Sequence
<1>2. Tail(s) \in Seq(S) /\ Len(Tail(s)) = Len(s) - 1 /\ \A i \in 1 .. Len(Tail(s)) : Tail(s)[i] = s[i + 1]
  BY <1>1, HeadTailProperties
<1>3. Len(s) \in Nat \ {0}
  BY <1>1, EmptySeq
<1>4. Head(s) = s[1]
  BY <1>1, <1>3
<1> QED BY <1>2, <1>3, <1>4 DEF Sequence

LEMMA Sizes ==
    ASSUME NEW s, Sequence(s)
    PROVE  Len(s) \in Nat /\ DOMAIN s = 1 .. Len(s) /\ (s = <<>> <=> Len(s) = 0)
<1>1. PICK S : s \in Seq(S)
  BY DEF Sequence
<1> QED BY <1>1, LenProperties, EmptySeq

LEMMA Tuple0 == Sequence(<<>>) /\ Len(<<>>) = 0
  BY EmptySeq DEF Sequence

LEMMA Tuple1 == \A a : Sequence(<<a>>) /\ Len(<<a>>) = 1
<1> TAKE a
<1>1. <<a>> \in Seq({a})
  OBVIOUS
<1> QED BY <1>1 DEF Sequence

LEMMA Tuple2 == \A a, b : Sequence(<<a, b>>) /\ Len(<<a, b>>) = 2
<1> TAKE a, b
<1>1. <<a, b>> \in Seq({a, b})
  OBVIOUS
<1> QED BY <1>1 DEF Sequence
(* A function on the first numbers is a sequence. *)
LEMMA Mapped ==
    ASSUME NEW n \in Nat, NEW S, NEW f \in [1 .. n -> S]
    PROVE  Sequence(f) /\ Len(f) = n
<1>1. f \in Seq(S) /\ DOMAIN f = 1 .. n
  BY SeqDef
<1>2. Len(f) \in Nat /\ DOMAIN f = 1 .. Len(f)
  BY <1>1, LenProperties
<1>3. Len(f) = n
  <2>1. 1 .. n = 1 .. Len(f)
    BY <1>1, <1>2
  <2> QED BY <1>2, <2>1
<1> QED BY <1>1, <1>3 DEF Sequence

(* A statement, a copy, and the statements after it. *)
LEMMA FiveText == \A a, b, c, d, e : <<a>> \o <<b, c>> \o <<d, e>> = <<a, b, c, d, e>>
<1> TAKE a, b, c, d, e
<1> DEFINE S == {a, b, c, d, e}
           s == <<a>> \o <<b, c>>
           t == <<a, b, c, d, e>>
<1>1. <<a>> \in Seq(S) /\ <<b, c>> \in Seq(S) /\ <<d, e>> \in Seq(S) /\ t \in Seq(S)
  OBVIOUS
<1>2. s \in Seq(S) /\ Len(s) = 3 /\ s[1] = a /\ s[2] = b /\ s[3] = c
  BY <1>1, ConcatProperties
<1>3. s \o <<d, e>> \in Seq(S) /\ Len(s \o <<d, e>>) = 5
  BY <1>1, <1>2, ConcatProperties
<1>4. \A i \in 1 .. 5 : (s \o <<d, e>>)[i] = IF i <= 3 THEN s[i] ELSE <<d, e>>[i - 3]
  BY <1>1, <1>2, ConcatProperties
<1>5. \A i \in 1 .. 5 : (s \o <<d, e>>)[i] = t[i]
  BY <1>2, <1>4
<1> QED BY <1>1, <1>3, <1>5, SeqEqual

(* Tuples are sequences. *)

(* Tuples are sequences, and joined they are longer tuples. *)
LEMMA Tuple3 == \A a, b, c : Sequence(<<a, b, c>>) /\ Len(<<a, b, c>>) = 3
<1> TAKE a, b, c
<1>1. <<a, b, c>> \in Seq({a, b, c})
  OBVIOUS
<1> QED BY <1>1 DEF Sequence

LEMMA Tuple4 == \A a, b, c, d : Sequence(<<a, b, c, d>>) /\ Len(<<a, b, c, d>>) = 4
<1> TAKE a, b, c, d
<1>1. <<a, b, c, d>> \in Seq({a, b, c, d})
  OBVIOUS
<1> QED BY <1>1 DEF Sequence

LEMMA Tuple5 == \A a, b, c, d, e : Sequence(<<a, b, c, d, e>>) /\ Len(<<a, b, c, d, e>>) = 5
<1> TAKE a, b, c, d, e
<1>1. <<a, b, c, d, e>> \in Seq({a, b, c, d, e})
  OBVIOUS
<1> QED BY <1>1 DEF Sequence

LEMMA Tuple6 == \A a, b, c, d, e, f : Sequence(<<a, b, c, d, e, f>>) /\ Len(<<a, b, c, d, e, f>>) = 6
<1> TAKE a, b, c, d, e, f
<1>1. <<a, b, c, d, e, f>> \in Seq({a, b, c, d, e, f})
  OBVIOUS
<1> QED BY <1>1 DEF Sequence

LEMMA Tuple7 == \A a, b, c, d, e, f, g : Sequence(<<a, b, c, d, e, f, g>>) /\ Len(<<a, b, c, d, e, f, g>>) = 7
<1> TAKE a, b, c, d, e, f, g
<1>1. <<a, b, c, d, e, f, g>> \in Seq({a, b, c, d, e, f, g})
  OBVIOUS
<1> QED BY <1>1 DEF Sequence

LEMMA Tuple8 == \A a, b, c, d, e, f, g, h : Sequence(<<a, b, c, d, e, f, g, h>>) /\ Len(<<a, b, c, d, e, f, g, h>>) = 8
<1> TAKE a, b, c, d, e, f, g, h
<1>1. <<a, b, c, d, e, f, g, h>> \in Seq({a, b, c, d, e, f, g, h})
  OBVIOUS
<1> QED BY <1>1 DEF Sequence

LEMMA Tuple9 == \A a, b, c, d, e, f, g, h, i : Sequence(<<a, b, c, d, e, f, g, h, i>>) /\ Len(<<a, b, c, d, e, f, g, h, i>>) = 9
<1> TAKE a, b, c, d, e, f, g, h, i
<1>1. <<a, b, c, d, e, f, g, h, i>> \in Seq({a, b, c, d, e, f, g, h, i})
  OBVIOUS
<1> QED BY <1>1 DEF Sequence

LEMMA Tuple11 == \A a, b, c, d, e, f, g, h, i, j, k : Sequence(<<a, b, c, d, e, f, g, h, i, j, k>>) /\ Len(<<a, b, c, d, e, f, g, h, i, j, k>>) = 11
<1> TAKE a, b, c, d, e, f, g, h, i, j, k
<1>1. <<a, b, c, d, e, f, g, h, i, j, k>> \in Seq({a, b, c, d, e, f, g, h, i, j, k})
  OBVIOUS
<1> QED BY <1>1 DEF Sequence

LEMMA Joins1and2 == \A a, b, c : <<a>> \o <<b, c>> = <<a, b, c>>
<1> TAKE a, b, c
<1> DEFINE S == {a, b, c}
<1>1. <<a>> \in Seq(S) /\ <<b, c>> \in Seq(S) /\ <<a, b, c>> \in Seq(S)
  OBVIOUS
<1>2. <<a>> \o <<b, c>> \in Seq(S) /\ Len(<<a>> \o <<b, c>>) = 3
  BY <1>1, ConcatProperties
<1>3. \A n \in 1 .. 3 : (<<a>> \o <<b, c>>)[n] = IF n <= 1 THEN <<a>>[n] ELSE <<b, c>>[n - 1]
  BY <1>1, ConcatProperties
<1>4. \A n \in 1 .. 3 : (<<a>> \o <<b, c>>)[n] = <<a, b, c>>[n]
  BY <1>3
<1> QED BY <1>1, <1>2, <1>4, SeqEqual

LEMMA Joins3and1 == \A a, b, c, d : <<a, b, c>> \o <<d>> = <<a, b, c, d>>
<1> TAKE a, b, c, d
<1> DEFINE S == {a, b, c, d}
<1>1. <<a, b, c>> \in Seq(S) /\ <<d>> \in Seq(S) /\ <<a, b, c, d>> \in Seq(S)
  OBVIOUS
<1>2. <<a, b, c>> \o <<d>> \in Seq(S) /\ Len(<<a, b, c>> \o <<d>>) = 4
  BY <1>1, ConcatProperties
<1>3. \A n \in 1 .. 4 : (<<a, b, c>> \o <<d>>)[n] = IF n <= 3 THEN <<a, b, c>>[n] ELSE <<d>>[n - 3]
  BY <1>1, ConcatProperties
<1>4. \A n \in 1 .. 4 : (<<a, b, c>> \o <<d>>)[n] = <<a, b, c, d>>[n]
  BY <1>3
<1> QED BY <1>1, <1>2, <1>4, SeqEqual

LEMMA Joins4and1 == \A a, b, c, d, e : <<a, b, c, d>> \o <<e>> = <<a, b, c, d, e>>
<1> TAKE a, b, c, d, e
<1> DEFINE S == {a, b, c, d, e}
<1>1. <<a, b, c, d>> \in Seq(S) /\ <<e>> \in Seq(S) /\ <<a, b, c, d, e>> \in Seq(S)
  OBVIOUS
<1>2. <<a, b, c, d>> \o <<e>> \in Seq(S) /\ Len(<<a, b, c, d>> \o <<e>>) = 5
  BY <1>1, ConcatProperties
<1>3. \A n \in 1 .. 5 : (<<a, b, c, d>> \o <<e>>)[n] = IF n <= 4 THEN <<a, b, c, d>>[n] ELSE <<e>>[n - 4]
  BY <1>1, ConcatProperties
<1>4. \A n \in 1 .. 5 : (<<a, b, c, d>> \o <<e>>)[n] = <<a, b, c, d, e>>[n]
  BY <1>3
<1> QED BY <1>1, <1>2, <1>4, SeqEqual

LEMMA Joins5and4 == \A a, b, c, d, e, f, g, h, i : <<a, b, c, d, e>> \o <<f, g, h, i>> = <<a, b, c, d, e, f, g, h, i>>
<1> TAKE a, b, c, d, e, f, g, h, i
<1> DEFINE S == {a, b, c, d, e, f, g, h, i}
<1>1. <<a, b, c, d, e>> \in Seq(S) /\ <<f, g, h, i>> \in Seq(S) /\ <<a, b, c, d, e, f, g, h, i>> \in Seq(S)
  OBVIOUS
<1>2. <<a, b, c, d, e>> \o <<f, g, h, i>> \in Seq(S) /\ Len(<<a, b, c, d, e>> \o <<f, g, h, i>>) = 9
  BY <1>1, ConcatProperties
<1>3. \A n \in 1 .. 9 : (<<a, b, c, d, e>> \o <<f, g, h, i>>)[n] = IF n <= 5 THEN <<a, b, c, d, e>>[n] ELSE <<f, g, h, i>>[n - 5]
  BY <1>1, ConcatProperties
<1>4. \A n \in 1 .. 9 : (<<a, b, c, d, e>> \o <<f, g, h, i>>)[n] = <<a, b, c, d, e, f, g, h, i>>[n]
  BY <1>3
<1> QED BY <1>1, <1>2, <1>4, SeqEqual

LEMMA Joins9and1 == \A a, b, c, d, e, f, g, h, i, j : <<a, b, c, d, e, f, g, h, i>> \o <<j>> = <<a, b, c, d, e, f, g, h, i, j>>
<1> TAKE a, b, c, d, e, f, g, h, i, j
<1> DEFINE S == {a, b, c, d, e, f, g, h, i, j}
<1>1. <<a, b, c, d, e, f, g, h, i>> \in Seq(S) /\ <<j>> \in Seq(S) /\ <<a, b, c, d, e, f, g, h, i, j>> \in Seq(S)
  OBVIOUS
<1>2. <<a, b, c, d, e, f, g, h, i>> \o <<j>> \in Seq(S) /\ Len(<<a, b, c, d, e, f, g, h, i>> \o <<j>>) = 10
  BY <1>1, ConcatProperties
<1>3. \A n \in 1 .. 10 : (<<a, b, c, d, e, f, g, h, i>> \o <<j>>)[n] = IF n <= 9 THEN <<a, b, c, d, e, f, g, h, i>>[n] ELSE <<j>>[n - 9]
  BY <1>1, ConcatProperties
<1>4. \A n \in 1 .. 10 : (<<a, b, c, d, e, f, g, h, i>> \o <<j>>)[n] = <<a, b, c, d, e, f, g, h, i, j>>[n]
  BY <1>3
<1> QED BY <1>1, <1>2, <1>4, SeqEqual

LEMMA Joins1and10 == \A a, b, c, d, e, f, g, h, i, j, k : <<a>> \o <<b, c, d, e, f, g, h, i, j, k>> = <<a, b, c, d, e, f, g, h, i, j, k>>
<1> TAKE a, b, c, d, e, f, g, h, i, j, k
<1> DEFINE S == {a, b, c, d, e, f, g, h, i, j, k}
<1>1. <<a>> \in Seq(S) /\ <<b, c, d, e, f, g, h, i, j, k>> \in Seq(S) /\ <<a, b, c, d, e, f, g, h, i, j, k>> \in Seq(S)
  OBVIOUS
<1>2. <<a>> \o <<b, c, d, e, f, g, h, i, j, k>> \in Seq(S) /\ Len(<<a>> \o <<b, c, d, e, f, g, h, i, j, k>>) = 11
  BY <1>1, ConcatProperties
<1>3. \A n \in 1 .. 11 : (<<a>> \o <<b, c, d, e, f, g, h, i, j, k>>)[n] = IF n <= 1 THEN <<a>>[n] ELSE <<b, c, d, e, f, g, h, i, j, k>>[n - 1]
  BY <1>1, ConcatProperties
<1>4. \A n \in 1 .. 11 : (<<a>> \o <<b, c, d, e, f, g, h, i, j, k>>)[n] = <<a, b, c, d, e, f, g, h, i, j, k>>[n]
  BY <1>3
<1> QED BY <1>1, <1>2, <1>4, SeqEqual

LEMMA Joins3and3 == \A a, b, c, d, e, f : <<a, b, c>> \o <<d, e, f>> = <<a, b, c, d, e, f>>
<1> TAKE a, b, c, d, e, f
<1> DEFINE S == {a, b, c, d, e, f}
<1>1. <<a, b, c>> \in Seq(S) /\ <<d, e, f>> \in Seq(S) /\ <<a, b, c, d, e, f>> \in Seq(S)
  OBVIOUS
<1>2. <<a, b, c>> \o <<d, e, f>> \in Seq(S) /\ Len(<<a, b, c>> \o <<d, e, f>>) = 6
  BY <1>1, ConcatProperties
<1>3. \A n \in 1 .. 6 : (<<a, b, c>> \o <<d, e, f>>)[n] = IF n <= 3 THEN <<a, b, c>>[n] ELSE <<d, e, f>>[n - 3]
  BY <1>1, ConcatProperties
<1>4. \A n \in 1 .. 6 : (<<a, b, c>> \o <<d, e, f>>)[n] = <<a, b, c, d, e, f>>[n]
  BY <1>3
<1> QED BY <1>1, <1>2, <1>4, SeqEqual

LEMMA Joins3and6 == \A a, b, c, d, e, f, g, h, i : <<a, b, c>> \o <<d, e, f, g, h, i>> = <<a, b, c, d, e, f, g, h, i>>
<1> TAKE a, b, c, d, e, f, g, h, i
<1> DEFINE S == {a, b, c, d, e, f, g, h, i}
<1>1. <<a, b, c>> \in Seq(S) /\ <<d, e, f, g, h, i>> \in Seq(S) /\ <<a, b, c, d, e, f, g, h, i>> \in Seq(S)
  OBVIOUS
<1>2. <<a, b, c>> \o <<d, e, f, g, h, i>> \in Seq(S) /\ Len(<<a, b, c>> \o <<d, e, f, g, h, i>>) = 9
  BY <1>1, ConcatProperties
<1>3. \A n \in 1 .. 9 : (<<a, b, c>> \o <<d, e, f, g, h, i>>)[n] = IF n <= 3 THEN <<a, b, c>>[n] ELSE <<d, e, f, g, h, i>>[n - 3]
  BY <1>1, ConcatProperties
<1>4. \A n \in 1 .. 9 : (<<a, b, c>> \o <<d, e, f, g, h, i>>)[n] = <<a, b, c, d, e, f, g, h, i>>[n]
  BY <1>3
<1> QED BY <1>1, <1>2, <1>4, SeqEqual

LEMMA Joins2and2 == \A a, b, c, d : <<a, b>> \o <<c, d>> = <<a, b, c, d>>
<1> TAKE a, b, c, d
<1> DEFINE S == {a, b, c, d}
<1>1. <<a, b>> \in Seq(S) /\ <<c, d>> \in Seq(S) /\ <<a, b, c, d>> \in Seq(S)
  OBVIOUS
<1>2. <<a, b>> \o <<c, d>> \in Seq(S) /\ Len(<<a, b>> \o <<c, d>>) = 4
  BY <1>1, ConcatProperties
<1>3. \A n \in 1 .. 4 : (<<a, b>> \o <<c, d>>)[n] = IF n <= 2 THEN <<a, b>>[n] ELSE <<c, d>>[n - 2]
  BY <1>1, ConcatProperties
<1>4. \A n \in 1 .. 4 : (<<a, b>> \o <<c, d>>)[n] = <<a, b, c, d>>[n]
  BY <1>3
<1> QED BY <1>1, <1>2, <1>4, SeqEqual

LEMMA Joins2and1 == \A a, b, c : <<a, b>> \o <<c>> = <<a, b, c>>
<1> TAKE a, b, c
<1> DEFINE S == {a, b, c}
<1>1. <<a, b>> \in Seq(S) /\ <<c>> \in Seq(S) /\ <<a, b, c>> \in Seq(S)
  OBVIOUS
<1>2. <<a, b>> \o <<c>> \in Seq(S) /\ Len(<<a, b>> \o <<c>>) = 3
  BY <1>1, ConcatProperties
<1>3. \A n \in 1 .. 3 : (<<a, b>> \o <<c>>)[n] = IF n <= 2 THEN <<a, b>>[n] ELSE <<c>>[n - 2]
  BY <1>1, ConcatProperties
<1>4. \A n \in 1 .. 3 : (<<a, b>> \o <<c>>)[n] = <<a, b, c>>[n]
  BY <1>3
<1> QED BY <1>1, <1>2, <1>4, SeqEqual

LEMMA Joins1and1 == \A a, b : <<a>> \o <<b>> = <<a, b>>
<1> TAKE a, b
<1> DEFINE S == {a, b}
<1>1. <<a>> \in Seq(S) /\ <<b>> \in Seq(S) /\ <<a, b>> \in Seq(S)
  OBVIOUS
<1>2. <<a>> \o <<b>> \in Seq(S) /\ Len(<<a>> \o <<b>>) = 2
  BY <1>1, ConcatProperties
<1>3. \A n \in 1 .. 2 : (<<a>> \o <<b>>)[n] = IF n <= 1 THEN <<a>>[n] ELSE <<b>>[n - 1]
  BY <1>1, ConcatProperties
<1>4. \A n \in 1 .. 2 : (<<a>> \o <<b>>)[n] = <<a, b>>[n]
  BY <1>3
<1> QED BY <1>1, <1>2, <1>4, SeqEqual

LEMMA Joins4and2 == \A a, b, c, d, e, f : <<a, b, c, d>> \o <<e, f>> = <<a, b, c, d, e, f>>
<1> TAKE a, b, c, d, e, f
<1> DEFINE S == {a, b, c, d, e, f}
<1>1. <<a, b, c, d>> \in Seq(S) /\ <<e, f>> \in Seq(S) /\ <<a, b, c, d, e, f>> \in Seq(S)
  OBVIOUS
<1>2. <<a, b, c, d>> \o <<e, f>> \in Seq(S) /\ Len(<<a, b, c, d>> \o <<e, f>>) = 6
  BY <1>1, ConcatProperties
<1>3. \A n \in 1 .. 6 : (<<a, b, c, d>> \o <<e, f>>)[n] = IF n <= 4 THEN <<a, b, c, d>>[n] ELSE <<e, f>>[n - 4]
  BY <1>1, ConcatProperties
<1>4. \A n \in 1 .. 6 : (<<a, b, c, d>> \o <<e, f>>)[n] = <<a, b, c, d, e, f>>[n]
  BY <1>3
<1> QED BY <1>1, <1>2, <1>4, SeqEqual

LEMMA Joins0and1 == \A a : <<>> \o <<a>> = <<a>>
<1> TAKE a
<1> DEFINE S == {a}
<1>1. <<>> \in Seq(S) /\ <<a>> \in Seq(S) /\ <<a>> \in Seq(S)
  OBVIOUS
<1>2. <<>> \o <<a>> \in Seq(S) /\ Len(<<>> \o <<a>>) = 1
  BY <1>1, ConcatProperties
<1>3. \A n \in 1 .. 1 : (<<>> \o <<a>>)[n] = IF n <= 0 THEN <<>>[n] ELSE <<a>>[n - 0]
  BY <1>1, ConcatProperties
<1>4. \A n \in 1 .. 1 : (<<>> \o <<a>>)[n] = <<a>>[n]
  BY <1>3
<1> QED BY <1>1, <1>2, <1>4, SeqEqual

LEMMA Joins3and0 == \A a, b, c : <<a, b, c>> \o <<>> = <<a, b, c>>
<1> TAKE a, b, c
<1> DEFINE S == {a, b, c}
<1>1. <<a, b, c>> \in Seq(S) /\ <<>> \in Seq(S) /\ <<a, b, c>> \in Seq(S)
  OBVIOUS
<1>2. <<a, b, c>> \o <<>> \in Seq(S) /\ Len(<<a, b, c>> \o <<>>) = 3
  BY <1>1, ConcatProperties
<1>3. \A n \in 1 .. 3 : (<<a, b, c>> \o <<>>)[n] = IF n <= 3 THEN <<a, b, c>>[n] ELSE <<>>[n - 3]
  BY <1>1, ConcatProperties
<1>4. \A n \in 1 .. 3 : (<<a, b, c>> \o <<>>)[n] = <<a, b, c>>[n]
  BY <1>3
<1> QED BY <1>1, <1>2, <1>4, SeqEqual

-----------------------------------------------------------------------------
(* The commands the fifo holds, and what they will do to a pixel by the time  *)
(* the GPU has executed them.                                               *)

(* Kinds of commands: one that moves the viewport, one that draws for certain
   all that its quad covers, one that leaves the EFB's colours alone. *)
LoadsViewport(c) == c.op = "load" /\ c.register = "viewport"
Sure(c) == c.op = "draw" /\ c.z = <<"inside", "inside", "inside", "inside">> /\ ~c.measured
KeepsColors(c) == c.op = "load" \/ (c.op = "copy" /\ ~c.params.clear)
CopiesTo(c, p) == c.op = "copy" /\ InRect(c, p)

(* The viewport that command i will find: the last one loaded before it. *)
InForce(i, vp) ==
    \/ \E h \in 1 .. i - 1 : /\ LoadsViewport(fifo[h].command) /\ fifo[h].command.value = vp
                             /\ \A k \in h + 1 .. i - 1 : ~LoadsViewport(fifo[k].command)
    \/ gpu.viewport = vp /\ \A k \in 1 .. i - 1 : ~LoadsViewport(fifo[k].command)

(* A pixel is painted when the painter has drawn it, or is about to, and no
   command of another round is left to draw over it. *)
KeepsPaint(e) == e.by = Painter(round) \/ KeepsColors(e.command)
PaintDone(p) == efb[p].by = Painter(round) /\ \A j \in 1 .. Len(fifo) : KeepsPaint(fifo[j])
PaintDue(i, p) ==
    /\ Sure(fifo[i].command) /\ fifo[i].by = Painter(round)
    /\ \E vp : InForce(i, vp) /\ InQuad(vp, fifo[i].command, p)
    /\ \A j \in i .. Len(fifo) : KeepsPaint(fifo[j])
Painted(p) == PaintDone(p) \/ \E i \in 1 .. Len(fifo) : PaintDue(i, p)
(* A pixel is copied when the round's copy has been made, or is about to be,
   after the painter's draw, and no other round's copy is left to undo it. *)
OwnCopies(c) == \A j \in c .. Len(fifo) : fifo[j].command.op = "copy" => fifo[j].by = round
CopyDone(p) ==
    /\ buffer[p].copied = round /\ buffer[p].drawn = Painter(round)
    /\ PaintDone(p) /\ OwnCopies(1)
CopyDue(c, p) ==
    /\ CopiesTo(fifo[c].command, p) /\ OwnCopies(c)
    /\ PaintDone(p) \/ \E i \in 1 .. c - 1 : PaintDue(i, p)
CopiedOwn(p) == CopyDone(p) \/ \E c \in 1 .. Len(fifo) : CopyDue(c, p)

(* What the state is made of. *)
Shape ==
    /\ Sequence(fifo)
    /\ gpu = [x \in DOMAIN gpu |-> gpu[x]] /\ "viewport" \in DOMAIN gpu
    /\ DOMAIN efb = Pixels(main) /\ DOMAIN buffer = Pixels(main)
    /\ \A p \in DOMAIN efb :
          efb[p] = [color |-> efb[p].color, format |-> efb[p].format, z |-> efb[p].z, by |-> efb[p].by]

(* What a step of the GPU does to the viewport and to who drew and copied,
   whichever command it executes. *)
GpuStep ==
    LET e == Head(fifo)
    IN  /\ fifo # <<>> /\ fifo' = Tail(fifo) /\ UNCHANGED <<main, round, next>>
        /\ gpu'.viewport = IF LoadsViewport(e.command) THEN e.command.value ELSE gpu.viewport
        /\ \A p \in DOMAIN efb :
              /\ efb'[p].by = efb[p].by \/ (efb'[p].by = e.by /\ ~KeepsColors(e.command))
              /\ Sure(e.command) /\ InQuad(gpu.viewport, e.command, p) => efb'[p].by = e.by
        /\ \A p \in DOMAIN buffer :
              IF CopiesTo(e.command, p)
              THEN buffer'[p].copied = e.by /\ buffer'[p].drawn = efb[p].by
              ELSE buffer'[p] = buffer[p]

(* A quad inside the frustum, of a size the hardware does not decide, is drawn. *)
LEMMA SureIsVisible ==
    ASSUME NEW g, NEW q, Sure(q)
    PROVE  Visible(g, q) /\ ~Open(q)
<1>1. q.z[1] = "inside" /\ q.z[2] = "inside" /\ q.z[3] = "inside" /\ q.z[4] = "inside"
  BY DEF Sure
<1>2. \A z : Outside(q, z) => z = "inside"
  BY <1>1 DEF Outside
<1> QED BY <1>1, <1>2 DEF Visible, Open, Sure

LEMMA LoadIsStep == Shape /\ ExecuteLoad => GpuStep /\ Shape'
<1> SUFFICES ASSUME Shape, ExecuteLoad PROVE GpuStep /\ Shape'
  OBVIOUS
<1> DEFINE c == Head(fifo).command
<1>1. /\ fifo # <<>> /\ c.op = "load" /\ fifo' = Tail(fifo) /\ UNCHANGED <<main, round, next, efb, buffer>>
      /\ gpu' = [gpu EXCEPT ![c.register] = c.value]
  BY DEF ExecuteLoad, Takes
<1>2. Sequence(fifo')
  BY <1>1, Dropped DEF Shape
<1>3. "viewport" \in DOMAIN gpu' /\ gpu' = [x \in DOMAIN gpu' |-> gpu'[x]]
  BY <1>1 DEF Shape
<1>4. gpu'.viewport = IF LoadsViewport(c) THEN c.value ELSE gpu.viewport
  BY <1>1 DEF Shape, LoadsViewport
<1>5. ~Sure(c) /\ \A p : ~CopiesTo(c, p)
  BY <1>1 DEF Sure, CopiesTo
<1>6. Shape'
  BY <1>1, <1>2, <1>3 DEF Shape
<1> QED BY <1>1, <1>4, <1>5, <1>6 DEF GpuStep

LEMMA DrawIsStep == Shape /\ ExecuteDraw => GpuStep /\ Shape'
<1> SUFFICES ASSUME Shape, ExecuteDraw PROVE GpuStep /\ Shape'
  OBVIOUS
<1> DEFINE q == Head(fifo).command
           drawn == Drawn(gpu, efb, buffer, q, Head(fifo).by)
<1>1. /\ fifo # <<>> /\ q.op = "draw" /\ fifo' = Tail(fifo) /\ UNCHANGED <<main, round, next, gpu, buffer>>
      /\ IF Open(q) THEN efb' \in {efb, drawn} ELSE efb' = drawn
  BY DEF ExecuteDraw, Takes
<1>2. Sequence(fifo')
  BY <1>1, Dropped DEF Shape
<1>3. ~LoadsViewport(q) /\ ~KeepsColors(q) /\ \A p : ~CopiesTo(q, p)
  BY <1>1 DEF LoadsViewport, KeepsColors, CopiesTo
<1>4. DOMAIN drawn = DOMAIN efb
  BY DEF Drawn
<1>5. ASSUME NEW p \in DOMAIN efb
      PROVE  /\ drawn[p] = [color |-> drawn[p].color, format |-> drawn[p].format, z |-> drawn[p].z, by |-> drawn[p].by]
             /\ drawn[p].by \in {efb[p].by, Head(fifo).by}
             /\ InQuad(gpu.viewport, q, p) /\ Visible(gpu, q) => drawn[p].by = Head(fifo).by
  BY DEF Drawn, Shape
<1> HIDE DEF drawn
<1>6. Shape'
  BY <1>1, <1>2, <1>4, <1>5 DEF Shape
<1>7. ASSUME NEW p \in DOMAIN efb
      PROVE  /\ efb'[p].by = efb[p].by \/ (efb'[p].by = Head(fifo).by /\ ~KeepsColors(q))
             /\ Sure(q) /\ InQuad(gpu.viewport, q, p) => efb'[p].by = Head(fifo).by
  BY <1>1, <1>3, <1>5, SureIsVisible
<1> QED BY <1>1, <1>3, <1>6, <1>7 DEF GpuStep

LEMMA CopyIsStep == Shape /\ ExecuteCopy => GpuStep /\ Shape'
<1> SUFFICES ASSUME Shape, ExecuteCopy PROVE GpuStep /\ Shape'
  OBVIOUS
<1> DEFINE c == Head(fifo).command
<1>1. /\ fifo # <<>> /\ c.op = "copy" /\ fifo' = Tail(fifo) /\ UNCHANGED <<main, round, next>>
      /\ gpu' = [gpu EXCEPT !.stale = TRUE]
      /\ buffer' = Copied(gpu, efb, buffer, c, Head(fifo).by)
      /\ efb' = Cleared(gpu, efb, c, Head(fifo).by)
  BY DEF ExecuteCopy, Takes
<1>2. Sequence(fifo')
  BY <1>1, Dropped DEF Shape
<1>3. ~LoadsViewport(c) /\ ~Sure(c)
  BY <1>1 DEF LoadsViewport, Sure
<1>4. "viewport" \in DOMAIN gpu' /\ gpu' = [x \in DOMAIN gpu' |-> gpu'[x]] /\ gpu'.viewport = gpu.viewport
  BY <1>1 DEF Shape
<1>5. DOMAIN efb' = DOMAIN efb /\ DOMAIN buffer' = DOMAIN buffer
  BY <1>1 DEF Cleared, Copied
<1>6. ASSUME NEW p \in DOMAIN efb
      PROVE  /\ efb'[p] = [color |-> efb'[p].color, format |-> efb'[p].format, z |-> efb'[p].z, by |-> efb'[p].by]
             /\ efb'[p].by = efb[p].by \/ (efb'[p].by = Head(fifo).by /\ ~KeepsColors(c))
  BY <1>1 DEF Cleared, Shape, KeepsColors
<1>7. ASSUME NEW p \in DOMAIN buffer
      PROVE  IF CopiesTo(c, p) THEN buffer'[p].copied = Head(fifo).by /\ buffer'[p].drawn = efb[p].by
             ELSE buffer'[p] = buffer[p]
  BY <1>1 DEF Copied, CopiesTo
<1>8. Shape'
  BY <1>1, <1>2, <1>4, <1>5, <1>6 DEF Shape
<1> QED BY <1>1, <1>3, <1>4, <1>6, <1>7, <1>8 DEF GpuStep

(* What the step leaves in the pipe is what was there, one place further on. *)
LEMMA StepShifts ==
    ASSUME Shape, GpuStep
    PROVE  /\ Len(fifo) \in Nat \ {0} /\ Len(fifo') = Len(fifo) - 1 /\ Head(fifo) = fifo[1]
           /\ \A j \in 1 .. Len(fifo) - 1 : fifo'[j] = fifo[j + 1]
           /\ \A j \in 2 .. Len(fifo) : fifo'[j - 1] = fifo[j]
<1>1. /\ Len(fifo) \in Nat \ {0} /\ Len(fifo') = Len(fifo) - 1 /\ Head(fifo) = fifo[1]
      /\ \A j \in 1 .. Len(fifo) - 1 : fifo'[j] = fifo[j + 1]
  BY Dropped DEF Shape, GpuStep
<1>2. ASSUME NEW j \in 2 .. Len(fifo) PROVE fifo'[j - 1] = fifo[j]
  <2>1. j - 1 \in 1 .. Len(fifo) - 1 /\ (j - 1) + 1 = j
    BY <1>1
  <2> QED BY <1>1, <2>1
<1> QED BY <1>1, <1>2

(* A viewport in force stays in force for the command that finds it. *)
LEMMA StepKeepsForce ==
    ASSUME Shape, GpuStep, NEW i \in 2 .. Len(fifo) + 1, NEW vp, InForce(i, vp)
    PROVE  InForce(i - 1, vp)'
<1>1. /\ Len(fifo) \in Nat \ {0} /\ Head(fifo) = fifo[1]
      /\ \A j \in 2 .. Len(fifo) : fifo'[j - 1] = fifo[j]
      /\ \A j \in 1 .. Len(fifo) - 1 : fifo'[j] = fifo[j + 1]
  BY StepShifts
<1>2. gpu'.viewport = IF LoadsViewport(fifo[1].command) THEN fifo[1].command.value ELSE gpu.viewport
  BY <1>1 DEF GpuStep
<1>3. CASE \A k \in 1 .. i - 1 : ~LoadsViewport(fifo[k].command)
  <2>1. gpu.viewport = vp
    BY <1>3 DEF InForce
  <2>2. \A k \in 1 .. (i - 1) - 1 : ~LoadsViewport(fifo'[k].command)
    BY <1>1, <1>3
  <2>3. ~LoadsViewport(fifo[1].command)
    BY <1>3
  <2> QED BY <1>2, <2>1, <2>2, <2>3 DEF InForce
<1>4. CASE \E k \in 1 .. i - 1 : LoadsViewport(fifo[k].command)
  <2>1. PICK h \in 1 .. i - 1 : /\ LoadsViewport(fifo[h].command) /\ fifo[h].command.value = vp
                                /\ \A k \in h + 1 .. i - 1 : ~LoadsViewport(fifo[k].command)
    BY <1>4 DEF InForce
  <2>2. \A k \in h .. (i - 1) - 1 : ~LoadsViewport(fifo'[k].command)
    <3> SUFFICES ASSUME NEW k \in h .. (i - 1) - 1 PROVE ~LoadsViewport(fifo'[k].command)
      OBVIOUS
    <3>1. k \in 1 .. Len(fifo) - 1 /\ k + 1 \in h + 1 .. i - 1
      BY <1>1
    <3> QED BY <1>1, <2>1, <3>1
  <2>3. CASE h = 1
    <3>1. gpu'.viewport = vp
      BY <1>2, <2>1, <2>3
    <3> QED BY <2>2, <2>3, <3>1 DEF InForce
  <2>4. CASE h # 1
    <3>1. h - 1 \in 1 .. (i - 1) - 1 /\ h \in 2 .. Len(fifo) /\ (h - 1) + 1 = h
      BY <2>4, <1>1
    <3>2. fifo'[h - 1] = fifo[h]
      BY <1>1, <3>1
    <3> QED BY <2>1, <2>2, <3>1, <3>2 DEF InForce
  <2> QED BY <2>3, <2>4
<1> QED BY <1>3, <1>4

(* No step of the GPU draws over what is painted. *)
LEMMA StepKeepsDone ==
    ASSUME Shape, GpuStep, NEW p \in DOMAIN efb, PaintDone(p)
    PROVE  PaintDone(p)'
<1>1. /\ Len(fifo) \in Nat \ {0} /\ Len(fifo') = Len(fifo) - 1 /\ Head(fifo) = fifo[1]
      /\ \A j \in 1 .. Len(fifo) - 1 : fifo'[j] = fifo[j + 1]
  BY StepShifts
<1>2. round' = round
  BY DEF GpuStep
<1>3. KeepsPaint(fifo[1])
  BY <1>1 DEF PaintDone
<1>4. efb'[p].by = Painter(round)
  BY <1>1, <1>3 DEF GpuStep, PaintDone, KeepsPaint
<1>5. \A j \in 1 .. Len(fifo') : KeepsPaint(fifo'[j])
  BY <1>1 DEF PaintDone
<1> QED BY <1>2, <1>4, <1>5 DEF PaintDone, KeepsPaint

(* A draw that is due comes closer, or is done. *)
LEMMA StepDoesDue ==
    ASSUME Shape, GpuStep, NEW p \in DOMAIN efb, NEW i \in 1 .. Len(fifo), PaintDue(i, p)
    PROVE  IF i = 1 THEN PaintDone(p)' ELSE i - 1 \in 1 .. Len(fifo') /\ PaintDue(i - 1, p)'
<1>1. /\ Len(fifo) \in Nat \ {0} /\ Len(fifo') = Len(fifo) - 1 /\ Head(fifo) = fifo[1]
      /\ \A j \in 1 .. Len(fifo) - 1 : fifo'[j] = fifo[j + 1]
      /\ \A j \in 2 .. Len(fifo) : fifo'[j - 1] = fifo[j]
  BY StepShifts
<1>2. round' = round
  BY DEF GpuStep
<1>3. PICK vp : InForce(i, vp) /\ InQuad(vp, fifo[i].command, p)
  BY DEF PaintDue
<1>4. CASE i = 1
  <2>1. gpu.viewport = vp
    BY <1>3, <1>4 DEF InForce
  <2>2. efb'[p].by = Painter(round)
    BY <1>1, <1>3, <1>4, <2>1 DEF GpuStep, PaintDue
  <2>3. \A j \in 1 .. Len(fifo') : KeepsPaint(fifo'[j])
    BY <1>1, <1>4 DEF PaintDue
  <2> QED BY <1>2, <1>4, <2>2, <2>3 DEF PaintDone, KeepsPaint
<1>5. CASE i # 1
  <2>1. i - 1 \in 1 .. Len(fifo') /\ i \in 2 .. Len(fifo) /\ fifo'[i - 1] = fifo[i]
    BY <1>1, <1>5
  <2>2. InForce(i - 1, vp)'
    BY <1>1, <1>3, <2>1, StepKeepsForce
  <2>3. \A j \in i - 1 .. Len(fifo') : KeepsPaint(fifo'[j])
    <3> SUFFICES ASSUME NEW j \in i - 1 .. Len(fifo') PROVE KeepsPaint(fifo'[j])
      OBVIOUS
    <3>1. j \in 1 .. Len(fifo) - 1 /\ j + 1 \in i .. Len(fifo)
      BY <1>1, <2>1
    <3> QED BY <1>1, <3>1 DEF PaintDue
  <2>4. Sure(fifo'[i - 1].command) /\ fifo'[i - 1].by = Painter(round') /\ InQuad(vp, fifo'[i - 1].command, p)
    BY <1>2, <1>3, <2>1 DEF PaintDue
  <2> QED BY <1>2, <1>5, <2>1, <2>2, <2>3, <2>4 DEF PaintDue, KeepsPaint
<1> QED BY <1>4, <1>5

LEMMA StepKeepsPainted ==
    ASSUME Shape, GpuStep, NEW p \in DOMAIN efb, Painted(p)
    PROVE  Painted(p)'
<1>1. CASE PaintDone(p)
  BY <1>1, StepKeepsDone DEF Painted
<1>2. ASSUME NEW i \in 1 .. Len(fifo), PaintDue(i, p) PROVE Painted(p)'
  BY <1>2, StepDoesDue DEF Painted
<1> QED BY <1>1, <1>2 DEF Painted

(* A pixel copied stays so, as the GPU goes on. *)
LEMMA StepKeepsCopied ==
    ASSUME Shape, GpuStep, NEW p \in DOMAIN efb, p \in DOMAIN buffer, CopiedOwn(p)
    PROVE  CopiedOwn(p)'
<1>1. /\ Len(fifo) \in Nat \ {0} /\ Len(fifo') = Len(fifo) - 1 /\ Head(fifo) = fifo[1]
      /\ \A j \in 1 .. Len(fifo) - 1 : fifo'[j] = fifo[j + 1]
      /\ \A j \in 2 .. Len(fifo) : fifo'[j - 1] = fifo[j]
  BY StepShifts
<1>2. round' = round
  BY DEF GpuStep
<1>3. ASSUME NEW c \in 1 .. Len(fifo), OwnCopies(c) PROVE OwnCopies(IF c = 1 THEN 1 ELSE c - 1)'
  <2>1. ASSUME NEW j \in (IF c = 1 THEN 1 ELSE c - 1) .. Len(fifo'), fifo'[j].command.op = "copy"
        PROVE  fifo'[j].by = round
    <3>1. j \in 1 .. Len(fifo) - 1 /\ j + 1 \in c .. Len(fifo)
      BY <1>1
    <3> QED BY <1>1, <1>3, <2>1, <3>1 DEF OwnCopies
  <2> QED BY <1>2, <2>1 DEF OwnCopies
<1>4. CopiesTo(fifo[1].command, p) => buffer'[p].copied = fifo[1].by /\ buffer'[p].drawn = efb[p].by
  BY <1>1 DEF GpuStep
<1>5. ~CopiesTo(fifo[1].command, p) => buffer'[p] = buffer[p]
  BY <1>1 DEF GpuStep
<1>6. CASE CopyDone(p)
  <2>1. PaintDone(p)' /\ OwnCopies(1)'
    BY <1>1, <1>3, <1>6, StepKeepsDone DEF CopyDone
  <2>2. CASE CopiesTo(fifo[1].command, p)
    <3>1. fifo[1].by = round
      BY <1>1, <1>6, <2>2 DEF CopyDone, OwnCopies, CopiesTo
    <3>2. efb[p].by = Painter(round)
      BY <1>6 DEF CopyDone, PaintDone
    <3> QED BY <1>2, <1>4, <2>1, <2>2, <3>1, <3>2 DEF CopiedOwn, CopyDone
  <2>3. CASE ~CopiesTo(fifo[1].command, p)
    BY <1>2, <1>5, <1>6, <2>1, <2>3 DEF CopiedOwn, CopyDone
  <2> QED BY <2>2, <2>3
<1>7. ASSUME NEW c \in 1 .. Len(fifo), CopyDue(c, p) PROVE CopiedOwn(p)'
  <2>1. CASE c = 1
    <3>1. PaintDone(p)
      BY <1>7, <2>1 DEF CopyDue
    <3>2. fifo[1].by = round /\ efb[p].by = Painter(round)
      BY <1>1, <1>7, <2>1, <3>1 DEF CopyDue, OwnCopies, CopiesTo, PaintDone
    <3>3. PaintDone(p)' /\ OwnCopies(1)'
      BY <1>3, <1>7, <2>1, <3>1, StepKeepsDone DEF CopyDue
    <3> QED BY <1>2, <1>4, <1>7, <2>1, <3>2, <3>3 DEF CopiedOwn, CopyDone, CopyDue
  <2>2. CASE c # 1
    <3>1. c - 1 \in 1 .. Len(fifo') /\ fifo'[c - 1] = fifo[c]
      BY <1>1, <2>2
    <3>2. OwnCopies(c - 1)'
      BY <1>3, <1>7, <2>2 DEF CopyDue
    <3>3. PaintDone(p)' \/ \E i \in 1 .. (c - 1) - 1 : PaintDue(i, p)'
      <4>1. CASE PaintDone(p)
        BY <4>1, StepKeepsDone
      <4>2. ASSUME NEW i \in 1 .. c - 1, PaintDue(i, p)
            PROVE  PaintDone(p)' \/ \E k \in 1 .. (c - 1) - 1 : PaintDue(k, p)'
        <5>1. i \in 1 .. Len(fifo)
          BY <1>1
        <5>2. IF i = 1 THEN PaintDone(p)' ELSE i - 1 \in 1 .. Len(fifo') /\ PaintDue(i - 1, p)'
          BY <4>2, <5>1, StepDoesDue
        <5>3. i # 1 => i - 1 \in 1 .. (c - 1) - 1
          BY <1>1
        <5> QED BY <5>2, <5>3
      <4> QED BY <1>7, <4>1, <4>2 DEF CopyDue
    <3>4. CopyDue(c - 1, p)'
      BY <1>7, <3>1, <3>2, <3>3 DEF CopyDue
    <3> QED BY <3>1, <3>4 DEF CopiedOwn
  <2> QED BY <2>1, <2>2
<1> QED BY <1>6, <1>7 DEF CopiedOwn

-----------------------------------------------------------------------------
(* A statement that sends.  Two rounds draw in a viewport that an earlier    *)
(* one, or Init, left in force.                                             *)

(* The viewport that stands before statement n of a round: Init's for tev, whose
   first draws load none, and in the last loop of rasterization the one that
   its first pass loads for the second. *)
WholeScreen == [x |-> 0, y |-> 0, w |-> 640, h |-> 528]
GuardBand == [x |-> 100, y |-> 100, w |-> 100, h |-> 100]
Standing(r) == IF r.test = "CoordinatePrecisionTest" THEN GuardBand ELSE WholeScreen
Stands(r, n) ==
    \/ r.test = "Init" /\ n > 1
    \/ r.test = "TevCombinerTest"
    \/ r.test = "CoordinatePrecisionTest" /\ r.scene = 2 /\ (r.step = 1 \/ n > 1)

(* The viewport a list of commands leaves. *)
NoViewport(cs) == \A k \in 1 .. Len(cs) : ~LoadsViewport(cs[k])
SetsViewport(cs, vp) ==
    \E h \in 1 .. Len(cs) : /\ LoadsViewport(cs[h]) /\ cs[h].value = vp
                            /\ \A k \in h + 1 .. Len(cs) : ~LoadsViewport(cs[k])
(* Command i of a list draws p for certain: in a viewport the list loads, or in
   one that is in force before it. *)
Draws(cs, i, p) ==
    /\ i \in 1 .. Len(cs) /\ Sure(cs[i])
    /\ \E h \in 1 .. i - 1 : /\ LoadsViewport(cs[h]) /\ InQuad(cs[h].value, cs[i], p)
                             /\ \A k \in h + 1 .. i - 1 : ~LoadsViewport(cs[k])
DrawsIn(cs, i, p, vp) ==
    /\ i \in 1 .. Len(cs) /\ Sure(cs[i])
    /\ InQuad(vp, cs[i], p) /\ \A k \in 1 .. i - 1 : ~LoadsViewport(cs[k])
PaintsAt(cs, i, p, r, n) == Draws(cs, i, p) \/ (Stands(r, n) /\ DrawsIn(cs, i, p, Standing(r)))

(* What is sent comes after everything else, marked with its round. *)
LEMMA SendAppends ==
    ASSUME Shape, SendCommands, Sequence(Statement.commands)
    PROVE  LET cs == Statement.commands
           IN  /\ Len(fifo) \in Nat /\ Len(cs) \in Nat /\ Len(fifo') = Len(fifo) + Len(cs)
               /\ Sequence(fifo')
               /\ \A j \in 1 .. Len(fifo) : fifo'[j] = fifo[j]
               /\ \A j \in 1 .. Len(cs) : fifo'[Len(fifo) + j].command = cs[j] /\ fifo'[Len(fifo) + j].by = round
               /\ \A j \in Len(fifo) + 1 .. Len(fifo') :
                     j - Len(fifo) \in 1 .. Len(cs) /\ fifo'[j].command = cs[j - Len(fifo)] /\ fifo'[j].by = round
               /\ UNCHANGED <<main, round, gpu, efb, buffer>> /\ next' = next + 1
<1> DEFINE cs == Statement.commands
           entries == [i \in DOMAIN cs |-> [command |-> cs[i], by |-> round]]
<1>1. fifo' = fifo \o entries /\ UNCHANGED <<main, round, gpu, efb, buffer>> /\ next' = next + 1
  BY DEF SendCommands, Step
<1>2. Len(cs) \in Nat /\ DOMAIN cs = 1 .. Len(cs)
  BY Sizes
<1> HIDE DEF cs
<1>3. entries \in [1 .. Len(cs) -> {[command |-> cs[i], by |-> round] : i \in 1 .. Len(cs)}]
  BY <1>2
<1>4. \A j \in 1 .. Len(cs) : entries[j] = [command |-> cs[j], by |-> round]
  BY <1>2
<1> HIDE DEF entries
<1>5. Sequence(entries) /\ Len(entries) = Len(cs)
  BY ONLY <1>2, <1>3, Mapped
<1>6. Sequence(fifo)
  BY DEF Shape
<1>7. /\ Sequence(fifo \o entries) /\ Len(fifo) \in Nat /\ Len(fifo \o entries) = Len(fifo) + Len(entries)
      /\ \A i \in 1 .. Len(fifo) : (fifo \o entries)[i] = fifo[i]
      /\ \A i \in 1 .. Len(entries) : (fifo \o entries)[Len(fifo) + i] = entries[i]
  BY ONLY <1>5, <1>6, Joined
<1>8. ASSUME NEW j \in 1 .. Len(cs)
      PROVE  fifo'[Len(fifo) + j].command = cs[j] /\ fifo'[Len(fifo) + j].by = round
  <2>1. fifo'[Len(fifo) + j] = entries[j]
    BY <1>1, <1>5, <1>7
  <2>2. entries[j] = [command |-> cs[j], by |-> round]
    BY <1>4
  <2> QED BY <2>1, <2>2
<1>9. ASSUME NEW j \in Len(fifo) + 1 .. Len(fifo')
      PROVE  j - Len(fifo) \in 1 .. Len(cs) /\ fifo'[j].command = cs[j - Len(fifo)] /\ fifo'[j].by = round
  <2>1. j - Len(fifo) \in 1 .. Len(cs) /\ Len(fifo) + (j - Len(fifo)) = j
    BY <1>1, <1>2, <1>5, <1>7
  <2> QED BY <1>8, <2>1
<1> QED BY <1>1, <1>2, <1>5, <1>7, <1>8, <1>9 DEF cs

LEMMA SendLeavesForce ==
    ASSUME Shape, SendCommands, Sequence(Statement.commands),
           NEW i \in 1 .. Len(fifo) + 1, NEW vp, InForce(i, vp)
    PROVE  InForce(i, vp)'
<1>1. /\ Len(fifo) \in Nat /\ \A j \in 1 .. Len(fifo) : fifo'[j] = fifo[j]
      /\ gpu' = gpu
  BY SendAppends
<1>2. \A j \in 1 .. i - 1 : fifo'[j] = fifo[j]
  BY <1>1
<1>3. CASE gpu.viewport = vp /\ \A k \in 1 .. i - 1 : ~LoadsViewport(fifo[k].command)
  BY <1>1, <1>2, <1>3 DEF InForce
<1>4. ASSUME NEW h \in 1 .. i - 1, LoadsViewport(fifo[h].command), fifo[h].command.value = vp,
             \A k \in h + 1 .. i - 1 : ~LoadsViewport(fifo[k].command)
      PROVE  InForce(i, vp)'
  <2>1. \A k \in h + 1 .. i - 1 : ~LoadsViewport(fifo'[k].command)
    BY <1>2, <1>4
  <2> QED BY <1>2, <1>4, <2>1 DEF InForce
<1> QED BY <1>3, <1>4 DEF InForce

(* What was in the pipe stays, and of what is added everything is of the round. *)
LEMMA SendKeepsDone ==
    ASSUME Shape, SendCommands, Sequence(Statement.commands),
           Filled(round) => \A i \in 1 .. Len(Statement.commands) : KeepsColors(Statement.commands[i]),
           NEW p
    PROVE  /\ PaintDone(p) => PaintDone(p)'
           /\ \A i \in 1 .. Len(fifo) : PaintDue(i, p) => PaintDue(i, p)'
           /\ Painted(p) => Painted(p)'
<1> DEFINE cs == Statement.commands
<1>1. /\ Len(fifo) \in Nat /\ Len(cs) \in Nat /\ Len(fifo') = Len(fifo) + Len(cs)
      /\ \A j \in 1 .. Len(fifo) : fifo'[j] = fifo[j]
      /\ \A j \in 1 .. Len(cs) : fifo'[Len(fifo) + j].command = cs[j] /\ fifo'[Len(fifo) + j].by = round
      /\ \A j \in Len(fifo) + 1 .. Len(fifo') :
            j - Len(fifo) \in 1 .. Len(cs) /\ fifo'[j].command = cs[j - Len(fifo)] /\ fifo'[j].by = round
      /\ UNCHANGED <<main, round, gpu, efb, buffer>>
  BY SendAppends
<1>2. \A j \in 1 .. Len(cs) : round = Painter(round) \/ KeepsColors(cs[j])
  BY DEF Painter
<1> HIDE DEF cs
<1>3. \A j \in Len(fifo) + 1 .. Len(fifo') : KeepsPaint(fifo'[j])
  BY <1>1, <1>2 DEF KeepsPaint
<1>4. ASSUME NEW i \in 1 .. Len(fifo) + 1, \A j \in i .. Len(fifo) : KeepsPaint(fifo[j])
      PROVE  \A j \in i .. Len(fifo') : KeepsPaint(fifo'[j])
  BY <1>1, <1>3, <1>4
<1>5. PaintDone(p) => PaintDone(p)'
  BY <1>1, <1>4 DEF PaintDone, KeepsPaint
<1>6. ASSUME NEW i \in 1 .. Len(fifo), PaintDue(i, p) PROVE PaintDue(i, p)'
  <2>1. PICK vp : InForce(i, vp) /\ InQuad(vp, fifo[i].command, p)
    BY <1>6 DEF PaintDue
  <2>2. InForce(i, vp)'
    BY <1>1, <2>1, SendLeavesForce
  <2>3. \A j \in i .. Len(fifo') : KeepsPaint(fifo'[j])
    <3>1. i \in 1 .. Len(fifo) + 1
      BY <1>1
    <3>2. \A j \in i .. Len(fifo) : KeepsPaint(fifo[j])
      BY <1>6 DEF PaintDue
    <3> QED BY <1>4, <3>1, <3>2
  <2> QED BY <1>1, <1>6, <2>1, <2>2, <2>3 DEF PaintDue, KeepsPaint
<1>7. ASSUME NEW i \in 1 .. Len(fifo), PaintDue(i, p) PROVE Painted(p)'
  <2>1. i \in 1 .. Len(fifo')
    BY <1>1
  <2> QED BY <1>6, <1>7, <2>1 DEF Painted
<1> QED BY <1>5, <1>6, <1>7 DEF Painted

LEMMA SendKeepsCopied ==
    ASSUME Shape, SendCommands, Sequence(Statement.commands),
           Filled(round) => \A i \in 1 .. Len(Statement.commands) : KeepsColors(Statement.commands[i]),
           NEW p, CopiedOwn(p)
    PROVE  CopiedOwn(p)'
<1> DEFINE cs == Statement.commands
<1>1. /\ Len(fifo) \in Nat /\ Len(cs) \in Nat /\ Len(fifo') = Len(fifo) + Len(cs)
      /\ \A j \in 1 .. Len(fifo) : fifo'[j] = fifo[j]
      /\ \A j \in 1 .. Len(cs) : fifo'[Len(fifo) + j].command = cs[j] /\ fifo'[Len(fifo) + j].by = round
      /\ \A j \in Len(fifo) + 1 .. Len(fifo') :
            j - Len(fifo) \in 1 .. Len(cs) /\ fifo'[j].command = cs[j - Len(fifo)] /\ fifo'[j].by = round
      /\ UNCHANGED <<main, round, gpu, efb, buffer>>
  BY SendAppends
<1>2. /\ PaintDone(p) => PaintDone(p)'
      /\ \A i \in 1 .. Len(fifo) : PaintDue(i, p) => PaintDue(i, p)'
  BY SendKeepsDone
<1> HIDE DEF cs
<1>3. ASSUME NEW c \in 1 .. Len(fifo) + 1, OwnCopies(c) PROVE OwnCopies(c)'
  <2> SUFFICES ASSUME NEW j \in c .. Len(fifo'), fifo'[j].command.op = "copy" PROVE fifo'[j].by = round
    BY <1>1 DEF OwnCopies
  <2>1. CASE j \in 1 .. Len(fifo)
    BY <1>1, <1>3, <2>1 DEF OwnCopies
  <2>2. CASE j \notin 1 .. Len(fifo)
    BY <1>1, <2>2
  <2> QED BY <2>1, <2>2
<1>4. CASE CopyDone(p)
  BY <1>1, <1>2, <1>3, <1>4 DEF CopyDone, CopiedOwn
<1>5. ASSUME NEW c \in 1 .. Len(fifo), CopyDue(c, p) PROVE CopiedOwn(p)'
  <2>1. c \in 1 .. Len(fifo') /\ fifo'[c] = fifo[c] /\ OwnCopies(c)'
    BY <1>1, <1>3, <1>5 DEF CopyDue
  <2>2. PaintDone(p)' \/ \E i \in 1 .. c - 1 : PaintDue(i, p)'
    BY <1>1, <1>2, <1>5 DEF CopyDue
  <2>3. CopyDue(c, p)'
    BY <1>1, <1>5, <2>1, <2>2 DEF CopyDue
  <2> QED BY <2>1, <2>3 DEF CopiedOwn
<1> QED BY <1>4, <1>5 DEF CopiedOwn

LEMMA SendKeepsForce ==
    ASSUME Shape, SendCommands, Sequence(Statement.commands), NEW vp,
           \/ InForce(Len(fifo) + 1, vp) /\ NoViewport(Statement.commands)
           \/ SetsViewport(Statement.commands, vp)
    PROVE  InForce(Len(fifo) + 1, vp)'
<1> DEFINE cs == Statement.commands
<1>1. /\ Len(fifo) \in Nat /\ Len(cs) \in Nat /\ Len(fifo') = Len(fifo) + Len(cs)
      /\ \A j \in 1 .. Len(fifo) : fifo'[j] = fifo[j]
      /\ \A j \in 1 .. Len(cs) : fifo'[Len(fifo) + j].command = cs[j] /\ fifo'[Len(fifo) + j].by = round
      /\ \A j \in Len(fifo) + 1 .. Len(fifo') :
            j - Len(fifo) \in 1 .. Len(cs) /\ fifo'[j].command = cs[j - Len(fifo)] /\ fifo'[j].by = round
      /\ UNCHANGED <<main, round, gpu, efb, buffer>>
  BY SendAppends
<1>2. (InForce(Len(fifo) + 1, vp) /\ NoViewport(cs)) \/ SetsViewport(cs, vp)
  OBVIOUS
<1> HIDE DEF cs
<1>3. \A j \in Len(fifo) + 1 .. Len(fifo') :
          j - Len(fifo) \in 1 .. Len(cs) /\ fifo'[j].command = cs[j - Len(fifo)]
  BY <1>1
<1>4. CASE InForce(Len(fifo) + 1, vp) /\ NoViewport(cs)
  <2>1. \A j \in Len(fifo) + 1 .. Len(fifo') : ~LoadsViewport(fifo'[j].command)
    BY <1>3, <1>4 DEF NoViewport
  <2>2. CASE gpu.viewport = vp /\ \A k \in 1 .. (Len(fifo) + 1) - 1 : ~LoadsViewport(fifo[k].command)
    <3>1. \A k \in 1 .. (Len(fifo') + 1) - 1 : ~LoadsViewport(fifo'[k].command)
      BY <1>1, <2>1, <2>2
    <3> QED BY <1>1, <2>2, <3>1 DEF InForce
  <2>3. ASSUME NEW h \in 1 .. (Len(fifo) + 1) - 1,
               LoadsViewport(fifo[h].command), fifo[h].command.value = vp,
               \A k \in h + 1 .. (Len(fifo) + 1) - 1 : ~LoadsViewport(fifo[k].command)
        PROVE  InForce(Len(fifo) + 1, vp)'
    <3>1. h \in 1 .. (Len(fifo') + 1) - 1 /\ fifo'[h] = fifo[h]
      BY <1>1
    <3>2. \A k \in h + 1 .. (Len(fifo') + 1) - 1 : ~LoadsViewport(fifo'[k].command)
      BY <1>1, <2>1, <2>3
    <3> QED BY <2>3, <3>1, <3>2 DEF InForce
  <2> QED BY <1>4, <2>2, <2>3 DEF InForce
<1>5. CASE SetsViewport(cs, vp)
  <2>1. PICK h \in 1 .. Len(cs) : /\ LoadsViewport(cs[h]) /\ cs[h].value = vp
                                  /\ \A k \in h + 1 .. Len(cs) : ~LoadsViewport(cs[k])
    BY <1>5 DEF SetsViewport
  <2>2. Len(fifo) + h \in 1 .. (Len(fifo') + 1) - 1 /\ fifo'[Len(fifo) + h].command = cs[h]
    BY <1>1
  <2>3. \A k \in (Len(fifo) + h) + 1 .. (Len(fifo') + 1) - 1 : ~LoadsViewport(fifo'[k].command)
    <3> SUFFICES ASSUME NEW k \in (Len(fifo) + h) + 1 .. (Len(fifo') + 1) - 1
                 PROVE  ~LoadsViewport(fifo'[k].command)
      OBVIOUS
    <3>1. k \in Len(fifo) + 1 .. Len(fifo') /\ k - Len(fifo) \in h + 1 .. Len(cs)
      BY <1>1
    <3> QED BY <1>3, <2>1, <3>1
  <2> QED BY <2>1, <2>2, <2>3 DEF InForce
<1> QED BY <1>2, <1>4, <1>5

(* A draw that covers the pixel is due. *)
LEMMA SendPaints ==
    ASSUME Shape, SendCommands, Sequence(Statement.commands), ~Filled(round), NEW p, NEW i, NEW m \in Nat, m = Len(fifo),
           Stands(round, next) => InForce(Len(fifo) + 1, Standing(round)),
           PaintsAt(Statement.commands, i, p, round, next)
    PROVE  i \in 1 .. Len(Statement.commands) /\ PaintDue(m + i, p)'
<1> DEFINE cs == Statement.commands
<1>1. /\ Len(fifo) \in Nat /\ Len(cs) \in Nat /\ Len(fifo') = Len(fifo) + Len(cs)
      /\ \A j \in 1 .. Len(fifo) : fifo'[j] = fifo[j]
      /\ \A j \in 1 .. Len(cs) : fifo'[Len(fifo) + j].command = cs[j] /\ fifo'[Len(fifo) + j].by = round
      /\ \A j \in Len(fifo) + 1 .. Len(fifo') :
            j - Len(fifo) \in 1 .. Len(cs) /\ fifo'[j].command = cs[j - Len(fifo)] /\ fifo'[j].by = round
      /\ UNCHANGED <<main, round, gpu, efb, buffer>>
  BY SendAppends
<1>0. m = Len(fifo)
  OBVIOUS
<1>2. PaintsAt(cs, i, p, round, next)
  OBVIOUS
<1> HIDE DEF cs
<1>3. i \in 1 .. Len(cs) /\ Sure(cs[i])
  BY <1>0, <1>2 DEF PaintsAt, Draws, DrawsIn
<1>4. Painter(round) = round
  BY DEF Painter
<1>5. fifo'[m + i].command = cs[i] /\ fifo'[m + i].by = round
  BY <1>0, <1>1, <1>3
<1>6. \A j \in m + 1 .. Len(fifo') :
          j - m \in 1 .. Len(cs) /\ fifo'[j].command = cs[j - m] /\ fifo'[j].by = round
  BY <1>0, <1>1
<1>7. \A j \in m + i .. Len(fifo') : KeepsPaint(fifo'[j])
  BY <1>0, <1>1, <1>3, <1>4, <1>6 DEF KeepsPaint
<1>8. \E vp : InForce(m + i, vp)' /\ InQuad(vp, cs[i], p)
  <2>1. CASE Draws(cs, i, p)
    <3>1. PICK h \in 1 .. i - 1 : /\ LoadsViewport(cs[h]) /\ InQuad(cs[h].value, cs[i], p)
                                  /\ \A k \in h + 1 .. i - 1 : ~LoadsViewport(cs[k])
      BY <2>1 DEF Draws
    <3>2. m + h \in 1 .. (m + i) - 1 /\ fifo'[m + h].command = cs[h]
      BY <1>0, <1>1, <1>3
    <3>3. \A k \in (m + h) + 1 .. (m + i) - 1 : ~LoadsViewport(fifo'[k].command)
      <4> SUFFICES ASSUME NEW k \in (m + h) + 1 .. (m + i) - 1
                   PROVE  ~LoadsViewport(fifo'[k].command)
        OBVIOUS
      <4>1. k \in m + 1 .. Len(fifo') /\ k - m \in h + 1 .. i - 1
        BY <1>0, <1>1, <1>3
      <4> QED BY <1>6, <3>1, <4>1
    <3>4. \E g \in 1 .. (m + i) - 1 :
             /\ LoadsViewport(fifo'[g].command) /\ fifo'[g].command.value = cs[h].value
             /\ \A k \in g + 1 .. (m + i) - 1 : ~LoadsViewport(fifo'[k].command)
      BY <3>1, <3>2, <3>3
    <3> QED BY <3>1, <3>4 DEF InForce
  <2>2. CASE Stands(round, next) /\ DrawsIn(cs, i, p, Standing(round))
    <3>0. PICK vp : vp = Standing(round)
      OBVIOUS
    <3>1. InForce(m + 1, vp) /\ InQuad(vp, cs[i], p) /\ \A k \in 1 .. i - 1 : ~LoadsViewport(cs[k])
      BY <1>0, <2>2, <3>0 DEF DrawsIn
    <3>2. \A k \in m + 1 .. (m + i) - 1 : ~LoadsViewport(fifo'[k].command)
      <4> SUFFICES ASSUME NEW k \in m + 1 .. (m + i) - 1
                   PROVE  ~LoadsViewport(fifo'[k].command)
        OBVIOUS
      <4>1. k \in m + 1 .. Len(fifo') /\ k - m \in 1 .. i - 1
        BY <1>0, <1>1, <1>3
      <4> QED BY <1>6, <3>1, <4>1
    <3>3. CASE gpu.viewport = vp /\ \A k \in 1 .. (m + 1) - 1 : ~LoadsViewport(fifo[k].command)
      <4>1. \A k \in 1 .. (m + i) - 1 : ~LoadsViewport(fifo'[k].command)
        BY <1>0, <1>1, <1>3, <3>2, <3>3
      <4> QED BY <1>0, <1>1, <3>1, <3>3, <4>1 DEF InForce
    <3>4. ASSUME NEW h \in 1 .. (m + 1) - 1,
                 LoadsViewport(fifo[h].command), fifo[h].command.value = vp,
                 \A k \in h + 1 .. (m + 1) - 1 : ~LoadsViewport(fifo[k].command)
          PROVE  InForce(m + i, vp)'
      <4>1. h \in 1 .. (m + i) - 1 /\ fifo'[h] = fifo[h]
        BY <1>0, <1>1, <1>3
      <4>2. ASSUME NEW k \in h + 1 .. (m + i) - 1 PROVE ~LoadsViewport(fifo'[k].command)
        <5>1. CASE k \in h + 1 .. (m + 1) - 1
          <6>1. k \in 1 .. m
            BY <5>1
          <6>2. fifo'[k] = fifo[k]
            BY <1>0, <1>1, <6>1
          <6> QED BY <3>4, <5>1, <6>2
        <5>2. CASE k \in m + 1 .. (m + i) - 1
          BY <3>2, <5>2
        <5> QED BY <5>1, <5>2
      <4> QED BY <3>4, <4>1, <4>2 DEF InForce
    <3> QED BY <3>1, <3>3, <3>4 DEF InForce
  <2> QED BY <1>0, <1>2, <2>1, <2>2 DEF PaintsAt
<1>9. PaintDue(m + i, p)'
  BY <1>0, <1>1, <1>3, <1>4, <1>5, <1>7, <1>8 DEF PaintDue, KeepsPaint
<1> QED BY <1>3, <1>9 DEF cs

(* A copy of a pixel that was drawn, or is about to be, is due. *)
LEMMA SendCopies ==
    ASSUME Shape, SendCommands, Sequence(Statement.commands),
           Filled(round) => \A i \in 1 .. Len(Statement.commands) : KeepsColors(Statement.commands[i]),
           Stands(round, next) => InForce(Len(fifo) + 1, Standing(round)),
           NEW p, NEW c \in 1 .. Len(Statement.commands), CopiesTo(Statement.commands[c], p),
           \/ Painted(p)
           \/ ~Filled(round) /\ \E i \in 1 .. c - 1 : PaintsAt(Statement.commands, i, p, round, next)
    PROVE  CopiedOwn(p)'
<1> DEFINE cs == Statement.commands
<1>1. /\ Len(fifo) \in Nat /\ Len(cs) \in Nat /\ Len(fifo') = Len(fifo) + Len(cs)
      /\ \A j \in 1 .. Len(fifo) : fifo'[j] = fifo[j]
      /\ \A j \in 1 .. Len(cs) : fifo'[Len(fifo) + j].command = cs[j] /\ fifo'[Len(fifo) + j].by = round
      /\ \A j \in Len(fifo) + 1 .. Len(fifo') :
            j - Len(fifo) \in 1 .. Len(cs) /\ fifo'[j].command = cs[j - Len(fifo)] /\ fifo'[j].by = round
      /\ UNCHANGED <<main, round, gpu, efb, buffer>>
  BY SendAppends
<1>0. PICK m \in Nat : m = Len(fifo)
  BY <1>1
<1>2. PaintDone(p)' \/ \E i \in 1 .. (m + c) - 1 : PaintDue(i, p)'
  <2>1. CASE PaintDone(p)
    BY <2>1, SendKeepsDone
  <2>2. ASSUME NEW i \in 1 .. m, PaintDue(i, p) PROVE \E j \in 1 .. (m + c) - 1 : PaintDue(j, p)'
    <3>1. PaintDue(i, p)' /\ i \in 1 .. (m + c) - 1
      BY <1>0, <1>1, <2>2, SendKeepsDone
    <3> QED BY <3>1
  <2>3. ASSUME ~Filled(round), NEW i \in 1 .. c - 1, PaintsAt(Statement.commands, i, p, round, next)
        PROVE  \E j \in 1 .. (m + c) - 1 : PaintDue(j, p)'
    <3>1. PaintDue(m + i, p)'
      BY <1>0, <2>3, SendPaints
    <3>2. m + i \in 1 .. (m + c) - 1
      BY <1>0, <1>1
    <3> QED BY <3>1, <3>2
  <2> QED BY <1>0, <2>1, <2>2, <2>3 DEF Painted
<1>3. m + c \in 1 .. Len(fifo') /\ fifo'[m + c].command = cs[c]
  BY <1>0, <1>1
<1>4. OwnCopies(m + c)'
  BY <1>0, <1>1 DEF OwnCopies
<1>5. CopiesTo(fifo'[m + c].command, p)
  BY <1>3
<1> HIDE DEF cs
<1>6. CopyDue(m + c, p)'
  BY <1>2, <1>4, <1>5 DEF CopyDue
<1> QED BY <1>3, <1>6 DEF CopiedOwn

-----------------------------------------------------------------------------
(* What makes the text of a round sound, whatever the GPU still has to do.    *)

(* Copying of what a text sends and reads. *)
(* Statement s reads pixel p of the buffer. *)
Reads(s, p) == (s.op = "read" /\ p \in DOMAIN s.expected) \/ (s.op \in {"keep", "combine"} /\ p = TevPixel)
(* The commands paint p; the text copies p, after it painted it, with the copy
   before statement n. *)
PaintsIn(cs, p, r, n) == \E i \in 1 .. Len(cs) : PaintsAt(cs, i, p, r, n)
CopiesIn(t, r, n, p) ==
    \E c \in 1 .. Len(t[n - 2].commands) :
        /\ CopiesTo(t[n - 2].commands[c], p)
        /\ \/ Filled(r)
           \/ \E i \in 1 .. c - 1 : PaintsAt(t[n - 2].commands, i, p, r, n - 2)
           \/ n >= 5 /\ t[n - 4].op = "send" /\ PaintsIn(t[n - 4].commands, p, r, n - 4)
(* A statement that reads waits for a copy into a buffer that was zeroed, with
   nothing in between. *)
ReadsItsCopy(t, r, n, p) ==
    /\ n >= 4 /\ t[n - 1].op = "wait" /\ t[n - 2].op = "send" /\ t[n - 3].op = "memset"
    /\ CopiesIn(t, r, n, p)
(* A statement that sends draws nothing in a round that another one paints, and
   the viewport that has to stand after it does. *)
SendsWell(s, r, n) ==
    /\ s.op = "send" => Sequence(s.commands) /\ (Filled(r) => \A i \in 1 .. Len(s.commands) : KeepsColors(s.commands[i]))
    /\ Stands(r, n + 1) => \/ s.op = "send" /\ SetsViewport(s.commands, Standing(r))
                           \/ Stands(r, n) /\ (s.op = "send" => NoViewport(s.commands))
(* A fill waits before it pokes. *)
Fills(t) == Len(t) >= 3 /\ t[2].op = "wait" /\ t[3].op = "poke"
(* The text of a round. *)
TextSound(r) ==
    LET t == Program(r)
    IN  /\ Sequence(t)
        /\ \A n \in 1 .. Len(t) : /\ SendsWell(t[n], r, n)
                                  /\ t[n].op = "poke" => r.test = "FillEFB" /\ n = 3
                                  /\ \A p : Reads(t[n], p) => ReadsItsCopy(t, r, n, p)
        /\ r.test = "FillEFB" => Fills(t)
        /\ r.test \in {"Init", "CoordinatePrecisionTest"} => Len(t) >= 1

-----------------------------------------------------------------------------
(* Commands without a viewport leave the one before them. *)
LEMMA NoViewports ==
    ASSUME NEW s, NEW t, Sequence(s), Sequence(t), NoViewport(t)
    PROVE  /\ NoViewport(s) => NoViewport(s \o t)
           /\ \A vp : SetsViewport(s, vp) => SetsViewport(s \o t, vp)
<1>1. /\ Len(s) \in Nat /\ Len(t) \in Nat /\ Len(s \o t) = Len(s) + Len(t)
      /\ \A i \in 1 .. Len(s) : (s \o t)[i] = s[i]
      /\ \A i \in 1 .. Len(t) : (s \o t)[Len(s) + i] = t[i]
  BY Joined
<1>2. \A k \in Len(s) + 1 .. Len(s) + Len(t) : ~LoadsViewport((s \o t)[k])
  <2> SUFFICES ASSUME NEW k \in Len(s) + 1 .. Len(s) + Len(t) PROVE ~LoadsViewport((s \o t)[k])
    OBVIOUS
  <2>1. k - Len(s) \in 1 .. Len(t) /\ Len(s) + (k - Len(s)) = k
    BY <1>1
  <2> QED BY <1>1, <2>1 DEF NoViewport
<1>3. NoViewport(s) => NoViewport(s \o t)
  BY <1>1, <1>2 DEF NoViewport
<1>4. ASSUME NEW vp, SetsViewport(s, vp) PROVE SetsViewport(s \o t, vp)
  <2>1. PICK h \in 1 .. Len(s) : LoadsViewport(s[h]) /\ s[h].value = vp /\ \A k \in h + 1 .. Len(s) : ~LoadsViewport(s[k])
    BY <1>4 DEF SetsViewport
  <2>2. \A k \in h + 1 .. Len(s \o t) : ~LoadsViewport((s \o t)[k])
    BY <1>1, <1>2, <2>1
  <2>3. h \in 1 .. Len(s \o t) /\ (s \o t)[h] = s[h]
    BY <1>1
  <2> QED BY <2>1, <2>2, <2>3 DEF SetsViewport
<1> QED BY <1>3, <1>4

(* What comes later does not undo that a command draws. *)
LEMMA DrawsStay ==
    ASSUME NEW s, NEW t, Sequence(s), Sequence(t), NEW i, NEW p, Draws(s, i, p)
    PROVE  Draws(s \o t, i, p)
<1>1. /\ Len(s) \in Nat /\ Len(t) \in Nat /\ Len(s \o t) = Len(s) + Len(t)
      /\ \A j \in 1 .. Len(s) : (s \o t)[j] = s[j]
  BY Joined
<1>2. i \in 1 .. Len(s) /\ i \in 1 .. Len(s \o t) /\ \A k \in 1 .. i : (s \o t)[k] = s[k]
  BY <1>1 DEF Draws
<1>3. PICK h \in 1 .. i - 1 : /\ LoadsViewport(s[h]) /\ InQuad(s[h].value, s[i], p)
                              /\ \A k \in h + 1 .. i - 1 : ~LoadsViewport(s[k])
  BY DEF Draws
<1>4. (s \o t)[h] = s[h] /\ (s \o t)[i] = s[i] /\ \A k \in h + 1 .. i - 1 : (s \o t)[k] = s[k]
  BY <1>2
<1> QED BY <1>2, <1>3, <1>4 DEF Draws

(* A draw after a viewport draws in it. *)
LEMMA StartsDrawing ==
    ASSUME NEW s, Sequence(s), NEW vp, SetsViewport(s, vp), NEW q, Sure(q), NEW p, InQuad(vp, q, p)
    PROVE  Draws(s \o Draw(q), Len(s) + 2, p)
<1> DEFINE t == Draw(q)
<1>1. Sequence(t) /\ Len(t) = 2 /\ t[2] = q /\ ~LoadsViewport(t[1])
  BY Tuple2 DEF Draw, Load, LoadsViewport
<1> HIDE DEF t
<1>2. /\ Len(s) \in Nat /\ Len(s \o t) = Len(s) + 2
      /\ \A i \in 1 .. Len(s) : (s \o t)[i] = s[i]
      /\ (s \o t)[Len(s) + 1] = t[1] /\ (s \o t)[Len(s) + 2] = t[2]
  <2>1. 1 \in 1 .. Len(t) /\ 2 \in 1 .. Len(t)
    BY <1>1
  <2>2. /\ Len(s) \in Nat /\ Len(s \o t) = Len(s) + Len(t)
        /\ \A i \in 1 .. Len(s) : (s \o t)[i] = s[i]
        /\ \A i \in 1 .. Len(t) : (s \o t)[Len(s) + i] = t[i]
    <3>1. Sequence(s) /\ Sequence(t)
      BY <1>1
    <3> QED BY ONLY <3>1, Joined
  <2> QED BY <1>1, <2>1, <2>2
<1>3. PICK h \in 1 .. Len(s) : LoadsViewport(s[h]) /\ s[h].value = vp /\ \A k \in h + 1 .. Len(s) : ~LoadsViewport(s[k])
  BY DEF SetsViewport
<1>4. \A k \in h + 1 .. (Len(s) + 2) - 1 : ~LoadsViewport((s \o t)[k])
  BY <1>1, <1>2, <1>3
<1>5. h \in 1 .. (Len(s) + 2) - 1 /\ LoadsViewport((s \o t)[h]) /\ InQuad((s \o t)[h].value, (s \o t)[Len(s) + 2], p)
  BY <1>1, <1>2, <1>3
<1>6. Sure((s \o t)[Len(s) + 2])
  BY <1>1, <1>2
<1> QED BY <1>2, <1>4, <1>5, <1>6 DEF Draws, t

(* A text that sends, zeroes the buffer, copies to it, waits, and reads. *)
LEMMA FiveSound ==
    ASSUME NEW r, NEW cs, Sequence(cs), NEW copy, copy.op = "copy", ~copy.params.clear, NEW expected,
           Program(r) = <<Send(cs), Memset, Send(<<copy>>), CGX_WaitForGpuToFinish, ReadTestBuffer(expected)>>,
           r.test \notin {"Init", "FillEFB"},
           \/ \A n : ~Stands(r, n)
           \/ NoViewport(cs) /\ \A n : Stands(r, n),
           IF Filled(r) THEN \A i \in 1 .. Len(cs) : KeepsColors(cs[i])
           ELSE \A p \in DOMAIN expected : PaintsIn(cs, p, r, 1),
           \A p \in DOMAIN expected : InRect(copy, p)
    PROVE  TextSound(r)
<1> DEFINE t == <<Send(cs), Memset, Send(<<copy>>), CGX_WaitForGpuToFinish, ReadTestBuffer(expected)>>
<1>1. Sequence(t) /\ Len(t) = 5
  BY Tuple5
<1>2. Sequence(<<copy>>) /\ Len(<<copy>>) = 1 /\ <<copy>>[1] = copy /\ ~LoadsViewport(copy) /\ KeepsColors(copy)
  BY Tuple1 DEF LoadsViewport, KeepsColors
<1>3. NoViewport(<<copy>>)
  BY <1>2 DEF NoViewport
<1>4. SendsWell(Send(cs), r, 1)
  BY DEF SendsWell, Send
<1>5. SendsWell(Send(<<copy>>), r, 3)
  BY <1>2, <1>3 DEF SendsWell, Send
<1>6. \A n : SendsWell(Memset, r, n) /\ SendsWell(CGX_WaitForGpuToFinish, r, n) /\ SendsWell(ReadTestBuffer(expected), r, n)
  BY DEF SendsWell, Memset, CGX_WaitForGpuToFinish, ReadTestBuffer
<1>7. \A n \in 1 .. 5 : SendsWell(t[n], r, n) /\ t[n].op # "poke"
  BY <1>4, <1>5, <1>6 DEF Send, Memset, CGX_WaitForGpuToFinish, ReadTestBuffer
<1>8. \A n \in 1 .. 5 : \A p : Reads(t[n], p) => n = 5 /\ p \in DOMAIN expected
  BY DEF Reads, Send, Memset, CGX_WaitForGpuToFinish, ReadTestBuffer
<1>9. ASSUME NEW p \in DOMAIN expected PROVE ReadsItsCopy(t, r, 5, p)
  <2>1. CopiesTo(<<copy>>[1], p)
    BY DEF CopiesTo
  <2>2. Filled(r) \/ PaintsIn(t[1].commands, p, r, 1)
    BY DEF Send
  <2>3. t[3].commands = <<copy>> /\ t[4].op = "wait" /\ t[3].op = "send" /\ t[2].op = "memset" /\ t[1].op = "send"
    BY DEF Send, Memset, CGX_WaitForGpuToFinish
  <2> HIDE DEF t
  <2>4. CopiesIn(t, r, 5, p)
    <3>1. 5 - 2 = 3 /\ 5 - 4 = 1 /\ 5 >= 5
      OBVIOUS
    <3> QED BY <1>2, <2>1, <2>2, <2>3, <3>1 DEF CopiesIn
  <2> QED BY <2>3, <2>4 DEF ReadsItsCopy
<1> HIDE DEF t
<1>10. Program(r) = t
  BY DEF t
<1> QED BY <1>1, <1>7, <1>8, <1>9, <1>10 DEF TextSound

(* A text that only sends. *)
LEMMA OneSound ==
    ASSUME NEW r, NEW cs, Sequence(cs), Program(r) = <<Send(cs)>>, r.test # "FillEFB", ~Filled(r),
           Stands(r, 2) => \/ SetsViewport(cs, Standing(r))
                           \/ Stands(r, 1) /\ NoViewport(cs)
    PROVE  TextSound(r)
<1> DEFINE t == <<Send(cs)>>
<1>1. Sequence(t) /\ Len(t) = 1
  BY Tuple1
<1>2. SendsWell(t[1], r, 1) /\ t[1].op # "poke" /\ \A p : ~Reads(t[1], p)
  BY DEF SendsWell, Send, Reads
<1> HIDE DEF t
<1>3. Program(r) = t
  BY DEF t
<1> QED BY <1>1, <1>2, <1>3 DEF TextSound

-----------------------------------------------------------------------------
(* The texts, one after the other.                                          *)

(* A quad that fills its viewport, and covers every pixel of it. *)
Whole(q) == q.x = <<-10, 10, 10, -10>> /\ q.y = <<10, 10, -10, -10>> /\ Sure(q)

LEMMA Opaques ==
    /\ \A r, g, b, a : Whole(ColorRGBA(Quad, r, g, b, a))
    /\ \A r, g, b, a : Whole(ColorRGBA(AtDepth(Quad, "inside"), r, g, b, a))
  BY DEF Whole, ColorRGBA, AtDepth, Quad, Sure

(* Each pixel that is read is one of the viewport's. *)
LEMMA Covers ==
    ASSUME NEW q, Whole(q)
    PROVE  /\ \A p \in {<<75, 25>>, <<80, 25>>, <<51, 25>>, <<51, 1>>, <<125, 25>>} :
                  InQuad([x |-> 0, y |-> 0, w |-> 201, h |-> 50], q, p)
           /\ InQuad([x |-> 0, y |-> 0, w |-> 640, h |-> 528], q, <<5, 5>>)
<1>1. /\ q.x[1] = -10 /\ q.x[2] = 10 /\ q.x[3] = 10 /\ q.x[4] = -10
      /\ q.y[1] = 10 /\ q.y[2] = 10 /\ q.y[3] = -10 /\ q.y[4] = -10
  BY DEF Whole
<1> DEFINE vp == [x |-> 0, y |-> 0, w |-> 201, h |-> 50]
<1>2. vp.x = 0 /\ vp.y = 0 /\ vp.w = 201 /\ vp.h = 50
  OBVIOUS
<1> HIDE DEF vp
<1>3. /\ Across(vp, q, 1) = 0 /\ Across(vp, q, 2) = 4020 /\ Across(vp, q, 3) = 4020 /\ Across(vp, q, 4) = 0
      /\ Down(vp, q, 1) = 0 /\ Down(vp, q, 2) = 0 /\ Down(vp, q, 3) = 1000 /\ Down(vp, q, 4) = 1000
  BY <1>1, <1>2 DEF Across, Down
<1>4. ASSUME NEW p \in {<<75, 25>>, <<80, 25>>, <<51, 25>>, <<51, 1>>, <<125, 25>>}
      PROVE  InQuad(vp, q, p)
  BY <1>3, SMTT(30) DEF InQuad, InTriangle, Turn
<1>5. InQuad([x |-> 0, y |-> 0, w |-> 640, h |-> 528], q, <<5, 5>>)
  <2> DEFINE ws == [x |-> 0, y |-> 0, w |-> 640, h |-> 528]
  <2>2. ws.x = 0 /\ ws.y = 0 /\ ws.w = 640 /\ ws.h = 528
    OBVIOUS
  <2> HIDE DEF ws
  <2>3. /\ Across(ws, q, 1) = 0 /\ Across(ws, q, 2) = 12800 /\ Across(ws, q, 3) = 12800 /\ Across(ws, q, 4) = 0
        /\ Down(ws, q, 1) = 0 /\ Down(ws, q, 2) = 0 /\ Down(ws, q, 3) = 10560 /\ Down(ws, q, 4) = 10560
    BY <1>1, <2>2 DEF Across, Down
  <2>4. InQuad(ws, q, <<5, 5>>)
    BY <2>3, SMTT(30) DEF InQuad, InTriangle, Turn
  <2> QED BY <2>4 DEF ws
<1> QED BY <1>4, <1>5 DEF vp

LEMMA CoversWide ==
    ASSUME NEW q, q.x = <<-20, 20, 20, -20>>, q.y = <<20, 20, -20, -20>>
    PROVE  /\ InQuad([x |-> 0, y |-> 0, w |-> 100, h |-> 100], q, <<50, 0>>)
           /\ InQuad([x |-> 0, y |-> 0, w |-> 100, h |-> 100], q, <<0, 0>>)
           /\ InQuad([x |-> 100, y |-> 100, w |-> 100, h |-> 100], q, <<76, 114>>)
<1>1. /\ q.x[1] = -20 /\ q.x[2] = 20 /\ q.x[3] = 20 /\ q.x[4] = -20
      /\ q.y[1] = 20 /\ q.y[2] = 20 /\ q.y[3] = -20 /\ q.y[4] = -20
  OBVIOUS
<1>2. ASSUME NEW v \in {0, 100}, NEW p \in {<<50, 0>>, <<0, 0>>, <<76, 114>>}, v = 100 <=> p = <<76, 114>>
      PROVE  InQuad([x |-> v, y |-> v, w |-> 100, h |-> 100], q, p)
  <2> DEFINE vp == [x |-> v, y |-> v, w |-> 100, h |-> 100]
  <2>2. vp.x = v /\ vp.y = v /\ vp.w = 100 /\ vp.h = 100
    OBVIOUS
  <2> HIDE DEF vp
  <2>3. /\ Across(vp, q, 1) = 20 * v - 1000 /\ Across(vp, q, 2) = 20 * v + 3000
        /\ Across(vp, q, 3) = 20 * v + 3000 /\ Across(vp, q, 4) = 20 * v - 1000
        /\ Down(vp, q, 1) = 20 * v - 1000 /\ Down(vp, q, 2) = 20 * v - 1000
        /\ Down(vp, q, 3) = 20 * v + 3000 /\ Down(vp, q, 4) = 20 * v + 3000
    BY <1>1, <2>2 DEF Across, Down
  <2>4. InQuad(vp, q, p)
    BY <1>2, <2>3, SMTT(30) DEF InQuad, InTriangle, Turn
  <2> QED BY <2>4 DEF vp
<1>3. <<50, 0>> # <<76, 114>> /\ <<0, 0>> # <<76, 114>>
  OBVIOUS
<1> QED BY <1>2, <1>3

(* CopyToTestBuffer and ReadTestBuffer as the statements they are. *)
LEMMA CopyOf ==
    ASSUME NEW l, NEW t, NEW r, NEW b
    PROVE  LET c == CGX_DoEfbCopyTex(l, t, r, b, EFBCopyParams)
           IN  /\ c.op = "copy" /\ ~c.params.clear
               /\ \A p : p[1] \in l .. r /\ p[2] \in t .. b => InRect(c, p)
  BY DEF CGX_DoEfbCopyTex, EFBCopyParams, InRect

LEMMA OneRead == \A p, v : \E e : Red(p, v) = ReadTestBuffer(e) /\ DOMAIN e = {p}
  BY DEF Red

(* A text of five statements that draws what it reads. *)
LEMMA DrawnSound ==
    ASSUME NEW r, NEW cs, Sequence(cs), NEW right, NEW bottom, NEW left, NEW top, NEW p, NEW v,
           p[1] \in left .. right, p[2] \in top .. bottom,
           Program(r) = <<Send(cs)>> \o CopyToTestBuffer(left, top, right, bottom, EFBCopyParams)
                        \o <<CGX_WaitForGpuToFinish, Red(p, v)>>,
           r.test \notin {"Init", "FillEFB"}, ~Filled(r),
           \/ \A n : ~Stands(r, n)
           \/ NoViewport(cs) /\ \A n : Stands(r, n),
           PaintsIn(cs, p, r, 1)
    PROVE  TextSound(r)
<1> DEFINE copy == CGX_DoEfbCopyTex(left, top, right, bottom, EFBCopyParams)
<1>1. copy.op = "copy" /\ ~copy.params.clear /\ InRect(copy, p)
  BY CopyOf
<1>2. PICK e : Red(p, v) = ReadTestBuffer(e) /\ DOMAIN e = {p}
  BY OneRead
<1>3. Program(r) = <<Send(cs)>> \o <<Memset, Send(<<copy>>)>> \o <<CGX_WaitForGpuToFinish, ReadTestBuffer(e)>>
  BY <1>2 DEF CopyToTestBuffer
<1> HIDE DEF copy
<1>4. Program(r) = <<Send(cs), Memset, Send(<<copy>>), CGX_WaitForGpuToFinish, ReadTestBuffer(e)>>
  BY <1>3, FiveText
<1> QED BY <1>1, <1>2, <1>4, FiveSound

(* It is enough that a draw in it covers the pixel. *)
LEMMA DrawsPaint ==
    ASSUME NEW cs, NEW i, NEW p, Draws(cs, i, p), NEW r, NEW n
    PROVE  PaintsIn(cs, p, r, n)
  BY DEF PaintsIn, PaintsAt, Draws

(* A sequence of commands shows a pixel if it draws it for certain. *)
Shows(s, p) == Sequence(s) /\ \E i : Draws(s, i, p)

LEMMA StillShows == ASSUME NEW s, NEW t, NEW p, Shows(s, p), Sequence(t) PROVE Shows(s \o t, p)
  BY DrawsStay, Joined DEF Shows

LEMMA StartsShowing ==
    ASSUME NEW s, Sequence(s), NEW vp, SetsViewport(s, vp), NEW q, Sure(q), NEW p, InQuad(vp, q, p)
    PROVE  Shows(s \o Draw(q), p)
<1>1. Sequence(Draw(q))
  BY Tuple2 DEF Draw
<1> QED BY <1>1, StartsDrawing, Joined DEF Shows

LEMMA ShowsPaint == ASSUME NEW s, NEW p, Shows(s, p), NEW r, NEW n PROVE PaintsIn(s, p, r, n)
  BY DrawsPaint DEF Shows

LEMMA ChannelIs == \A s, l : Sequence(Channel(s, l)) /\ NoViewport(Channel(s, l))
<1> TAKE s, l
<1>1. Sequence(Channel(s, l)) /\ Len(Channel(s, l)) = 3
  BY Tuple3 DEF Channel
<1>2. \A k \in 1 .. 3 : ~LoadsViewport(Channel(s, l)[k])
  BY DEF Channel, Load, LoadsViewport
<1> QED BY <1>1, <1>2 DEF NoViewport

LEMMA DrawIs == \A q : Sequence(Draw(q))
  BY Tuple2 DEF Draw

(* clipping: the black background covers every pixel that is read. *)
LEMMA ClipSound == ASSUME NEW r, r.test = "ClipTest" PROVE TextSound(r)
<1>1. r.test \notin {"Init", "FillEFB"} /\ ~Filled(r) /\ \A n : ~Stands(r, n)
  BY DEF Filled, Stands
<1>2. CASE r.scene = -1
  <2> DEFINE cs == Channel("vertex", FALSE)
                   \o <<AlphaCombiner(0, DefaultCombiner), Load("genmode", DefaultGenMode), Format("RGB8")>>
  <2>1. Program(r) = <<Send(cs)>>
    BY <1>2 DEF Program, ClipSetup
  <2>2. Sequence(cs)
    BY ChannelIs, Tuple3, Joined
  <2> QED BY <1>1, <2>1, <2>2, OneSound
<1>3. CASE r.scene # -1
  <2> DEFINE start == <<Load("zmode", DefaultZMode), Viewport(0, 0, 201, 50), ColorCombiner(0, D("RasColor"))>>
             black == ColorRGBA(Quad, 0, 0, 0, 255)
             second == <<Viewport(75, 0, 100, 50), ColorCombiner(0, D("RasColor"))>>
             third == <<Viewport(100, 0, 50, 50), ColorCombiner(0, D("RasColor"))>>
             regs == <<Viewport(100, 0, 50, 50), ColorCombiner(0, D("Color0")), Load("Color0", <<255, 0, 0, 0>>),
                       Load("clip", 0)>>
             off == ClipDisabled(r.step)
             clips == [i \in DOMAIN off |-> Load("clip", off[i])]
             back == ClipBackground(r.step)
             cs == back \o regs \o clips \o Draw(ClipQuad(r.step))
             p == ClipPixel(r.step)
             v == IF ClipShown(r.step) THEN 255 ELSE 0
  <2>1. Program(r) = <<Send(cs)>> \o CopyToTestBuffer(0, 0, 199, 49, EFBCopyParams) \o <<CGX_WaitForGpuToFinish, Red(p, v)>>
    BY <1>3 DEF Program, ClipStep, CopySamples
  <2>2. p \in {<<75, 25>>, <<80, 25>>, <<51, 25>>, <<51, 1>>, <<125, 25>>}
    BY DEF ClipPixel, Samples
  <2>3. Sequence(clips)
    <3>1. Sequence(off) /\ DOMAIN off = 1 .. Len(off) /\ Len(off) \in Nat
      BY Tuple0, Tuple1, Sizes DEF ClipDisabled
    <3> HIDE DEF off
    <3>2. clips \in [1 .. Len(off) -> {Load("clip", off[i]) : i \in DOMAIN off}]
      BY <3>1
    <3> HIDE DEF clips
    <3> QED BY <3>1, <3>2, Mapped
  <2>4. Sequence(start) /\ SetsViewport(start, [x |-> 0, y |-> 0, w |-> 201, h |-> 50])
    <3>1. Sequence(start) /\ Len(start) = 3
      BY Tuple3
    <3>2. /\ 2 \in 1 .. 3 /\ LoadsViewport(start[2]) /\ start[2].value = [x |-> 0, y |-> 0, w |-> 201, h |-> 50]
          /\ \A k \in 2 + 1 .. 3 : ~LoadsViewport(start[k])
      BY DEF LoadsViewport, Viewport, Load, ColorCombiner, ColorEnv
    <3> HIDE DEF start
    <3> QED BY <3>1, <3>2 DEF SetsViewport
  <2>5. Whole(black) /\ Sure(black) /\ InQuad([x |-> 0, y |-> 0, w |-> 201, h |-> 50], black, p)
    BY <2>2, Opaques, Covers DEF Whole
  <2>6. /\ Sequence(second) /\ Sequence(third) /\ Sequence(regs) /\ Sequence(Draw(ClipQuad(r.step)))
        /\ \A a, b, c : Sequence(Opaque(a, b, c))
    BY Tuple2, Tuple4, DrawIs DEF Opaque
  <2>7. back = start \o Draw(black) \o second \o Opaque(0, 127, 0) \o third \o Opaque(0, 255, 0)
    BY DEF ClipBackground, Opaque
  <2> HIDE DEF start, black, second, third, regs, clips, back, p, v
  <2>8. Shows(start \o Draw(black), p)
    BY <2>4, <2>5, StartsShowing
  <2>9. Shows(back, p)
    <3>1. Shows(start \o Draw(black) \o second, p)
      BY <2>6, <2>8, StillShows
    <3>2. Shows(start \o Draw(black) \o second \o Opaque(0, 127, 0) \o third, p)
      BY <2>6, <3>1, StillShows
    <3> QED BY <2>6, <2>7, <3>2, StillShows
  <2>10. Shows(back \o regs \o clips, p)
    BY <2>3, <2>6, <2>9, StillShows
  <2>11. Shows(cs, p)
    BY <2>6, <2>10, StillShows
  <2>12. Sequence(cs) /\ PaintsIn(cs, p, r, 1)
    BY <2>11, ShowsPaint DEF Shows
  <2>13. p[1] \in 0 .. 199 /\ p[2] \in 0 .. 49
    BY <2>2
  <2> HIDE DEF cs
  <2> QED BY ONLY <1>1, <2>1, <2>12, <2>13, DrawnSound
<1> QED BY <1>2, <1>3

(* lighting and KonstTest draw one quad and read one pixel. *)
LEMMA LightingSound == ASSUME NEW r, r.test = "LightingTest" PROVE TextSound(r)
<1>1. r.test \notin {"Init", "FillEFB"} /\ ~Filled(r) /\ \A n : ~Stands(r, n)
  BY DEF Filled, Stands
<1>2. CASE r.scene = -1
  <2> DEFINE cs == Channel("register", TRUE)
                   \o <<AlphaCombiner(0, DefaultCombiner), Load("genmode", DefaultGenMode), Format("RGB8")>>
  <2>1. Program(r) = <<Send(cs)>>
    BY <1>2 DEF Program, LightingSetup
  <2>2. Sequence(cs)
    BY ChannelIs, Tuple3, Joined
  <2> QED BY <1>1, <2>1, <2>2, OneSound
<1>3. CASE r.scene # -1
  <2> DEFINE start == <<Load("zmode", DefaultZMode), Load("Color0", <<255, 0, 0, 0>>), Load("clip", 0),
                        Load("ambient", r.step \div 256), Load("material", r.step % 256),
                        Viewport(0, 0, 201, 50), ColorCombiner(0, D("RasColor"))>>
             black == ColorRGBA(Quad, 0, 0, 0, 255)
             cs == start \o Draw(black)
             v == Lit(r.step % 256, r.step \div 256)
  <2>1. Program(r) = <<Send(cs)>> \o CopyToTestBuffer(0, 0, 199, 49, EFBCopyParams) \o <<CGX_WaitForGpuToFinish, Red(Samples, v)>>
    BY <1>3 DEF Program, LightingStep, CopySamples, Opaque
  <2>2. Sequence(start) /\ SetsViewport(start, [x |-> 0, y |-> 0, w |-> 201, h |-> 50])
    <3>1. Sequence(start) /\ Len(start) = 7
      BY Tuple7
    <3>2. /\ 6 \in 1 .. 7 /\ LoadsViewport(start[6]) /\ start[6].value = [x |-> 0, y |-> 0, w |-> 201, h |-> 50]
          /\ \A k \in 6 + 1 .. 7 : ~LoadsViewport(start[k])
      BY DEF LoadsViewport, Viewport, Load, ColorCombiner, ColorEnv
    <3> HIDE DEF start
    <3> QED BY <3>1, <3>2 DEF SetsViewport
  <2>3. Sure(black) /\ InQuad([x |-> 0, y |-> 0, w |-> 201, h |-> 50], black, Samples)
    BY Opaques, Covers DEF Whole, Samples
  <2> HIDE DEF start, black, v
  <2>4. Sequence(cs) /\ PaintsIn(cs, Samples, r, 1)
    BY <2>2, <2>3, StartsShowing, ShowsPaint DEF Shows
  <2>5. Samples[1] \in 0 .. 199 /\ Samples[2] \in 0 .. 49
    BY DEF Samples
  <2> HIDE DEF cs
  <2> QED BY ONLY <1>1, <2>1, <2>4, <2>5, DrawnSound
<1> QED BY <1>2, <1>3

LEMMA KonstSound == ASSUME NEW r, r.test = "KonstTest" PROVE TextSound(r)
<1>1. r.test \notin {"Init", "FillEFB"} /\ ~Filled(r) /\ \A n : ~Stands(r, n)
  BY DEF Filled, Stands
<1> DEFINE black == ColorRGBA(Quad, 0, 0, 0, 255)
<1>2. Sure(black) /\ InQuad([x |-> 0, y |-> 0, w |-> 201, h |-> 50], black, Samples)
  BY Opaques, Covers DEF Whole, Samples
<1>3. Black = Draw(black) /\ Samples[1] \in 0 .. 199 /\ Samples[2] \in 0 .. 49
  BY DEF Black, Samples
<1> HIDE DEF black
<1>4. CASE r.scene = -1
  <2> DEFINE konsts == [i \in 1 .. 4 |-> Load(KonstRegister[i], [ch \in 1 .. 4 |-> 10 * ch + 50 * (i - 1)])]
             regs == <<Load("genmode", [DefaultGenMode EXCEPT !.stages = 1]), Format("RGB8"), Load("clip", 0)>>
             cs == Channel("register", FALSE) \o regs \o konsts
  <2>1. Program(r) = <<Send(cs)>>
    <3>1. Program(r) = KonstSetup
      BY <1>4 DEF Program
    <3> QED BY <3>1 DEF KonstSetup
  <2>2. Sequence(konsts)
    <3>1. konsts \in [1 .. 4 -> {konsts[i] : i \in 1 .. 4}] /\ 4 \in Nat
      OBVIOUS
    <3> HIDE DEF konsts
    <3> QED BY <3>1, Mapped
  <2>3. Sequence(regs) /\ Sequence(Channel("register", FALSE))
    BY ChannelIs, Tuple3
  <2> HIDE DEF konsts, regs
  <2>4. Sequence(Channel("register", FALSE) \o regs)
    BY <2>3, Joined
  <2>5. Sequence(cs)
    BY <2>2, <2>4, Joined
  <2> QED BY <1>1, <2>1, <2>5, OneSound
<1>5. CASE r.scene = 0
  <2> DEFINE step == r.step
             start == <<Load("zmode", DefaultZMode), Viewport(0, 0, 201, 50),
                        ColorCombiner(0, D("Konst")), AlphaCombiner(0, D("Konst")),
                        ColorCombiner(1, D(IF step < 32 THEN "PrevColor" ELSE "PrevAlpha")), AlphaCombiner(1, D("Konst")),
                        Load("ksel", [kc |-> <<IF step < 32 THEN step ELSE V1, V1>>,
                                      ka |-> <<IF step < 32 THEN V1 ELSE step - 32, V1>>])>>
             cs == start \o Draw(black)
             v == KonstExpected(step)
  <2>1. Program(r) = <<Send(cs)>> \o CopyToTestBuffer(0, 0, 199, 49, EFBCopyParams) \o <<CGX_WaitForGpuToFinish, Red(Samples, v)>>
    BY <1>3, <1>5 DEF Program, KonstStep, CopySamples
  <2>2. Sequence(start) /\ SetsViewport(start, [x |-> 0, y |-> 0, w |-> 201, h |-> 50])
    <3>1. Sequence(start) /\ Len(start) = 7
      BY Tuple7
    <3>2. /\ 2 \in 1 .. 7 /\ LoadsViewport(start[2]) /\ start[2].value = [x |-> 0, y |-> 0, w |-> 201, h |-> 50]
          /\ \A k \in 2 + 1 .. 7 : ~LoadsViewport(start[k])
      BY DEF LoadsViewport, Viewport, Load, ColorCombiner, ColorEnv, AlphaCombiner, AlphaEnv
    <3> HIDE DEF start
    <3> QED BY <3>1, <3>2 DEF SetsViewport
  <2> HIDE DEF start, v
  <2>4. Sequence(cs) /\ PaintsIn(cs, Samples, r, 1)
    BY <1>2, <2>2, StartsShowing, ShowsPaint DEF Shows
  <2> HIDE DEF cs
  <2> QED BY ONLY <1>1, <1>3, <2>1, <2>4, DrawnSound
<1>6. CASE r.scene \notin {-1, 0}
  <2> DEFINE start == <<OneStage, Load("zmode", DefaultZMode), Viewport(0, 0, 201, 50),
                        ColorCombiner(0, D("Half")), AlphaCombiner(0, DefaultCombiner)>>
             cs == start \o Draw(black)
  <2>1. Program(r) = <<Send(cs)>> \o CopyToTestBuffer(0, 0, 199, 49, EFBCopyParams) \o <<CGX_WaitForGpuToFinish, Red(Samples, 128)>>
    BY <1>3, <1>6 DEF Program, KonstHalf, CopySamples
  <2>2. Sequence(start) /\ SetsViewport(start, [x |-> 0, y |-> 0, w |-> 201, h |-> 50])
    <3>1. Sequence(start) /\ Len(start) = 5
      BY Tuple5
    <3>2. /\ 3 \in 1 .. 5 /\ LoadsViewport(start[3]) /\ start[3].value = [x |-> 0, y |-> 0, w |-> 201, h |-> 50]
          /\ \A k \in 3 + 1 .. 5 : ~LoadsViewport(start[k])
      BY DEF LoadsViewport, Viewport, Load, ColorCombiner, ColorEnv, AlphaCombiner, AlphaEnv
    <3> HIDE DEF start
    <3> QED BY <3>1, <3>2 DEF SetsViewport
  <2> HIDE DEF start
  <2>4. Sequence(cs) /\ PaintsIn(cs, Samples, r, 1)
    BY <1>2, <2>2, StartsShowing, ShowsPaint DEF Shows
  <2> HIDE DEF cs
  <2> QED BY ONLY <1>1, <1>3, <2>1, <2>4, DrawnSound
<1> QED BY <1>4, <1>5, <1>6

(* rasterization: ClearArea covers what is read, in the first two loops in the
   viewport it loads, in the third in the one that stands. *)
LEMMA RasterDrawSound ==
    ASSUME NEW r, r.test = "CoordinatePrecisionTest", r.scene \in {-1, 0, 1}
    PROVE  TextSound(r)
<1>1. r.test \notin {"Init", "FillEFB"} /\ ~Filled(r) /\ \A n : ~Stands(r, n)
  BY DEF Filled, Stands
<1> DEFINE clear == ColorRGBA(Wide, 0, 0, 0, 255)
           start == <<Viewport(0, 0, 100, 100)>>
           screen == [x |-> 0, y |-> 0, w |-> 100, h |-> 100]
<1>2. /\ Sure(clear) /\ ClearArea = Draw(clear)
      /\ InQuad(screen, clear, <<50, 0>>) /\ InQuad(screen, clear, <<0, 0>>)
  <2>1. clear.x = <<-20, 20, 20, -20>> /\ clear.y = <<20, 20, -20, -20>> /\ Sure(clear)
    BY DEF Wide, Quad, ColorRGBA, Sure
  <2> QED BY <2>1, CoversWide DEF ClearArea
<1>3. Sequence(start) /\ SetsViewport(start, screen)
  <2>1. Sequence(start) /\ Len(start) = 1
    BY Tuple1
  <2>2. LoadsViewport(start[1]) /\ start[1].value = screen /\ 1 \in 1 .. 1 /\ \A k \in 1 + 1 .. 1 : ~LoadsViewport(start[k])
    BY DEF LoadsViewport, Viewport, Load
  <2> HIDE DEF start
  <2> QED BY <2>1, <2>2 DEF SetsViewport
<1>4. \A q, a, b, c : Sequence(Magenta(q)) /\ Sequence(Opaque(a, b, c))
  BY DrawIs DEF Magenta, Opaque
<1>5. Shows(start \o ClearArea, <<50, 0>>) /\ Shows(start \o ClearArea, <<0, 0>>)
  BY <1>2, <1>3, StartsShowing
<1> HIDE DEF clear, start
<1>6. CASE r.scene = -1
  <2> DEFINE combiners == <<AlphaCombiner(0, D("RasAlpha")), ColorCombiner(0, D("RasColor"))>>
             cs == Channel("vertex", FALSE) \o combiners
  <2>1. Program(r) = <<Send(cs)>>
    <3>1. Program(r) = RasterSetup
      BY <1>6 DEF Program
    <3> QED BY <3>1 DEF RasterSetup
  <2>2. Sequence(cs)
    BY ChannelIs, Tuple2, Joined
  <2> QED BY <1>1, <1>6, <2>1, <2>2, OneSound
<1>7. CASE r.scene = 0
  <2> DEFINE edge == Magenta(LeftAt(Quad, 0))
             cs == start \o ClearArea \o Opaque(0, 255, 0) \o edge
             v == IF r.step = 0 THEN 255 ELSE 0
  <2>1. Program(r) = <<Send(cs)>> \o CopyToTestBuffer(50, 0, 127, 127, EFBCopyParams) \o <<CGX_WaitForGpuToFinish, Red(<<50, 0>>, v)>>
    <3>1. Program(r) = RasterEdge(r.step)
      BY <1>7 DEF Program
    <3> QED BY <3>1 DEF RasterEdge, start
  <2> HIDE DEF edge, v
  <2>2. Shows(cs, <<50, 0>>)
    BY <1>4, <1>5, StillShows DEF edge
  <2>3. Sequence(cs) /\ PaintsIn(cs, <<50, 0>>, r, 1)
    BY <2>2, ShowsPaint DEF Shows
  <2>4. <<50, 0>>[1] \in 50 .. 127 /\ <<50, 0>>[2] \in 0 .. 127
    OBVIOUS
  <2> HIDE DEF cs
  <2> QED BY ONLY <1>1, <1>7, <2>1, <2>3, <2>4, DrawnSound
<1>8. CASE r.scene = 1
  <2> DEFINE narrow == <<Viewport(0, 0, 1, 100)>>
             cs == start \o ClearArea \o Opaque(0, 255, 0) \o narrow \o Magenta(Quad)
             v == IF r.step = 1 THEN 255 ELSE 0
  <2>1. Program(r) = <<Send(cs)>> \o CopyToTestBuffer(0, 0, 127, 127, EFBCopyParams) \o <<CGX_WaitForGpuToFinish, Red(<<0, 0>>, v)>>
    <3>1. Program(r) = RasterTiny(r.step)
      BY <1>8 DEF Program
    <3> QED BY <3>1 DEF RasterTiny, start
  <2>2. Sequence(narrow)
    BY Tuple1
  <2> HIDE DEF narrow, v
  <2>3. Shows(start \o ClearArea \o Opaque(0, 255, 0) \o narrow, <<0, 0>>)
    BY <1>4, <1>5, <2>2, StillShows
  <2>4. Sequence(cs) /\ PaintsIn(cs, <<0, 0>>, r, 1)
    BY <1>4, <2>3, StillShows, ShowsPaint DEF Shows
  <2>5. <<0, 0>>[1] \in 0 .. 127 /\ <<0, 0>>[2] \in 0 .. 127
    OBVIOUS
  <2> HIDE DEF cs
  <2> QED BY ONLY <1>1, <1>8, <2>1, <2>4, <2>5, DrawnSound
<1> QED BY <1>6, <1>7, <1>8

LEMMA RasterGuardSound == ASSUME NEW r, r.test = "CoordinatePrecisionTest", r.scene = 2, r.step \in {0, 1} PROVE TextSound(r)
<1>1. /\ r.test \notin {"Init", "FillEFB"} /\ ~Filled(r) /\ Standing(r) = GuardBand
      /\ \A n : Stands(r, n) <=> (r.step = 1 \/ n > 1)
  BY DEF Filled, Stands, Standing
<1> DEFINE clear == ColorRGBA(Wide, 0, 0, 0, 255)
           far == Magenta([Quad EXCEPT !.x = <<-20, -10, -10, -20>>])
           cs == ClearArea \o far
           p == <<76, 114>>
           v == 255
           copying == CopyToTestBuffer(50, 100, 127, 127, EFBCopyParams)
           reading == <<CGX_WaitForGpuToFinish, Red(p, v)>>
<1>2. Program(r) = (IF r.step = 0 THEN <<Send(<<Viewport(100, 100, 100, 100)>>)>> ELSE <<>>) \o <<Send(cs)>> \o copying \o reading
  <2>1. Program(r) = RasterGuard(r.step)
    BY <1>1 DEF Program
  <2> QED BY <2>1 DEF RasterGuard
<1>3. /\ ClearArea = <<ClearArea[1], clear>> /\ ~LoadsViewport(ClearArea[1])
      /\ Sure(clear) /\ InQuad(GuardBand, clear, p) /\ ~LoadsViewport(clear)
  <2>1. clear.x = <<-20, 20, 20, -20>> /\ clear.y = <<20, 20, -20, -20>> /\ Sure(clear)
    BY DEF Wide, Quad, ColorRGBA, Sure
  <2>2. ~LoadsViewport(clear)
    BY <2>1 DEF Sure, LoadsViewport
  <2> HIDE DEF clear
  <2>3. ClearArea = <<Load("vertex", clear.has), clear>>
    BY DEF ClearArea, Draw, clear
  <2> QED BY <2>1, <2>2, <2>3, CoversWide DEF GuardBand, Load, LoadsViewport
<1>4. Sequence(ClearArea) /\ Len(ClearArea) = 2 /\ NoViewport(ClearArea)
  <2>1. Sequence(ClearArea) /\ Len(ClearArea) = 2
    BY <1>3, Tuple2
  <2> HIDE DEF clear
  <2>2. \A k \in 1 .. 2 : ~LoadsViewport(ClearArea[k])
    BY <1>3
  <2> QED BY <2>1, <2>2 DEF NoViewport
<1>5. Sequence(far) /\ NoViewport(far)
  <2>1. \A q : q.op = "draw" => Sequence(Draw(q)) /\ NoViewport(Draw(q))
    <3> SUFFICES ASSUME NEW q, q.op = "draw" PROVE Sequence(Draw(q)) /\ NoViewport(Draw(q))
      OBVIOUS
    <3>1. Sequence(Draw(q)) /\ Len(Draw(q)) = 2
      BY Tuple2 DEF Draw
    <3>2. \A k \in 1 .. 2 : ~LoadsViewport(Draw(q)[k])
      BY DEF Draw, LoadsViewport, Load
    <3> QED BY <3>1, <3>2 DEF NoViewport
  <2> DEFINE quad == [Quad EXCEPT !.x = <<-20, -10, -10, -20>>]
             q == Measured(ColorRGBA(quad, 255, 0, 255, 255))
  <2>2. q.op = "draw"
    BY DEF Measured, ColorRGBA, Quad
  <2>3. far = Draw(q)
    BY DEF Magenta
  <2> HIDE DEF q, far
  <2> QED BY <2>1, <2>2, <2>3
<1> HIDE DEF far
<1>6. Sequence(cs) /\ NoViewport(cs)
  BY <1>4, <1>5, Joined, NoViewports
<1>7. DrawsIn(cs, 2, p, GuardBand)
  <2>1. Len(cs) \in Nat /\ Len(cs) >= 2 /\ cs[2] = ClearArea[2]
    <3>1. /\ Len(far) \in Nat /\ Len(cs) = 2 + Len(far)
          /\ \A i \in 1 .. 2 : cs[i] = ClearArea[i]
      <4>1. Sequence(ClearArea) /\ Sequence(far) /\ Len(ClearArea) = 2
        BY <1>4, <1>5
      <4>2. /\ Len(far) \in Nat /\ Len(cs) = Len(ClearArea) + Len(far)
            /\ \A i \in 1 .. Len(ClearArea) : cs[i] = ClearArea[i]
        BY <4>1, Joined
      <4> QED BY <4>1, <4>2
    <3> QED BY <3>1
  <2>2. cs[2] = clear
    BY <1>3, <2>1
  <2> HIDE DEF cs, clear
  <2>3. \A k \in 1 .. 2 - 1 : ~LoadsViewport(cs[k])
    BY <1>6, <2>1 DEF NoViewport
  <2> QED BY <1>3, <2>1, <2>2, <2>3 DEF DrawsIn
<1> HIDE DEF cs
<1>8. ASSUME NEW n, Stands(r, n) PROVE PaintsIn(cs, p, r, n)
  BY <1>1, <1>7, <1>8 DEF PaintsIn, PaintsAt, DrawsIn
<1>9. p[1] \in 50 .. 127 /\ p[2] \in 100 .. 127
  OBVIOUS
<1>10. CASE r.step = 1
  <2>1. Program(r) = <<Send(cs)>> \o CopyToTestBuffer(50, 100, 127, 127, EFBCopyParams)
                     \o <<CGX_WaitForGpuToFinish, Red(p, v)>>
    BY <1>2, <1>10, Joins0and1
  <2>2. \A n : Stands(r, n)
    BY <1>1, <1>10
  <2>3. PaintsIn(cs, p, r, 1)
    BY <1>8, <2>2
  <2>4. ~Filled(r) /\ r.test \notin {"Init", "FillEFB"} /\ Sequence(cs) /\ NoViewport(cs)
    BY <1>1, <1>6
  <2> HIDE DEF p, v
  <2> QED BY ONLY <1>9, <2>1, <2>2, <2>3, <2>4, DrawnSound
<1>11. CASE r.step = 0
  <2> DEFINE loads == <<Viewport(100, 100, 100, 100)>>
             copy == CGX_DoEfbCopyTex(50, 100, 127, 127, EFBCopyParams)
  <2> HIDE DEF p, v
  <2>1. PICK e : Red(p, v) = ReadTestBuffer(e) /\ DOMAIN e = {p}
    BY OneRead
  <2> USE DEF p, v
  <2> DEFINE t == <<Send(loads), Send(cs), Memset, Send(<<copy>>), CGX_WaitForGpuToFinish, ReadTestBuffer(e)>>
  <2>2. Program(r) = t
    <3>1. Program(r) = <<Send(loads)>> \o <<Send(cs)>> \o <<Memset, Send(<<copy>>)>> \o <<CGX_WaitForGpuToFinish, Red(p, v)>>
      BY <1>2, <1>11 DEF CopyToTestBuffer
    <3> HIDE DEF loads, copy, p, v
    <3>2. Program(r) = <<Send(loads), Send(cs), Memset, Send(<<copy>>)>> \o <<CGX_WaitForGpuToFinish, Red(p, v)>>
      BY <3>1, Joins1and1, Joins2and2
    <3>3. Program(r) = <<Send(loads), Send(cs), Memset, Send(<<copy>>), CGX_WaitForGpuToFinish, Red(p, v)>>
      BY <3>2, Joins4and2
    <3> QED BY <2>1, <3>3 DEF p, v
  <2>3. Sequence(loads) /\ SetsViewport(loads, Standing(r))
    <3>1. Sequence(loads) /\ Len(loads) = 1
      BY Tuple1
    <3>2. /\ LoadsViewport(loads[1]) /\ loads[1].value = GuardBand /\ 1 \in 1 .. 1
          /\ \A k \in 1 + 1 .. 1 : ~LoadsViewport(loads[k])
      BY DEF LoadsViewport, Viewport, Load, GuardBand
    <3> HIDE DEF loads
    <3> QED BY <1>1, <3>1, <3>2 DEF SetsViewport
  <2>4. /\ copy.op = "copy" /\ ~LoadsViewport(copy) /\ InRect(copy, p)
        /\ Sequence(<<copy>>) /\ NoViewport(<<copy>>) /\ Len(<<copy>>) = 1
    <3>1. copy.op = "copy" /\ InRect(copy, p)
      BY <1>9, CopyOf
    <3> HIDE DEF copy
    <3>2. Sequence(<<copy>>) /\ Len(<<copy>>) = 1 /\ <<copy>>[1] = copy /\ ~LoadsViewport(copy)
      BY <3>1, Tuple1 DEF LoadsViewport
    <3> QED BY <3>1, <3>2 DEF NoViewport
  <2> HIDE DEF loads, copy, p, v
  <2>5. Sequence(t) /\ Len(t) = 6
    BY Tuple6
  <2>6. SendsWell(Send(loads), r, 1) /\ SendsWell(Send(cs), r, 2) /\ SendsWell(Send(<<copy>>), r, 4)
    BY <1>1, <1>6, <2>3, <2>4 DEF SendsWell, Send
  <2>7. \A n \in {3, 5, 6} : SendsWell(Memset, r, n) /\ SendsWell(CGX_WaitForGpuToFinish, r, n) /\ SendsWell(ReadTestBuffer(e), r, n)
    BY <1>1 DEF SendsWell, Memset, CGX_WaitForGpuToFinish, ReadTestBuffer
  <2>8. \A n \in 1 .. 6 : SendsWell(t[n], r, n) /\ t[n].op # "poke"
    BY <2>6, <2>7 DEF Send, Memset, CGX_WaitForGpuToFinish, ReadTestBuffer
  <2>9. \A n \in 1 .. 6 : \A x : Reads(t[n], x) => n = 6 /\ x = p
    BY <2>1 DEF Reads, Send, Memset, CGX_WaitForGpuToFinish, ReadTestBuffer
  <2>10. ReadsItsCopy(t, r, 6, p)
    <3>1. CopiesTo(<<copy>>[1], p)
      BY <2>4 DEF CopiesTo
    <3>2. PaintsIn(t[2].commands, p, r, 2)
      BY <1>1, <1>8 DEF Send
    <3>3. t[4].commands = <<copy>> /\ t[5].op = "wait" /\ t[4].op = "send" /\ t[3].op = "memset" /\ t[2].op = "send"
      BY DEF Send, Memset, CGX_WaitForGpuToFinish
    <3> HIDE DEF t
    <3>4. CopiesIn(t, r, 6, p)
      <4>1. 6 - 2 = 4 /\ 6 - 4 = 2 /\ 6 >= 5 /\ 1 \in 1 .. Len(<<copy>>)
        BY <2>4
      <4> QED BY <3>1, <3>2, <3>3, <4>1 DEF CopiesIn
    <3> QED BY <3>3, <3>4 DEF ReadsItsCopy
  <2> HIDE DEF t
  <2> QED BY <1>1, <2>2, <2>5, <2>8, <2>9, <2>10 DEF TextSound
<1> QED BY <1>10, <1>11

(* What GetTevOutput sends to draw and copy. *)
TevQuad == ColorRGBA(AtDepth(Quad, "inside"), 255, 255, 255, 255)
TevCopy == CGX_DoEfbCopyTex(0, 0, 99, 99, EFBCopyParams)
TevSample == <<Load("vertex", "color"), TevQuad, TevCopy>>

LEMMA TevSampleIs ==
    /\ Draw(TevQuad) \o <<TevCopy>> = TevSample
    /\ Sequence(TevSample) /\ Len(TevSample) = 3 /\ NoViewport(TevSample)
    /\ CopiesTo(TevSample[3], TevPixel) /\ DrawsIn(TevSample, 2, TevPixel, WholeScreen)
<1>1. Whole(TevQuad) /\ TevQuad.has = "color"
  <2>1. Whole(TevQuad)
    BY Opaques DEF TevQuad
  <2> QED BY <2>1 DEF TevQuad, ColorRGBA
<1>2. Sequence(TevSample) /\ Len(TevSample) = 3
  BY Tuple3 DEF TevSample
<1>3. Draw(TevQuad) \o <<TevCopy>> = TevSample
  BY <1>1, Joins2and1 DEF Draw, TevSample
<1>4. TevCopy.op = "copy" /\ InRect(TevCopy, TevPixel)
  BY CopyOf DEF TevCopy, TevPixel
<1>5. InQuad(WholeScreen, TevQuad, TevPixel) /\ Sure(TevQuad)
  BY <1>1, Covers DEF WholeScreen, TevPixel, Whole
<1>6. \A k \in 1 .. 3 : ~LoadsViewport(TevSample[k])
  BY <1>4, <1>5 DEF TevSample, LoadsViewport, Load, Sure
<1>7. TevSample[3] = TevCopy /\ TevSample[2] = TevQuad
  BY DEF TevSample
<1>8. DrawsIn(TevSample, 2, TevPixel, WholeScreen)
  BY <1>2, <1>5, <1>6, <1>7 DEF DrawsIn
<1> QED BY <1>2, <1>3, <1>4, <1>6, <1>7, <1>8 DEF NoViewport, CopiesTo

LEMMA HalvesAre ==
    /\ \A s \in 1 .. 3 : Sequence(Halve(s)) /\ NoViewport(Halve(s))
    /\ Sequence(Quadruple(1)) /\ NoViewport(Quadruple(1))
<1>1. \A s \in 1 .. 3 : /\ Sequence(Halve(s)) /\ Len(Halve(s)) = 2
                        /\ \A k \in 1 .. 2 : ~LoadsViewport(Halve(s)[k])
  <2> TAKE s \in 1 .. 3
  <2>1. Sequence(Halve(s)) /\ Len(Halve(s)) = 2
    BY Tuple2 DEF Halve
  <2>2. \A c : ~LoadsViewport(ColorCombiner(s, c)) /\ ~LoadsViewport(AlphaCombiner(s, c))
    BY DEF LoadsViewport, ColorCombiner, AlphaCombiner, Load, ColorEnv, AlphaEnv
  <2> QED BY <2>1, <2>2 DEF Halve
<1>2. /\ Sequence(Quadruple(1)) /\ Len(Quadruple(1)) = 2
      /\ \A k \in 1 .. 2 : ~LoadsViewport(Quadruple(1)[k])
  <2>1. Sequence(Quadruple(1)) /\ Len(Quadruple(1)) = 2
    BY Tuple2 DEF Quadruple
  <2>2. \A c : ~LoadsViewport(ColorCombiner(1, c)) /\ ~LoadsViewport(AlphaCombiner(1, c))
    BY DEF LoadsViewport, ColorCombiner, AlphaCombiner, Load, ColorEnv, AlphaEnv
  <2> QED BY <2>1, <2>2 DEF Quadruple
<1> QED BY <1>1, <1>2 DEF NoViewport

LEMMA StagesAre ==
    ASSUME NEW g, NEW n, NEW s, Sequence(s), NoViewport(s)
    PROVE  LET cs == <<Load("genmode", [g EXCEPT !.stages = n])>> \o s IN Sequence(cs) /\ NoViewport(cs)
<1> DEFINE one == <<Load("genmode", [g EXCEPT !.stages = n])>>
<1>1. Sequence(one) /\ Len(one) = 1 /\ \A k \in 1 .. 1 : ~LoadsViewport(one[k])
  BY Tuple1 DEF LoadsViewport, Load
<1> HIDE DEF one
<1>2. Sequence(one) /\ NoViewport(one)
  BY <1>1 DEF NoViewport
<1>3. Sequence(one \o s) /\ NoViewport(one \o s)
  BY <1>2, Joined, NoViewports
<1> QED BY <1>3 DEF one

(* What GetTevOutput reads, it has drawn in the viewport of Init. *)
LEMMA TevReadSound ==
    ASSUME NEW r, r.test = "TevCombinerTest", NEW first, Sequence(first), NoViewport(first),
           NEW channel, NEW expected,
           Program(r) = <<Send(first)>> \o GetTevOutput(DefaultGenMode, channel, expected)
    PROVE  TextSound(r)
<1>1. ~Filled(r) /\ r.test \notin {"Init", "FillEFB", "CoordinatePrecisionTest"} /\ Standing(r) = WholeScreen /\ \A n : Stands(r, n)
  BY DEF Filled, Stands, Standing
<1> DEFINE upper == <<Load("genmode", [DefaultGenMode EXCEPT !.stages = 1])>> \o Quadruple(1)
           low == <<Load("genmode", [DefaultGenMode EXCEPT !.stages = 3])>> \o (Halve(1) \o Halve(2) \o Halve(3))
           keep == [op |-> "keep", channel |-> channel]
           combine == [op |-> "combine", channel |-> channel, expected |-> expected]
           wait == CGX_WaitForGpuToFinish
           t == <<Send(first), Send(upper), Memset, Send(TevSample), wait, keep,
                  Send(low), Memset, Send(TevSample), wait, combine>>
<1>2. /\ Pass(DefaultGenMode, 1, Quadruple(1)) = <<Send(upper), Memset, Send(TevSample)>> \o <<wait>>
      /\ Pass(DefaultGenMode, 3, Halve(1) \o Halve(2) \o Halve(3)) = <<Send(low), Memset, Send(TevSample)>> \o <<wait>>
  BY TevSampleIs DEF Pass, PassUnwaited, TevQuad, TevCopy
<1>3. Sequence(upper) /\ NoViewport(upper)
  BY HalvesAre, StagesAre
<1>4. Sequence(low) /\ NoViewport(low)
  <2>1. Sequence(Halve(1) \o Halve(2)) /\ NoViewport(Halve(1) \o Halve(2))
    BY HalvesAre, Joined, NoViewports
  <2>2. Sequence(Halve(1) \o Halve(2) \o Halve(3)) /\ NoViewport(Halve(1) \o Halve(2) \o Halve(3))
    BY <2>1, HalvesAre, Joined, NoViewports
  <2> QED BY <2>2, StagesAre
<1>5. Program(r) = <<Send(first)>> \o (Pass(DefaultGenMode, 1, Quadruple(1)) \o <<keep>>
                        \o Pass(DefaultGenMode, 3, Halve(1) \o Halve(2) \o Halve(3)) \o <<combine>>)
  BY DEF GetTevOutput
<1> HIDE DEF upper, low, keep, combine, wait
<1>6. Program(r) = t
  <2>1. /\ Pass(DefaultGenMode, 1, Quadruple(1)) = <<Send(upper), Memset, Send(TevSample), wait>>
        /\ Pass(DefaultGenMode, 3, Halve(1) \o Halve(2) \o Halve(3)) = <<Send(low), Memset, Send(TevSample), wait>>
    BY <1>2, Joins3and1
  <2>2. Program(r) = <<Send(first)>> \o (<<Send(upper), Memset, Send(TevSample), wait>> \o <<keep>>
                        \o <<Send(low), Memset, Send(TevSample), wait>> \o <<combine>>)
    BY <1>5, <2>1
  <2>3. <<Send(upper), Memset, Send(TevSample), wait>> \o <<keep>> = <<Send(upper), Memset, Send(TevSample), wait, keep>>
    BY Joins4and1
  <2>4. <<Send(upper), Memset, Send(TevSample), wait, keep>> \o <<Send(low), Memset, Send(TevSample), wait>>
        = <<Send(upper), Memset, Send(TevSample), wait, keep, Send(low), Memset, Send(TevSample), wait>>
    BY Joins5and4
  <2>5. <<Send(upper), Memset, Send(TevSample), wait, keep, Send(low), Memset, Send(TevSample), wait>> \o <<combine>>
        = <<Send(upper), Memset, Send(TevSample), wait, keep, Send(low), Memset, Send(TevSample), wait, combine>>
    BY Joins9and1
  <2>6. <<Send(first)>> \o <<Send(upper), Memset, Send(TevSample), wait, keep, Send(low), Memset, Send(TevSample), wait, combine>> = t
    BY Joins1and10
  <2> HIDE DEF t
  <2> QED BY <2>2, <2>3, <2>4, <2>5, <2>6
<1>7. Sequence(t) /\ Len(t) = 11
  BY Tuple11
<1>8. \A cs, n : Sequence(cs) /\ NoViewport(cs) => SendsWell(Send(cs), r, n)
  BY <1>1 DEF SendsWell, Send
<1>9. \A n : SendsWell(Memset, r, n) /\ SendsWell(wait, r, n) /\ SendsWell(keep, r, n) /\ SendsWell(combine, r, n)
  BY <1>1 DEF SendsWell, Memset, CGX_WaitForGpuToFinish, wait, keep, combine
<1>10. /\ t[1].op = "send" /\ t[2].op = "send" /\ t[3].op = "memset" /\ t[4].op = "send" /\ t[5].op = "wait"
       /\ t[6].op = "keep" /\ t[7].op = "send" /\ t[8].op = "memset" /\ t[9].op = "send" /\ t[10].op = "wait"
       /\ t[11].op = "combine" /\ t[4].commands = TevSample /\ t[9].commands = TevSample
  BY DEF Send, Memset, CGX_WaitForGpuToFinish, wait, keep, combine
<1>11. /\ SendsWell(t[1], r, 1) /\ SendsWell(t[2], r, 2) /\ SendsWell(t[3], r, 3) /\ SendsWell(t[4], r, 4)
       /\ SendsWell(t[5], r, 5) /\ SendsWell(t[6], r, 6) /\ SendsWell(t[7], r, 7) /\ SendsWell(t[8], r, 8)
       /\ SendsWell(t[9], r, 9) /\ SendsWell(t[10], r, 10) /\ SendsWell(t[11], r, 11)
  BY <1>3, <1>4, <1>8, <1>9, TevSampleIs
<1> HIDE DEF t
<1>12. \A n \in 1 .. 11 : SendsWell(t[n], r, n) /\ t[n].op # "poke"
  BY <1>10, <1>11
<1>13. \A n \in 1 .. 11 : \A p : Reads(t[n], p) => n \in {6, 11} /\ p = TevPixel
  BY <1>10 DEF Reads
<1>14. ASSUME NEW n \in {6, 11} PROVE ReadsItsCopy(t, r, n, TevPixel)
  <2>1. t[n - 2].commands = TevSample /\ t[n - 1].op = "wait" /\ t[n - 2].op = "send" /\ t[n - 3].op = "memset" /\ n >= 4
    BY <1>10
  <2>2. PaintsAt(TevSample, 2, TevPixel, r, n - 2) /\ 2 \in 1 .. 3 - 1 /\ 3 \in 1 .. Len(TevSample)
    BY <1>1, TevSampleIs DEF PaintsAt
  <2>3. CopiesIn(t, r, n, TevPixel)
    BY <2>1, <2>2, TevSampleIs DEF CopiesIn
  <2> QED BY <2>1, <2>3 DEF ReadsItsCopy
<1>15. \A n \in 1 .. 11 : \A p : Reads(t[n], p) => ReadsItsCopy(t, r, n, p)
  BY <1>13, <1>14
<1>16. \A n \in 1 .. Len(Program(r)) :
          /\ SendsWell(Program(r)[n], r, n) /\ Program(r)[n].op # "poke"
          /\ \A p : Reads(Program(r)[n], p) => ReadsItsCopy(Program(r), r, n, p)
  BY <1>6, <1>7, <1>12, <1>15
<1> QED BY <1>1, <1>6, <1>7, <1>16 DEF TextSound

LEMMA TevSound == ASSUME NEW r, r.test = "TevCombinerTest" PROVE TextSound(r)
<1>1. ~Filled(r) /\ r.test # "FillEFB" /\ \A n : Stands(r, n)
  BY DEF Filled, Stands
<1>2. CASE r.scene = -1
  <2> DEFINE one == <<AlphaCombiner(0, DefaultCombiner)>>
             cs == Channel("vertex", FALSE) \o one
  <2>1. Program(r) = <<Send(cs)>>
    <3>1. Program(r) = TevSetup
      BY <1>2 DEF Program
    <3> QED BY <3>1 DEF TevSetup
  <2>2. Sequence(one) /\ Len(one) = 1 /\ \A k \in 1 .. 1 : ~LoadsViewport(one[k])
    BY Tuple1 DEF AlphaCombiner, AlphaEnv, LoadsViewport, Load
  <2> HIDE DEF one
  <2>3. Sequence(cs) /\ NoViewport(cs)
    <3>1. NoViewport(one)
      BY <2>2 DEF NoViewport
    <3> QED BY <2>2, <3>1, ChannelIs, Joined, NoViewports
  <2> HIDE DEF cs
  <2> QED BY <1>1, <2>1, <2>3, OneSound
<1>3. CASE r.scene = 0
  <2> DEFINE cs == <<C0(r.step), OneStage, ColorCombiner(0, D("Color0")), Format("RGB8")>>
  <2>1. Program(r) = <<Send(cs)>> \o GetTevOutput(DefaultGenMode, 1, r.step)
    <3>1. Program(r) = TevBits(r.step)
      BY <1>3 DEF Program
    <3> QED BY <3>1 DEF TevBits
  <2>2. Sequence(cs) /\ Len(cs) = 4
    BY Tuple4
  <2>3. \A k \in 1 .. 4 : ~LoadsViewport(cs[k])
    BY DEF C0, OneStage, ColorCombiner, ColorEnv, Format, Load, LoadsViewport
  <2> HIDE DEF cs
  <2> QED BY <2>1, <2>2, <2>3, TevReadSound DEF NoViewport
<1>4. CASE r.scene = 1
  <2> DEFINE cs == <<C0(-1024), OneStage, ColorCombiner(0, D("Color0"))>>
  <2>1. Program(r) = <<Send(cs)>>
    <3>1. Program(r) = TevBreak
      BY <1>4 DEF Program
    <3> QED BY <3>1 DEF TevBreak
  <2>2. Sequence(cs) /\ Len(cs) = 3
    BY Tuple3
  <2>3. \A k \in 1 .. 3 : ~LoadsViewport(cs[k])
    BY DEF C0, OneStage, ColorCombiner, ColorEnv, Load, LoadsViewport
  <2> HIDE DEF cs
  <2> QED BY <1>1, <2>1, <2>2, <2>3, OneSound DEF NoViewport
<1>5. CASE r.scene = 2
  <2> DEFINE stage == RandomStages[r.step]
             cc == [a |-> "Color0", b |-> "Color1", c |-> "Color2", d |-> "Zero",
                    bias |-> stage.bias, op |-> stage.op, clamp |-> stage.clamp, scale |-> stage.scale]
             cs == <<OneStage, ColorCombiner(0, cc), C0(stage.a), C1(stage.b),
                     Load("Color2", <<stage.c, 0, 0, 0>>), Load("Prev", <<0, 0, 0, 0>>), Format("RGB8")>>
             v == TevCombinerExpectation(stage.a, stage.b, stage.c, 0, stage.scale, stage.bias, stage.op, stage.clamp)
  <2>1. Program(r) = <<Send(cs)>> \o GetTevOutput(DefaultGenMode, 1, v)
    <3>1. Program(r) = TevRandom(stage)
      BY <1>5 DEF Program
    <3> QED BY <3>1 DEF TevRandom
  <2> HIDE DEF stage, cc, v
  <2>2. Sequence(cs) /\ Len(cs) = 7
    BY Tuple7
  <2>3. \A k \in 1 .. 7 : ~LoadsViewport(cs[k])
    BY DEF C0, C1, OneStage, ColorCombiner, ColorEnv, Format, Load, LoadsViewport
  <2> HIDE DEF cs
  <2> QED BY <2>1, <2>2, <2>3, TevReadSound DEF NoViewport
<1>6. CASE r.scene \notin {-1, 0, 1, 2}
  <2> DEFINE c == [DefaultCombiner EXCEPT !.a = "Color2", !.b = "Color1"]
             a == [DefaultCombiner EXCEPT !.bias = "Compare", !.a = "Alpha0", !.b = "Alpha1", !.c = "Alpha2"]
             cs == <<OneStage, ColorCombiner(0, c), AlphaCombiner(0, a),
                     Format("RGBA6"), C0(127), C1(127), Load("Color2", <<127 + r.step, 0, 0, 255>>)>>
             v == IF r.step = 1 THEN 255 ELSE 0
  <2>1. Program(r) = <<Send(cs)>> \o GetTevOutput(DefaultGenMode, 4, v)
    <3>1. Program(r) = TevCompare(r.step)
      BY <1>6 DEF Program
    <3> QED BY <3>1 DEF TevCompare
  <2> HIDE DEF c, a, v
  <2>2. Sequence(cs) /\ Len(cs) = 7
    BY Tuple7
  <2>3. \A k \in 1 .. 7 : ~LoadsViewport(cs[k])
    BY DEF C0, C1, OneStage, ColorCombiner, ColorEnv, AlphaCombiner, AlphaEnv, Format, Load, LoadsViewport
  <2> HIDE DEF cs
  <2> QED BY <2>1, <2>2, <2>3, TevReadSound DEF NoViewport
<1> QED BY <1>2, <1>3, <1>4, <1>5, <1>6

(* Init loads the viewport that tev draws in. *)
LEMMA InitSound == ASSUME NEW r, r.test = "Init" PROVE TextSound(r)
<1>1. ~Filled(r) /\ r.test # "FillEFB" /\ Standing(r) = WholeScreen
  BY DEF Filled, Standing
<1> DEFINE start == <<Viewport(0, 0, 640, 528), Load("specs", "color"), Load("numchan", 1), Load("order", DefaultOrder),
                      ColorCombiner(0, PassColor.color), AlphaCombiner(0, PassColor.alpha)>>
           q == ColorRGBA(Quad, 255, 255, 255, 255)
           end == <<Load("format", "RGBA6")>>
           cs == start \o Draw(q) \o end
<1>2. Program(r) = <<Send(cs)>>
  <2>1. Program(r) = GXTest_Init
    BY DEF Program
  <2> QED BY <2>1 DEF GXTest_Init
<1>3. Sequence(start) /\ SetsViewport(start, WholeScreen)
  <2>1. Sequence(start) /\ Len(start) = 6
    BY Tuple6
  <2>2. /\ 1 \in 1 .. 6 /\ LoadsViewport(start[1]) /\ start[1].value = WholeScreen
        /\ \A k \in 1 + 1 .. 6 : ~LoadsViewport(start[k])
    BY DEF LoadsViewport, Viewport, Load, ColorCombiner, ColorEnv, AlphaCombiner, AlphaEnv, WholeScreen
  <2> HIDE DEF start
  <2> QED BY <2>1, <2>2 DEF SetsViewport
<1>4. Sequence(Draw(q)) /\ NoViewport(Draw(q))
  <2>1. q.op = "draw"
    BY DEF ColorRGBA, Quad
  <2> HIDE DEF q
  <2>2. Sequence(Draw(q)) /\ Len(Draw(q)) = 2
    BY Tuple2 DEF Draw
  <2>3. \A k \in 1 .. 2 : ~LoadsViewport(Draw(q)[k])
    BY <2>1 DEF Draw, LoadsViewport, Load
  <2> QED BY <2>2, <2>3 DEF NoViewport
<1>5. Sequence(end) /\ NoViewport(end)
  <2>1. Sequence(end) /\ Len(end) = 1
    BY Tuple1
  <2>2. \A k \in 1 .. 1 : ~LoadsViewport(end[k])
    BY DEF LoadsViewport, Load
  <2> HIDE DEF end
  <2> QED BY <2>1, <2>2 DEF NoViewport
<1> HIDE DEF start, q, end
<1>6. Sequence(start \o Draw(q)) /\ SetsViewport(start \o Draw(q), WholeScreen)
  BY <1>3, <1>4, Joined, NoViewports
<1>7. Sequence(cs) /\ SetsViewport(cs, WholeScreen)
  BY <1>5, <1>6, Joined, NoViewports
<1> HIDE DEF cs
<1> QED BY <1>1, <1>2, <1>7, OneSound

LEMMA ReturnSound == ASSUME NEW r, r.test = "return" PROVE TextSound(r)
<1>1. Program(r) = <<>>
  BY DEF Program
<1> QED BY <1>1, Tuple0 DEF TextSound

LEMMA CheckSound == ASSUME NEW r, r.test = "CheckEFB" PROVE TextSound(r)
<1>1. r.test \notin {"Init", "CoordinatePrecisionTest", "FillEFB"} /\ \A n : ~Stands(r, n)
  BY DEF Stands
<1>2. PICK s : Program(r) = <<s>> /\ s.op \in {"peek", "peekz"}
  <2>1. Program(r) = CheckEFB(PIXEL_FORMATS[r.scene])
    BY DEF Program
  <2>2. \A e : CGX_PeekZ(e).op = "peekz" /\ CGX_PeekARGB(e).op = "peek"
    BY DEF CGX_PeekARGB, CGX_PeekZ
  <2>3. CASE PIXEL_FORMATS[r.scene] = "Z24"
    <3>1. \E e : Program(r) = <<CGX_PeekZ(e)>>
      BY <2>1, <2>3 DEF CheckEFB
    <3> QED BY <2>2, <3>1
  <2>4. CASE PIXEL_FORMATS[r.scene] # "Z24"
    <3>1. \E e : Program(r) = <<CGX_PeekARGB(e)>>
      BY <2>1, <2>4 DEF CheckEFB
    <3> QED BY <2>2, <3>1
  <2> QED BY <2>3, <2>4
<1> DEFINE t == <<s>>
<1>3. Sequence(t) /\ Len(t) = 1
  BY Tuple1
<1>4. SendsWell(t[1], r, 1) /\ t[1].op # "poke" /\ \A p : ~Reads(t[1], p)
  BY <1>1, <1>2 DEF SendsWell, Reads
<1>5. Program(r) = t
  BY <1>2
<1> HIDE DEF t
<1>6. \A n \in 1 .. 1 : n = 1
  OBVIOUS
<1> QED BY <1>1, <1>3, <1>4, <1>5, <1>6 DEF TextSound

(* Text that neither reads nor has a viewport to keep. *)
Quiet(s) == s.op \in {"send", "wait", "memset"} /\ (s.op = "send" => Sequence(s.commands))

(* A fill draws and copies, and pokes; it reads nothing. *)
LEMMA FillSound == ASSUME NEW r, r.test = "FillEFB" PROVE TextSound(r)
<1>1. ~Filled(r) /\ r.test \notin {"Init", "CoordinatePrecisionTest"} /\ \A n : ~Stands(r, n)
  BY DEF Filled, Stands
<1>2. \A s, n : Quiet(s) => SendsWell(s, r, n) /\ s.op # "poke" /\ \A p : ~Reads(s, p)
  BY <1>1 DEF Quiet, SendsWell, Reads
<1>3. \A c, n : LET s == CGX_PokeARGB(c) IN SendsWell(s, r, n) /\ s.op = "poke" /\ \A p : ~Reads(s, p)
  BY <1>1 DEF SendsWell, Reads, CGX_PokeARGB
<1>4. /\ Quiet(CGX_WaitForGpuToFinish) /\ Quiet(Memset) /\ CGX_WaitForGpuToFinish.op = "wait"
      /\ \A cs : Sequence(cs) => Quiet(Send(cs))
  BY DEF Quiet, CGX_WaitForGpuToFinish, Memset, Send
<1>5. ASSUME NEW s, Quiet(s), NEW c, Program(r) = <<s, CGX_WaitForGpuToFinish, CGX_PokeARGB(c)>>
      PROVE  TextSound(r)
  <2> DEFINE t == <<s, CGX_WaitForGpuToFinish, CGX_PokeARGB(c)>>
  <2>1. Sequence(t) /\ Len(t) = 3
    BY Tuple3
  <2>2. /\ t[1] = s /\ t[2] = CGX_WaitForGpuToFinish /\ t[3] = CGX_PokeARGB(c) /\ Program(r) = t
    BY <1>5
  <2> HIDE DEF t
  <2>3. \A n \in 1 .. 3 : SendsWell(t[n], r, n) /\ (t[n].op = "poke" => n = 3) /\ \A p : ~Reads(t[n], p)
    BY <1>2, <1>3, <1>4, <1>5, <2>2
  <2>4. Fills(t)
    BY <1>3, <1>4, <2>1, <2>2 DEF Fills
  <2> QED BY <1>1, <2>1, <2>2, <2>3, <2>4 DEF TextSound
<1>6. ASSUME NEW a, Quiet(a), NEW c, NEW d, Quiet(d), NEW e, Quiet(e), NEW f, Quiet(f), NEW g, Quiet(g), NEW h, Quiet(h),
             Program(r) = <<a, CGX_WaitForGpuToFinish, CGX_PokeARGB(c), d, Memset, e, f, g, h>>
      PROVE  TextSound(r)
  <2> DEFINE t == <<a, CGX_WaitForGpuToFinish, CGX_PokeARGB(c), d, Memset, e, f, g, h>>
  <2>1. Sequence(t) /\ Len(t) = 9
    BY Tuple9
  <2>2. /\ t[1] = a /\ t[2] = CGX_WaitForGpuToFinish /\ t[3] = CGX_PokeARGB(c) /\ Program(r) = t
        /\ t[4] = d /\ t[5] = Memset /\ t[6] = e /\ t[7] = f /\ t[8] = g /\ t[9] = h
    BY <1>6
  <2> HIDE DEF t
  <2>3. \A n \in 1 .. 9 : n = 3 \/ Quiet(t[n])
    BY <1>4, <1>6, <2>2
  <2>4. \A n \in 1 .. 9 : SendsWell(t[n], r, n) /\ (t[n].op = "poke" => n = 3) /\ \A p : ~Reads(t[n], p)
    BY <1>2, <1>3, <2>2, <2>3
  <2>5. Fills(t)
    BY <1>3, <1>4, <2>1, <2>2 DEF Fills
  <2> QED BY <1>1, <2>1, <2>2, <2>4, <2>5 DEF TextSound
<1>7. CASE main = "intensity"
  <2> DEFINE cs == <<Format("RGB8")>>
             colors == [p \in Columns \X Columns |-> <<p[1], p[2], r.scene, 255>>]
  <2>1. Program(r) = <<Send(cs), CGX_WaitForGpuToFinish, CGX_PokeARGB(colors)>>
    <3>1. Program(r) = FillBlue(r.scene)
      BY <1>7 DEF Program
    <3> QED BY <3>1 DEF FillBlue
  <2>2. Quiet(Send(cs))
    BY <1>4, Tuple1
  <2> HIDE DEF cs, colors
  <2> QED BY <1>5, <2>1, <2>2
<1>8. CASE main # "intensity"
  <2> DEFINE format == PIXEL_FORMATS[r.scene]
             cs == <<Format(IF format = "Z24" THEN "RGB8" ELSE format), Load("zmode", [test |-> TRUE, update |-> TRUE])>>
             colors == [p \in FilterPixels |-> GenerateEFBColor(p)]
             filter == SetCopyFilter(Full)
  <2>1. Program(r) = <<Send(cs), CGX_WaitForGpuToFinish, CGX_PokeARGB(colors)>>
                     \o (IF format = "Z24" THEN SendDepths(filter) ELSE <<>>)
    <3>1. Program(r) = FillEFB(format)
      BY <1>8 DEF Program
    <3> QED BY <3>1 DEF FillEFB, FillWith
  <2>2. Quiet(Send(cs))
    BY <1>4, Tuple2
  <2> HIDE DEF cs, colors, filter
  <2>3. CASE format # "Z24"
    <3>1. Program(r) = <<Send(cs), CGX_WaitForGpuToFinish, CGX_PokeARGB(colors)>>
      BY <2>1, <2>3, Joins3and0
    <3> QED BY <1>5, <2>2, <3>1
  <2>4. CASE format = "Z24"
    <3> DEFINE first == <<filter, Load("clearz", 123456)>>
               copy == CGX_DoEfbCopyTex(0, 0, 255, 7, [EFBCopyParams EXCEPT !.clear = TRUE])
               regs == <<InvalidateTexAll, Load("genmode", [stages |-> 0, texgens |-> 1, chans |-> 0]),
                         Load("specs", "texture"), Load("numchan", 0), Load("texture", [w |-> 256, h |-> 8]),
                         Load("ztexture", "Replace"), Load("order", TRUE), Load("ssize", 256), Load("tsize", 8),
                         ColorCombiner(0, D("Half")), Viewport(0, 0, 256, 8)>>
               draws == regs \o Draw(TextureQuad)
               last == <<Format("Z24")>>
    <3>1. SendDepths(filter) = <<Send(first)>> \o <<Memset, Send(<<copy>>)>>
                               \o <<Send(draws), CGX_WaitForGpuToFinish, Send(last)>>
      BY DEF SendDepths, CopyToTestBuffer
    <3>2. Quiet(Send(first)) /\ Quiet(Send(<<copy>>)) /\ Quiet(Send(last))
      BY <1>4, Tuple1, Tuple2
    <3>3. Quiet(Send(draws))
      <4>1. Sequence(regs)
        BY Tuple11
      <4> HIDE DEF regs
      <4> QED BY <1>4, <4>1, DrawIs, Joined
    <3> HIDE DEF first, copy, draws, last
    <3>4. SendDepths(filter) = <<Send(first), Memset, Send(<<copy>>), Send(draws), CGX_WaitForGpuToFinish, Send(last)>>
      <4>1. <<Send(first)>> \o <<Memset, Send(<<copy>>)>> = <<Send(first), Memset, Send(<<copy>>)>>
        BY Joins1and2
      <4>2. <<Send(first), Memset, Send(<<copy>>)>> \o <<Send(draws), CGX_WaitForGpuToFinish, Send(last)>>
            = <<Send(first), Memset, Send(<<copy>>), Send(draws), CGX_WaitForGpuToFinish, Send(last)>>
        BY Joins3and3
      <4> QED BY <3>1, <4>1, <4>2
    <3>5. Program(r) = <<Send(cs), CGX_WaitForGpuToFinish, CGX_PokeARGB(colors), Send(first), Memset, Send(<<copy>>),
                         Send(draws), CGX_WaitForGpuToFinish, Send(last)>>
      BY <2>1, <2>4, <3>4, Joins3and6
    <3> QED BY <1>4, <1>6, <2>2, <3>2, <3>3, <3>5
  <2> QED BY <2>3, <2>4
<1> QED BY <1>7, <1>8

(* The copies of copyfilter and intensity draw nothing: the fill's pixels stay. *)
LEMMA FilterSound ==
    ASSUME NEW r, r.test = "CopyFilterTest", Columns \subseteq 0 .. 255
    PROVE  TextSound(r)
<1>1. r.test \notin {"Init", "FillEFB"} /\ Filled(r) /\ \A n : ~Stands(r, n)
  BY DEF Filled, Stands
<1> DEFINE format == PIXEL_FORMATS[r.scene]
           sums == WeightSums(r.step \div 16, r.step % 16)
           intensity == (r.step % 16) % 2 = 1
           cs == <<SetCopyFilter(sums)>>
           copy == CGX_DoEfbCopyTex(0, 0, 255, 7, [EFBCopyParams EXCEPT !.intensity_fmt = intensity, !.auto_conv = intensity])
           expected == [p \in Columns \X {4} |-> Predict(p[1], format, sums, intensity)]
<1>2. Program(r) = <<Send(cs)>> \o <<Memset, Send(<<copy>>)>> \o <<CGX_WaitForGpuToFinish, ReadTestBuffer(expected)>>
  <2>1. Program(r) = CopyFilterTest(format, r.step \div 16, r.step % 16)
    BY <1>1 DEF Program
  <2> QED BY <2>1 DEF CopyFilterTest, CopyToTestBuffer
<1>3. Sequence(cs) /\ \A i \in 1 .. Len(cs) : KeepsColors(cs[i])
  <2>1. Sequence(cs) /\ Len(cs) = 1
    BY Tuple1
  <2>2. KeepsColors(cs[1])
    BY DEF KeepsColors, SetCopyFilter, Load
  <2> HIDE DEF cs
  <2> QED BY <2>1, <2>2
<1>4. copy.op = "copy" /\ ~copy.params.clear /\ \A p : p[1] \in 0 .. 255 /\ p[2] \in 0 .. 7 => InRect(copy, p)
  BY DEF CGX_DoEfbCopyTex, EFBCopyParams, InRect
<1>5. DOMAIN expected = Columns \X {4}
  OBVIOUS
<1> HIDE DEF cs, copy, expected
<1>6. Program(r) = <<Send(cs), Memset, Send(<<copy>>), CGX_WaitForGpuToFinish, ReadTestBuffer(expected)>>
  BY <1>2, FiveText
<1>7. \A p \in DOMAIN expected : InRect(copy, p)
  <2> SUFFICES ASSUME NEW p \in Columns \X {4} PROVE InRect(copy, p)
    BY <1>5
  <2>1. p[1] \in Columns /\ p[2] = 4
    OBVIOUS
  <2>2. p[1] \in 0 .. 255
    BY <2>1
  <2>3. p[2] \in 0 .. 7
    BY <2>1
  <2> QED BY <1>4, <2>2, <2>3
<1> QED BY <1>1, <1>3, <1>4, <1>6, <1>7, FiveSound

LEMMA IntensitySound ==
    ASSUME NEW r, r.test = "IntensityTest", Columns \subseteq 0 .. 255
    PROVE  TextSound(r)
<1>1. r.test \notin {"Init", "CoordinatePrecisionTest", "FillEFB"} /\ Filled(r) /\ \A n : ~Stands(r, n)
  BY DEF Filled, Stands
<1> DEFINE blue == r.scene
           fmt == (r.step \div 2) % 2 = 1
           conv == r.step \div 4 = 1
           copy == CGX_DoEfbCopyTex(0, 0, 255, 255, [EFBCopyParams EXCEPT !.intensity_fmt = fmt, !.auto_conv = conv])
           expected == [p \in Columns \X Columns |->
                            IF fmt /\ conv THEN Yuv(p[1], p[2], blue, 255) ELSE <<p[1], p[2], blue, 255>>]
           t == <<Memset, Send(<<copy>>), CGX_WaitForGpuToFinish, ReadTestBuffer(expected)>>
<1>2. Program(r) = <<Memset, Send(<<copy>>)>> \o <<CGX_WaitForGpuToFinish, ReadTestBuffer(expected)>>
  <2>1. Program(r) = IntensityTest(blue, fmt, conv)
    BY <1>1 DEF Program
  <2> QED BY <2>1 DEF IntensityTest, CopyToTestBuffer
<1>3. copy.op = "copy" /\ ~copy.params.clear /\ \A p : p[1] \in 0 .. 255 /\ p[2] \in 0 .. 255 => InRect(copy, p)
  BY DEF CGX_DoEfbCopyTex, EFBCopyParams, InRect
<1>4. DOMAIN expected = Columns \X Columns
  OBVIOUS
<1> HIDE DEF copy, expected
<1>5. Program(r) = t
  BY <1>2, Joins2and2
<1>6. \A p \in DOMAIN expected : CopiesTo(copy, p)
  <2> SUFFICES ASSUME NEW p \in Columns \X Columns PROVE CopiesTo(copy, p)
    BY <1>4
  <2>1. p[1] \in Columns /\ p[2] \in Columns
    OBVIOUS
  <2>2. p[1] \in 0 .. 255 /\ p[2] \in 0 .. 255
    BY <2>1
  <2> QED BY <1>3, <2>2 DEF CopiesTo
<1>7. Sequence(t) /\ Len(t) = 4
  BY Tuple4
<1>8. Sequence(<<copy>>) /\ Len(<<copy>>) = 1 /\ <<copy>>[1] = copy /\ KeepsColors(copy)
  BY <1>3, Tuple1 DEF KeepsColors
<1>9. SendsWell(Send(<<copy>>), r, 2)
  BY <1>1, <1>8 DEF SendsWell, Send
<1>10. \A n : SendsWell(Memset, r, n) /\ SendsWell(CGX_WaitForGpuToFinish, r, n) /\ SendsWell(ReadTestBuffer(expected), r, n)
  BY <1>1 DEF SendsWell, Memset, CGX_WaitForGpuToFinish, ReadTestBuffer
<1>11. \A n \in 1 .. 4 : SendsWell(t[n], r, n) /\ t[n].op # "poke"
  BY <1>9, <1>10 DEF Send, Memset, CGX_WaitForGpuToFinish, ReadTestBuffer
<1>12. \A n \in 1 .. 4 : \A p : Reads(t[n], p) => n = 4 /\ p \in DOMAIN expected
  BY DEF Reads, Send, Memset, CGX_WaitForGpuToFinish, ReadTestBuffer
<1>13. t[2].commands = <<copy>> /\ t[3].op = "wait" /\ t[2].op = "send" /\ t[1].op = "memset"
  BY DEF Send, Memset, CGX_WaitForGpuToFinish
<1> HIDE DEF t
<1>14. ASSUME NEW p \in DOMAIN expected PROVE ReadsItsCopy(t, r, 4, p)
  <2>1. 4 - 2 = 2 /\ 1 \in 1 .. Len(<<copy>>) /\ CopiesTo(<<copy>>[1], p)
    BY <1>6, <1>8
  <2>2. CopiesIn(t, r, 4, p)
    BY <1>1, <1>13, <2>1 DEF CopiesIn
  <2> QED BY <1>13, <2>2 DEF ReadsItsCopy
<1> QED BY <1>1, <1>5, <1>7, <1>11, <1>12, <1>14 DEF TextSound

-----------------------------------------------------------------------------
(* The loops of main: which tests there are and which may follow which.      *)

(* The tests there are. *)
Tests == {"Init", "ClipTest", "LightingTest", "CoordinatePrecisionTest", "TevCombinerTest", "KonstTest",
          "FillEFB", "CheckEFB", "CopyFilterTest", "IntensityTest", "return"}
(* A loop of main, and one that may come before another: after a fill come the
   copies of the same fill, and only Init comes before the tests of tev. *)
LoopSound(l) ==
    /\ l.test \in Tests
    /\ l.test = "CoordinatePrecisionTest" => l.scene \in {-1, 0, 1} \/ (l.scene = 2 /\ l.steps = {0, 1})
    /\ l.test = "FillEFB" => l.steps = {0}
Precedes(a, b) ==
    /\ Filled(b) => (Filled(a) \/ a.test = "FillEFB") /\ a.scene = b.scene
    /\ b.test = "TevCombinerTest" => a.test \in {"Init", "TevCombinerTest"}
LoopsSound(s) ==
    /\ Sequence(s)
    /\ \A i \in 1 .. Len(s) : LoopSound(s[i]) /\ s[i].test # "return"
    /\ \A i \in 1 .. Len(s) - 1 : Precedes(s[i], s[i + 1])
    /\ Len(s) > 0 => Precedes(Loop("Init", 0, {0}), s[1])

LEMMA LoopIs == \A t, c, s : Loop(t, c, s).test = t /\ Loop(t, c, s).scene = c /\ Loop(t, c, s).steps = s
  BY DEF Loop

LEMMA ClipLoops ==
    ASSUME NEW t, t \in {"ClipTest", "LightingTest"}, NEW steps
    PROVE  LoopsSound(<<Setup(t), Loop(t, 0, steps)>>)
<1> DEFINE s == <<Setup(t), Loop(t, 0, steps)>>
<1>1. Sequence(s) /\ Len(s) = 2
  BY Tuple2
<1>2. /\ s[1].test = t /\ s[2].test = t
  BY LoopIs DEF Setup
<1> HIDE DEF s
<1>3. \A i \in 1 .. 2 : LoopSound(s[i]) /\ s[i].test # "return"
  BY <1>2 DEF LoopSound, Tests
<1>4. Precedes(s[1], s[2]) /\ Precedes(Loop("Init", 0, {0}), s[1])
  BY <1>2 DEF Precedes, Filled
<1>5. LoopsSound(s)
  BY <1>1, <1>3, <1>4 DEF LoopsSound
<1> QED BY <1>5 DEF s

LEMMA RasterLoops ==
    LoopsSound(<<Setup("CoordinatePrecisionTest"), Loop("CoordinatePrecisionTest", 0, 0 .. 1),
                 Loop("CoordinatePrecisionTest", 1, 0 .. 2), Loop("CoordinatePrecisionTest", 2, 0 .. 1)>>)
<1> DEFINE s == <<Setup("CoordinatePrecisionTest"), Loop("CoordinatePrecisionTest", 0, 0 .. 1),
                 Loop("CoordinatePrecisionTest", 1, 0 .. 2), Loop("CoordinatePrecisionTest", 2, 0 .. 1)>>
<1>1. Sequence(s) /\ Len(s) = 4
  BY Tuple4
<1>2. /\ s[1].test = "CoordinatePrecisionTest" /\ s[2].test = "CoordinatePrecisionTest"
      /\ s[3].test = "CoordinatePrecisionTest" /\ s[4].test = "CoordinatePrecisionTest"
      /\ s[1].scene = -1 /\ s[2].scene = 0 /\ s[3].scene = 1 /\ s[4].scene = 2 /\ s[4].steps = {0, 1}
  BY LoopIs DEF Setup
<1> HIDE DEF s
<1>3. \A i \in 1 .. 4 : LoopSound(s[i]) /\ s[i].test = "CoordinatePrecisionTest"
  BY <1>2 DEF LoopSound, Tests
<1>4. \A i \in 1 .. 3 : Precedes(s[i], s[i + 1])
  BY <1>2 DEF Precedes, Filled
<1>5. Precedes(Loop("Init", 0, {0}), s[1])
  BY <1>2 DEF Precedes, Filled
<1>6. LoopsSound(s)
  BY <1>1, <1>3, <1>4, <1>5 DEF LoopsSound
<1> QED BY <1>6 DEF s

LEMMA TevLoops ==
    LoopsSound(<<Setup("TevCombinerTest"), Loop("TevCombinerTest", 0, Reds), Loop("TevCombinerTest", 1, {-1024}),
                 Loop("TevCombinerTest", 2, DOMAIN RandomStages), Loop("TevCombinerTest", 3, 0 .. 1),
                 Setup("KonstTest"), Loop("KonstTest", 0, 0 .. 63), Loop("KonstTest", 1, {0})>>)
<1> DEFINE rounds == 0 .. 63
           s == <<Setup("TevCombinerTest"), Loop("TevCombinerTest", 0, Reds), Loop("TevCombinerTest", 1, {-1024}),
                  Loop("TevCombinerTest", 2, DOMAIN RandomStages), Loop("TevCombinerTest", 3, 0 .. 1),
                  Setup("KonstTest"), Loop("KonstTest", 0, rounds), Loop("KonstTest", 1, {0})>>
<1> HIDE DEF rounds
<1>1. Sequence(s) /\ Len(s) = 8
  BY Tuple8
<1>2. /\ s[1].test = "TevCombinerTest" /\ s[2].test = "TevCombinerTest" /\ s[3].test = "TevCombinerTest"
      /\ s[4].test = "TevCombinerTest" /\ s[5].test = "TevCombinerTest"
      /\ s[6].test = "KonstTest" /\ s[7].test = "KonstTest" /\ s[8].test = "KonstTest"
  BY LoopIs DEF Setup
<1> HIDE DEF s
<1>3. \A i \in 1 .. 8 : LoopSound(s[i]) /\ s[i].test # "return"
  BY <1>2 DEF LoopSound, Tests
<1>4. \A i \in 1 .. 7 : Precedes(s[i], s[i + 1])
  BY <1>2 DEF Precedes, Filled
<1>5. Precedes(Loop("Init", 0, {0}), s[1])
  BY <1>2, LoopIs DEF Precedes, Filled
<1>6. LoopsSound(s)
  BY <1>1, <1>3, <1>4, <1>5 DEF LoopsSound
<1> QED BY <1>6 DEF s, rounds

LEMMA FilterLoops == LoopsSound(MainLoops("copyfilter"))
<1> DEFINE s == MainLoops("copyfilter")
           steps == {16 * sum + flags : sum \in FilterSums, flags \in 2 .. 15}
           HasLoop(i) == LET scene == (i + 2) \div 3
                    IN  CASE i % 3 = 1 -> Loop("FillEFB", scene, {0})
                          [] i % 3 = 2 -> Loop("CheckEFB", scene, {0})
                          [] OTHER -> Loop("CopyFilterTest", scene, steps)
<1> HIDE DEF steps
<1>1. s = [i \in 1 .. 9 |-> HasLoop(i)]
  BY DEF MainLoops, steps
<1> HIDE DEF s
<1>2. Sequence(s) /\ Len(s) = 9
  <2>1. s \in [1 .. 9 -> {HasLoop(i) : i \in 1 .. 9}] /\ 9 \in Nat
    BY <1>1
  <2> QED BY <2>1, Mapped
<1>3. \A i \in 1 .. 9 :
         /\ s[i].scene = (i + 2) \div 3
         /\ s[i].test = IF i % 3 = 1 THEN "FillEFB" ELSE IF i % 3 = 2 THEN "CheckEFB" ELSE "CopyFilterTest"
         /\ i % 3 = 1 => s[i].steps = {0}
  <2> TAKE i \in 1 .. 9
  <2>1. s[i] = HasLoop(i)
    BY <1>1
  <2>2. CASE i % 3 = 1
    <3>1. s[i] = Loop("FillEFB", (i + 2) \div 3, {0})
      BY <2>1, <2>2
    <3> QED BY <2>2, <3>1, LoopIs
  <2>3. CASE i % 3 = 2
    <3>1. s[i] = Loop("CheckEFB", (i + 2) \div 3, {0})
      BY <2>1, <2>3
    <3> QED BY <2>3, <3>1, LoopIs
  <2>4. CASE i % 3 \notin {1, 2}
    <3>1. s[i] = Loop("CopyFilterTest", (i + 2) \div 3, steps)
      BY <2>1, <2>4
    <3> QED BY <2>4, <3>1, LoopIs
  <2> QED BY <2>2, <2>3, <2>4
<1>4. \A i \in 1 .. 9 : LoopSound(s[i]) /\ s[i].test # "return"
  BY <1>3 DEF LoopSound, Tests
<1>5. ASSUME NEW i \in 1 .. 8 PROVE Precedes(s[i], s[i + 1])
  <2>1. i % 3 # 0 => s[i].scene = s[i + 1].scene
    BY <1>3
  <2>2. i + 1 \in 1 .. 9 /\ (i % 3 = 0 => (i + 1) % 3 = 1)
    OBVIOUS
  <2> QED BY <1>3, <2>1, <2>2 DEF Precedes, Filled
<1>6. Precedes(Loop("Init", 0, {0}), s[1])
  BY <1>3 DEF Precedes, Filled
<1>7. \A i \in 1 .. 9 - 1 : Precedes(s[i], s[i + 1])
  BY <1>5
<1> QED BY <1>2, <1>4, <1>6, <1>7 DEF LoopsSound, s

LEMMA IntensityLoops == Blues \in Seq(Nat) => LoopsSound(MainLoops("intensity"))
<1> SUFFICES ASSUME Blues \in Seq(Nat) PROVE LoopsSound(MainLoops("intensity"))
  OBVIOUS
<1> DEFINE s == MainLoops("intensity")
           last == 2 * Len(Blues)
           HasLoop(i) == LET blue == Blues[(i + 1) \div 2]
                    IN  IF i % 2 = 1 THEN Loop("FillEFB", blue, {0}) ELSE Loop("IntensityTest", blue, 0 .. 7)
<1>1. s = [i \in 1 .. last |-> HasLoop(i)]
  BY DEF MainLoops
<1>0. last \in Nat
  OBVIOUS
<1> HIDE DEF s, last
<1>2. Sequence(s) /\ Len(s) = last
  <2>1. s \in [1 .. last -> {HasLoop(i) : i \in 1 .. last}]
    BY <1>1
  <2> QED BY <1>0, <2>1, Mapped
<1>3. \A i \in 1 .. last :
         /\ s[i].scene = Blues[(i + 1) \div 2]
         /\ s[i].test = IF i % 2 = 1 THEN "FillEFB" ELSE "IntensityTest"
         /\ i % 2 = 1 => s[i].steps = {0}
  <2> TAKE i \in 1 .. last
  <2>1. s[i] = HasLoop(i)
    BY <1>1
  <2>2. CASE i % 2 = 1
    <3>1. s[i] = Loop("FillEFB", Blues[(i + 1) \div 2], {0})
      BY <2>1, <2>2
    <3> QED BY <2>2, <3>1, LoopIs
  <2>3. CASE i % 2 # 1
    <3>1. s[i] = Loop("IntensityTest", Blues[(i + 1) \div 2], 0 .. 7)
      BY <2>1, <2>3
    <3> QED BY <2>3, <3>1, LoopIs
  <2> QED BY <2>2, <2>3
<1>4. \A i \in 1 .. last : LoopSound(s[i]) /\ s[i].test # "return"
  BY <1>3 DEF LoopSound, Tests
<1>5. ASSUME NEW i \in 1 .. last - 1 PROVE Precedes(s[i], s[i + 1])
  <2>1. i \in 1 .. last /\ i + 1 \in 1 .. last
    BY <1>0
  <2>2. CASE i % 2 = 1
    <3>1. (i + 1) \div 2 = ((i + 1) + 1) \div 2 /\ (i + 1) % 2 # 1
      BY <2>1, <2>2
    <3> QED BY <1>3, <2>1, <2>2, <3>1 DEF Precedes, Filled
  <2>3. CASE i % 2 # 1
    <3>1. (i + 1) % 2 = 1
      BY <2>1, <2>3
    <3> QED BY <1>3, <2>1, <3>1 DEF Precedes, Filled
  <2> QED BY <2>2, <2>3
<1>6. last > 0 => Precedes(Loop("Init", 0, {0}), s[1])
  <2> SUFFICES ASSUME last > 0 PROVE Precedes(Loop("Init", 0, {0}), s[1])
    OBVIOUS
  <2>1. 1 \in 1 .. last /\ 1 % 2 = 1
    BY <1>0
  <2> QED BY <1>3, <2>1 DEF Precedes, Filled
<1> QED BY <1>2, <1>4, <1>5, <1>6 DEF LoopsSound, s

(* A round is one of main's loops' values. *)
RoundSound(r) ==
    /\ r = Round(r.test, r.scene, r.step)
    /\ \E i \in 1 .. Len(Loops(main)) :
          Loops(main)[i].test = r.test /\ Loops(main)[i].scene = r.scene /\ r.step \in Loops(main)[i].steps

(* All of main's loops. *)
AllSound(loops) ==
    /\ Sequence(loops) /\ Len(loops) \in Nat /\ DOMAIN loops = 1 .. Len(loops)
    /\ Len(loops) >= 2
    /\ \A i \in 1 .. Len(loops) : LoopSound(loops[i]) /\ (loops[i].test = "return" <=> i = Len(loops))
    /\ \A i \in 1 .. Len(loops) - 1 : Precedes(loops[i], loops[i + 1])
    /\ loops[1] = Loop("Init", 0, {0})

LEMMA EveryLoop == ASSUME ProgramConstants, NEW m \in Mains PROVE AllSound(Loops(m))
<1> DEFINE a == <<Loop("Init", 0, {0})>>
           s == MainLoops(m)
           z == <<Loop("return", 0, {0})>>
           front == a \o s
           whole == front \o z
<1>1. m \in Programs /\ Blues \in Seq(Nat)
  BY DEF ProgramConstants
<1>2. Loops(m) = whole
  BY DEF Loops, MainLoops
<1>3. LoopsSound(s)
  <2>1. CASE m = "clipping"
    BY <2>1, ClipLoops DEF MainLoops
  <2>2. CASE m = "lighting"
    BY <2>2, ClipLoops DEF MainLoops
  <2>3. CASE m = "rasterization"
    BY <2>3, RasterLoops DEF MainLoops
  <2>4. CASE m = "tev"
    BY <2>4, TevLoops DEF MainLoops
  <2>5. CASE m = "copyfilter"
    BY <2>5, FilterLoops
  <2>6. CASE m = "intensity"
    BY <1>1, <2>6, IntensityLoops
  <2> QED BY <1>1, <2>1, <2>2, <2>3, <2>4, <2>5, <2>6 DEF Programs
<1> HIDE DEF s
<1>4. Sequence(a) /\ Len(a) = 1 /\ a[1] = Loop("Init", 0, {0}) /\ Sequence(z) /\ Len(z) = 1 /\ z[1] = Loop("return", 0, {0})
  BY Tuple1
<1>5. LoopSound(a[1]) /\ LoopSound(z[1]) /\ a[1].test = "Init" /\ z[1].test = "return"
  BY <1>4, LoopIs DEF LoopSound, Tests
<1> HIDE DEF a, z
<1>6. /\ Sequence(front) /\ Len(s) \in Nat /\ Len(front) = 1 + Len(s)
      /\ front[1] = a[1] /\ \A i \in 1 .. Len(s) : front[1 + i] = s[i]
  <2>1. Sequence(a) /\ Sequence(s)
    BY <1>3, <1>4 DEF LoopsSound
  <2>2. /\ Sequence(front) /\ Len(s) \in Nat /\ Len(front) = Len(a) + Len(s)
        /\ \A i \in 1 .. Len(a) : front[i] = a[i]
        /\ \A i \in 1 .. Len(s) : front[Len(a) + i] = s[i]
    BY ONLY <2>1, Joined
  <2> QED BY <1>4, <2>2
<1> HIDE DEF front
<1>7. /\ Sequence(whole) /\ Len(whole) = 2 + Len(s) /\ DOMAIN whole = 1 .. Len(whole)
      /\ whole[2 + Len(s)] = z[1] /\ \A i \in 1 .. 1 + Len(s) : whole[i] = front[i]
  <2>1. Sequence(front) /\ Sequence(z)
    BY <1>4, <1>6
  <2>2. /\ Sequence(whole) /\ Len(front) \in Nat /\ Len(whole) = Len(front) + Len(z)
        /\ \A i \in 1 .. Len(front) : whole[i] = front[i]
        /\ \A i \in 1 .. Len(z) : whole[Len(front) + i] = z[i]
    <3>1. Len(front) \in Nat /\ Len(z) \in Nat
      BY ONLY <2>1, Sizes
    <3>2. Sequence(front \o z)
      BY ONLY <2>1, Joined
    <3>3. Len(front \o z) = Len(front) + Len(z)
      BY ONLY <2>1, Joined
    <3>4. \A i \in 1 .. Len(front) : (front \o z)[i] = front[i]
      BY ONLY <2>1, Joined
    <3>5. \A i \in 1 .. Len(z) : (front \o z)[Len(front) + i] = z[i]
      BY ONLY <2>1, Joined
    <3> QED BY <3>1, <3>2, <3>3, <3>4, <3>5
  <2>3. DOMAIN whole = 1 .. Len(whole)
    BY <2>2, Sizes
  <2>4. 1 \in 1 .. Len(z) /\ Len(front) + 1 = 2 + Len(s) /\ Len(whole) = 2 + Len(s) /\ Len(front) = 1 + Len(s)
    BY <1>4, <1>6, <2>2
  <2>5. whole[2 + Len(s)] = z[1]
    BY <2>2, <2>4
  <2> QED BY <2>2, <2>3, <2>4, <2>5
<1> HIDE DEF whole
<1>8. /\ whole[1] = a[1] /\ whole[2 + Len(s)] = z[1]
      /\ \A i \in 2 .. 1 + Len(s) : i - 1 \in 1 .. Len(s) /\ whole[i] = s[i - 1]
  <2>1. ASSUME NEW i \in 2 .. 1 + Len(s) PROVE i - 1 \in 1 .. Len(s) /\ whole[i] = s[i - 1]
    <3>1. i - 1 \in 1 .. Len(s) /\ 1 + (i - 1) = i /\ i \in 1 .. 1 + Len(s)
      BY <1>6
    <3> QED BY <1>6, <1>7, <3>1
  <2>2. 1 \in 1 .. 1 + Len(s)
    BY <1>6
  <2> QED BY <1>6, <1>7, <2>1, <2>2
<1>9. \A i \in 1 .. Len(whole) : i = 1 \/ i = 2 + Len(s) \/ i \in 2 .. 1 + Len(s)
  BY <1>6, <1>7
<1>10. ASSUME NEW i \in 1 .. Len(whole) PROVE LoopSound(whole[i]) /\ (whole[i].test = "return" <=> i = Len(whole))
  <2>1. CASE i = 1
    BY <1>5, <1>6, <1>7, <1>8, <2>1
  <2>2. CASE i = 2 + Len(s)
    BY <1>5, <1>7, <1>8, <2>2
  <2>3. CASE i \in 2 .. 1 + Len(s)
    BY <1>3, <1>6, <1>7, <1>8, <2>3 DEF LoopsSound
  <2> QED BY <1>9, <2>1, <2>2, <2>3
<1>11. ASSUME NEW i \in 1 .. Len(whole) - 1 PROVE Precedes(whole[i], whole[i + 1])
  <2>1. CASE i + 1 = 2 + Len(s)
    <3>1. ~Filled(z[1]) /\ z[1].test # "TevCombinerTest"
      BY <1>5 DEF Filled
    <3> QED BY <1>8, <2>1, <3>1 DEF Precedes
  <2>2. CASE i = 1 /\ i + 1 # 2 + Len(s)
    <3>1. Len(s) > 0 /\ i + 1 \in 2 .. 1 + Len(s) /\ whole[2] = s[1]
      BY <1>6, <1>8, <2>2
    <3>2. Precedes(Loop("Init", 0, {0}), s[1]) /\ whole[1] = Loop("Init", 0, {0})
      BY <1>3, <1>4, <1>8, <3>1 DEF LoopsSound
    <3> QED BY <2>2, <3>1, <3>2
  <2>3. CASE i # 1 /\ i + 1 # 2 + Len(s)
    <3>1. i \in 2 .. 1 + Len(s) /\ i + 1 \in 2 .. 1 + Len(s) /\ i - 1 \in 1 .. Len(s) - 1 /\ (i + 1) - 1 = (i - 1) + 1
      BY <1>6, <1>7, <2>3
    <3> QED BY <1>3, <1>8, <3>1 DEF LoopsSound
  <2> QED BY <2>1, <2>2, <2>3
<1> QED BY <1>2, <1>4, <1>6, <1>7, <1>8, <1>10, <1>11 DEF AllSound

(* What the round says of itself. *)
LEMMA RoundFacts ==
    ASSUME ProgramConstants, main \in Mains, NEW r, RoundSound(r)
    PROVE  /\ r.test \in Tests
           /\ r.test = "CoordinatePrecisionTest" => r.scene \in {-1, 0, 1} \/ (r.scene = 2 /\ r.step \in {0, 1})
           /\ r.test = "FillEFB" => r = Round("FillEFB", r.scene, 0)
<1>1. PICK i \in 1 .. Len(Loops(main)) :
          Loops(main)[i].test = r.test /\ Loops(main)[i].scene = r.scene /\ r.step \in Loops(main)[i].steps
  BY DEF RoundSound
<1>0. AllSound(Loops(main))
  BY EveryLoop
<1>2. LoopSound(Loops(main)[i])
  BY <1>0 DEF AllSound
<1>3. r.test = "FillEFB" => r.step = 0
  BY <1>1, <1>2 DEF LoopSound
<1> QED BY <1>1, <1>2, <1>3 DEF LoopSound, RoundSound

LEMMA RoundIs == \A t, c, s : Round(t, c, s).test = t /\ Round(t, c, s).scene = c /\ Round(t, c, s).step = s
  BY DEF Round

LEMMA FirstIs ==
    ASSUME NEW loop, NEW s \in First(loop)
    PROVE  /\ s = Round(s.test, s.scene, s.step) /\ s.test = loop.test /\ s.scene = loop.scene /\ s.step \in loop.steps
           /\ loop.steps = {0, 1} => s.step = 0
<1>1. PICK n \in loop.steps : s = Round(loop.test, loop.scene, n) /\ \A k \in loop.steps : n <= k
  BY DEF First
<1>2. s.test = loop.test /\ s.scene = loop.scene /\ s.step = n
  BY <1>1, RoundIs
<1> QED BY <1>1, <1>2

(* The next round is one of main's, and its painter and its viewport are those
   of the round before it, where it has not drawn or loaded its own. *)
LEMMA AfterIs ==
    ASSUME ProgramConstants, main \in Mains, RoundSound(round), round.test # "return", NEW s \in After(round)
    PROVE  /\ RoundSound(s)
           /\ Filled(s) => (Filled(round) \/ round.test = "FillEFB") /\ s.scene = round.scene
           /\ s.test = "TevCombinerTest" => round.test \in {"Init", "TevCombinerTest"}
           /\ s.test = "CoordinatePrecisionTest" /\ s.scene = 2 /\ s.step = 1
                 => round.test = "CoordinatePrecisionTest" /\ round.scene = 2
<1> DEFINE loops == Loops(main)
           i == CHOOSE n \in DOMAIN loops : loops[n].test = round.test /\ loops[n].scene = round.scene
           steps == Following(loops[i].steps, round.step)
<1>1. /\ Len(loops) \in Nat /\ DOMAIN loops = 1 .. Len(loops) /\ Len(loops) >= 2
      /\ \A n \in 1 .. Len(loops) : LoopSound(loops[n]) /\ (loops[n].test = "return" <=> n = Len(loops))
      /\ \A n \in 1 .. Len(loops) - 1 : Precedes(loops[n], loops[n + 1])
  <2>1. AllSound(Loops(main))
    BY EveryLoop
  <2> QED BY <2>1 DEF AllSound
<1>0. Len(loops) \in Nat /\ Len(loops) >= 2
  BY <1>1
<1>2. i \in 1 .. Len(loops) /\ loops[i].test = round.test /\ loops[i].scene = round.scene
  BY <1>1 DEF RoundSound
<1>3. /\ s \in {Round(round.test, round.scene, n) : n \in steps} \/ s \in First(loops[i + 1]) \/ s \in Last(loops)
  BY DEF After
<1> HIDE DEF loops, i, steps
<1>4. i \in 1 .. Len(loops) - 1 /\ i + 1 \in 1 .. Len(loops)
  <2>1. i # Len(loops)
    BY <1>1, <1>2
  <2> QED BY <1>0, <1>2, <2>1
<1>5. ASSUME NEW n \in 1 .. Len(loops), s = Round(s.test, s.scene, s.step),
             s.test = loops[n].test, s.scene = loops[n].scene, s.step \in loops[n].steps
      PROVE  RoundSound(s)
  BY <1>1, <1>5 DEF RoundSound, loops
<1>6. ASSUME NEW n \in steps, s = Round(round.test, round.scene, n) PROVE RoundSound(s) /\ s.test = round.test /\ s.scene = round.scene
  <2>1. s.test = round.test /\ s.scene = round.scene /\ s.step = n
    BY <1>6, RoundIs
  <2>2. n \in loops[i].steps
    BY DEF steps, Following
  <2> QED BY <1>2, <1>5, <1>6, <2>1, <2>2
<1>7. CASE s \in First(loops[i + 1])
  <2>1. /\ RoundSound(s) /\ s.test = loops[i + 1].test /\ s.scene = loops[i + 1].scene /\ s.step \in loops[i + 1].steps
        /\ loops[i + 1].steps = {0, 1} => s.step = 0
    BY <1>4, <1>5, <1>7, FirstIs
  <2>2. Precedes(loops[i], loops[i + 1]) /\ LoopSound(loops[i + 1])
    BY <1>1, <1>4
  <2> QED BY <1>2, <2>1, <2>2 DEF Precedes, LoopSound, Filled
<1>8. CASE s \in Last(loops)
  <2>1. s \in First(loops[Len(loops)]) /\ Len(loops) \in 1 .. Len(loops) /\ loops[Len(loops)].test = "return"
    <3>1. s \in First(loops[Len(loops)])
      BY <1>8 DEF Last
    <3>2. Len(loops) \in 1 .. Len(loops)
      BY <1>0
    <3> QED BY <1>1, <3>1, <3>2
  <2>2. RoundSound(s) /\ s.test = "return"
    BY <1>5, <2>1, FirstIs
  <2> QED BY <2>2 DEF Filled
<1>9. CASE s \in {Round(round.test, round.scene, n) : n \in steps}
  <2>1. RoundSound(s) /\ s.test = round.test /\ s.scene = round.scene
    BY <1>6, <1>9
  <2> QED BY <2>1 DEF Filled
<1> QED BY <1>3, <1>7, <1>8, <1>9

-----------------------------------------------------------------------------
(* The inductive invariant.                                                *)

(* Every text is sound. *)
LEMMA TextIs ==
    ASSUME ProgramConstants, main \in Mains, NEW r, RoundSound(r)
    PROVE  TextSound(r)
<1>1. /\ r.test \in Tests
      /\ r.test = "CoordinatePrecisionTest" => r.scene \in {-1, 0, 1} \/ (r.scene = 2 /\ r.step \in {0, 1})
  BY RoundFacts
<1>2. Columns \subseteq 0 .. 255
  BY DEF ProgramConstants
<1>3. CASE r.test = "CoordinatePrecisionTest"
  BY <1>1, <1>3, RasterDrawSound, RasterGuardSound
<1>4. CASE r.test \in {"CopyFilterTest", "IntensityTest"}
  BY <1>2, <1>4, FilterSound, IntensitySound
<1>5. CASE r.test \in {"Init", "ClipTest", "LightingTest", "TevCombinerTest"}
  BY <1>5, InitSound, ClipSound, LightingSound, TevSound
<1>6. CASE r.test \in {"KonstTest", "FillEFB", "CheckEFB", "return"}
  BY <1>6, KonstSound, FillSound, CheckSound, ReturnSound
<1> QED BY <1>1, <1>3, <1>4, <1>5, <1>6 DEF Tests

(* The viewport that has to stand is in force for what is sent next. *)
ViewportStands == Stands(round, next) => InForce(Len(fifo) + 1, Standing(round))
(* A fill's poke finds the GPU idle, and from then on every pixel is painted. *)
Filling ==
    /\ Filled(round) \/ (round.test = "FillEFB" /\ next > 3) => \A p \in DOMAIN efb : PaintDone(p)
    /\ round.test = "FillEFB" /\ next = 3 => fifo = <<>>
(* On the way to statement n that reads p: p is painted before it is copied, and
   copied before the wait; after the wait the GPU is idle. *)
ReadBackAt(t, n, p) ==
    /\ next \in {n - 3, n - 2} /\ ~Filled(round) /\ n >= 5 /\ t[n - 4].op = "send" /\ PaintsIn(t[n - 4].commands, p, round, n - 4)
          => Painted(p)
    /\ next \in {n - 1, n} => CopiedOwn(p)
    /\ next = n => fifo = <<>>
ReadBack ==
    LET t == Program(round)
    IN  \A n \in 1 .. Len(t), p \in DOMAIN buffer : Reads(t[n], p) => ReadBackAt(t, n, p)
ProgramIInv ==
    /\ Shape /\ main \in Mains /\ RoundSound(round) /\ next \in Nat \ {0}
    /\ ViewportStands /\ Filling /\ ReadBack

(* What the invariant says when a statement reads. *)
LEMMA ReadsWhatItCopied ==
    ASSUME ProgramConstants, ProgramIInv
    PROVE  ReadsOwn
<1> DEFINE t == Program(round)
<1> SUFFICES ASSUME NEW p \in DOMAIN buffer,
                    \/ Does("read") /\ p \in DOMAIN Statement.expected
                    \/ (Does("keep") \/ Does("combine")) /\ p = TevPixel
             PROVE  buffer[p].copied = round /\ buffer[p].drawn = Painter(round)
  BY DEF ReadsOwn
<1>1. TextSound(round)
  BY TextIs DEF ProgramIInv
<1>2. next \in 1 .. Len(t) /\ Reads(t[next], p)
  <2>1. Sequence(t) /\ next \in Nat \ {0} /\ ~(next > Len(t))
    BY <1>1 DEF TextSound, ProgramIInv, Does, Ended
  <2>2. Len(t) \in Nat
    BY <2>1, Sizes
  <2>3. Reads(t[next], p)
    BY DEF Reads, Does, Statement
  <2> QED BY <2>1, <2>2, <2>3
<1>3. CopiedOwn(p) /\ fifo = <<>>
  BY <1>2 DEF ProgramIInv, ReadBack, ReadBackAt
<1>4. CopyDone(p)
  BY <1>3, Tuple0 DEF CopiedOwn
<1> QED BY <1>4 DEF CopyDone

(* It holds at the start, and each statement keeps it. *)
LEMMA ProgramStarts == ASSUME ProgramConstants, ProgramInit PROVE ProgramIInv
<1>1. /\ main \in Mains /\ round = Round("Init", 0, 0) /\ next = 1 /\ fifo = <<>> /\ gpu = GX_Init
      /\ efb = [p \in Pixels(main) |-> [color |-> Garbage, format |-> "RGB8", z |-> -1, by |-> Nobody]]
      /\ buffer = Zeroed(main)
  BY DEF ProgramInit
<1>2. round.test = "Init" /\ round.scene = 0 /\ round.step = 0
  BY <1>1, RoundIs
<1>3. Shape
  <2>1. Sequence(fifo) /\ DOMAIN buffer = Pixels(main) /\ DOMAIN efb = Pixels(main)
    BY <1>1, Tuple0 DEF Zeroed
  <2>2. gpu = [x \in DOMAIN gpu |-> gpu[x]] /\ "viewport" \in DOMAIN gpu
    BY <1>1 DEF GX_Init
  <2>3. \A p \in DOMAIN efb :
           efb[p] = [color |-> efb[p].color, format |-> efb[p].format, z |-> efb[p].z, by |-> efb[p].by]
    BY <1>1
  <2> QED BY <2>1, <2>2, <2>3 DEF Shape
<1>4. RoundSound(round)
  <2>1. AllSound(Loops(main))
    BY <1>1, EveryLoop
  <2>2. Loops(main)[1] = Loop("Init", 0, {0}) /\ 1 \in 1 .. Len(Loops(main))
    <3>1. Loops(main)[1] = Loop("Init", 0, {0}) /\ Len(Loops(main)) \in Nat /\ Len(Loops(main)) >= 2
      BY <2>1 DEF AllSound
    <3> QED BY <3>1
  <2>3. Loops(main)[1].test = "Init" /\ Loops(main)[1].scene = 0 /\ 0 \in Loops(main)[1].steps
    BY <2>2, LoopIs
  <2> QED BY <1>1, <1>2, <2>2, <2>3 DEF RoundSound
<1>5. ViewportStands /\ Filling
  BY <1>1, <1>2 DEF ViewportStands, Filling, Stands, Filled
<1>6. ReadBack
  <2>1. TextSound(round)
    BY <1>1, <1>4, TextIs
  <2> SUFFICES ASSUME NEW n \in 1 .. Len(Program(round)), NEW p \in DOMAIN buffer, Reads(Program(round)[n], p)
               PROVE  ReadBackAt(Program(round), n, p)
    BY DEF ReadBack
  <2>2. n >= 4 /\ n \in Int
    BY <2>1 DEF TextSound, ReadsItsCopy
  <2> QED BY <1>1, <2>2 DEF ReadBackAt
<1> QED BY <1>1, <1>3, <1>4, <1>5, <1>6 DEF ProgramIInv

(* What the text's soundness says of the statement under way. *)
LEMMA StatementIs ==
    ASSUME ProgramConstants, ProgramIInv, ~Ended
    PROVE  LET t == Program(round)
           IN  /\ Sequence(t) /\ Len(t) \in Nat /\ next \in 1 .. Len(t) /\ Statement = t[next]
               /\ SendsWell(Statement, round, next)
               /\ Statement.op = "poke" => round.test = "FillEFB" /\ next = 3
               /\ round.test = "FillEFB" => Fills(t)
               /\ \A n \in 1 .. Len(t) : \A p : Reads(t[n], p) => ReadsItsCopy(t, round, n, p)
<1> DEFINE t == Program(round)
<1>1. TextSound(round)
  BY TextIs DEF ProgramIInv
<1>2. Sequence(t) /\ Len(t) \in Nat
  BY <1>1, Sizes DEF TextSound
<1>3. next \in 1 .. Len(t)
  BY <1>2 DEF Ended, ProgramIInv
<1> QED BY <1>1, <1>2, <1>3 DEF TextSound, Statement

(* A statement that sends: the copy it makes will be the one that is read. *)
LEMMA SendKeepsInvariant ==
    ASSUME ProgramConstants, ProgramIInv, SendCommands
    PROVE  ProgramIInv'
<1> DEFINE t == Program(round)
<1>1. /\ ~Ended /\ Statement.op = "send" /\ next' = next + 1 /\ main' = main /\ round' = round
      /\ efb' = efb /\ buffer' = buffer /\ gpu' = gpu
  BY DEF SendCommands, Step, Does
<1>2. /\ Sequence(t) /\ Len(t) \in Nat /\ next \in 1 .. Len(t) /\ Statement = t[next]
      /\ SendsWell(Statement, round, next)
      /\ round.test = "FillEFB" => Fills(t)
      /\ \A n \in 1 .. Len(t) : \A p : Reads(t[n], p) => ReadsItsCopy(t, round, n, p)
  BY <1>1, StatementIs
<1>3. /\ Shape /\ main \in Mains /\ RoundSound(round) /\ next \in Nat \ {0}
      /\ ViewportStands /\ Filling /\ ReadBack
  BY DEF ProgramIInv
<1>4. /\ Sequence(Statement.commands)
      /\ Filled(round) => \A i \in 1 .. Len(Statement.commands) : KeepsColors(Statement.commands[i])
      /\ Stands(round, next + 1) => \/ SetsViewport(Statement.commands, Standing(round))
                                    \/ Stands(round, next) /\ NoViewport(Statement.commands)
  BY <1>1, <1>2 DEF SendsWell
<1>5. Shape'
  <2>1. Sequence(fifo')
    BY <1>3, <1>4, SendAppends
  <2> QED BY <1>1, <1>3, <2>1 DEF Shape
<1>6. ViewportStands'
  <2> SUFFICES ASSUME Stands(round', next') PROVE InForce(Len(fifo) + 1, Standing(round))'
    BY DEF ViewportStands
  <2>1. PICK vp : vp = Standing(round)
    OBVIOUS
  <2>2. \/ InForce(Len(fifo) + 1, vp) /\ NoViewport(Statement.commands)
        \/ SetsViewport(Statement.commands, vp)
    BY <1>1, <1>3, <1>4, <2>1 DEF ViewportStands
  <2>3. InForce(Len(fifo) + 1, vp)'
    BY <1>3, <1>4, <2>2, SendKeepsForce
  <2> QED BY <1>1, <2>1, <2>3
<1>7. ASSUME NEW p PROVE /\ PaintDone(p) => PaintDone(p)'
                         /\ Painted(p) => Painted(p)'
                         /\ CopiedOwn(p) => CopiedOwn(p)'
  BY <1>3, <1>4, SendKeepsDone, SendKeepsCopied
<1>8. Filling'
  <2>1. round.test = "FillEFB" => next \notin {2, 3}
    BY <1>1, <1>2 DEF Fills
  <2>2. ASSUME Filled(round') \/ (round'.test = "FillEFB" /\ next' > 3), NEW p \in DOMAIN efb' PROVE PaintDone(p)'
    <3>1. Filled(round) \/ (round.test = "FillEFB" /\ next > 3)
      BY <1>1, <1>3, <2>1, <2>2
    <3> QED BY <1>1, <1>3, <1>7, <3>1 DEF Filling
  <2>3. ~(round'.test = "FillEFB" /\ next' = 3)
    BY <1>1, <1>3, <2>1
  <2> QED BY <2>2, <2>3 DEF Filling
<1>9. ReadBack'
  <2>1. Program(round)' = t
    BY <1>1 DEF Program
  <2> SUFFICES ASSUME NEW n \in 1 .. Len(t), NEW p \in DOMAIN buffer, Reads(t[n], p)
               PROVE  ReadBackAt(t, n, p)'
    BY <1>1, <2>1 DEF ReadBack
  <2>2. ReadsItsCopy(t, round, n, p) /\ ReadBackAt(t, n, p)
    BY <1>2, <1>3 DEF ReadBack
  <2>3. n >= 4 /\ t[n - 1].op = "wait" /\ t[n - 2].op = "send" /\ t[n - 3].op = "memset" /\ CopiesIn(t, round, n, p)
    BY <2>2 DEF ReadsItsCopy
  <2>4. next \notin {n - 1, n - 3}
    BY <1>1, <1>2, <2>3
  <2>5. CASE next = n - 4
    <3>1. Painted(p)' \/ Filled(round) \/ ~PaintsIn(t[n - 4].commands, p, round, n - 4)
      <4> SUFFICES ASSUME ~Filled(round), PaintsIn(t[n - 4].commands, p, round, n - 4) PROVE Painted(p)'
        OBVIOUS
      <4>1. PICK i : PaintsAt(Statement.commands, i, p, round, next)
        BY <1>2, <2>5 DEF PaintsIn
      <4>2. /\ Len(fifo) \in Nat /\ Len(Statement.commands) \in Nat /\ Len(fifo') = Len(fifo) + Len(Statement.commands)
        BY <1>3, <1>4, SendAppends
      <4>3. PICK m \in Nat : m = Len(fifo)
        BY <4>2
      <4>4. i \in 1 .. Len(Statement.commands) /\ PaintDue(m + i, p)'
        BY <1>3, <1>4, <4>1, <4>3, SendPaints DEF ViewportStands
      <4>5. m + i \in 1 .. Len(fifo')
        BY <4>2, <4>3, <4>4
      <4> QED BY <4>4, <4>5 DEF Painted
    <3>2. next' \notin {n - 1, n}
      BY <1>1, <1>2, <2>5
    <3> QED BY <1>1, <2>1, <3>1, <3>2 DEF ReadBackAt
  <2>6. CASE next = n - 2
    <3>1. PICK c \in 1 .. Len(Statement.commands) :
              /\ CopiesTo(Statement.commands[c], p)
              /\ \/ Filled(round)
                 \/ \E i \in 1 .. c - 1 : PaintsAt(Statement.commands, i, p, round, next)
                 \/ n >= 5 /\ t[n - 4].op = "send" /\ PaintsIn(t[n - 4].commands, p, round, n - 4)
      BY <1>2, <2>3, <2>6 DEF CopiesIn
    <3>2. Filled(round) => Painted(p)
      BY <1>3 DEF Filling, Painted, Shape
    <3>3. \/ Painted(p)
          \/ ~Filled(round) /\ \E i \in 1 .. c - 1 : PaintsAt(Statement.commands, i, p, round, next)
      BY <2>2, <2>6, <3>1, <3>2 DEF ReadBackAt
    <3>4. CopiedOwn(p)'
      BY <1>3, <1>4, <3>1, <3>3, SendCopies DEF ViewportStands
    <3>5. next' = n - 1
      BY <1>1, <1>2, <2>6
    <3> QED BY <3>4, <3>5 DEF ReadBackAt
  <2>7. CASE next \notin {n - 1, n - 2, n - 3, n - 4}
    <3>1. next' \notin {n - 3, n - 2, n - 1, n}
      BY <1>1, <1>2, <2>7
    <3> QED BY <3>1 DEF ReadBackAt
  <2> QED BY <2>4, <2>5, <2>6, <2>7
<1>10. main' \in Mains /\ RoundSound(round)' /\ next' \in Nat \ {0}
  BY <1>1, <1>3 DEF RoundSound
<1> QED BY <1>5, <1>6, <1>8, <1>9, <1>10 DEF ProgramIInv

(* A statement that sends nothing, and does not touch what the GPU has.*)
LEMMA OtherKeepsInvariant ==
    ASSUME ProgramConstants, ProgramIInv,
           \/ WaitForGpu
           \/ ZeroBuffer
           \/ Keep
           \/ Compare
    PROVE  ProgramIInv'
<1> DEFINE t == Program(round)
<1>1. /\ ~Ended /\ Statement.op \notin {"send", "poke"} /\ next' = next + 1 /\ main' = main /\ round' = round
      /\ fifo' = fifo /\ efb' = efb /\ gpu' = gpu
      /\ DOMAIN buffer = Pixels(main) => DOMAIN buffer' = Pixels(main)
      /\ Statement.op = "wait" => fifo = <<>>
      /\ Statement.op # "memset" => buffer' = buffer
  BY DEF WaitForGpu, ZeroBuffer, Keep, Compare, Step, Does, Zeroed
<1>2. /\ Sequence(t) /\ Len(t) \in Nat /\ next \in 1 .. Len(t) /\ Statement = t[next]
      /\ SendsWell(Statement, round, next)
      /\ round.test = "FillEFB" => Fills(t)
      /\ \A n \in 1 .. Len(t) : \A p : Reads(t[n], p) => ReadsItsCopy(t, round, n, p)
  BY <1>1, StatementIs
<1>3. /\ Shape /\ main \in Mains /\ RoundSound(round) /\ next \in Nat \ {0}
      /\ ViewportStands /\ Filling /\ ReadBack
  BY DEF ProgramIInv
<1>4. Shape'
  BY <1>1, <1>3 DEF Shape
<1>5. ViewportStands'
  <2>1. Stands(round, next + 1) => Stands(round, next)
    BY <1>1, <1>2 DEF SendsWell
  <2> QED BY <1>1, <1>3, <2>1 DEF ViewportStands, InForce
<1>6. \A p : (PaintDone(p) => PaintDone(p)') /\ (Painted(p) => Painted(p)')
  BY <1>1 DEF PaintDone, Painted, PaintDue, InForce, KeepsPaint
<1>7. Filling'
  <2>1. round.test = "FillEFB" => next # 3 /\ (next = 2 => fifo = <<>>)
    BY <1>1, <1>2 DEF Fills
  <2>2. ASSUME Filled(round') \/ (round'.test = "FillEFB" /\ next' > 3), NEW p \in DOMAIN efb' PROVE PaintDone(p)'
    <3>1. Filled(round) \/ (round.test = "FillEFB" /\ next > 3)
      BY <1>1, <1>3, <2>1, <2>2
    <3> QED BY <1>1, <1>3, <1>6, <3>1 DEF Filling
  <2>3. round'.test = "FillEFB" /\ next' = 3 => fifo' = <<>>
    BY <1>1, <1>3, <2>1
  <2> QED BY <2>2, <2>3 DEF Filling
<1>8. ReadBack'
  <2>1. Program(round)' = t
    BY <1>1 DEF Program
  <2>2. DOMAIN buffer' = DOMAIN buffer
    BY <1>1, <1>3 DEF Shape
  <2> SUFFICES ASSUME NEW n \in 1 .. Len(t), NEW p \in DOMAIN buffer, Reads(t[n], p)
               PROVE  ReadBackAt(t, n, p)'
    BY <1>1, <2>1, <2>2 DEF ReadBack
  <2>3. ReadsItsCopy(t, round, n, p) /\ ReadBackAt(t, n, p)
    BY <1>2, <1>3 DEF ReadBack
  <2>4. n >= 4 /\ t[n - 1].op = "wait" /\ t[n - 2].op = "send" /\ t[n - 3].op = "memset"
    BY <2>3 DEF ReadsItsCopy
  <2>5. next # n - 2
    BY <1>1, <1>2, <2>4
  <2>6. CASE next = n - 4
    <3>1. t[n - 4].op # "send" /\ next' \notin {n - 1, n}
      BY <1>1, <1>2, <2>6
    <3> QED BY <1>1, <2>1, <3>1 DEF ReadBackAt
  <2>7. CASE next = n - 3
    <3>1. next' = n - 2
      BY <1>1, <1>2, <2>7
    <3>2. ~Filled(round) /\ n >= 5 /\ t[n - 4].op = "send" /\ PaintsIn(t[n - 4].commands, p, round, n - 4) => Painted(p)'
      BY <1>6, <2>3, <2>7 DEF ReadBackAt
    <3> QED BY <1>1, <2>1, <3>1, <3>2 DEF ReadBackAt
  <2>8. CASE next = n - 1
    <3>1. next' = n /\ fifo = <<>> /\ buffer' = buffer
      BY <1>1, <1>2, <2>4, <2>8
    <3>2. CopiedOwn(p)
      BY <2>3, <2>8 DEF ReadBackAt
    <3>3. CopiedOwn(p)'
      BY <1>1, <1>6, <3>1, <3>2 DEF CopiedOwn, CopyDone, CopyDue, OwnCopies, PaintDone, PaintDue, InForce, KeepsPaint
    <3> QED BY <1>1, <3>1, <3>3 DEF ReadBackAt
  <2>9. CASE next \notin {n - 1, n - 2, n - 3, n - 4}
    <3>1. next' \notin {n - 3, n - 2, n - 1, n}
      BY <1>1, <1>2, <2>9
    <3> QED BY <3>1 DEF ReadBackAt
  <2> QED BY <2>5, <2>6, <2>7, <2>8, <2>9
<1>9. main' \in Mains /\ RoundSound(round)' /\ next' \in Nat \ {0}
  BY <1>1, <1>3 DEF RoundSound
<1> QED BY <1>4, <1>5, <1>7, <1>8, <1>9 DEF ProgramIInv

(* The fill's poke paints every pixel, and nothing is left to draw over them. *)
LEMMA PokeKeepsInvariant ==
    ASSUME ProgramConstants, ProgramIInv, Poke
    PROVE  ProgramIInv'
<1> DEFINE t == Program(round)
<1>1. /\ ~Ended /\ Statement.op = "poke" /\ next' = next + 1 /\ main' = main /\ round' = round
      /\ fifo' = fifo /\ gpu' = gpu /\ buffer' = buffer
      /\ efb' = [p \in DOMAIN efb |->
                    [efb[p] EXCEPT !.color = Kept(gpu.format, Statement.colors[p]), !.format = gpu.format, !.by = round]]
  BY DEF Poke, Step, Does
<1>2. /\ Sequence(t) /\ Len(t) \in Nat /\ next \in 1 .. Len(t) /\ Statement = t[next]
      /\ SendsWell(Statement, round, next)
      /\ round.test = "FillEFB" /\ next = 3
      /\ \A n \in 1 .. Len(t) : \A p : Reads(t[n], p) => ReadsItsCopy(t, round, n, p)
  BY <1>1, StatementIs
<1>3. /\ Shape /\ main \in Mains /\ RoundSound(round) /\ next \in Nat \ {0}
      /\ ViewportStands /\ Filling /\ ReadBack
  BY DEF ProgramIInv
<1>4. fifo = <<>> /\ round.test = "FillEFB" /\ next = 3 /\ next' = 4 /\ main' = main /\ round' = round
  <2>1. next = 3 /\ next' = next + 1 /\ round.test = "FillEFB" /\ main' = main /\ round' = round
    BY <1>1, <1>2
  <2>2. next' = 4
    BY <2>1
  <2> QED BY <1>3, <2>1, <2>2 DEF Filling
<1>5. ASSUME NEW p \in DOMAIN efb
      PROVE  /\ efb'[p].by = round
             /\ efb'[p] = [color |-> efb'[p].color, format |-> efb'[p].format, z |-> efb'[p].z, by |-> efb'[p].by]
  <2>1. efb[p] = [color |-> efb[p].color, format |-> efb[p].format, z |-> efb[p].z, by |-> efb[p].by]
    BY <1>3 DEF Shape
  <2>2. efb'[p] = [efb[p] EXCEPT !.color = Kept(gpu.format, Statement.colors[p]), !.format = gpu.format, !.by = round]
    BY <1>1
  <2> QED BY <2>1, <2>2
<1>6. DOMAIN efb' = DOMAIN efb
  BY <1>1
<1>7. Shape'
  BY <1>1, <1>3, <1>5, <1>6 DEF Shape
<1>8. ViewportStands'
  <2>1. ~Stands(round, 4)
    BY <1>4 DEF Stands
  <2> QED BY <1>4, <2>1 DEF ViewportStands
<1>9. Filling'
  <2>1. Painter(round) = round
    BY <1>4 DEF Painter, Filled
  <2>2. ASSUME NEW p \in DOMAIN efb' PROVE PaintDone(p)'
    <3>1. Len(fifo') = 0
      BY <1>1, <1>4, Tuple0
    <3>2. \A j \in 1 .. Len(fifo') : FALSE
      BY <3>1
    <3>3. Painter(round)' = round
      BY <1>4, <2>1 DEF Painter, Filled
    <3>4. efb'[p].by = round
      BY <1>5, <1>6
    <3> QED BY <3>2, <3>3, <3>4 DEF PaintDone
  <2>3. ~(next' = 3)
    BY <1>4
  <2> QED BY <2>2, <2>3 DEF Filling
<1>10. ReadBack'
  <2>1. Program(round)' = t
    BY <1>1 DEF Program
  <2> SUFFICES ASSUME NEW n \in 1 .. Len(t), NEW p \in DOMAIN buffer, Reads(t[n], p)
               PROVE  ReadBackAt(t, n, p)'
    BY <1>1, <2>1 DEF ReadBack
  <2>2. n >= 4 /\ t[n - 1].op = "wait" /\ t[n - 2].op = "send" /\ t[n - 3].op = "memset"
    BY <1>2 DEF ReadsItsCopy
  <2>3. t[next].op = "poke"
    BY <1>1, <1>2
  <2>4. next \notin {n - 1, n - 2, n - 3}
    BY <2>2, <2>3
  <2>5. CASE n = 7
    <3>1. t[n - 4].op # "send"
      BY <1>4, <2>3, <2>5
    <3>2. next' \notin {n - 1, n}
      BY <1>4, <2>5
    <3> QED BY <1>4, <2>1, <3>1, <3>2 DEF ReadBackAt
  <2>6. CASE n # 7
    <3>0. n \in Int /\ next = 3 /\ next' = 4
      BY <1>4
    <3>1. next' \notin {n - 3, n - 2, n - 1, n}
      BY <2>4, <2>6, <3>0
    <3> QED BY <3>1 DEF ReadBackAt
  <2> QED BY <2>5, <2>6
<1>11. main' \in Mains /\ RoundSound(round)' /\ next' \in Nat \ {0}
  BY <1>3, <1>4 DEF RoundSound
<1> QED BY <1>7, <1>8, <1>9, <1>10, <1>11 DEF ProgramIInv

(* A round ends with commands left in the fifo; the next one inherits them. *)
LEMMA NextRoundKeepsInvariant ==
    ASSUME ProgramConstants, ProgramIInv, NextRound
    PROVE  ProgramIInv'
<1> DEFINE t == Program(round)
<1>1. /\ Ended /\ round.test # "return" /\ round' \in After(round) /\ next' = 1
      /\ UNCHANGED <<main, fifo, gpu, efb, buffer>>
  BY DEF NextRound
<1>2. /\ Shape /\ main \in Mains /\ RoundSound(round) /\ next \in Nat \ {0}
      /\ ViewportStands /\ Filling /\ ReadBack
  BY DEF ProgramIInv
<1>3. /\ RoundSound(round')
      /\ Filled(round') => (Filled(round) \/ round.test = "FillEFB") /\ round'.scene = round.scene
      /\ round'.test = "TevCombinerTest" => round.test \in {"Init", "TevCombinerTest"}
      /\ round'.test = "CoordinatePrecisionTest" /\ round'.scene = 2 /\ round'.step = 1
            => round.test = "CoordinatePrecisionTest" /\ round.scene = 2
  BY <1>1, <1>2, AfterIs
<1>4. /\ TextSound(round) /\ Len(t) \in Nat /\ next > Len(t)
      /\ round.test = "FillEFB" => next > 3
      /\ round.test \in {"Init", "CoordinatePrecisionTest"} => next > 1
  <2>1. TextSound(round)
    BY <1>2, TextIs
  <2>2. Len(t) \in Nat /\ next > Len(t) /\ next \in Nat
    BY <1>1, <1>2, <2>1, Sizes DEF TextSound, Ended
  <2>3. round.test = "FillEFB" => Len(t) >= 3
    BY <2>1 DEF TextSound, Fills
  <2>4. round.test \in {"Init", "CoordinatePrecisionTest"} => Len(t) >= 1
    BY <2>1 DEF TextSound
  <2> QED BY <2>1, <2>2, <2>3, <2>4
<1>5. Shape'
  BY <1>1, <1>2 DEF Shape
<1>6. ViewportStands'
  <2> SUFFICES ASSUME Stands(round', 1) PROVE InForce(Len(fifo) + 1, Standing(round))'
    BY <1>1 DEF ViewportStands
  <2>1. Stands(round, next) /\ Standing(round') = Standing(round)
    <3>1. round.test \in {"Init", "CoordinatePrecisionTest"} => next > 1
      BY <1>4
    <3>2. CASE round'.test = "TevCombinerTest"
      BY <1>3, <3>1, <3>2 DEF Stands, Standing
    <3>3. CASE round'.test = "CoordinatePrecisionTest" /\ round'.scene = 2 /\ round'.step = 1
      BY <1>3, <3>1, <3>3 DEF Stands, Standing
    <3> QED BY <3>2, <3>3 DEF Stands
  <2>2. InForce(Len(fifo) + 1, Standing(round))
    BY <1>2, <2>1 DEF ViewportStands
  <2> QED BY <1>1, <2>1, <2>2 DEF InForce
<1>7. Filling'
  <2>1. ASSUME Filled(round'), NEW p \in DOMAIN efb PROVE PaintDone(p)'
    <3>1. Filled(round) \/ (round.test = "FillEFB" /\ next > 3)
      BY <1>3, <1>4, <2>1
    <3>2. Painter(round') = Painter(round)
      <4>1. round.test = "FillEFB" => round = Round("FillEFB", round.scene, 0)
        BY <1>2, RoundFacts
      <4> QED BY <1>3, <2>1, <3>1, <4>1 DEF Painter, Filled
    <3>3. PaintDone(p)
      BY <1>2, <3>1 DEF Filling
    <3> QED BY <1>1, <3>2, <3>3 DEF PaintDone, KeepsPaint
  <2> QED BY <1>1, <2>1 DEF Filling
<1>8. ReadBack'
  <2>1. TextSound(round')
    BY <1>2, <1>3, TextIs
  <2>2. Program(round)' = Program(round')
    BY <1>1 DEF Program
  <2> SUFFICES ASSUME NEW n \in 1 .. Len(Program(round')), NEW p \in DOMAIN buffer, Reads(Program(round')[n], p)
               PROVE  ReadBackAt(Program(round), n, p)'
    BY <1>1, <2>2 DEF ReadBack
  <2>3. n >= 4 /\ n \in Int
    BY <2>1 DEF TextSound, ReadsItsCopy
  <2>4. ~(n >= 5 /\ next' \in {n - 3, n - 2}) /\ next' \notin {n - 1, n}
    BY <1>1, <2>3
  <2> QED BY <2>4 DEF ReadBackAt
<1>9. main' \in Mains /\ RoundSound(round)' /\ next' \in Nat \ {0}
  BY <1>1, <1>2, <1>3 DEF RoundSound
<1> QED BY <1>5, <1>6, <1>7, <1>8, <1>9 DEF ProgramIInv

(* The program returns, and another begins with nothing sent. *)
LEMMA ReturnKeepsInvariant ==
    ASSUME ProgramConstants, ProgramIInv, Return
    PROVE  ProgramIInv'
<1> DEFINE r == Round("Init", 0, 0)
<1>1. /\ main' \in Mains /\ round' = r /\ next' = 1 /\ fifo' = <<>> /\ gpu' = GX_Init
      /\ efb' = [p \in Pixels(main') |-> [color |-> Garbage, format |-> "RGB8", z |-> -1, by |-> Nobody]]
      /\ buffer' = Zeroed(main')
  BY DEF Return
<1>2. r.test = "Init" /\ r.scene = 0 /\ r.step = 0
  BY RoundIs
<1>3. Shape'
  <2>1. Sequence(fifo') /\ DOMAIN buffer' = Pixels(main') /\ DOMAIN efb' = Pixels(main')
    BY <1>1, Tuple0 DEF Zeroed
  <2>2. gpu' = [x \in DOMAIN gpu' |-> gpu'[x]] /\ "viewport" \in DOMAIN gpu'
    BY <1>1 DEF GX_Init
  <2>3. \A p \in DOMAIN efb' :
           efb'[p] = [color |-> efb'[p].color, format |-> efb'[p].format, z |-> efb'[p].z, by |-> efb'[p].by]
    BY <1>1
  <2> QED BY <2>1, <2>2, <2>3 DEF Shape
<1>4. RoundSound(round)'
  <2>1. PICK m \in Mains : m = main'
    BY <1>1
  <2>2. AllSound(Loops(m))
    BY EveryLoop
  <2>3. Loops(m)[1] = Loop("Init", 0, {0}) /\ 1 \in 1 .. Len(Loops(m))
    <3>1. Loops(m)[1] = Loop("Init", 0, {0}) /\ Len(Loops(m)) \in Nat /\ Len(Loops(m)) >= 2
      BY <2>2 DEF AllSound
    <3> QED BY <3>1
  <2>4. Loops(m)[1].test = "Init" /\ Loops(m)[1].scene = 0 /\ 0 \in Loops(m)[1].steps
    BY <2>3, LoopIs
  <2>5. /\ r = Round(r.test, r.scene, r.step)
        /\ \E i \in 1 .. Len(Loops(m)) :
              Loops(m)[i].test = r.test /\ Loops(m)[i].scene = r.scene /\ r.step \in Loops(m)[i].steps
    BY <1>2, <2>3, <2>4
  <2> QED BY <1>1, <2>1, <2>5 DEF RoundSound
<1>5. (ViewportStands /\ Filling)'
  <2>1. ~Stands(r, 1) /\ ~Filled(r) /\ r.test # "FillEFB"
    BY <1>2 DEF Stands, Filled
  <2> QED BY <1>1, <2>1 DEF ViewportStands, Filling
<1>6. ReadBack'
  <2>1. PICK cs : Program(round)' = <<Send(cs)>>
    <3>1. Program(round)' = GXTest_Init
      BY <1>1, <1>2 DEF Program
    <3> QED BY <3>1 DEF GXTest_Init
  <2>2. Len(<<Send(cs)>>) = 1 /\ <<Send(cs)>>[1] = Send(cs)
    BY Tuple1
  <2>3. \A n \in 1 .. 1 : ~(n >= 5 /\ 1 \in {n - 3, n - 2}) /\ 1 # n - 1
    OBVIOUS
  <2>4. \A p : ~Reads(Send(cs), p)
    BY DEF Reads, Send
  <2> QED BY <1>1, <2>1, <2>2, <2>4 DEF ReadBack
<1> QED BY <1>1, <1>3, <1>4, <1>5, <1>6 DEF ProgramIInv

(* The GPU executes a command. *)
LEMMA GpuKeepsInvariant ==
    ASSUME ProgramConstants, ProgramIInv, GpuStep, Shape'
    PROVE  ProgramIInv'
<1>1. /\ Shape /\ main \in Mains /\ RoundSound(round) /\ next \in Nat \ {0}
      /\ ViewportStands /\ Filling /\ ReadBack
  BY DEF ProgramIInv
<1>2. /\ fifo # <<>> /\ main' = main /\ round' = round /\ next' = next
      /\ Len(fifo) \in Nat \ {0} /\ Len(fifo') = Len(fifo) - 1
  BY <1>1, StepShifts DEF GpuStep
<1>3. DOMAIN efb = DOMAIN efb' /\ DOMAIN buffer = DOMAIN buffer' /\ DOMAIN efb = DOMAIN buffer
  BY <1>1, <1>2 DEF Shape
<1>4. ViewportStands'
  <2> SUFFICES ASSUME Stands(round, next) PROVE InForce(Len(fifo) + 1, Standing(round))'
    BY <1>2 DEF ViewportStands
  <2>0. PICK vp : vp = Standing(round)
    OBVIOUS
  <2>1. PICK m \in Nat : m = Len(fifo) + 1
    BY <1>2
  <2>2. InForce(m, vp) /\ m \in 2 .. Len(fifo) + 1
    BY <1>1, <1>2, <2>0, <2>1 DEF ViewportStands
  <2>3. InForce(m - 1, vp)'
    BY <1>1, <2>2, StepKeepsForce
  <2>4. Len(fifo') + 1 = m - 1 /\ Standing(round') = vp
    BY <1>2, <2>0, <2>1
  <2> QED BY <1>2, <2>3, <2>4
<1>5. Filling'
  <2>1. ~(round'.test = "FillEFB" /\ next' = 3)
    BY <1>1, <1>2 DEF Filling
  <2>2. ASSUME Filled(round') \/ (round'.test = "FillEFB" /\ next' > 3), NEW p \in DOMAIN efb PROVE PaintDone(p)'
    BY <1>1, <1>2, <2>2, StepKeepsDone DEF Filling
  <2> QED BY <1>3, <2>1, <2>2 DEF Filling
<1>6. ReadBack'
  <2> DEFINE t == Program(round)
  <2>1. Program(round)' = t
    BY <1>2 DEF Program
  <2> SUFFICES ASSUME NEW n \in 1 .. Len(t), NEW p \in DOMAIN buffer, Reads(t[n], p)
               PROVE  ReadBackAt(t, n, p)'
    BY <1>3, <2>1 DEF ReadBack
  <2>2. ReadBackAt(t, n, p)
    BY <1>1 DEF ReadBack
  <2>3. (Painted(p) => Painted(p)') /\ (CopiedOwn(p) => CopiedOwn(p)')
    BY <1>1, <1>3, StepKeepsPainted, StepKeepsCopied
  <2> QED BY <1>2, <2>1, <2>2, <2>3 DEF ReadBackAt
<1>7. RoundSound(round)'
  BY <1>1, <1>2 DEF RoundSound
<1> QED BY <1>1, <1>2, <1>4, <1>5, <1>6, <1>7 DEF ProgramIInv

LEMMA ProgramKeeps == ASSUME ProgramConstants, ProgramIInv, [ProgramNext]_programVars PROVE ProgramIInv'
<1>1. CASE SendCommands
  BY <1>1, SendKeepsInvariant
<1>2. CASE WaitForGpu \/ ZeroBuffer \/ Keep \/ Compare
  BY <1>2, OtherKeepsInvariant
<1>3. CASE Poke
  BY <1>3, PokeKeepsInvariant
<1>4. CASE NextRound
  BY <1>4, NextRoundKeepsInvariant
<1>5. CASE Return
  BY <1>5, ReturnKeepsInvariant
<1>6. CASE ExecuteLoad \/ ExecuteDraw \/ ExecuteCopy
  <2>1. GpuStep /\ Shape'
    BY <1>6, LoadIsStep, DrawIsStep, CopyIsStep DEF ProgramIInv
  <2> QED BY <2>1, GpuKeepsInvariant
<1>7. CASE UNCHANGED programVars
  <2>1. UNCHANGED <<main, round, next, fifo, gpu, efb, buffer>>
    BY <1>7 DEF programVars
  <2>2. UNCHANGED <<Shape, ViewportStands, Filling>>
    BY <2>1 DEF Shape, ViewportStands, Filling, InForce, PaintDone, KeepsPaint
  <2>3. Program(round)' = Program(round)
    BY <2>1 DEF Program
  <2>4. \A t, n, p : ReadBackAt(t, n, p) => ReadBackAt(t, n, p)'
    BY <2>1 DEF ReadBackAt, Painted, PaintDone, PaintDue, KeepsPaint, InForce, CopiedOwn, CopyDone, CopyDue, OwnCopies
  <2>5. ReadBack'
    BY <2>1, <2>3, <2>4 DEF ReadBack, ProgramIInv
  <2>6. RoundSound(round)'
    BY <2>1 DEF RoundSound, ProgramIInv
  <2> QED BY <2>1, <2>2, <2>5, <2>6 DEF ProgramIInv
<1> QED BY <1>1, <1>2, <1>3, <1>4, <1>5, <1>6, <1>7 DEF ProgramNext

(* A test reads the copy it asked for, of what it drew itself, or what the last
   fill put there, never an earlier round's: for every program and all values of
   the loops' counters, however far the GPU lags behind (DO_TEST after
   CGX_WaitForGpuToFinish in all of gxtest). *)
THEOREM CopiesAreOwn == ProgramSpec => []ReadsOwn
<1>1. ProgramInit => ProgramIInv
  BY ProgramAssumption, ProgramStarts
<1>2. ProgramIInv /\ [ProgramNext]_programVars => ProgramIInv'
  BY ProgramAssumption, ProgramKeeps
<1>3. ProgramIInv => ReadsOwn
  BY ProgramAssumption, ReadsWhatItCopied
<1> QED BY <1>1, <1>2, <1>3, PTL DEF ProgramSpec
=============================================================================
