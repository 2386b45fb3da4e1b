--------------------------- MODULE IpcBuffersProofs ---------------------------
(***************************************************************************)
(* Proofs about IpcBuffers, for any number of commands and stores.           *)
(***************************************************************************)
EXTENDS IpcBuffers, TLAPS

(* What lies beside a buffer is in the line if it is cached, in memory unless  *)
(* the line is dirty, and in both, if not in the same version, once the line  *)
(* was flushed to be discarded.                                              *)
Beside ==
    \A l \in Lines :
        /\ settled[l] <= stored[l]
        /\ cache[l] # "absent" => cside[l] \in settled[l] .. stored[l]
        /\ cache[l] # "dirty" \/ ToDiscard(l) => side[l] \in settled[l] .. stored[l]

(* Nobody stores into the buffer that Read fills, but Write's caller; Read     *)
(* relies on it, since it does not flush.                                   *)
PageClean == cache["page"] = "dirty" => pc = "flush_in" /\ command = "Write"

(* The input is in the line or in memory, then in memory, then at IOS. *)
Sent ==
    LET i == Input[command]
    IN  i # "null" =>
        /\ pc = "flush_in" =>
               /\ cache[i] # "absent" => cbuf[i] = calls
               /\ cache[i] # "dirty" => buf[i] = calls
        /\ pc = "flush_out" \/ (pc = "wait" /\ ~ios) =>
               buf[i] = calls /\ (cache[i] # "absent" => cbuf[i] = calls)
        /\ pc \in {"wait", "invalidate_in", "invalidate_out", "use", "done"} /\ ios
               => received = calls

(* The output is in memory, and a dirty line that could be written over it     *)
(* holds the same, unless a store has crossed it.                            *)
Answered ==
    LET o == Output[command]
    IN  o # "null" /\ ~crossed =>
        /\ pc \in {"wait", "invalidate_in", "invalidate_out"} /\ cache[o] = "dirty"
               => cbuf[o] = calls
        /\ (pc = "wait" /\ ios) \/ pc \in {"invalidate_in", "invalidate_out", "use"}
               => buf[o] = calls
        /\ pc = "use" /\ cache[o] # "absent" => cbuf[o] = calls
        /\ pc = "done" => found = calls

IInv == TypeOK /\ Beside /\ PageClean /\ Sent /\ Answered

-----------------------------------------------------------------------------
(* The initial states satisfy the invariant. *)
LEMMA InitIInv == Init => IInv
<1> SUFFICES ASSUME Init PROVE IInv
  OBVIOUS
<1>1. Input[command] = "in" /\ Output[command] = "null" /\ command \in Commands
  BY DEF Init, Input, Output, Commands
<1>2. TypeOK
  <2>1. 0 \in Contents /\ Nothing \in [Lines -> Contents] /\ Nothing \in [Lines -> Stores]
    BY BuffersAssumption DEF Contents, Stores, Nothing
  <2>2. cache \in [Lines -> {"absent", "clean", "dirty"}]
    BY DEF Init
  <2> QED  BY <1>1, <2>1, <2>2 DEF Init, TypeOK
<1>3. Beside /\ PageClean
  BY DEF Init, Beside, PageClean, Nothing, Lines
<1>4. Sent /\ Answered
  BY <1>1 DEF Init, Sent, Answered
<1> QED  BY <1>2, <1>3, <1>4 DEF IInv

(* The buffers of a command. *)
LEMMA Buffers ==
    ASSUME command \in Commands
    PROVE  /\ Input[command] \in Lines \union {"null"}
           /\ Output[command] \in Lines \union {"null"}
           /\ Input[command] # "null" => Input[command] # Output[command]
           /\ Output[command] = "page" => command = "Read"
           /\ Input[command] = "page" <=> command = "Write"
           /\ Output[command] # "null" => command \in {"Read", "Ioctl"}
           /\ "null" \notin Lines
  BY DEF Commands, Input, Output, Lines

(* Every step keeps the invariant.  What a step may disturb is what it assigns; *)
(* the cache's own steps move a line's contents without changing them.       *)
LEMMA NextIInv == IInv /\ [Next]_vars => IInv'
<1> SUFFICES ASSUME IInv, [Next]_vars PROVE IInv'
  OBVIOUS
<1> USE BuffersAssumption DEF IInv, line, memory, stores, Stores
<1>b. /\ Input[command] \in Lines \union {"null"}
      /\ Output[command] \in Lines \union {"null"}
      /\ Input[command] # "null" => Input[command] # Output[command]
      /\ Output[command] = "page" => command = "Read"
      /\ Input[command] = "page" <=> command = "Write"
      /\ Output[command] # "null" => command \in {"Read", "Ioctl"}
      /\ "null" \notin Lines
  BY Buffers DEF TypeOK
<1>1. ASSUME NEW l \in Shared, StoreBeside(l) PROVE IInv'
  <2>1. l \in Lines /\ l # "page" /\ stored[l] \in Nat /\ stored[l] + 1 \in Nat
    BY BuffersAssumption DEF Shared, Lines, TypeOK
  <2>2. /\ stored' = [stored EXCEPT ![l] = stored[l] + 1] /\ stored[l] + 1 <= MaxStores
        /\ settled' = IF ToDiscard(l) THEN settled ELSE [settled EXCEPT ![l] = stored[l] + 1]
        /\ crossed' = (crossed \/ (l = Output[command] /\ ToDiscard(l) /\ Loaded(l, cbuf, buf) # calls))
        /\ cache' = [cache EXCEPT ![l] = "dirty"]
        /\ cbuf' = [cbuf EXCEPT ![l] = Loaded(l, cbuf, buf)]
        /\ cside' = [cside EXCEPT ![l] = stored[l] + 1]
        /\ UNCHANGED <<pc, command, calls, memory, ios, received, found>>
    BY <1>1 DEF StoreBeside
  <2>3. Loaded(l, cbuf, buf) \in Contents
    BY <2>1 DEF Loaded, TypeOK
  <2>4. TypeOK'
    BY <2>1, <2>2, <2>3 DEF TypeOK
  <2>5. Beside'
    <3> SUFFICES ASSUME NEW k \in Lines
                 PROVE  /\ settled'[k] <= stored'[k]
                        /\ cache'[k] # "absent" => cside'[k] \in settled'[k] .. stored'[k]
                        /\ cache'[k] # "dirty" \/ ToDiscard(k)' => side'[k] \in settled'[k] .. stored'[k]
      BY DEF Beside
    <3>1. ToDiscard(k)' <=> ToDiscard(k)
      BY <2>2 DEF ToDiscard, IsIoctl
    <3>2. CASE k # l
      BY <2>1, <2>2, <3>1, <3>2 DEF Beside, TypeOK
    <3>3. CASE k = l
      <4>1. settled[l] <= stored[l] /\ settled[l] \in Nat /\ side[l] \in Nat
        BY <2>1 DEF Beside, TypeOK
      <4>2. stored'[l] = stored[l] + 1 /\ cside'[l] = stored[l] + 1 /\ cache'[l] = "dirty"
        BY <2>1, <2>2 DEF TypeOK
      <4>3. CASE ToDiscard(l)
        BY <2>1, <2>2, <3>1, <3>3, <4>1, <4>2, <4>3 DEF Beside
      <4>4. CASE ~ToDiscard(l)
        <5>1. settled'[l] = stored[l] + 1
          BY <2>1, <2>2, <4>4 DEF TypeOK
        <5> QED  BY <2>1, <3>1, <3>3, <4>2, <4>4, <5>1
      <4> QED  BY <4>3, <4>4
    <3> QED  BY <3>2, <3>3
  <2>6. PageClean'
    BY <2>1, <2>2 DEF PageClean, TypeOK
  <2>7. Sent'
    BY <1>b, <2>1, <2>2 DEF Sent, Loaded, TypeOK
  <2>8. Answered'
    <3>1. CASE Output[command] # l
      BY <2>1, <2>2, <3>1 DEF Answered, TypeOK
    <3>2. CASE Output[command] = l
      <4>1. command = "Ioctl"
        BY <1>b, <2>1, <3>2 DEF Commands, Output
      <4>2. pc \in {"wait", "invalidate_in", "invalidate_out"} => ToDiscard(l)
        BY <3>2, <4>1 DEF ToDiscard, IsIoctl
      <4>3. cbuf'[l] = Loaded(l, cbuf, buf) /\ cache'[l] = "dirty"
        BY <2>1, <2>2 DEF TypeOK
      <4> QED  BY <2>1, <2>2, <3>2, <4>2, <4>3 DEF Answered, Loaded
    <3> QED  BY <3>1, <3>2
  <2> QED  BY <2>4, <2>5, <2>6, <2>7, <2>8
<1>2. ASSUME NEW c \in Commands, Issue(c) PROVE IInv'
  <2>1. /\ Input[c] \in Lines \union {"null"} /\ Output[c] \in Lines \union {"null"}
        /\ "page" \in ({Input[c]} \union (IF c = "Read" THEN {} ELSE {Output[c]})) <=> c = "Write"
    BY DEF Commands, Input, Output, Lines
  <2>2. TypeOK'
    <3>1. calls \in Contents /\ calls + 1 \in Contents
      BY <1>2 DEF Issue, TypeOK, Contents
    <3>2. cache' \in [Lines -> {"absent", "clean", "dirty"}]
      BY <1>2 DEF Issue, TypeOK
    <3>3. cbuf' \in [Lines -> Contents]
      BY <1>2, <3>1 DEF Issue, TypeOK, Loaded
    <3>4. cside' \in [Lines -> Stores]
      BY <1>2 DEF Issue, TypeOK, Loaded
    <3> QED  BY <1>2, <3>1, <3>2, <3>3, <3>4 DEF Issue, At, TypeOK
  <2>3. \A l \in Lines : ~ToDiscard(l)'
    BY <1>2 DEF Issue, At, ToDiscard
  <2>4. Beside'
    BY <1>2, <2>1, <2>3 DEF Issue, TypeOK, Beside, Loaded
  <2>5. PageClean'
    BY <1>2, <2>1 DEF Issue, At, TypeOK, PageClean, Lines
  <2>6. Sent' /\ Answered'
    BY <1>2, <2>1 DEF Issue, At, TypeOK, Sent, Answered, Loaded, Contents
  <2> QED  BY <2>2, <2>4, <2>5, <2>6
<1>3. CASE FlushIn
  <2>1. TypeOK'
    BY <1>3, <1>b DEF FlushIn, At, sync_after_write, WriteBack, TypeOK
  <2>2. \A l \in Lines : ToDiscard(l)' => l = Input[command]
    BY <1>3 DEF FlushIn, At, ToDiscard, IsIoctl
  <2>3. Beside'
    BY <1>3, <1>b, <2>2 DEF FlushIn, sync_after_write, WriteBack, TypeOK, Beside
  <2>4. PageClean'
    BY <1>3, <1>b DEF FlushIn, At, sync_after_write, TypeOK, PageClean, Lines
  <2>5. Sent' /\ Answered'
    BY <1>3, <1>b DEF FlushIn, At, sync_after_write, WriteBack, TypeOK, Sent, Answered
  <2> QED  BY <2>1, <2>3, <2>4, <2>5
<1>4. CASE FlushOut
  <2>1. PICK o \in Lines \union {"null"} :
            o = (IF IsIoctl THEN Output[command] ELSE "null") /\ sync_after_write(o)
    BY <1>4, <1>b DEF FlushOut
  <2>2. TypeOK'
    <3>1. CASE o = "null"
      BY <1>4, <2>1, <3>1 DEF FlushOut, At, sync_after_write, TypeOK
    <3>2. CASE o \in Lines
      BY <1>4, <1>b, <2>1, <3>2 DEF FlushOut, At, sync_after_write, WriteBack, TypeOK
    <3> QED  BY <3>1, <3>2
  <2>3. \A l \in Lines : ToDiscard(l)' => ToDiscard(l) \/ l = o
    BY <1>4, <2>1 DEF FlushOut, At, ToDiscard, IsIoctl
  <2>4. Beside'
    <3>1. CASE o = "null"
      BY <1>4, <1>b, <2>1, <2>3, <3>1 DEF FlushOut, sync_after_write, Beside
    <3>2. CASE o \in Lines
      BY <1>4, <1>b, <2>1, <2>3, <3>2 DEF FlushOut, sync_after_write, WriteBack, TypeOK, Beside
    <3> QED  BY <3>1, <3>2
  <2>5. PageClean'
    BY <1>4, <1>b, <2>1 DEF FlushOut, At, sync_after_write, TypeOK, PageClean, Lines
  <2>6. ASSUME Output[command] # "null" PROVE cache'[Output[command]] # "dirty"
    <3>1. CASE command = "Read"
      BY <1>4, <1>b, <2>1, <2>5, <2>6, <3>1 DEF FlushOut, At, PageClean, Output
    <3>2. CASE command = "Ioctl"
      BY <1>4, <1>b, <2>1, <2>6, <3>2 DEF sync_after_write, IsIoctl, TypeOK
    <3> QED  BY <1>b, <2>6, <3>1, <3>2
  <2>7. Sent'
    BY <1>4, <1>b DEF FlushOut, At, sync_after_write, WriteBack, TypeOK, Sent
  <2>8. Answered'
    BY <1>4, <1>b, <2>6 DEF FlushOut, At, TypeOK, Answered
  <2> QED  BY <2>2, <2>4, <2>5, <2>7, <2>8
<1>5. CASE SendRequest
  <2>1. \A l \in Lines : ToDiscard(l)' <=> ToDiscard(l)
    BY <1>5 DEF SendRequest, At, ToDiscard, IsIoctl
  <2> QED  BY <1>5, <2>1 DEF SendRequest, At, TypeOK, Beside, PageClean, Sent, Answered
<1>6. CASE InvalidateIn
  <2>1. PICK o \in Lines \union {"null"} :
            o = (IF IsIoctl THEN Input[command] ELSE "null") /\ sync_before_read(o)
    BY <1>6, <1>b DEF InvalidateIn
  <2>2. TypeOK'
    BY <1>6, <2>1 DEF InvalidateIn, At, sync_before_read, TypeOK
  <2>3. (o # "null" => ToDiscard(o)) /\ \A l \in Lines : ToDiscard(l)' => ToDiscard(l)
    BY <1>6, <2>1 DEF InvalidateIn, At, ToDiscard, IsIoctl
  <2>4. Beside'
    BY <1>6, <1>b, <2>1, <2>3 DEF InvalidateIn, sync_before_read, TypeOK, Beside
  <2>5. PageClean'
    BY <1>6, <2>1 DEF InvalidateIn, At, sync_before_read, TypeOK, PageClean, Lines
  <2>6. Sent' /\ Answered'
    BY <1>6, <1>b DEF InvalidateIn, At, sync_before_read, TypeOK, Sent, Answered
  <2> QED  BY <2>2, <2>4, <2>5, <2>6
<1>7. CASE InvalidateOut
  <2>1. PICK o \in Lines \union {"null"} : o = Output[command] /\ sync_before_read(o)
    BY <1>7, <1>b DEF InvalidateOut
  <2>2. TypeOK'
    BY <1>7, <2>1 DEF InvalidateOut, At, sync_before_read, TypeOK
  <2>3. o # "null" => cache[o] # "dirty" \/ ToDiscard(o)
    <3>1. CASE command = "Read"
      BY <1>7, <2>1, <3>1 DEF InvalidateOut, At, PageClean, Output
    <3>2. CASE command = "Ioctl"
      BY <1>7, <2>1, <3>2 DEF InvalidateOut, At, ToDiscard, IsIoctl
    <3> QED  BY <1>b, <2>1, <3>1, <3>2
  <2>4. \A l \in Lines : ~ToDiscard(l)'
    BY <1>7 DEF InvalidateOut, At, ToDiscard
  <2>5. Beside'
    BY <1>7, <1>b, <2>1, <2>3, <2>4 DEF InvalidateOut, sync_before_read, TypeOK, Beside
  <2>6. PageClean'
    BY <1>7, <2>1 DEF InvalidateOut, At, sync_before_read, TypeOK, PageClean, Lines
  <2>7. Sent' /\ Answered'
    BY <1>7, <1>b DEF InvalidateOut, At, sync_before_read, TypeOK, Sent, Answered
  <2> QED  BY <2>2, <2>5, <2>6, <2>7
<1>8. CASE Use
  <2>1. \A l \in Lines : ~ToDiscard(l)'
    BY <1>8 DEF Use, At, ToDiscard
  <2> QED  BY <1>8, <1>b, <2>1 DEF Use, At, TypeOK, Beside, PageClean, Sent, Answered, Loaded
<1>9. CASE NextCall
  <2>1. \A l \in Lines : ~ToDiscard(l)'
    BY <1>9 DEF NextCall, At, ToDiscard
  <2> QED  BY <1>9, <2>1 DEF NextCall, At, TypeOK, Beside, PageClean, Sent, Answered
<1>c. ASSUME UNCHANGED <<pc, command>>, NEW l \in Lines PROVE ToDiscard(l)' <=> ToDiscard(l)
  BY <1>c DEF ToDiscard, IsIoctl
<1>10. CASE Execute
  <2>1. \A l \in Lines : ToDiscard(l)' <=> ToDiscard(l)
    BY <1>10, <1>c DEF Execute
  <2>2. TypeOK' /\ Beside' /\ PageClean'
    BY <1>10, <1>b, <2>1 DEF Execute, TypeOK, Beside, PageClean, Contents
  <2>3. Sent' /\ Answered'
    BY <1>10, <1>b DEF Execute, TypeOK, Sent, Answered, Contents
  <2> QED  BY <2>2, <2>3
<1>11. ASSUME NEW l \in Lines, Evict(l) PROVE IInv'
  <2>1. \A k \in Lines : ToDiscard(k)' <=> ToDiscard(k)
    BY <1>11, <1>c DEF Evict
  <2>2. TypeOK' /\ Beside' /\ PageClean'
    BY <1>11, <2>1 DEF Evict, WriteBack, TypeOK, Beside, PageClean
  <2>3. Sent' /\ Answered'
    BY <1>11, <1>b DEF Evict, WriteBack, TypeOK, Sent, Answered
  <2> QED  BY <2>2, <2>3
<1>12. ASSUME NEW l \in Lines, Fetch(l) PROVE IInv'
  <2>1. \A k \in Lines : ToDiscard(k)' <=> ToDiscard(k)
    BY <1>12, <1>c DEF Fetch
  <2>2. TypeOK' /\ Beside' /\ PageClean'
    BY <1>12, <2>1 DEF Fetch, TypeOK, Beside, PageClean
  <2>3. Sent' /\ Answered'
    BY <1>12, <1>b DEF Fetch, TypeOK, Sent, Answered
  <2> QED  BY <2>2, <2>3
<1>13. CASE UNCHANGED vars
  <2>1. \A k \in Lines : ToDiscard(k)' <=> ToDiscard(k)
    BY <1>13, <1>c DEF vars
  <2> QED  BY <1>13, <2>1 DEF vars, TypeOK, Beside, PageClean, Sent, Answered
<1> QED
  BY <1>1, <1>2, <1>3, <1>4, <1>5, <1>6, <1>7, <1>8, <1>9, <1>10, <1>11, <1>12, <1>13 DEF Next

(* The invariant holds in every reachable state. *)
THEOREM Invariance == Spec => []IInv
  BY InitIInv, NextIInv, PTL DEF Spec

-----------------------------------------------------------------------------
(* Every variable keeps its type (the commands of ipc.cpp). *)
THEOREM TypeCorrect == Spec => []TypeOK
<1>1. IInv => TypeOK
  BY DEF IInv
<1> QED  BY <1>1, Invariance, PTL

(* IOS always works on the input of the command that is under way. *)
THEOREM InputReachesIOS == Spec => []InputArrives
<1>1. IInv => InputArrives
  BY DEF IInv, Sent, InputArrives
<1> QED  BY <1>1, Invariance, PTL

(* The caller always finds the output of its own command, unless a store beside *)
(* it crosses the answer.                                                    *)
THEOREM OutputReachesCaller == Spec => []OutputArrives
<1>1. IInv => OutputArrives
  BY DEF IInv, Answered, OutputArrives
<1> QED  BY <1>1, Invariance, PTL

(* Whatever is stored beside the buffers, and whenever: only what is stored     *)
(* between an ioctl's flush of a line and its dcbi can be lost.              *)
THEOREM NeighboursSafe == Spec => []NeighboursKept
<1>1. IInv => NeighboursKept
  BY DEF IInv, Beside, NeighboursKept, Loaded
<1> QED  BY <1>1, Invariance, PTL

=============================================================================
