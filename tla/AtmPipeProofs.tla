--------------------------- MODULE AtmPipeProofs ---------------------------
(***************************************************************************)
(* Proofs about the notify pipe, for any number of threads, any capacity   *)
(* of the kernel's pipe and any number of notifications: no wakeup is      *)
(* lost, and the pipe implements the abstract mailbox.                     *)
(***************************************************************************)
EXTENDS AtmPipe, SequenceTheorems, TLAPS

(* The invariant holds of a new pipe.                                      *)
LEMMA PipeInitInv == Init => PipeInv
<1> SUFFICES ASSUME Init PROVE PipeInv
  OBVIOUS
<1> USE ThreadsAssumption, PipeCapAssumption, MaxNotifyAssumption
<1>1. TypeOK
  <2>1. mqueue \in Seq(Messages) /\ delivered \in Seq(Messages)
    BY DEF Init
  <2>2. /\ pc \in [Threads -> {"base"} \cup NotifyPCs \cup RecvPCs]
        /\ \A w \in Workers : pc[w] \notin RecvPCs
    BY DEF Init, Threads, RecvPCs
  <2>3. /\ sent \in [Threads -> 0 .. MaxNotify]
        /\ mqlock \in Threads \cup {NoThread}
        /\ bytes \in 0 .. PipeCap
    BY DEF Init
  <2>4. edge \in BOOLEAN /\ fired \in BOOLEAN /\ processed \in BOOLEAN
    BY DEF Init
  <2>5. QED
    BY <2>1, <2>2, <2>3, <2>4 DEF TypeOK
<1>2. MessageInHand /\ LockDiscipline
  BY DEF Init, MessageInHand, LockDiscipline, Threads, NotifyPCs
<1>3. BatchConsumed /\ NoEmptyWakeup /\ ByteAnnounced /\ FlushIsSafe /\ NoLostMessage
  BY DEF Init, BatchConsumed, NoEmptyWakeup, ByteAnnounced, FlushIsSafe, NoLostMessage,
     Threads, RecvPCs
<1>4. QED
  BY <1>1, <1>2, <1>3 DEF PipeInv

(* Every step of atm_pipe_notify and atm_pip_handle_recv preserves it.     *)
LEMMA PipeStepInv == PipeInv /\ [Next]_vars => PipeInv'
<1> SUFFICES ASSUME PipeInv, [Next]_vars
             PROVE  PipeInv'
  OBVIOUS
<1> USE ThreadsAssumption, PipeCapAssumption, MaxNotifyAssumption DEF GoTo
<1>0. /\ TypeOK /\ MessageInHand /\ BatchConsumed /\ LockDiscipline /\ NoEmptyWakeup
      /\ ByteAnnounced /\ FlushIsSafe /\ NoLostMessage
  BY DEF PipeInv
<1>1. ASSUME NEW t \in Threads, NotifyCall(t) PROVE PipeInv'
  <2>1. TypeOK'
    BY <1>1, <1>0 DEF NotifyCall, TypeOK, MessageInHand, Threads, NotifyPCs, RecvPCs, Messages
  <2>2. MessageInHand'
    BY <1>1, <1>0 DEF NotifyCall, TypeOK, MessageInHand, Threads, NotifyPCs
  <2>3. LockDiscipline'
    BY <1>1, <1>0 DEF NotifyCall, TypeOK, LockDiscipline, Threads
  <2>4. BatchConsumed' /\ NoEmptyWakeup' /\ ByteAnnounced'
    BY <1>1, <1>0 DEF NotifyCall, TypeOK, BatchConsumed, NoEmptyWakeup, ByteAnnounced,
       Threads, RecvPCs
  <2>5. FlushIsSafe' /\ NoLostMessage'
    BY <1>1, <1>0 DEF NotifyCall, TypeOK, LockDiscipline, NoEmptyWakeup, ByteAnnounced,
       FlushIsSafe, NoLostMessage, WakeupPending, Threads
  <2>6. QED
    BY <2>1, <2>2, <2>3, <2>4, <2>5 DEF PipeInv
<1>2. ASSUME NEW t \in Threads, NotifyLock(t) PROVE PipeInv'
  <2>1. TypeOK'
    BY <1>2, <1>0 DEF NotifyLock, Acquire, TypeOK, MessageInHand, Threads, NotifyPCs, RecvPCs, Messages
  <2>2. MessageInHand'
    BY <1>2, <1>0 DEF NotifyLock, Acquire, TypeOK, MessageInHand, Threads, NotifyPCs
  <2>3. LockDiscipline'
    BY <1>2, <1>0 DEF NotifyLock, Acquire, TypeOK, LockDiscipline, Threads
  <2>4. BatchConsumed' /\ NoEmptyWakeup' /\ ByteAnnounced'
    BY <1>2, <1>0 DEF NotifyLock, Acquire, TypeOK, BatchConsumed, NoEmptyWakeup, ByteAnnounced,
       Threads, RecvPCs
  <2>5. FlushIsSafe' /\ NoLostMessage'
    BY <1>2, <1>0 DEF NotifyLock, Acquire, TypeOK, LockDiscipline, NoEmptyWakeup, ByteAnnounced,
       FlushIsSafe, NoLostMessage, WakeupPending, Threads
  <2>6. QED
    BY <2>1, <2>2, <2>3, <2>4, <2>5 DEF PipeInv
<1>3. ASSUME NEW t \in Threads, NotifyPush(t) PROVE PipeInv'
  <2>1. TypeOK'
    BY <1>3, <1>0 DEF NotifyPush, TypeOK, MessageInHand, Threads, NotifyPCs, RecvPCs, Messages
  <2>2. MessageInHand'
    BY <1>3, <1>0 DEF NotifyPush, TypeOK, MessageInHand, Threads, NotifyPCs
  <2>3. LockDiscipline'
    BY <1>3, <1>0 DEF NotifyPush, TypeOK, LockDiscipline, Threads
  <2>4. BatchConsumed' /\ NoEmptyWakeup' /\ ByteAnnounced'
    BY <1>3, <1>0 DEF NotifyPush, TypeOK, BatchConsumed, NoEmptyWakeup, ByteAnnounced,
       Threads, RecvPCs
  <2>5. FlushIsSafe' /\ NoLostMessage'
    BY <1>3, <1>0 DEF NotifyPush, TypeOK, LockDiscipline, NoEmptyWakeup, ByteAnnounced,
       FlushIsSafe, NoLostMessage, WakeupPending, Threads
  <2>6. QED
    BY <2>1, <2>2, <2>3, <2>4, <2>5 DEF PipeInv
<1>4. ASSUME NEW t \in Threads, NotifyUnlock(t) PROVE PipeInv'
  <2>1. TypeOK'
    BY <1>4, <1>0 DEF NotifyUnlock, Release, TypeOK, MessageInHand, Threads, NotifyPCs, RecvPCs, Messages
  <2>2. MessageInHand'
    BY <1>4, <1>0 DEF NotifyUnlock, Release, TypeOK, MessageInHand, Threads, NotifyPCs
  <2>3. LockDiscipline'
    BY <1>4, <1>0 DEF NotifyUnlock, Release, TypeOK, LockDiscipline, Threads
  <2>4. BatchConsumed' /\ NoEmptyWakeup' /\ ByteAnnounced'
    BY <1>4, <1>0 DEF NotifyUnlock, Release, TypeOK, BatchConsumed, NoEmptyWakeup, ByteAnnounced,
       Threads, RecvPCs
  <2>5. FlushIsSafe' /\ NoLostMessage'
    BY <1>4, <1>0 DEF NotifyUnlock, Release, TypeOK, LockDiscipline, NoEmptyWakeup, ByteAnnounced,
       FlushIsSafe, NoLostMessage, WakeupPending, Threads
  <2>6. QED
    BY <2>1, <2>2, <2>3, <2>4, <2>5 DEF PipeInv
<1>5. ASSUME NEW t \in Threads, NotifyWrite(t) PROVE PipeInv'
  <2> USE DEF NotifyWrite
  <2>1. /\ bytes' \in 0 .. PipeCap /\ edge' \in BOOLEAN /\ bytes' > 0
        /\ (bytes = 0 => edge') /\ (edge => edge') /\ (bytes > 0 => bytes' >= bytes)
    <3>0. bytes \in 0 .. PipeCap /\ edge \in BOOLEAN
      BY <1>0 DEF TypeOK
    <3>1. CASE bytes < PipeCap
      <4>1. bytes' = bytes + 1 /\ edge' \in {edge, TRUE} /\ (bytes = 0 => edge')
        <5>1. bytes # PipeCap
          BY <3>0, <3>1
        <5>2. QED
          BY <1>5, <5>1, Zenon DEF PipeWrite
      <4>2. edge' \in BOOLEAN /\ (edge => edge')
        BY <4>1, <3>0
      <4>3. QED
        BY <3>0, <3>1, <4>1, <4>2
    <3>2. CASE bytes = PipeCap
      <4>1. bytes' = bytes /\ edge' = edge
        <5>1. ~ (bytes < PipeCap)
          BY <3>0, <3>2
        <5>2. QED
          BY <1>5, <5>1, Zenon DEF PipeWrite
      <4>2. QED
        BY <3>0, <3>2, <4>1
    <3>3. QED
      BY <1>0, <3>1, <3>2 DEF TypeOK
  <2>2. TypeOK'
    BY <1>5, <1>0, <2>1 DEF TypeOK, Threads, NotifyPCs, RecvPCs
  <2>3. MessageInHand'
    BY <1>5, <1>0 DEF TypeOK, MessageInHand, Threads, NotifyPCs
  <2>4. LockDiscipline'
    BY <1>5, <1>0 DEF TypeOK, LockDiscipline, Threads
  <2>5. BatchConsumed' /\ NoEmptyWakeup'
    BY <1>5, <1>0, <2>1 DEF TypeOK, BatchConsumed, NoEmptyWakeup, Threads, RecvPCs
  <2>6. ByteAnnounced'
    <3>1. CASE bytes = 0
      BY <3>1, <2>1 DEF ByteAnnounced
    <3>2. CASE bytes > 0
      BY <1>5, <1>0, <2>1, <3>2 DEF TypeOK, ByteAnnounced, Threads
    <3>3. QED
      BY <1>0, <3>1, <3>2 DEF TypeOK
  <2>7. FlushIsSafe'
    BY <1>5, <1>0 DEF TypeOK, FlushIsSafe, Threads
  <2>8. NoLostMessage'
    BY <2>1, <2>2, <2>6, <2>7 DEF TypeOK, ByteAnnounced, FlushIsSafe, NoLostMessage, WakeupPending
  <2>9. QED
    BY <2>2, <2>3, <2>4, <2>5, <2>6, <2>7, <2>8 DEF PipeInv
<1>6. CASE EpollWait
  <2>1. TypeOK'
    BY <1>6, <1>0 DEF EpollWait, TypeOK, MessageInHand, Threads, NotifyPCs, RecvPCs, Messages
  <2>2. MessageInHand'
    BY <1>6, <1>0 DEF EpollWait, TypeOK, MessageInHand, Threads, NotifyPCs
  <2>3. LockDiscipline'
    BY <1>6, <1>0 DEF EpollWait, TypeOK, LockDiscipline, Threads
  <2>4. BatchConsumed' /\ NoEmptyWakeup' /\ ByteAnnounced'
    BY <1>6, <1>0 DEF EpollWait, TypeOK, BatchConsumed, NoEmptyWakeup, ByteAnnounced,
       Threads, RecvPCs
  <2>5. FlushIsSafe' /\ NoLostMessage'
    BY <1>6, <1>0 DEF EpollWait, TypeOK, LockDiscipline, NoEmptyWakeup, ByteAnnounced,
       FlushIsSafe, NoLostMessage, WakeupPending, Threads
  <2>6. QED
    BY <2>1, <2>2, <2>3, <2>4, <2>5 DEF PipeInv
<1>7. CASE RecvCall
  <2>1. TypeOK'
    BY <1>7, <1>0 DEF RecvCall, TypeOK, MessageInHand, Threads, NotifyPCs, RecvPCs, Messages
  <2>2. MessageInHand'
    BY <1>7, <1>0 DEF RecvCall, TypeOK, MessageInHand, Threads, NotifyPCs
  <2>3. LockDiscipline'
    BY <1>7, <1>0 DEF RecvCall, TypeOK, LockDiscipline, Threads
  <2>4. BatchConsumed' /\ NoEmptyWakeup' /\ ByteAnnounced'
    BY <1>7, <1>0 DEF RecvCall, TypeOK, BatchConsumed, NoEmptyWakeup, ByteAnnounced,
       Threads, RecvPCs
  <2>5. FlushIsSafe' /\ NoLostMessage'
    BY <1>7, <1>0 DEF RecvCall, TypeOK, LockDiscipline, NoEmptyWakeup, ByteAnnounced,
       FlushIsSafe, NoLostMessage, WakeupPending, Threads
  <2>6. QED
    BY <2>1, <2>2, <2>3, <2>4, <2>5 DEF PipeInv
<1>8. CASE RecvLock
  <2>1. TypeOK'
    BY <1>8, <1>0 DEF RecvLock, Acquire, TypeOK, MessageInHand, Threads, NotifyPCs, RecvPCs, Messages
  <2>2. MessageInHand'
    BY <1>8, <1>0 DEF RecvLock, Acquire, TypeOK, MessageInHand, Threads, NotifyPCs
  <2>3. LockDiscipline'
    BY <1>8, <1>0 DEF RecvLock, Acquire, TypeOK, BatchConsumed, LockDiscipline, Threads
  <2>4. BatchConsumed' /\ NoEmptyWakeup' /\ ByteAnnounced'
    BY <1>8, <1>0 DEF RecvLock, Acquire, TypeOK, BatchConsumed, NoEmptyWakeup, ByteAnnounced,
       Threads, RecvPCs
  <2>5. FlushIsSafe' /\ NoLostMessage'
    BY <1>8, <1>0 DEF RecvLock, Acquire, TypeOK, BatchConsumed, LockDiscipline, NoEmptyWakeup, ByteAnnounced,
       FlushIsSafe, NoLostMessage, WakeupPending, Threads
  <2>6. QED
    BY <2>1, <2>2, <2>3, <2>4, <2>5 DEF PipeInv
<1>9. CASE RecvRead
  <2>1. TypeOK'
    BY <1>9, <1>0 DEF RecvRead, TypeOK, MessageInHand, Threads, NotifyPCs, RecvPCs, Messages
  <2>2. MessageInHand'
    BY <1>9, <1>0 DEF RecvRead, TypeOK, MessageInHand, Threads, NotifyPCs
  <2>3. LockDiscipline'
    BY <1>9, <1>0 DEF RecvRead, TypeOK, LockDiscipline, Threads
  <2>4. BatchConsumed' /\ NoEmptyWakeup' /\ ByteAnnounced'
    BY <1>9, <1>0 DEF RecvRead, TypeOK, BatchConsumed, NoEmptyWakeup, ByteAnnounced,
       Threads, RecvPCs
  <2>5. FlushIsSafe' /\ NoLostMessage'
    BY <1>9, <1>0 DEF RecvRead, TypeOK, LockDiscipline, NoEmptyWakeup, ByteAnnounced,
       FlushIsSafe, NoLostMessage, WakeupPending, Threads
  <2>6. QED
    BY <2>1, <2>2, <2>3, <2>4, <2>5 DEF PipeInv
<1>10. CASE ProcessMsg
  <2>1. TypeOK'
    <3>1. mqueue # <<>> => Tail(mqueue) \in Seq(Messages) /\ Head(mqueue) \in Messages
      BY <1>0 DEF TypeOK
    <3>2. mqueue' \in Seq(Messages) /\ delivered' \in Seq(Messages)
      <4>1. CASE mqueue # <<>>
        <5>1. mqueue' = Tail(mqueue) /\ delivered' = Append(delivered, Head(mqueue))
          BY <1>10, <4>1 DEF ProcessMsg
        <5>2. QED
          BY <5>1, <4>1, <3>1, <1>0 DEF TypeOK
      <4>2. CASE mqueue = <<>>
        BY <1>10, <1>0, <4>2 DEF ProcessMsg, TypeOK
      <4>3. QED
        BY <4>1, <4>2
    <3>3. QED
      BY <1>10, <1>0, <3>2 DEF ProcessMsg, TypeOK, Threads, RecvPCs
  <2>2. MessageInHand'
    BY <1>10, <1>0 DEF ProcessMsg, TypeOK, MessageInHand, Threads, NotifyPCs
  <2>3. LockDiscipline'
    BY <1>10, <1>0 DEF ProcessMsg, TypeOK, LockDiscipline, Threads
  <2>4. BatchConsumed' /\ NoEmptyWakeup' /\ ByteAnnounced'
    BY <1>10, <1>0 DEF ProcessMsg, TypeOK, BatchConsumed, NoEmptyWakeup, ByteAnnounced,
       Threads, RecvPCs
  <2>5. FlushIsSafe' /\ NoLostMessage'
    BY <1>10, <1>0 DEF ProcessMsg, TypeOK, LockDiscipline, NoEmptyWakeup, ByteAnnounced,
       FlushIsSafe, NoLostMessage, WakeupPending, Threads
  <2>6. QED
    BY <2>1, <2>2, <2>3, <2>4, <2>5 DEF PipeInv
<1>11. CASE RecvUnlock
  <2>1. TypeOK'
    BY <1>11, <1>0 DEF RecvUnlock, Release, TypeOK, MessageInHand, Threads, NotifyPCs, RecvPCs, Messages
  <2>2. MessageInHand'
    BY <1>11, <1>0 DEF RecvUnlock, Release, TypeOK, MessageInHand, Threads, NotifyPCs
  <2>3. LockDiscipline'
    BY <1>11, <1>0 DEF RecvUnlock, Release, TypeOK, LockDiscipline, Threads
  <2>4. BatchConsumed' /\ NoEmptyWakeup' /\ ByteAnnounced'
    BY <1>11, <1>0 DEF RecvUnlock, Release, TypeOK, BatchConsumed, NoEmptyWakeup, ByteAnnounced,
       Threads, RecvPCs
  <2>5. FlushIsSafe' /\ NoLostMessage'
    BY <1>11, <1>0 DEF RecvUnlock, Release, TypeOK, LockDiscipline, NoEmptyWakeup, ByteAnnounced,
       FlushIsSafe, NoLostMessage, WakeupPending, Threads
  <2>6. QED
    BY <2>1, <2>2, <2>3, <2>4, <2>5 DEF PipeInv
<1>12. CASE UNCHANGED vars
  BY <1>12 DEF vars, PipeInv, TypeOK, MessageInHand, BatchConsumed, LockDiscipline, NoEmptyWakeup,
     ByteAnnounced, FlushIsSafe, NoLostMessage, WakeupPending
<1>13. QED
  BY <1>1, <1>2, <1>3, <1>4, <1>5, <1>6, <1>7, <1>8, <1>9, <1>10, <1>11, <1>12
     DEF Next, Notify, Recv, Quiet

(* Type correctness and the lock discipline of the pipe's threads, the     *)
(* announcement of every byte by epoll, and the safety of the final flush. *)
THEOREM PipeInvariant == Spec => []PipeInv
<1>1. QED
  BY PipeInitInv, PipeStepInv, PTL DEF Spec

(* No lost wakeup in atm_pipe_notify and atm_pip_handle_recv: a message in *)
(* mqueue always has a wakeup under way, for any number of threads and any *)
(* pipe capacity.                                                          *)
THEOREM NoLostWakeup == Spec => []NoLostMessage
<1>1. PipeInv => NoLostMessage
  BY DEF PipeInv
<1>2. QED
  BY PipeInvariant, <1>1, PTL

(* Appending to, or taking the head of, a sequence changes its elements by *)
(* one.                                                                    *)
LEMMA ElementsOfAppend ==
  ASSUME NEW S, NEW q \in Seq(S), NEW m \in S
  PROVE  {Append(q, m)[i] : i \in DOMAIN Append(q, m)} = {q[i] : i \in DOMAIN q} \cup {m}
<1> DEFINE r == Append(q, m)
<1>1. /\ Len(q) \in Nat /\ DOMAIN q = 1 .. Len(q)
      /\ Len(r) = Len(q) + 1 /\ DOMAIN r = 1 .. Len(q) + 1
      /\ r[Len(q) + 1] = m /\ \A i \in 1 .. Len(q) : r[i] = q[i]
  BY AppendProperties, LenProperties
<1>2. ASSUME NEW i \in DOMAIN r PROVE r[i] \in {q[j] : j \in DOMAIN q} \cup {m}
  <2>1. CASE i = Len(q) + 1
    BY <1>1, <2>1
  <2>2. CASE i \in 1 .. Len(q)
    BY <1>1, <2>2
  <2>3. QED
    BY <1>1, <1>2, <2>1, <2>2
<1>3. ASSUME NEW i \in DOMAIN q PROVE \E j \in DOMAIN r : r[j] = q[i]
  BY <1>1, <1>3
<1>4. \E j \in DOMAIN r : r[j] = m
  BY <1>1
<1>5. QED
  BY <1>2, <1>3, <1>4

LEMMA ElementsOfTail ==
  ASSUME NEW S, NEW q \in Seq(S), q # <<>>
  PROVE  {q[i] : i \in DOMAIN q} = {Tail(q)[i] : i \in DOMAIN Tail(q)} \cup {Head(q)}
<1> DEFINE r == Tail(q)
<1>1. /\ Len(q) \in Nat /\ DOMAIN q = 1 .. Len(q) /\ Len(q) > 0
      /\ DOMAIN r = 1 .. Len(q) - 1 /\ Head(q) = q[1]
      /\ \A i \in 1 .. Len(q) - 1 : r[i] = q[i + 1]
  BY HeadTailProperties, LenProperties, EmptySeq
<1>2. ASSUME NEW i \in DOMAIN q PROVE q[i] \in {r[j] : j \in DOMAIN r} \cup {Head(q)}
  <2>1. CASE i = 1
    BY <1>1, <2>1
  <2>2. CASE i # 1
    <3>1. i - 1 \in DOMAIN r /\ r[i - 1] = q[i]
      BY <1>1, <1>2, <2>2
    <3>2. QED
      BY <3>1
  <2>3. QED
    BY <2>1, <2>2
<1>3. ASSUME NEW i \in DOMAIN r PROVE \E j \in DOMAIN q : q[j] = r[i]
  <2>1. i + 1 \in DOMAIN q /\ q[i + 1] = r[i]
    BY <1>1, <1>3
  <2>2. QED
    BY <2>1
<1>4. \E j \in DOMAIN q : q[j] = Head(q)
  BY <1>1
<1>5. QED
  BY <1>2, <1>3, <1>4

(* No message is pushed twice: what the pipe has carried so far is what    *)
(* its threads have counted, and a thread counts before it pushes.         *)
LEMMA FreshStep == PipeInv /\ FreshMessage /\ [Next]_vars => FreshMessage'
<1> SUFFICES ASSUME PipeInv, FreshMessage, [Next]_vars
             PROVE  FreshMessage'
  OBVIOUS
<1> USE ThreadsAssumption, MaxNotifyAssumption
<1>0. TypeOK /\ MessageInHand
  BY DEF PipeInv
<1>1. ASSUME NEW t \in Threads, NotifyCall(t) PROVE FreshMessage'
  BY <1>1, <1>0 DEF NotifyCall, GoTo, TypeOK, FreshMessage, Mailbox!Sent
<1>2. ASSUME NEW t \in Threads, NotifyLock(t) PROVE FreshMessage'
  BY <1>2, <1>0 DEF NotifyLock, GoTo, TypeOK, FreshMessage, Mailbox!Sent
<1>3. ASSUME NEW t \in Threads, NotifyPush(t) PROVE FreshMessage'
  <2>1. <<t, sent[t]>> \in Messages
    BY <1>3, <1>0 DEF NotifyPush, GoTo, TypeOK, MessageInHand, Messages, NotifyPCs
  <2>2. Mailbox!Sent' = Mailbox!Sent \cup {<<t, sent[t]>>}
    <3>1. mqueue' = Append(mqueue, <<t, sent[t]>>) /\ delivered' = delivered
      BY <1>3 DEF NotifyPush
    <3>2. mqueue \in Seq(Messages)
      BY <1>0 DEF TypeOK
    <3>3. {mqueue'[i] : i \in DOMAIN mqueue'} =
            {mqueue[i] : i \in DOMAIN mqueue} \cup {<<t, sent[t]>>}
      BY <3>1, <3>2, <2>1, ElementsOfAppend
    <3>4. {delivered'[i] : i \in DOMAIN delivered'} = {delivered[i] : i \in DOMAIN delivered}
      BY <3>1
    <3>5. QED
      BY <3>3, <3>4, Zenon DEF Mailbox!Sent
  <2>3. QED
    BY <1>3, <1>0, <2>2 DEF NotifyPush, GoTo, TypeOK, FreshMessage
<1>4. ASSUME NEW t \in Threads, NotifyUnlock(t) PROVE FreshMessage'
  BY <1>4, <1>0 DEF NotifyUnlock, GoTo, TypeOK, FreshMessage, Mailbox!Sent
<1>5. ASSUME NEW t \in Threads, NotifyWrite(t) PROVE FreshMessage'
  BY <1>5, <1>0 DEF NotifyWrite, GoTo, TypeOK, FreshMessage, Mailbox!Sent
<1>6. CASE EpollWait \/ RecvCall \/ RecvLock \/ RecvRead \/ RecvUnlock
  <2>1. Mailbox!Sent' = Mailbox!Sent /\ sent' = sent
    BY <1>6 DEF EpollWait, RecvCall, RecvLock, RecvRead, RecvUnlock, Mailbox!Sent
  <2>2. \A t \in Threads : pc'[t] \in {"lock", "push"} => pc[t] = pc'[t]
    BY <1>6, <1>0 DEF EpollWait, RecvCall, RecvLock, RecvRead, RecvUnlock, GoTo, TypeOK, Threads
  <2>3. QED
    BY <2>1, <2>2 DEF FreshMessage
<1>7. CASE ProcessMsg
  <2>1. Mailbox!Sent' = Mailbox!Sent
    <3>1. CASE mqueue # <<>>
      <4>1. /\ mqueue' = Tail(mqueue) /\ delivered' = Append(delivered, Head(mqueue))
            /\ Head(mqueue) \in Messages
        BY <1>7, <1>0, <3>1 DEF ProcessMsg, TypeOK
      <4>2. mqueue \in Seq(Messages) /\ delivered \in Seq(Messages)
        BY <1>0 DEF TypeOK
      <4>3. {mqueue[i] : i \in DOMAIN mqueue} =
              {mqueue'[i] : i \in DOMAIN mqueue'} \cup {Head(mqueue)}
        BY <3>1, <4>1, <4>2, ElementsOfTail
      <4>4. {delivered'[i] : i \in DOMAIN delivered'} =
              {delivered[i] : i \in DOMAIN delivered} \cup {Head(mqueue)}
        <5> DEFINE m == Head(mqueue)
                   d == Append(delivered, m)
        <5>1. m \in Messages /\ delivered \in Seq(Messages)
          BY <4>1, <4>2
        <5> HIDE DEF m
        <5>2. {d[i] : i \in DOMAIN d} = {delivered[i] : i \in DOMAIN delivered} \cup {m}
          BY <5>1, ElementsOfAppend
        <5>3. delivered' = d
          BY <4>1 DEF m
        <5>4. {delivered'[i] : i \in DOMAIN delivered'} =
                {delivered[i] : i \in DOMAIN delivered} \cup {m}
          <6> HIDE DEF d
          <6> QED
            BY <5>2, <5>3, Zenon
        <5>5. QED
          BY <5>4, Zenon DEF m
      <4>5. QED
        BY <4>3, <4>4, Zenon DEF Mailbox!Sent
    <3>2. CASE mqueue = <<>>
      BY <1>7, <3>2 DEF ProcessMsg, Mailbox!Sent
    <3>3. QED
      BY <3>1, <3>2
  <2>2. QED
    BY <1>7, <1>0, <2>1 DEF ProcessMsg, GoTo, TypeOK, FreshMessage, Threads
<1>8. CASE UNCHANGED vars
  BY <1>8 DEF vars, FreshMessage, Mailbox!Sent
<1>9. QED
  BY <1>1, <1>2, <1>3, <1>4, <1>5, <1>6, <1>7, <1>8 DEF Next, Notify, Recv, Quiet

(* A push is the mailbox's Send, a pop with its call_back is its Deliver,  *)
(* and every other step of the pipe leaves the mailbox alone.              *)
LEMMA PipeStepSimulates ==
  PipeInv /\ FreshMessage /\ [Next]_vars => [Mailbox!Next]_(Mailbox!vars)
<1> SUFFICES ASSUME PipeInv, FreshMessage, [Next]_vars
             PROVE  Mailbox!Next \/ UNCHANGED Mailbox!vars
  OBVIOUS
<1>0. TypeOK /\ MessageInHand
  BY DEF PipeInv
<1>1. ASSUME NEW t \in Threads, NotifyPush(t) PROVE Mailbox!Next
  <2>1. <<t, sent[t]>> \in Messages /\ sent[t] \in Nat
    BY <1>1, <1>0, MaxNotifyAssumption
       DEF NotifyPush, GoTo, TypeOK, MessageInHand, Messages, NotifyPCs
  <2>2. <<t, sent[t]>> \notin Mailbox!Sent
    BY <1>1, <2>1 DEF NotifyPush, GoTo, FreshMessage
  <2>3. Mailbox!Send(<<t, sent[t]>>)
    BY <1>1, <2>2 DEF NotifyPush, Mailbox!Send
  <2>4. QED
    BY <2>1, <2>3 DEF Mailbox!Next
<1>2. CASE ProcessMsg
  BY <1>2 DEF ProcessMsg, Mailbox!Next, Mailbox!Deliver, Mailbox!vars
<1>3. ASSUME NEW t \in Threads,
             NotifyCall(t) \/ NotifyLock(t) \/ NotifyUnlock(t) \/ NotifyWrite(t)
      PROVE  UNCHANGED Mailbox!vars
  BY <1>3 DEF NotifyCall, NotifyLock, NotifyUnlock, NotifyWrite, Mailbox!vars
<1>4. CASE EpollWait \/ RecvCall \/ RecvLock \/ RecvRead \/ RecvUnlock
  BY <1>4 DEF EpollWait, RecvCall, RecvLock, RecvRead, RecvUnlock, Mailbox!vars
<1>5. CASE UNCHANGED vars
  BY <1>5 DEF vars, Mailbox!vars
<1>6. QED
  BY <1>1, <1>2, <1>3, <1>4, <1>5 DEF Next, Notify, Recv, Quiet

(* The notify pipe implements the abstract mailbox: messages reach their   *)
(* call_back at most once and in the order in which they were pushed.      *)
THEOREM PipeImplementsMailbox == Spec => MailboxSpec
<1>1. Init => Mailbox!Init /\ FreshMessage
  BY DEF Init, Mailbox!Init, FreshMessage, Mailbox!Sent
<1>2. Spec => [](PipeInv /\ FreshMessage)
  BY <1>1, PipeInitInv, PipeStepInv, FreshStep, PTL DEF Spec
<1>3. QED
  BY <1>1, <1>2, PipeStepSimulates, PTL DEF Spec, MailboxSpec, Mailbox!Spec

=============================================================================
