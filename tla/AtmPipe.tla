------------------------------ MODULE AtmPipe ------------------------------
(***************************************************************************)
(* The notify pipe of atm-cache (os/unix/atm_pipe.c): how a worker, or the *)
(* event loop itself, hands a message to the event loop.  The process has  *)
(* two of them: one carries event operations (atm_event_add_notify), the   *)
(* other carries tasks (atm_task_dispatch).                                *)
(*                                                                         *)
(* The message travels in a queue protected by mqlock; one byte written to *)
(* a non-blocking pipe only wakes up the loop, which watches the reading   *)
(* end edge-triggered.  The two halves are updated separately (the byte is *)
(* written after mqlock is released, and may be refused by a full pipe),   *)
(* so the question is whether a queued message can be left with nobody     *)
(* coming to fetch it.                                                     *)
(*                                                                         *)
(* One action is one access to shared memory or one system call.  Message  *)
(* contents do not matter: the n-th message of thread t is <<t, n>>.       *)
(***************************************************************************)
EXTENDS Naturals, Sequences, FiniteSets

CONSTANTS
    Workers,     \* threads, other than the event loop, that call atm_pipe_notify
    Loop,        \* the event loop thread, which also calls it (conn handlers)
    NoThread,    \* the holder of a free mutex
    PipeCap,     \* bytes the kernel keeps in the pipe before write() says EAGAIN
    MaxNotify    \* bound on the notifications of one thread

Threads == Workers \cup {Loop}

ASSUME ThreadsAssumption == Loop \notin Workers /\ NoThread \notin Threads
ASSUME PipeCapAssumption == PipeCap \in Nat \ {0}
ASSUME MaxNotifyAssumption == MaxNotify \in Nat

VARIABLES
    pc,          \* where each thread is; "base" is outside the pipe code
    sent,        \* notifications each thread has started
    mqlock,      \* holder of p->mqlock
    mqueue,      \* p->mqueue
    bytes,       \* notify bytes inside the kernel's pipe
    edge,        \* recv_fd is on epoll's ready list (EPOLLET)
    fired,       \* recv_fd is in the batch epoll_wait returned, not yet handled
    processed,   \* the local variable of atm_pip_handle_recv
    delivered    \* history: messages given to their call_back

vars == <<pc, sent, mqlock, mqueue, bytes, edge, fired, processed, delivered>>

Messages == Threads \X (1 .. MaxNotify)

NotifyPCs == {"lock", "push", "unlock", "write"}
RecvPCs == {"recvlock", "read", "process", "recvunlock"}

TypeOK ==
    /\ pc \in [Threads -> {"base"} \cup NotifyPCs \cup RecvPCs]
    /\ \A w \in Workers : pc[w] \notin RecvPCs
    /\ sent \in [Threads -> 0 .. MaxNotify]
    /\ mqlock \in Threads \cup {NoThread}
    /\ mqueue \in Seq(Messages)
    /\ bytes \in 0 .. PipeCap
    /\ edge \in BOOLEAN
    /\ fired \in BOOLEAN
    /\ processed \in BOOLEAN
    /\ delivered \in Seq(Messages)

(* atm_pipe_new and atm_pipe_event_init: an empty pipe, watched by epoll.  *)
Init ==
    /\ pc = [t \in Threads |-> "base"]
    /\ sent = [t \in Threads |-> 0]
    /\ mqlock = NoThread
    /\ mqueue = <<>>
    /\ bytes = 0
    /\ edge = FALSE
    /\ fired = FALSE
    /\ processed = FALSE
    /\ delivered = <<>>

GoTo(t, from, to) == pc[t] = from /\ pc' = [pc EXCEPT ![t] = to]

Acquire(t) == mqlock = NoThread /\ mqlock' = t
Release == mqlock' = NoThread

-----------------------------------------------------------------------------
(* atm_pipe_notify, run by any thread.                                     *)

(* A handler or a task builds a message and calls atm_pipe_notify.         *)
NotifyCall(t) ==
    /\ GoTo(t, "base", "lock")
    /\ sent[t] < MaxNotify
    /\ sent' = [sent EXCEPT ![t] = @ + 1]
    /\ UNCHANGED <<mqlock, mqueue, bytes, edge, fired, processed, delivered>>

NotifyLock(t) ==
    /\ GoTo(t, "lock", "push")
    /\ Acquire(t)
    /\ UNCHANGED <<sent, mqueue, bytes, edge, fired, processed, delivered>>

NotifyPush(t) ==
    /\ GoTo(t, "push", "unlock")
    /\ mqueue' = Append(mqueue, <<t, sent[t]>>)
    /\ UNCHANGED <<sent, mqlock, bytes, edge, fired, processed, delivered>>

NotifyUnlock(t) ==
    /\ GoTo(t, "unlock", "write")
    /\ Release
    /\ UNCHANGED <<sent, mqueue, bytes, edge, fired, processed, delivered>>

(* The kernel's side of write(sent_fd, buf, 1): a byte is stored and, when *)
(* the pipe was empty, the reading end becomes ready; when it was not, a   *)
(* kernel may or may not report it again.  A full pipe refuses the byte.   *)
PipeWrite ==
    \/ /\ bytes < PipeCap
       /\ bytes' = bytes + 1
       /\ edge' \in {edge, TRUE}
       /\ bytes = 0 => edge'
    \/ /\ bytes = PipeCap
       /\ UNCHANGED <<bytes, edge>>

(* Mutant: sent_fd was left blocking, so write() waits for room.           *)
NotifyWrite_Blocking(t) ==
    /\ GoTo(t, "write", "base")
    /\ bytes < PipeCap
    /\ PipeWrite
    /\ UNCHANGED <<sent, mqlock, mqueue, fired, processed, delivered>>

(* The byte is written outside mqlock; a refusal is only logged.           *)
NotifyWrite(t) ==
    /\ GoTo(t, "write", "base")
    /\ PipeWrite
    /\ UNCHANGED <<sent, mqlock, mqueue, fired, processed, delivered>>

-----------------------------------------------------------------------------
(* The event loop.                                                         *)

(* epoll_wait returns a batch with recv_fd in it: edge-triggered, so the   *)
(* descriptor leaves the ready list, and only if it is readable.           *)
EpollWait ==
    /\ pc[Loop] = "base"
    /\ ~ fired
    /\ edge
    /\ bytes > 0
    /\ fired' = TRUE
    /\ edge' = FALSE
    /\ UNCHANGED <<pc, sent, mqlock, mqueue, bytes, processed, delivered>>

(* atm_event_process_ev reaches recv_fd: other events of the batch may be  *)
(* handled (and notify) before it.                                         *)
RecvCall ==
    /\ GoTo(Loop, "base", "recvlock")
    /\ fired
    /\ fired' = FALSE
    /\ processed' = FALSE
    /\ UNCHANGED <<sent, mqlock, mqueue, bytes, edge, delivered>>

(* Mutant: the handler does not take mqlock.                               *)
RecvLock_Unlocked ==
    /\ GoTo(Loop, "recvlock", "read")
    /\ UNCHANGED <<sent, mqlock, mqueue, bytes, edge, fired, processed, delivered>>

RecvLock ==
    /\ GoTo(Loop, "recvlock", "read")
    /\ Acquire(Loop)
    /\ UNCHANGED <<sent, mqueue, bytes, edge, fired, processed, delivered>>

(* read(recv_fd, buf, 1): the first byte starts the processing of every    *)
(* queued message, the later ones are only flushed, EAGAIN ends the loop.  *)
RecvRead ==
    \/ /\ bytes > 0
       /\ GoTo(Loop, "read", IF processed THEN "read" ELSE "process")
       /\ bytes' = bytes - 1
       /\ UNCHANGED <<sent, mqlock, mqueue, edge, fired, processed, delivered>>
    \/ /\ bytes = 0
       /\ GoTo(Loop, "read", "recvunlock")
       /\ UNCHANGED <<sent, mqlock, mqueue, bytes, edge, fired, processed, delivered>>

(* Mutant: one byte is taken to stand for one message.                     *)
ProcessMsg_OnePerWakeup ==
    /\ GoTo(Loop, "process", "read")
    /\ processed' = TRUE
    /\ \/ /\ mqueue # <<>>
          /\ delivered' = Append(delivered, Head(mqueue))
          /\ mqueue' = Tail(mqueue)
       \/ /\ mqueue = <<>>
          /\ UNCHANGED <<mqueue, delivered>>
    /\ UNCHANGED <<sent, mqlock, bytes, edge, fired>>

(* Mutant: messages are taken from the tail, the newest first.             *)
ProcessMsg_Newest ==
    \/ /\ mqueue # <<>>
       /\ GoTo(Loop, "process", "process")
       /\ delivered' = Append(delivered, mqueue[Len(mqueue)])
       /\ mqueue' = SubSeq(mqueue, 1, Len(mqueue) - 1)
       /\ UNCHANGED <<sent, mqlock, bytes, edge, fired, processed>>
    \/ /\ mqueue = <<>>
       /\ GoTo(Loop, "process", "read")
       /\ processed' = TRUE
       /\ UNCHANGED <<sent, mqlock, mqueue, bytes, edge, fired, delivered>>

(* atm_pipe_process_msgs: pop, call_back, free, until the queue is empty,  *)
(* all of it under mqlock.                                                 *)
ProcessMsg ==
    \/ /\ mqueue # <<>>
       /\ GoTo(Loop, "process", "process")
       /\ delivered' = Append(delivered, Head(mqueue))
       /\ mqueue' = Tail(mqueue)
       /\ UNCHANGED <<sent, mqlock, bytes, edge, fired, processed>>
    \/ /\ mqueue = <<>>
       /\ GoTo(Loop, "process", "read")
       /\ processed' = TRUE
       /\ UNCHANGED <<sent, mqlock, mqueue, bytes, edge, fired, delivered>>

RecvUnlock ==
    /\ GoTo(Loop, "recvunlock", "base")
    /\ Release
    /\ UNCHANGED <<sent, mqueue, bytes, edge, fired, processed, delivered>>

-----------------------------------------------------------------------------
Notify(t) ==
    \/ NotifyCall(t)
    \/ NotifyLock(t)
    \/ NotifyPush(t)
    \/ NotifyUnlock(t)
    \/ NotifyWrite(t)

Recv ==
    \/ EpollWait
    \/ RecvCall
    \/ RecvLock
    \/ RecvRead
    \/ ProcessMsg
    \/ RecvUnlock

(* Every thread is idle and nothing is under way: the loop sleeps in       *)
(* epoll_wait.  With unbounded notifications this is not an end state.     *)
Quiet ==
    /\ \A t \in Threads : pc[t] = "base" /\ sent[t] = MaxNotify
    /\ ~ fired /\ ~ (edge /\ bytes > 0)
    /\ UNCHANGED vars

Next == (\E t \in Threads : Notify(t)) \/ Recv \/ Quiet

Spec == Init /\ [][Next]_vars

(* Threads are scheduled by the kernel: one that can take a step takes it. *)
(* Nobody is obliged to call atm_pipe_notify.  Weak fairness is enough: a  *)
(* waiter for mqlock is overtaken by finitely many notifications.          *)
NotifyRest(t) == NotifyLock(t) \/ NotifyPush(t) \/ NotifyUnlock(t) \/ NotifyWrite(t)

Fairness == WF_vars(Recv) /\ \A t \in Threads : WF_vars(NotifyRest(t))

FairSpec == Spec /\ Fairness

-----------------------------------------------------------------------------
(* Properties.                                                             *)

(* A wakeup is on its way: the thread that pushed has not written its byte *)
(* yet, or a byte is in the pipe and the loop has been or will be told of  *)
(* it, or the loop is inside atm_pipe_process_msgs.                        *)
WakeupPending ==
    \/ \E t \in Threads : pc[t] \in {"unlock", "write"}
    \/ bytes > 0 /\ (edge \/ fired \/ pc[Loop] = "recvlock" \/ (pc[Loop] = "read" /\ ~ processed))
    \/ pc[Loop] = "process"

(* No lost wakeup: a queued message always has a wakeup on its way, even   *)
(* when write() refused its byte, when the byte was flushed while the loop *)
(* was still busy with an earlier one, and with edge-triggered epoll.      *)
NoLostMessage == mqueue # <<>> => WakeupPending

(* mqlock is held by exactly the thread inside its critical section, the   *)
(* whole receive loop being one: the drain cannot interleave with a push.  *)
LockDiscipline ==
    \A t \in Threads :
        mqlock = t <=> pc[t] \in {"push", "unlock", "read", "process", "recvunlock"}

(* The loop never spins in the handler for nothing: it entered because of  *)
(* a byte, so the first read() cannot find the pipe empty.                 *)
NoEmptyWakeup == fired \/ pc[Loop] = "recvlock" \/ (pc[Loop] = "read" /\ ~ processed) => bytes > 0

(* A byte in the pipe is always announced: epoll's edge cannot be consumed *)
(* while a byte stays behind unread.                                       *)
ByteAnnounced ==
    bytes > 0 => edge \/ fired \/ pc[Loop] \in {"recvlock", "read", "process"}

(* Once the messages are processed the queue stays empty until the handler *)
(* releases mqlock, so flushing the remaining bytes loses no message.      *)
FlushIsSafe ==
    pc[Loop] = "recvunlock" \/ (pc[Loop] = "read" /\ processed) => mqueue = <<>>

(* A thread inside atm_pipe_notify has a message of its own in hand.       *)
MessageInHand == \A t \in Threads : pc[t] \in NotifyPCs => sent[t] > 0

(* The event being handled is no longer in the batch, and a handler that   *)
(* waits for mqlock has processed nothing yet.                             *)
BatchConsumed ==
    /\ pc[Loop] \in RecvPCs => ~ fired
    /\ pc[Loop] = "recvlock" => ~ processed

(* The inductive invariant behind NoLostMessage.                           *)
PipeInv ==
    /\ TypeOK
    /\ MessageInHand
    /\ BatchConsumed
    /\ LockDiscipline
    /\ NoEmptyWakeup
    /\ ByteAnnounced
    /\ FlushIsSafe
    /\ NoLostMessage

(* Every message given to atm_pipe_notify reaches its call_back.           *)
EveryMessageDelivered ==
    \A m \in Messages :
        (m[2] <= sent[m[1]]) ~> (\E i \in DOMAIN delivered : delivered[i] = m)

(* The pipe implements the abstract mailbox: exactly once, in order.       *)
Mailbox == INSTANCE AtmMailbox WITH box <- mqueue, handed <- delivered

(* Messages sent through the pipe are those their threads have pushed, so  *)
(* the one a thread is about to push is new: nothing is ever sent twice.   *)
FreshMessage ==
    \A t \in Threads, n \in Nat :
        <<t, n>> \in Mailbox!Sent =>
            n <= sent[t] /\ (pc[t] \in {"lock", "push"} => n < sent[t])

(* atm_pipe_notify and atm_pip_handle_recv are a FIFO mailbox that hands   *)
(* every message to its call_back at most once, in order of arrival.       *)
MailboxSpec == Mailbox!Spec

=============================================================================
