------------------------------ MODULE AtmConn ------------------------------
(***************************************************************************)
(* The life of client connections in atm-cache: core/atm_conn.c with the   *)
(* part of core/atm_event.c, core/atm_sess.c and core/atm_task.c it runs   *)
(* on.  The event loop turns epoll events into read and write tasks; the   *)
(* workers run them and ask the loop, through the event pipe, to watch a   *)
(* socket again; the connection's flags active, on_read and on_write and   *)
(* the global free_list decide when its memory is released.                *)
(*                                                                         *)
(* A critical section of c->_mutex is one step, and so is one of           *)
(* _mutex_free; only that of atm_conn_inactive is cut before its unlock,   *)
(* because the connection is already in free_list there.  Every unlocked   *)
(* access to a shared field is a step of its own.  Both notify pipes are   *)
(* the FIFO mailboxes that AtmPipe implements.  Requests and replies are   *)
(* counted, not spelled out: one request is one line, answered by one      *)
(* reply.  A thread that would touch the memory of a freed connection      *)
(* stops: what the program does from there is undefined.                   *)
(***************************************************************************)
EXTENDS Naturals, Sequences, FiniteSets, SequencesExt

CONSTANTS
    Conns,        \* connections, each accepted once
    NoConn,       \* the load of a free task
    NWorkers,     \* number of worker threads (config: workernum)
    MaxReqs,      \* bound on the requests a client sends on a connection
    Window,       \* bound on the requests a client sends ahead of the replies
    SockCap,      \* replies the kernel's send buffer holds; write() refuses more
    MaxTasks,     \* bound on the tasks queued when epoll_wait is entered
    AllowClose,   \* the client may close its end
    AllowReset    \* the client may reset the connection

Workers == 0 .. NWorkers - 1
READ == "READ"    \* EPOLLIN
WRITE == "WRITE"  \* EPOLLOUT

ASSUME ConnAssumption ==
    /\ IsFiniteSet(Conns)
    /\ NoConn \notin Conns
    /\ NWorkers \in Nat \ {0}
    /\ {MaxReqs, Window, SockCap, MaxTasks} \subseteq Nat
    /\ {AllowClose, AllowReset} \subseteq BOOLEAN

VARIABLES
    conn,         \* each connection's memory: see ConnType
    sock,         \* each connection's socket and client: see SockType
    ready,        \* epoll's ready list
    batch,        \* what is left of the batch epoll_wait returned
    eops,         \* messages in the event pipe: ADD operations
    wq,           \* each worker's queue of tasks
    round,        \* workers_round
    th,           \* each worker's program counter and locals
    freeList      \* how often each connection is in free_list, whose order does
                  \* not matter

vars == <<conn, sock, ready, batch, eops, wq, round, th, freeList>>

(* atm_conn_t with its atm_event_t and atm_sess_t, allocated and released  *)
(* together.  EPOLLHUP and EPOLLET, always in the mask, are left out of    *)
(* events; the buffers hold complete lines and whole replies.              *)
ConnType ==
    [mem : {"none", "live", "freed"}, active : BOOLEAN, events : SUBSET {READ, WRITE},
     onRead : BOOLEAN, onWrite : BOOLEAN, writeReqs : 0 .. MaxReqs,
     rbuf : 0 .. MaxReqs, wbuf : 0 .. MaxReqs]

(* The client's counters and the kernel's two buffers.                     *)
SockType ==
    [asked : 0 .. MaxReqs, in : 0 .. MaxReqs, out : 0 .. MaxReqs,
     answered : 0 .. MaxReqs, peer : {"open", "eof", "reset"}]

FreeTask == [kind |-> "free", c |-> NoConn]
Tasks == [kind : {"read", "write"}, c : Conns] \cup {FreeTask}

PipeEntry == [c |-> NoConn, ev |-> READ]   \* the event pipe in a batch

ReadPCs == {"r_active", "r_raw", "r_sess", "r_notify", "r_restore", "r_add", "r_check"}
WritePCs == {"w_active", "w_reqs", "w_raw", "w_rmn", "w_inter", "w_yield", "w_check"}
InactPCs == {"inact_check", "inact_lock", "inact_unlock"}

(* Where a worker is about to dereference the connection of its task.      *)
DerefPCs == ReadPCs \cup WritePCs \cup InactPCs

IdleThread == [pc |-> "idle", c |-> NoConn, flag |-> "onRead", wreqs |-> 0, wrmn |-> 0]

TypeOK ==
    /\ conn \in [Conns -> ConnType]
    /\ sock \in [Conns -> SockType]
    /\ ready \subseteq Conns
    /\ batch \in Seq([c : Conns \cup {NoConn}, ev : {READ, WRITE}])
    /\ eops \in Seq([c : Conns, mask : {READ, WRITE}])
    /\ wq \in [Workers -> Seq(Tasks)]
    /\ round \in Workers
    /\ th \in [Workers -> [pc : DerefPCs \cup {"idle", "inact_notify", "f_run"},
                           c : Conns \cup {NoConn}, flag : {"onRead", "onWrite"},
                           wreqs : 0 .. MaxReqs, wrmn : 0 .. MaxReqs]]
    /\ freeList \in [Conns -> Nat]

NewConn ==
    [mem |-> "none", active |-> FALSE, events |-> {}, onRead |-> FALSE, onWrite |-> FALSE,
     writeReqs |-> 0, rbuf |-> 0, wbuf |-> 0]

Init ==
    /\ conn = [c \in Conns |-> NewConn]
    /\ sock = [c \in Conns |->
                 [asked |-> 0, in |-> 0, out |-> 0, answered |-> 0, peer |-> "open"]]
    /\ ready = {}
    /\ batch = <<>>
    /\ eops = <<>>
    /\ wq = [w \in Workers |-> <<>>]
    /\ round = 0
    /\ th = [w \in Workers |-> IdleThread]
    /\ freeList = [c \in Conns |-> 0]

-----------------------------------------------------------------------------
(* Shared pieces.                                                          *)

Live(c) == conn[c].mem = "live"

(* c->_mutex is free: nobody is between the enqueue and the unlock of      *)
(* atm_conn_inactive.                                                      *)
MutexFree(c) == \A w \in Workers : ~ (th[w].pc = "inact_unlock" /\ th[w].c = c)

(* What epoll reports for a socket s watched with this mask.  A reset is   *)
(* reported whatever the mask, and atm_event_process_ev reads it as both   *)
(* readable and writable.                                                  *)
Reported(s, mask) ==
    IF s.peer = "reset" THEN {READ, WRITE}
    ELSE mask \cap ((IF s.in > 0 \/ s.peer = "eof" THEN {READ} ELSE {}) \cup
                    (IF s.out < SockCap THEN {WRITE} ELSE {}))

(* Edge-triggered: a change of the socket, or of its mask (EPOLL_CTL_MOD), *)
(* puts a descriptor on the ready list if it then has something to report. *)
Rearm(c, s, mask) == IF Reported(s, mask) # {} THEN {c} ELSE {}

(* atm_task_dispatch, atm_task_notify_handle, atm_task_get_active_worker:  *)
(* the task goes to the queue of the next worker in turn.                  *)
Dispatch(task) ==
    LET w == (round + 1) % NWorkers IN
    /\ wq' = [wq EXCEPT ![w] = Append(@, task)]
    /\ round' = w

NoDispatch == UNCHANGED <<wq, round>>

(* atm_event_add_notify *)
AddNotify(c, mask) == eops' = Append(eops, [c |-> c, mask |-> mask])

(* Worker w, at one point of its task on c, goes on to another point.      *)
At(w, c, from) == th[w].pc = from /\ th[w].c = c /\ Live(c)
To(w, to) == th' = [th EXCEPT ![w].pc = to]
Done(w) == th' = [th EXCEPT ![w] = IdleThread]

-----------------------------------------------------------------------------
(* The client and the kernel.                                              *)

SockStep(c, s) ==
    /\ sock' = [sock EXCEPT ![c] = s]
    /\ ready' = ready \cup Rearm(c, s, conn[c].events)
    /\ UNCHANGED <<conn, batch, eops, wq, round, th, freeList>>

ClientSend(c) ==
    /\ Live(c)
    /\ sock[c].peer = "open"
    /\ sock[c].asked < MaxReqs
    /\ sock[c].asked - sock[c].answered < Window
    /\ SockStep(c, [sock[c] EXCEPT !.asked = @ + 1, !.in = @ + 1])

ClientRecv(c) ==
    /\ Live(c)
    /\ sock[c].peer = "open"
    /\ sock[c].out > 0
    /\ SockStep(c, [sock[c] EXCEPT !.out = @ - 1, !.answered = @ + 1])

ClientClose(c) ==
    /\ AllowClose
    /\ Live(c)
    /\ sock[c].peer = "open"
    /\ SockStep(c, [sock[c] EXCEPT !.peer = "eof"])

ClientReset(c) ==
    /\ AllowReset
    /\ Live(c)
    /\ sock[c].peer # "reset"
    /\ SockStep(c, [sock[c] EXCEPT !.peer = "reset"])

-----------------------------------------------------------------------------
(* The event loop.                                                         *)

(* A connection with its event and session, watched for reading.           *)
Opened == [NewConn EXCEPT !.mem = "live", !.active = TRUE, !.events = {READ}]

(* atm_conn_handle_accept                                                  *)
Accept(c) ==
    /\ conn[c].mem = "none"
    /\ batch = <<>>
    /\ conn' = [conn EXCEPT ![c] = Opened]
    /\ UNCHANGED <<sock, ready, batch, eops, wq, round, th, freeList>>

(* The entries of one descriptor.                                          *)
Entries(c) == {[c |-> c, ev |-> ev] : ev \in Reported(sock[c], conn[c].events)}

(* Those of one descriptor come together, readable before writable.        *)
InTurn(entries) ==
    \A i, j \in DOMAIN entries :
        i < j /\ entries[i].c = entries[j].c => j = i + 1 /\ entries[i].ev = READ

QueuedTasks == FoldFunction(LAMBDA q, n : Len(q) + n, 0, wq)

(* epoll_wait: the ready descriptors in some order, those with nothing     *)
(* left to report dropped; the event pipe is among them if it has messages.*)
EpollWait ==
    /\ batch = <<>>
    /\ QueuedTasks <= MaxTasks
    /\ ready # {} \/ eops # <<>>
    /\ batch' \in SetToSeqs((UNION {Entries(c) : c \in ready}) \cup
                             (IF eops # <<>> THEN {PipeEntry} ELSE {}))
    /\ InTurn(batch')
    /\ ready' = {}
    /\ UNCHANGED <<conn, sock, eops, wq, round, th, freeList>>

(* The pipe's handler: atm_event_notify_handle on every queued operation,  *)
(* each an atm_event_add_event.                                            *)
HandleOps ==
    LET masks(c) == {eops[i].mask : i \in {j \in DOMAIN eops : eops[j].c = c}}
        touched == {eops[i].c : i \in DOMAIN eops}
    IN
    /\ batch # <<>> /\ Head(batch) = PipeEntry
    /\ batch' = Tail(batch)
    /\ \A c \in touched : Live(c)
    /\ eops' = <<>>
    /\ conn' = [c \in Conns |-> [conn[c] EXCEPT !.events = @ \cup masks(c)]]
    /\ ready' = ready \cup UNION {Rearm(c, sock[c], conn'[c].events) : c \in touched}
    /\ UNCHANGED <<sock, wq, round, th, freeList>>

(* The loop reaches an entry of connection c; atm_event_process_ev passes  *)
(* over an event that is not active.                                       *)
NextEntry(c, ev) ==
    /\ batch # <<>> /\ Head(batch) = [c |-> c, ev |-> ev]
    /\ Live(c)
    /\ batch' = Tail(batch)

SkipEntry(c) ==
    /\ \E ev \in {READ, WRITE} : NextEntry(c, ev)
    /\ ~ conn[c].active
    /\ UNCHANGED <<conn, sock, ready, eops, wq, round, th, freeList>>

(* Mutant: the event is left watched while its read task runs.             *)
HandleRead_KeepMask(c) ==
    /\ NextEntry(c, READ)
    /\ conn[c].active
    /\ MutexFree(c)
    /\ conn' = [conn EXCEPT ![c].onRead = TRUE]
    /\ Dispatch([kind |-> "read", c |-> c])
    /\ UNCHANGED <<sock, ready, eops, th, freeList>>

(* atm_conn_handle_read: stop watching for reading, dispatch a read task.  *)
HandleRead(c) ==
    /\ NextEntry(c, READ)
    /\ conn[c].active
    /\ MutexFree(c)
    /\ conn' = [conn EXCEPT ![c].events = @ \ {READ}, ![c].onRead = TRUE]
    /\ ready' = ready \cup Rearm(c, sock[c], conn[c].events \ {READ})
    /\ Dispatch([kind |-> "read", c |-> c])
    /\ UNCHANGED <<sock, eops, th, freeList>>

(* atm_conn_handle_write *)
HandleWrite(c) ==
    /\ NextEntry(c, WRITE)
    /\ conn[c].active
    /\ MutexFree(c)
    /\ conn' = [conn EXCEPT ![c].events = @ \ {WRITE}, ![c].onWrite = TRUE]
    /\ ready' = ready \cup Rearm(c, sock[c], conn[c].events \ {WRITE})
    /\ Dispatch([kind |-> "write", c |-> c])
    /\ UNCHANGED <<sock, eops, th, freeList>>

-----------------------------------------------------------------------------
(* Workers: taking a task, and what both kinds of task share.              *)

TaskStart(kind) ==
    CASE kind = "read" -> "r_active" [] kind = "write" -> "w_active" [] kind = "free" -> "f_run"

WorkerTake(w) ==
    /\ th[w].pc = "idle"
    /\ wq[w] # <<>>
    /\ wq' = [wq EXCEPT ![w] = Tail(@)]
    /\ th' = [th EXCEPT ![w].pc = TaskStart(Head(wq[w]).kind), ![w].c = Head(wq[w]).c]
    /\ UNCHANGED <<conn, sock, ready, batch, eops, round, freeList>>

(* A step that only reads shared state and moves on.                       *)
Branch(w, to) == To(w, to) /\ UNCHANGED <<conn, sock, ready, batch, eops, wq, round, freeList>>

(* Mutant: the last task does not ask for the connection to be freed.      *)
FreeCheck_NoNotify(w, c, flag) ==
    /\ MutexFree(c)
    /\ conn' = [conn EXCEPT ![c][flag] = FALSE]
    /\ NoDispatch
    /\ Done(w)
    /\ UNCHANGED <<sock, ready, batch, eops, freeList>>

(* atm_conn_free_check: the task is over; an inactive connection may have  *)
(* been waiting for that.                                                  *)
FreeCheck(w, c, flag) ==
    /\ MutexFree(c)
    /\ conn' = [conn EXCEPT ![c][flag] = FALSE]
    /\ \/ conn[c].active /\ NoDispatch
       \/ ~ conn[c].active /\ Dispatch(FreeTask)
    /\ Done(w)
    /\ UNCHANGED <<sock, ready, batch, eops, freeList>>

(* The call of atm_conn_inactive with the flag of the calling task.        *)
CallInactive(w, flag) == th' = [th EXCEPT ![w].pc = "inact_check", ![w].flag = flag]

(* atm_conn_inactive: the check of active without the mutex ...            *)
InactiveCheck(w, c) ==
    /\ At(w, c, "inact_check")
    /\ Branch(w, IF conn[c].active THEN "inact_lock" ELSE "inact_notify")

(* Mutant: active is not looked at again once the mutex is held.           *)
InactiveLock_NoRecheck(w, c) ==
    /\ At(w, c, "inact_lock")
    /\ MutexFree(c)
    /\ conn' = [conn EXCEPT ![c].active = FALSE, ![c][th[w].flag] = FALSE]
    /\ freeList' = [freeList EXCEPT ![c] = @ + 1]
    /\ To(w, "inact_unlock")
    /\ UNCHANGED <<sock, ready, batch, eops, wq, round>>

(* ... the one with it, that queues the connection to be freed ...         *)
InactiveLock(w, c) ==
    /\ At(w, c, "inact_lock")
    /\ MutexFree(c)
    /\ \/ /\ conn[c].active
          /\ conn' = [conn EXCEPT ![c].active = FALSE, ![c][th[w].flag] = FALSE]
          /\ freeList' = [freeList EXCEPT ![c] = @ + 1]
          /\ To(w, "inact_unlock")
       \/ /\ ~ conn[c].active
          /\ To(w, "inact_notify")
          /\ UNCHANGED <<conn, freeList>>
    /\ UNCHANGED <<sock, ready, batch, eops, wq, round>>

InactiveUnlock(w, c) ==
    /\ At(w, c, "inact_unlock")
    /\ Branch(w, "inact_notify")

(* ... and atm_conn_free_notify, after which the task returns.             *)
InactiveNotify(w) ==
    /\ th[w].pc = "inact_notify"
    /\ Dispatch(FreeTask)
    /\ Done(w)
    /\ UNCHANGED <<conn, sock, ready, batch, eops, freeList>>

(* atm_conn_free_func: every connection that was in the list is looked at  *)
(* once; the ones with a task under way go back, the others are freed.     *)
Reclaimable(c) == ~ conn[c].onRead /\ ~ conn[c].onWrite

(* atm_sess_free: session, connection, event and buffers go together.      *)
Freed(c) == [conn[c] EXCEPT !.mem = "freed", !.events = {}]

FreeFunc(w) ==
    /\ th[w].pc = "f_run"
    /\ conn' = [c \in Conns |-> IF freeList[c] > 0 /\ Reclaimable(c)
                                THEN Freed(c) ELSE conn[c]]
    /\ ready' = {c \in ready : conn'[c].mem = "live"}
    /\ freeList' = [c \in Conns |-> IF Reclaimable(c) THEN 0 ELSE freeList[c]]
    /\ Done(w)
    /\ UNCHANGED <<sock, batch, eops, wq, round>>

-----------------------------------------------------------------------------
(* atm_conn_task_read                                                      *)

ReadActive(w, c) ==
    /\ At(w, c, "r_active")
    /\ Branch(w, IF conn[c].active THEN "r_raw" ELSE "r_restore")

(* atm_buf_read_sock: everything the socket holds (data that came before a *)
(* reset can still be read), or EAGAIN, or end of file or an error.        *)
ReadRaw(w, c) ==
    /\ At(w, c, "r_raw")
    /\ \/ /\ sock[c].in > 0 \/ sock[c].peer = "open"
          /\ conn' = [conn EXCEPT ![c].rbuf = @ + sock[c].in]
          /\ sock' = [sock EXCEPT ![c].in = 0]
          /\ To(w, "r_sess")
       \/ /\ sock[c].in = 0 /\ sock[c].peer # "open"
          /\ CallInactive(w, "onRead")
          /\ UNCHANGED <<conn, sock>>
    /\ UNCHANGED <<ready, batch, eops, wq, round, freeList>>

HasLine(c) == conn[c].rbuf > 0

(* One line is taken, its command run and the reply put in w_buf.          *)
Answered(c) == [conn[c] EXCEPT !.rbuf = @ - 1, !.wbuf = @ + 1]

(* atm_sess_process up to the reply: at most one line is processed.        *)
SessProcess(w, c) ==
    /\ At(w, c, "r_sess")
    /\ \/ /\ HasLine(c)
          /\ conn' = [conn EXCEPT ![c] = Answered(c)]
          /\ To(w, "r_notify")
       \/ /\ ~ HasLine(c)
          /\ To(w, "r_restore")
          /\ UNCHANGED conn
    /\ UNCHANGED <<sock, ready, batch, eops, wq, round, freeList>>

(* Mutant: a request to write is not counted while on_write is set.        *)
WriteNotify_NoCount(w, c) ==
    /\ At(w, c, "r_notify")
    /\ MutexFree(c)
    /\ \/ /\ conn[c].active /\ ~ conn[c].onWrite
          /\ conn' = [conn EXCEPT ![c].writeReqs = @ + 1]
          /\ AddNotify(c, WRITE)
       \/ /\ ~ conn[c].active \/ conn[c].onWrite
          /\ UNCHANGED <<conn, eops>>
    /\ To(w, "r_restore")
    /\ UNCHANGED <<sock, ready, batch, wq, round, freeList>>

(* atm_conn_write_notify, at the end of atm_conn_write.                    *)
WriteNotify(w, c) ==
    /\ At(w, c, "r_notify")
    /\ MutexFree(c)
    /\ \/ /\ conn[c].active
          /\ conn' = [conn EXCEPT ![c].writeReqs = @ + 1]
          /\ IF conn[c].onWrite THEN UNCHANGED eops ELSE AddNotify(c, WRITE)
       \/ /\ ~ conn[c].active
          /\ UNCHANGED <<conn, eops>>
    /\ To(w, "r_restore")
    /\ UNCHANGED <<sock, ready, batch, wq, round, freeList>>

(* Mutant: a socket that had nothing to read is not watched again.         *)
ReadRestore_Never(w, c) ==
    /\ At(w, c, "r_restore")
    /\ Branch(w, "r_check")

ReadRestore(w, c) ==
    /\ At(w, c, "r_restore")
    /\ Branch(w, IF conn[c].active THEN "r_add" ELSE "r_check")

ReadAdd(w, c) ==
    /\ At(w, c, "r_add")
    /\ AddNotify(c, READ)
    /\ To(w, "r_check")
    /\ UNCHANGED <<conn, sock, ready, batch, wq, round, freeList>>

ReadCheck(w, c) ==
    /\ At(w, c, "r_check")
    /\ FreeCheck(w, c, "onRead")

-----------------------------------------------------------------------------
(* atm_conn_task_write                                                     *)

WriteActive(w, c) ==
    /\ At(w, c, "w_active")
    /\ Branch(w, IF conn[c].active THEN "w_reqs" ELSE "w_check")

WriteReqs(w, c) ==
    /\ At(w, c, "w_reqs")
    /\ th' = [th EXCEPT ![w].pc = "w_raw", ![w].wreqs = conn[c].writeReqs]
    /\ UNCHANGED <<conn, sock, ready, batch, eops, wq, round, freeList>>

(* atm_buf_write_sock: nothing to write (0), an error, or as much as the   *)
(* kernel takes, EAGAIN (nothing taken) included.                          *)
WriteRaw(w, c) ==
    /\ At(w, c, "w_raw")
    /\ \/ /\ conn[c].wbuf = 0
          /\ To(w, "w_rmn")
          /\ UNCHANGED <<conn, sock>>
       \/ /\ conn[c].wbuf > 0 /\ sock[c].peer = "reset"
          /\ CallInactive(w, "onWrite")
          /\ UNCHANGED <<conn, sock>>
       \/ /\ conn[c].wbuf > 0 /\ sock[c].peer # "reset"
          /\ \E n \in 0 .. conn[c].wbuf :
                /\ n = conn[c].wbuf \/ sock[c].out + n = SockCap
                /\ sock[c].out + n <= SockCap
                /\ conn' = [conn EXCEPT ![c].wbuf = @ - n]
                /\ sock' = [sock EXCEPT ![c].out = @ + n]
          /\ To(w, "w_yield")
    /\ UNCHANGED <<ready, batch, eops, wq, round, freeList>>

WriteRmn(w, c) ==
    /\ At(w, c, "w_rmn")
    /\ th' = [th EXCEPT ![w].pc = "w_inter", ![w].wrmn = conn[c].wbuf]
    /\ UNCHANGED <<conn, sock, ready, batch, eops, wq, round, freeList>>

(* Mutant: an empty w_buf is taken as the end of the work.                 *)
InterWrite_NoRecheck(w, c) ==
    /\ At(w, c, "w_inter")
    /\ MutexFree(c)
    /\ conn' = [conn EXCEPT ![c].onWrite = FALSE]
    /\ To(w, "w_check")
    /\ UNCHANGED <<sock, ready, batch, eops, wq, round, freeList>>

(* atm_conn_inter_write *)
InterWrite(w, c) ==
    /\ At(w, c, "w_inter")
    /\ MutexFree(c)
    /\ conn' = [conn EXCEPT ![c].onWrite = FALSE]
    /\ IF (conn[c].writeReqs > th[w].wreqs \/ th[w].wrmn > 0) /\ conn[c].active
       THEN AddNotify(c, WRITE)
       ELSE UNCHANGED eops
    /\ To(w, "w_check")
    /\ UNCHANGED <<sock, ready, batch, wq, round, freeList>>

(* atm_conn_yield_write *)
YieldWrite(w, c) ==
    /\ At(w, c, "w_yield")
    /\ MutexFree(c)
    /\ \/ /\ conn[c].writeReqs = th[w].wreqs \/ ~ conn[c].active
          /\ conn' = [conn EXCEPT ![c].onWrite = FALSE]
          /\ To(w, "w_check")
       \/ /\ conn[c].writeReqs # th[w].wreqs /\ conn[c].active
          /\ To(w, "w_active")
          /\ UNCHANGED conn
    /\ UNCHANGED <<sock, ready, batch, eops, wq, round, freeList>>

WriteCheck(w, c) ==
    /\ At(w, c, "w_check")
    /\ FreeCheck(w, c, "onWrite")

-----------------------------------------------------------------------------
Client(c) == ClientSend(c) \/ ClientRecv(c) \/ ClientClose(c) \/ ClientReset(c)

Loop ==
    \/ EpollWait
    \/ HandleOps
    \/ \E c \in Conns : Accept(c) \/ SkipEntry(c) \/ HandleRead(c) \/ HandleWrite(c)

ReadTask(w, c) ==
    \/ ReadActive(w, c) \/ ReadRaw(w, c) \/ SessProcess(w, c) \/ WriteNotify(w, c)
    \/ ReadRestore(w, c) \/ ReadAdd(w, c) \/ ReadCheck(w, c)

WriteTask(w, c) ==
    \/ WriteActive(w, c) \/ WriteReqs(w, c) \/ WriteRaw(w, c) \/ WriteRmn(w, c)
    \/ InterWrite(w, c) \/ YieldWrite(w, c) \/ WriteCheck(w, c)

Inactive(w, c) ==
    InactiveCheck(w, c) \/ InactiveLock(w, c) \/ InactiveUnlock(w, c)

Worker(w) ==
    \/ WorkerTake(w)
    \/ FreeFunc(w)
    \/ InactiveNotify(w)
    \/ \E c \in Conns : ReadTask(w, c) \/ WriteTask(w, c) \/ Inactive(w, c)

(* Nothing is under way: the loop sleeps in epoll_wait, the workers on     *)
(* their queues.  Or some thread holds a pointer into freed memory.        *)
Asleep ==
    /\ ready = {} /\ batch = <<>> /\ eops = <<>>
    /\ \A w \in Workers : th[w].pc = "idle" /\ wq[w] = <<>>

UseAfterFree ==
    \E c \in Conns :
        /\ conn[c].mem = "freed"
        /\ \/ \E w \in Workers : th[w].pc \in DerefPCs /\ th[w].c = c
           \/ \E i \in DOMAIN eops : eops[i].c = c
           \/ \E i \in DOMAIN batch : batch[i].c = c

Stopped == (Asleep \/ UseAfterFree) /\ UNCHANGED vars

Next ==
    \/ \E c \in Conns : Client(c)
    \/ Loop
    \/ \E w \in Workers : Worker(w)
    \/ Stopped

Spec == Init /\ [][Next]_vars

(* The kernel schedules every thread, and a client reads what it is sent.  *)
(* No client is obliged to send, close or reset.                           *)
Fairness ==
    /\ WF_vars(Loop)
    /\ \A w \in Workers : WF_vars(Worker(w))
    /\ \A c \in Conns : WF_vars(ClientRecv(c))

FairSpec == Spec /\ Fairness

-----------------------------------------------------------------------------
(* Properties.                                                             *)

(* Worker w is inside atm_sess_process for connection c.                   *)
InSession(w, c) == th[w].c = c /\ th[w].pc \in {"r_sess", "r_notify"}

(* At most one worker runs a session's code at a time: handle_read unmasks *)
(* EPOLLIN before the task, the task masks it again after the session.     *)
SingleSessionThread ==
    \A c \in Conns, v, w \in Workers : InSession(v, c) /\ InSession(w, c) => v = w

(* No session is freed while a worker runs its code; the types hold.       *)
SessionNotFreed == TypeOK /\ \A c \in Conns, w \in Workers : InSession(w, c) => Live(c)

(* A connection is queued to be freed exactly when it has become inactive, *)
(* once, whichever of its tasks found out and however many did: neither a  *)
(* double free nor a connection that nobody will free.                     *)
ListedIffInactive ==
    \A c \in Conns : freeList[c] = IF Live(c) /\ ~ conn[c].active THEN 1 ELSE 0

Pending(kind, c) == \E w \in Workers : \E i \in DOMAIN wq[w] : wq[w][i] = [kind |-> kind, c |-> c]

(* A connection that only waits to be freed has a free task on its way:    *)
(* the last task to finish always triggers atm_conn_free_func.             *)
FreeNotForgotten ==
    \A c \in Conns :
        freeList[c] > 0 /\ Reclaimable(c) =>
            \/ Pending("free", NoConn)
            \/ \E w \in Workers :
                   \/ th[w].pc \in {"f_run", "inact_notify"}
                   \/ th[w].c = c /\ th[w].pc \in {"inact_unlock", "r_check", "w_check"}

(* Replies in w_buf always have somebody coming to write them: a write     *)
(* task that will still look, an event that will start one, a session      *)
(* about to ask, or a task about to make the connection inactive.  The     *)
(* flag on_write and the counter write_reqs never leave them to nobody.    *)
WriterComing(c) ==
    \/ WRITE \in conn[c].events
    \/ \E i \in DOMAIN eops : eops[i] = [c |-> c, mask |-> WRITE]
    \/ Pending("write", c)
    \/ \E w \in Workers :
          /\ th[w].c = c
          /\ \/ th[w].pc \in {"r_notify", "w_active", "w_reqs", "w_raw", "w_rmn"}
             \/ th[w].pc \in {"inact_check", "inact_lock"}
             \/ th[w].pc = "w_yield" /\ conn[c].writeReqs # th[w].wreqs
             \/ th[w].pc = "w_inter" /\ (conn[c].writeReqs > th[w].wreqs \/ th[w].wrmn > 0)

ReplyNotStuck ==
    \A c \in Conns : Live(c) /\ conn[c].active /\ conn[c].wbuf > 0 => WriterComing(c)

(* Every reply put in w_buf is eventually taken by the socket.             *)
RepliesWritten == \A c \in Conns : conn[c].wbuf > 0 ~> (conn[c].wbuf = 0 \/ ~ conn[c].active)

(* Every request of a client that waits for each reply before it asks      *)
(* again is answered.  (One that sends two lines at once may wait for ever *)
(* for the second reply: atm_sess_process runs one command for each event.) *)
RequestsAnswered ==
    \A c \in Conns :
        [](sock[c].asked <= sock[c].answered + 1) =>
            \A n \in 1 .. MaxReqs :
                sock[c].asked = n ~> (sock[c].answered >= n \/ sock[c].peer # "open")

(* A connection closed by its client is eventually freed.                  *)
ClosedIsFreed == \A c \in Conns : sock[c].peer = "eof" ~> conn[c].mem = "freed"

=============================================================================
