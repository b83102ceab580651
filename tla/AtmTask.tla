------------------------------- MODULE AtmTask -------------------------------
(***************************************************************************)
(* The pool of workers of core/atm_task.c: its array (AtmArr), the round   *)
(* robin of the dispatch, the workers' loop and the monitor that is meant  *)
(* to grow and shrink the pool, with the callback loop of core/atm_ctx.c.  *)
(*                                                                         *)
(* The array holds pointers to workers, and atm_arr_get returns the        *)
(* ADDRESS of a slot.  atm_task_get_active_worker follows it; the monitor  *)
(* takes it for the worker itself, so that what it reads as the fields of  *)
(* worker i are words of the array:                                        *)
(*     blking_tasks = slot i, tid = slot i + 1, status = slot i + 2.       *)
(* A pointer is a word of at least 16 whose low half is no status.  The    *)
(* array and every status belong to the loop thread, so a call of its is   *)
(* one step.                                                               *)
(*                                                                         *)
(* The notify pipe is the mailbox that AtmPipe implements.  A worker's     *)
(* queue is a FIFO until a push meets a pop of it and the race that        *)
(* AtmQueue models does harm; then pops still come in order, but they may  *)
(* pass tasks over, or find none while there are some, or never come, and  *)
(* a push may kill the process.  A task is run whole.                      *)
(***************************************************************************)
EXTENDS Naturals, Sequences, FiniteSets, SequencesExt

CONSTANTS
    Task,          \* the tasks, each dispatched once
    NoTask,
    NWorkers,      \* config: workernum
    MaxWorkers,    \* bound: the threads pthread_create will give
    InitialLen,    \* ATM_ARR_INITIAL_LEN
    High, Low,     \* ATM_TASK_HIGH_LOAD_THRESHOLD, ATM_TASK_LOW_LOAD_THRESHOLD
    Period,        \* turns of the loop between two callback rounds (10000)
    ThreadWord,    \* what may stand 32 bytes into a thread's descriptor
    MonitorCalled  \* somebody calls the monitor as its comment asks

Workers == 1 .. MaxWorkers

ASSUME TaskAssumption ==
    /\ NoTask \notin Task
    /\ {NWorkers, MaxWorkers, High, Low} \subseteq Nat
    /\ InitialLen \in Nat /\ InitialLen >= 6
    /\ Period \in Nat \ {0}
    /\ ThreadWord \subseteq Nat
    /\ MonitorCalled \in BOOLEAN

ACTIVE == 0     \* ATM_TASK_WORK_ACTIVE
PASSIVE == 1    \* ATM_TASK_WORK_PASSIVE
RETIRED == 2    \* ATM_TASK_WORK_RETIRED

Ptr(w) == 16 * w
WorkerAt(word) == word \div 16

A == INSTANCE AtmArr WITH Word <- Nat, Zero <- 0

VARIABLES
    workers,      \* the array
    wk,           \* each worker: [status, tid (it has started), queue,
                  \*   popping (a pop has seen that there is a task),
                  \*   hurt (a push has met a pop and the queue took harm),
                  \*   passed (tasks of the queue that pops have passed over),
                  \*   job]
    round,        \* workers_round
    box,          \* messages in the notify pipe
    done,         \* which worker ran each task
    pc,           \* the loop thread: starting, in atm_event_routine, or after it
    tries,        \* workers atm_task_worker_init has tried to create
    loops,        \* loop_count, modulo Period
    first,        \* the workers the loop began with (history)
    monitored,    \* the monitor has run (history)
    down          \* the process was killed

vars == <<workers, wk, round, box, done, pc, tries, loops, first, monitored, down>>

NoWorker == 0

NewWorker == [status |-> ACTIVE, tid |-> FALSE, queue |-> <<>>, popping |-> FALSE,
              hurt |-> FALSE, passed |-> 0, job |-> NoTask]

TypeOK ==
    /\ workers.length \in Nat
    /\ workers.vals \in [0 .. workers.capacity - 1 ->
                           {ACTIVE, PASSIVE} \cup {Ptr(w) : w \in Workers}]
    /\ wk \in [Workers -> [status : {ACTIVE, PASSIVE, RETIRED}, tid : BOOLEAN,
                           queue : Seq(Task), popping : BOOLEAN, hurt : BOOLEAN,
                           passed : Nat, job : Task \cup {NoTask}]]
    /\ \A w \in Workers : wk[w].passed <= Len(wk[w].queue)
    /\ round \in Nat
    /\ box \in Seq(Task)
    /\ done \in [Task -> Workers \cup {NoWorker}]
    /\ pc \in {"start", "events", "callback"}
    /\ tries \in 0 .. NWorkers
    /\ loops \in 0 .. Period - 1
    /\ first \in 0 .. NWorkers
    /\ {monitored, down} \subseteq BOOLEAN

Init ==
    /\ workers = A!ArrNew
    /\ wk = [w \in Workers |-> NewWorker]
    /\ round = 0
    /\ box = <<>>
    /\ done = [t \in Task |-> NoWorker]
    /\ pc = "start"
    /\ tries = 0
    /\ loops = 0
    /\ first = 0
    /\ monitored = FALSE
    /\ down = FALSE

-----------------------------------------------------------------------------
(* The pool.                                                               *)

Slots == 0 .. workers.length - 1

InPool(w) == \E i \in Slots : workers.vals[i] = Ptr(w)

(* atm_task_add_worker.  pthread_create may fail, and then the worker is   *)
(* freed and the array unchanged.  The thread starts later.                *)
AddWorker ==
    /\ \/ \E w \in Workers :
            /\ w = workers.length + 1
            /\ workers' = A!ArrAdd(workers, Ptr(w))
       \/ UNCHANGED workers
    /\ UNCHANGED wk

(* The word the monitor takes for the status of the worker in slot i.      *)
StatusWord(i) == workers.vals[i + 2]

Counted == {i \in Slots : StatusWord(i) = ACTIVE}

(* atm_task_load would follow the tid of a worker whose thread has not     *)
(* run, or divide by zero.                                                 *)
LoadKills ==
    \/ Counted = {}
    \/ \E i \in Counted : ~ wk[WorkerAt(workers.vals[i])].tid

(* atm_task_load: the size of the "queue" of each counted worker is a word *)
(* of its thread's descriptor.                                             *)
Load(word) ==
    FoldFunction(LAMBDA x, sum : sum + x, 0, word) \div Cardinality(Counted)

(* Mutant: the mark goes to the slot and not to the field.                 *)
DelWorker_Slot ==
    /\ IF workers.length <= NWorkers \/ Counted = {} THEN UNCHANGED workers
       ELSE \E i \in Counted :
              /\ \A j \in Counted : i <= j
              /\ workers' = [workers EXCEPT !.vals = [@ EXCEPT ![i] = PASSIVE]]
    /\ UNCHANGED wk

(* atm_task_del_worker                                                     *)
DelWorker ==
    /\ IF workers.length <= NWorkers \/ Counted = {} THEN UNCHANGED workers
       ELSE \E i \in Counted :
              /\ \A j \in Counted : i <= j
              /\ workers' = [workers EXCEPT !.vals = [@ EXCEPT ![i + 2] = PASSIVE]]
    /\ UNCHANGED wk

(* The recycling in atm_task_get_active_worker: the slots, but for those   *)
(* whose "status" is RETIRED, go to a new array.                           *)
Recycled ==
    FoldLeft(LAMBDA a, i : IF StatusWord(i) = RETIRED THEN a ELSE A!ArrAdd(a, workers.vals[i]),
             A!ArrNew, [n \in 1 .. workers.length |-> n - 1])

-----------------------------------------------------------------------------
(* The loop thread.                                                        *)

(* The loop of atm_task_worker_init.                                       *)
StartWorker ==
    /\ pc = "start"
    /\ tries < NWorkers
    /\ tries' = tries + 1
    /\ AddWorker
    /\ UNCHANGED <<round, box, done, pc, loops, first, monitored, down>>

(* The server's loop begins.                                               *)
Serve ==
    /\ pc = "start"
    /\ tries = NWorkers
    /\ pc' = "events"
    /\ first' = workers.length
    /\ UNCHANGED <<workers, wk, round, box, done, tries, loops, monitored, down>>

(* Mutant: the round does not move.                                        *)
NextRound_Same == round

NextRound == round + 1

(* atm_queue_push to a worker's queue.  It holds qlock, so it may meet a   *)
(* pop that has waited, not one that waits; a queue that took harm may     *)
(* have lost its tail, and then a push uses a freed entry or exits.        *)
Push(w, t) ==
    /\ \E hurts \in BOOLEAN :
         /\ hurts => wk[w].popping
         /\ wk' = [wk EXCEPT ![w].queue = Append(@, t), ![w].hurt = @ \/ hurts]
    /\ down' \in BOOLEAN
    /\ down' => wk'[w].hurt

(* atm_task_notify_handle and atm_task_get_active_worker; an empty pool is *)
(* followed through a NULL slot.                                           *)
Handle ==
    /\ pc = "events"
    /\ ~ down
    /\ box # <<>>
    /\ IF workers.length = 0
       THEN down' = TRUE /\ UNCHANGED <<workers, wk, round, box>>
       ELSE LET w == WorkerAt(workers.vals[NextRound % workers.length]) IN
            /\ round' = NextRound
            /\ workers' = IF wk[w].status = RETIRED THEN Recycled ELSE workers
            /\ Push(w, Head(box))
            /\ box' = Tail(box)
    /\ UNCHANGED <<done, pc, tries, loops, first, monitored>>

(* atm_event_routine returns.                                              *)
EventsOver ==
    /\ pc = "events"
    /\ ~ down
    /\ pc' = "callback"
    /\ UNCHANGED <<workers, wk, round, box, done, tries, loops, first, monitored, down>>

(* atm_ctx_callback_loop.  What was registered in bg_routine are the first *)
(* bytes of atm_task_moniter_routine, copied by atm_arr_add, and what is   *)
(* called is the address of the slot: memory that may not be executed.     *)
CallbackLoop ==
    /\ pc = "callback"
    /\ ~ down
    /\ loops' = (loops + 1) % Period
    /\ down' = (loops' = 0)
    /\ pc' = "events"
    /\ UNCHANGED <<workers, wk, round, box, done, tries, first, monitored>>

(* atm_task_moniter_routine, called by the loop thread outside of the      *)
(* handlers.                                                               *)
Monitor ==
    /\ MonitorCalled
    /\ pc = "callback"
    /\ ~ down
    /\ monitored' = TRUE
    /\ IF LoadKills THEN down' = TRUE /\ UNCHANGED <<workers, wk>>
       ELSE /\ \E word \in [Counted -> ThreadWord] :
                 CASE Load(word) > High -> AddWorker
                   [] Load(word) < Low -> DelWorker
                   [] OTHER -> UNCHANGED <<workers, wk>>
            /\ UNCHANGED down
    /\ UNCHANGED <<round, box, done, pc, tries, loops, first>>

-----------------------------------------------------------------------------
(* Threads that have something to run, and the workers.                    *)

(* Where task t is: <<the worker it is with, in what, at which place>>.    *)
InPipe(t) == {<<NoWorker, "pipe", i>> : i \in {j \in DOMAIN box : box[j] = t}}

InQueue(t, w) == {<<w, "queue", i>> : i \in {j \in DOMAIN wk[w].queue : wk[w].queue[j] = t}}

InHand(t) == {<<w, "job", 0>> : w \in {v \in Workers : wk[v].job = t}}

RunBy(t) == {<<w, "run", 0>> : w \in {v \in Workers : done[t] = v}}

Places(t) == InPipe(t) \cup (UNION {InQueue(t, w) : w \in Workers}) \cup InHand(t) \cup RunBy(t)

(* atm_task_dispatch                                                       *)
Dispatch(t) ==
    /\ pc # "start"
    /\ ~ down
    /\ Places(t) = {}
    /\ box' = Append(box, t)
    /\ UNCHANGED <<workers, wk, round, done, pc, tries, loops, first, monitored, down>>

WorkerStep(w) ==
    /\ InPool(w)
    /\ ~ down
    /\ UNCHANGED <<workers, round, box, pc, tries, loops, first, monitored, down>>

(* In the loop of atm_task_worker_func, about to call atm_queue_pop.       *)
Waiting(w) ==
    /\ wk[w].tid
    /\ wk[w].status # RETIRED
    /\ wk[w].job = NoTask
    /\ ~ wk[w].popping

(* worker->tid = pthread_self(), then into the loop of                     *)
(* atm_task_worker_func.                                                   *)
Begin(w) ==
    /\ WorkerStep(w)
    /\ ~ wk[w].tid
    /\ wk' = [wk EXCEPT ![w].tid = TRUE]
    /\ UNCHANGED done

(* atm_queue_nonempty_wait ends.  What size says of a queue that took harm *)
(* is unknown.                                                             *)
Take(w) ==
    /\ WorkerStep(w)
    /\ Waiting(w)
    /\ wk[w].queue # <<>> \/ wk[w].hurt
    /\ wk' = [wk EXCEPT ![w].popping = TRUE]
    /\ UNCHANGED done

(* The task a pop can take: the first, or any that none has passed over.   *)
Poppable(w) ==
    {i \in DOMAIN wk[w].queue : wk[w].passed < i /\ (i = 1 \/ wk[w].hurt)}

(* Mutant: a worker that took a task ends.                                 *)
Pop_Once(w) ==
    /\ WorkerStep(w)
    /\ wk[w].popping
    /\ \E i \in Poppable(w) :
         wk' = [wk EXCEPT ![w].job = wk[w].queue[i], ![w].popping = FALSE,
                          ![w].queue = RemoveAt(@, i), ![w].passed = i - 1, ![w].status = RETIRED]
    /\ UNCHANGED done

(* Mutant: the task is peeked.                                             *)
Pop_Peeks(w) ==
    /\ WorkerStep(w)
    /\ wk[w].popping
    /\ \E i \in Poppable(w) :
         wk' = [wk EXCEPT ![w].job = wk[w].queue[i], ![w].popping = FALSE]
    /\ UNCHANGED done

(* atm_queue_pop gives a task; those before it are in no pop's way any     *)
(* more (AtmQueue: PopsInOrder).                                           *)
Pop(w) ==
    /\ WorkerStep(w)
    /\ wk[w].popping
    /\ \E i \in Poppable(w) :
         wk' = [wk EXCEPT ![w].job = wk[w].queue[i], ![w].popping = FALSE,
                          ![w].queue = RemoveAt(@, i), ![w].passed = i - 1]
    /\ UNCHANGED done

(* It gives nothing: there was no head, whatever size said.                *)
PopNothing(w) ==
    /\ WorkerStep(w)
    /\ wk[w].popping
    /\ wk[w].hurt
    /\ wk' = [wk EXCEPT ![w].popping = FALSE,
                        ![w].status = IF @ = PASSIVE THEN RETIRED ELSE @]
    /\ UNCHANGED done

(* t->run(t), then the task is freed.                                      *)
Run(w) ==
    /\ WorkerStep(w)
    /\ wk[w].job # NoTask
    /\ done' = [done EXCEPT ![wk[w].job] = w]
    /\ wk' = [wk EXCEPT ![w].job = NoTask]

Next ==
    \/ StartWorker
    \/ Serve
    \/ Handle
    \/ EventsOver
    \/ CallbackLoop
    \/ Monitor
    \/ \E t \in Task : Dispatch(t)
    \/ \E w \in Workers : Begin(w) \/ Take(w) \/ Pop(w) \/ PopNothing(w) \/ Run(w)

Spec == Init /\ [][Next]_vars

(* The threads are scheduled, the pipe hands over its messages (AtmPipe:   *)
(* EveryMessageDelivered), a worker is woken if its queue took no harm     *)
(* (AtmQueue: EveryEntryPopped) and a callback round ends.  epoll_wait may *)
(* sleep for ever, and nobody must dispatch a task or call the monitor.    *)
FairSpec ==
    /\ Spec
    /\ WF_vars(StartWorker \/ Serve)
    /\ WF_vars(CallbackLoop)
    /\ SF_vars(Handle)
    /\ \A w \in Workers :
         WF_vars(Begin(w) \/ (Take(w) /\ ~ wk[w].hurt) \/ Pop(w) \/ PopNothing(w) \/ Run(w))

-----------------------------------------------------------------------------
(* Whatever the monitor reads and marks, and however the pool grows,       *)
(* every slot in use points to the worker it was added for: the word the   *)
(* monitor marks as a status (atm_task.c:82) is never a slot that          *)
(* atm_task_get_active_worker follows, and its recycling never runs.       *)
(* Types hold.                                                             *)
SlotsHoldWorkers ==
    TypeOK /\ \A i \in Slots : i + 1 \in Workers /\ workers.vals[i] = Ptr(i + 1)

(* A task that was dispatched is in one place: the pipe, one queue (of     *)
(* which a pop may have passed it over), one worker's hands, or run.       *)
(* Neither the dispatch, nor a growing array, nor a queue that took harm   *)
(* repeats one.                                                            *)
TaskInOnePlace ==
    \A t \in Task : \A p, q \in Places(t) : p = q

(* While the pool is the one the loop began with, two of its workers have  *)
(* been given the same number of tasks, or one more (atm_task.c:164).      *)
SharesEven ==
    LET Given(w) == Cardinality({t \in Task : \E p \in Places(t) : p[1] = w})
    IN workers.length = first =>
         \A v, w \in Workers : (InPool(v) /\ InPool(w)) => Given(v) <= Given(w) + 1

(* In a queue that took harm from a push and a pop at once.                *)
Stranded(t) == \E w \in Workers : wk[w].hurt /\ InQueue(t, w) # {}

(* A dispatched task is run, unless the process is killed or the queue the *)
(* task is in took harm from a push and a pop at once: the round robin,    *)
(* the monitor and the growth leave none behind in a queue that nobody     *)
(* pops.  (It never vanishes on its way, and so the second conjunct says    *)
(* that being dispatched leads to being run.)                              *)
EveryTaskRun ==
    /\ [][\A t \in Task : Places(t) # {} => Places(t)' # {}]_vars
    /\ \A t \in Task : []<>(Places(t) = {} \/ done[t] # NoWorker \/ down \/ Stranded(t))

(* The monitor "should be invoked periodically" (atm_task.c:348), by the   *)
(* callback round it is registered for.                                    *)
MonitorRuns == [][CallbackLoop /\ loops' = 0 => monitored']_vars
=============================================================================
