------------------------------ MODULE AtmQueue ------------------------------
(* The blocking queue of a worker (atm_queue.c) over its linked list       *)
(* (atm_list.c).  The event loop is the only thread that pushes            *)
(* (atm_task_notify_handle), the worker the only one that pops.            *)
(* atm_queue_push works on the list under qlock; atm_queue_pop waits under *)
(* qlock until size is not zero, gives the lock back and takes the head    *)
(* without it.  So the statements of the two interleave, and a statement   *)
(* that reads and writes size is two steps.                                *)
(*                                                                         *)
(* Entries are numbered in the order they are pushed.                      *)
EXTENDS Naturals, Sequences, FiniteSets

CONSTANT MaxPush        \* bound: entries pushed

ASSUME QueueAssumption == MaxPush \in Nat \ {0}

NULL == 0
Nodes == 1..MaxPush

VARIABLES
    head, tail, size, next,     \* the list and the next pointers of its entries
    qlock,                      \* who holds q->qlock: "loop", "worker", "none"
    ppc, ptail, psize,          \* the push: where it is, what it has read
    cpc, res, csize,            \* the pop
    pushed,                     \* entries allocated so far
    popped,                     \* what atm_queue_pop has returned, in order
    freed,                      \* entries whose memory was given back
    crash,                      \* "no", "exit" (list currapt), "uaf" (freed entry used)
    raced,                      \* a push has run while the last entry was popped (history)
    miscounted                  \* a push and a pop have changed size at once (history)

list  == <<head, tail, size, next>>
push  == <<ppc, ptail, psize, pushed>>
pop   == <<cpc, res, csize, popped, freed>>
vars  == <<list, qlock, push, pop, crash, raced, miscounted>>

Init ==
    /\ head = NULL /\ tail = NULL /\ size = 0
    /\ next = [n \in Nodes |-> NULL]
    /\ qlock = "none"
    /\ ppc = "idle" /\ ptail = NULL /\ psize = 0
    /\ cpc = "call" /\ res = NULL /\ csize = 0
    /\ pushed = 0 /\ popped = << >> /\ freed = {}
    /\ crash = "no" /\ raced = FALSE /\ miscounted = FALSE

-----------------------------------------------------------------------------
(* atm_queue_push, in the event loop                                       *)

PushLock ==
    /\ ppc = "idle" /\ pushed < MaxPush /\ qlock = "none"
    /\ qlock' = "loop"
    /\ pushed' = pushed + 1
    /\ ppc' = "tail"
    /\ UNCHANGED <<list, ptail, psize, pop, crash>>

PushReadTail ==
    /\ ppc = "tail"
    /\ ptail' = tail
    /\ ppc' = IF tail = NULL THEN "head" ELSE "link"
    /\ UNCHANGED <<list, qlock, psize, pushed, pop, crash>>

(* The tail is NULL: the list must be empty ...                            *)
PushReadHead ==
    /\ ppc = "head"
    /\ \/ /\ head = NULL /\ ppc' = "first" /\ UNCHANGED crash
       \/ /\ head # NULL /\ crash' = "exit" /\ UNCHANGED ppc
    /\ UNCHANGED <<list, qlock, ptail, psize, pushed, pop>>

PushFirst ==
    /\ ppc = "first"
    /\ head' = pushed
    /\ ppc' = "settail"
    /\ UNCHANGED <<tail, size, next, qlock, ptail, psize, pushed, pop, crash>>

(* ... or list->tail->next = entry, where the build may read list->tail    *)
(* again or use what it read before.                                       *)
PushLink ==
    /\ ppc = "link"
    /\ \E t \in {ptail, tail} :
          IF t = NULL \/ t \in freed
          THEN crash' = "uaf" /\ UNCHANGED <<next, ppc>>
          ELSE next' = [next EXCEPT ![t] = pushed] /\ ppc' = "settail" /\ UNCHANGED crash
    /\ UNCHANGED <<head, tail, size, qlock, ptail, psize, pushed, pop>>

PushSetTail ==
    /\ ppc = "settail"
    /\ tail' = pushed
    /\ ppc' = "sizeload"
    /\ UNCHANGED <<head, size, next, qlock, ptail, psize, pushed, pop, crash>>

PushReadSize ==
    /\ ppc = "sizeload"
    /\ psize' = size
    /\ ppc' = "sizestore"
    /\ UNCHANGED <<list, qlock, ptail, pushed, pop, crash>>

PushUnlock ==
    /\ ppc = "sizestore"
    /\ size' = psize + 1
    /\ qlock' = "none"
    /\ ppc' = "idle"
    /\ UNCHANGED <<head, tail, next, ptail, psize, pushed, pop, crash>>

-----------------------------------------------------------------------------
(* atm_queue_pop, in the worker                                            *)

(* atm_queue_nonempty_wait: under qlock; it sleeps while size is zero and  *)
(* is woken by the signal of a push or by its time limit of five seconds.  *)
NonemptyWait ==
    /\ cpc = "call" /\ qlock = "none" /\ size # 0
    /\ cpc' = "head"
    /\ UNCHANGED <<list, qlock, push, res, csize, popped, freed, crash>>

PopReadHead ==
    /\ cpc = "head"
    /\ res' = head
    /\ cpc' = IF head = NULL THEN "call" ELSE "next"
    /\ UNCHANGED <<list, qlock, push, csize, popped, freed, crash>>

(* Mutant: the head is moved past the entry that follows, too.             *)
PopNext_Skip ==
    /\ cpc = "next"
    /\ head' = IF next[res] = NULL THEN NULL ELSE next[next[res]]
    /\ cpc' = "tail"
    /\ UNCHANGED <<tail, size, next, qlock, push, res, csize, popped, freed, crash>>

(* Mutant: the head stays.                                                 *)
PopNext_Keep ==
    /\ cpc = "next"
    /\ cpc' = "tail"
    /\ UNCHANGED <<list, qlock, push, res, csize, popped, freed, crash>>

PopNext ==
    /\ cpc = "next"
    /\ head' = next[res]
    /\ cpc' = "tail"
    /\ UNCHANGED <<tail, size, next, qlock, push, res, csize, popped, freed, crash>>

(* Mutant: the tail is left where it is.                                   *)
PopReadTail_Leaves ==
    /\ cpc = "tail"
    /\ cpc' = "sizeload"
    /\ UNCHANGED <<list, qlock, push, res, csize, popped, freed, crash>>

PopReadTail ==
    /\ cpc = "tail"
    /\ cpc' = IF tail = res THEN "cleartail" ELSE "sizeload"
    /\ UNCHANGED <<list, qlock, push, res, csize, popped, freed, crash>>

(* Mutant: the entry that was the last one is not counted.                 *)
PopClearTail_Uncounted ==
    /\ cpc = "cleartail"
    /\ tail' = NULL
    /\ cpc' = "free"
    /\ UNCHANGED <<head, size, next, qlock, push, res, csize, popped, freed, crash>>

PopClearTail ==
    /\ cpc = "cleartail"
    /\ tail' = NULL
    /\ cpc' = "sizeload"
    /\ UNCHANGED <<head, size, next, qlock, push, res, csize, popped, freed, crash>>

PopReadSize ==
    /\ cpc = "sizeload"
    /\ csize' = size
    /\ cpc' = "sizestore"
    /\ UNCHANGED <<list, qlock, push, res, popped, freed, crash>>

(* list->size--, in atm_uint_t: zero goes to the largest value, of which   *)
(* only that it is not zero matters.                                       *)
PopWriteSize ==
    /\ cpc = "sizestore"
    /\ size' = IF csize = 0 THEN MaxPush + 1 ELSE csize - 1
    /\ cpc' = "free"
    /\ UNCHANGED <<head, tail, next, qlock, push, res, csize, popped, freed, crash>>

(* atm_list_entry_isol and atm_free: the task is the worker's.             *)
PopFree ==
    /\ cpc = "free"
    /\ popped' = Append(popped, res)
    /\ freed' = freed \cup {res}
    /\ next' = [next EXCEPT ![res] = NULL]
    /\ cpc' = "call"
    /\ UNCHANGED <<head, tail, size, qlock, push, res, csize, crash>>

-----------------------------------------------------------------------------
(* The event loop is in atm_list_push and the worker in atm_list_lpop with *)
(* an entry next to the one that is being pushed.                          *)
Overlap ==
    /\ ppc \in {"tail", "head", "first", "link", "settail"}
    /\ cpc \in {"next", "tail", "cleartail", "sizeload", "sizestore", "free"}
    /\ res \in {pushed - 1, pushed}

(* Both have read size and neither has written it: one update is lost.     *)
SizeOverlap == ppc = "sizestore" /\ cpc = "sizestore"

Push == \/ PushLock \/ PushReadTail \/ PushReadHead \/ PushFirst
        \/ PushLink \/ PushSetTail \/ PushReadSize \/ PushUnlock

Pop == \/ NonemptyWait \/ PopReadHead \/ PopNext \/ PopReadTail
       \/ PopClearTail \/ PopReadSize \/ PopWriteSize \/ PopFree

Step(A) ==
    /\ crash = "no" /\ A
    /\ raced' = (raced \/ Overlap')
    /\ miscounted' = (miscounted \/ SizeOverlap')

Next == Step(Push \/ Pop)

Spec == Init /\ [][Next]_vars

(* A push that has begun is finished, and the worker goes on while it can: *)
(* whether it waits is for the signal of a push or the time limit to end.  *)
FairSpec == Spec /\ WF_vars(Step(Push /\ ppc # "idle")) /\ WF_vars(Step(Pop))

-----------------------------------------------------------------------------
(* Properties                                                              *)

(* Types, and: a push holds qlock from its first read to its last write.   *)
(* The size never wraps, whatever the race does to it.                     *)
TypeOK ==
    /\ {head, tail, ptail, res} \subseteq Nodes \cup {NULL}
    /\ next \in [Nodes -> Nodes \cup {NULL}]
    /\ {size, psize, csize} \subseteq 0..MaxPush
    /\ qlock \in {"loop", "none"} /\ (qlock = "loop" <=> ppc # "idle")
    /\ pushed \in 0..MaxPush /\ popped \in Seq(Nodes) /\ freed \subseteq Nodes

(* Whatever the race does to the list, a task is run at most once and the  *)
(* tasks of one worker run in the order they were dispatched.  Types hold. *)
PopsInOrder == TypeOK /\ \A i, j \in DOMAIN popped : i < j => popped[i] < popped[j]

(* The entries pushed and not yet popped, from the head to the tail.       *)
Linked ==
    LET lo == Len(popped) + 1
        hi == pushed
    IN  IF hi < lo
        THEN head = NULL /\ tail = NULL
        ELSE /\ head = lo /\ tail = hi /\ next[hi] = NULL
             /\ \A n \in lo..hi - 1 : next[n] = n + 1

Between == ppc = "idle" /\ cpc = "call"

(* The missing lock of atm_queue_pop does harm to the pointers of the list *)
(* only if a push runs while the last entry is being taken: until then no  *)
(* entry is lost, no freed entry is used, the list is never found currapt, *)
(* and between the calls it is the entries pushed and not yet popped.      *)
HarmOnlyAtLastEntry ==
    ~ raced => crash = "no" /\ (Between => Linked)

(* It does harm to size only if a push and a pop, of a list of any length, *)
(* both read it before either writes it (atm_list.c:116, 220).  Until then *)
(* it counts the entries pushed and not popped, whatever became of them in *)
(* the list.                                                               *)
SizeCounts ==
    ~ miscounted => (Between => size = pushed - Len(popped))

(* As long as neither happens, every task pushed is popped: the worker     *)
(* never waits at atm_queue.c:33 while there is one.                       *)
EveryEntryPopped ==
    \A n \in Nodes : (pushed >= n) ~> \/ \E i \in DOMAIN popped : popped[i] = n
                                      \/ raced \/ miscounted
=============================================================================
