# atm-cache: TLA+ models and proofs

atm-cache is a memory cache server: one thread runs an epoll loop, a fixed
number of worker threads run the sessions of the clients, and a dictionary
protected by a read-write lock holds the values.  This directory models its
concurrent core, checks the models with TLC and proves the most important
invariants with TLAPS.  Paths below are relative to the repository.

## 1. Inventory

| component | state it keeps | operations | what makes it correct |
|---|---|---|---|
| notify pipe `src/os/unix/atm_pipe.c` | message queue under `mqlock`, a non-blocking pipe, the epoll edge | `atm_pipe_notify` (any thread), `atm_pip_handle_recv` (loop) | no lost wakeup; exactly once, in order; every message delivered |
| event loop `src/core/atm_event.c` | event masks, the batch `epoll_wait` returned | add/del/inactive of events, `atm_event_process_ev` | a watched socket is not forgotten, a masked one is not handled twice |
| connection `src/core/atm_conn.c` | `active`, `on_read`, `on_write`, `write_reqs`, `free_list`, two buffers | accept, read task, write task, write notification, inactivation, reclaiming | one read task at a time, replies written, freed exactly once and only when unused |
| session `src/core/atm_sess.c` | parser state, arguments, command | `atm_sess_process` | one reply for each request, and the one the request asks for |
| task dispatch `src/core/atm_task.c` | the array of workers, `workers_round`, each worker's status | dispatch, worker loop, monitor of the pool, recycling | no task runs twice; every task runs, the queue permitting; every slot in use is a worker's; the load is shared |
| blocking queue `src/core/atm_queue.c`, list `atm_list.c` | head, tail, size, `qlock` | push (loop), pop (worker) | FIFO, nothing lost, list never corrupted |
| buffers `src/core/atm_buf.c`, blocks `atm_blk.c` | list of blocks under `_mutex`, unlocked indices, `aval`, the block pool | fill and drain, to and from memory or a socket; block pool | bytes in order, none lost, none of another connection; a block has one owner |
| dictionary `src/core/atm_dict.c` | two tables, `rehash_index`, counters | get, set, del, incremental rehash | a map; a read never goes back to an older value; counters agree; growth keeps up |
| commands `src/core/atm_cmd.c`, objects `atm_obj.c` | command table; keys and values | set, get | a reply is the answer to its request |
| linked list `src/core/atm_list.c`, dynamic array `atm_arr.c` | entries with `prev` and `next`; slots, capacity, length | push, pops, delete, clear, iterator; add, set, delete | a deque; a sequence; pointers agree; values have one owner |
| strings `src/core/atm_str.c` | a header with `len` and `cap` before the text | new, append, grow, compare, split | the text is inside its memory and `len` is its length; quotes nest |
| server and context `src/core/atm_server.c`, `atm_ctx.c` | callbacks, `loop_count` | start, loop, callback round | callbacks run |
| siphash, configuration, log, time, files, signals, allocation, sockets | sequential or I/O | | outside the models (section 8) |

How they interact: the loop turns readiness into read and write tasks and sends
them through the *task pipe* to itself, where the handler puts each task in the
queue of the next worker.  A worker reads the socket into `r_buf`, takes a line,
runs its command on the dictionary, puts the reply in `w_buf` and sends an event
operation through the *event pipe* to have the socket watched for writing, then
another to have it watched for reading again.  A write task empties `w_buf`.
The flags of a connection, under its `_mutex`, decide who asks for what; the
global `free_list`, under `_mutex_free`, holds inactive connections until both
their tasks are over.  The loop ends each turn with the callback round that was
meant to drive the monitor of the pool.

The hard behaviours are the hand-overs.  The byte of the pipe is written after
the lock is released and may be refused; epoll is edge-triggered; a hang-up is
reported whatever the mask; flags are read without the mutex and checked again
with it; the queue is popped without its lock and a buffer's indices move without
theirs; reads and writes of the dictionary meet a half-done rehash; a socket takes
a part of a reply; the bytes of a line come in any pieces.  `PROJECT.json` lists
each hazard with its line and the properties that watch it.

## 2. Modules

| module | models | composes / used by |
|---|---|---|
| `AtmMailbox` | abstract: a FIFO mailbox | implemented by `AtmPipe` |
| `AtmPipe`, `MCPipe` | the notify pipe, one system call or shared access a step | its mailbox is what `AtmConn` uses for `eops` |
| `AtmPipeProofs` | theorems about `AtmPipe` | |
| `AtmConn`, `MCConn` | loop, workers and connections | pipes as the mailboxes above, queues as FIFO sequences |
| `AtmConnProofs` | theorems about `AtmConn` | |
| `AtmTask`, `AtmTaskProofs` | the worker pool, its monitor and the callback loop | its array is `AtmArr`; the pipe is a mailbox; a queue does what `AtmQueue` allows |
| `AtmSess`, `MCSess` | sessions and commands, from bytes to replies | strings are `AtmStr`; the cache is a map whose reads may lag, as `AtmStore` |
| `AtmSessProofs` | theorems about `AtmSess` | |
| `AtmStr` | strings and the split of a line | used by `AtmSess` |
| `AtmDeque` | abstract: a deque | implemented by `AtmList` |
| `AtmList` | the linked list and its iterator, pointer by pointer | |
| `AtmArr`, `AtmArrCalls` | the growing array as operators, and any calls on one | `AtmArr` used by `AtmTask` |
| `AtmDataProofs` | theorems about `AtmArrCalls`, `AtmStr` and `AtmList` | |
| `MCContainers` | list and array for one run | they share nothing |
| `AtmQueue`, `MCQueue`, `AtmQueueProofs` | a worker's queue, statement by statement | what `AtmTask` allows a queue to do; `AtmConn` takes it for a FIFO |
| `AtmBuf`, `MCBuf`, `AtmBufProofs` | the buffers and the block pool | what `AtmConn` counts as lines and replies |
| `AtmStore` | abstract: a map whose reads may lag behind its writes | implemented by `AtmDict`; the cache of `AtmSess` |
| `AtmDict`, `MCDict` | the dictionary and its rehash | |
| `AtmDictProofs` | theorems about `AtmDict` | |

**AtmPipe.**  `pc[t]` walks a thread through `atm_pipe_notify` (NotifyCall, Lock,
Push, Unlock, Write), and the loop also through `atm_pip_handle_recv` (EpollWait,
RecvCall, RecvLock, RecvRead, ProcessMsg, RecvUnlock).  `bytes` is what the kernel
holds, `edge` whether the reading end is on the ready list, `fired` whether it is in
the batch being handled; other handlers of the same batch may notify first.  The
kernel reports a write to an empty pipe and is free to report or not one to a pipe
with bytes.

**AtmConn.**  `conn[c]` is `atm_conn_t` with its event and session, allocated and
released together; `sock[c]` is the client and the kernel's two buffers, counted in
requests and replies; `eops` is the event pipe; `wq` the workers' queues; `th[w]` a
worker's place in its task with the locals that outlive a step (`wreqs`, `wrmn`).
A critical section of `c->_mutex` is one step; that of `atm_conn_inactive` is cut
before its unlock, since the connection is then already in `free_list`.  An unlocked
read of `active` is a step of its own.  `freeList` says how often each connection is
in `free_list`; its order decides nothing.  A thread that would follow a pointer to a
freed connection stops there (`Stopped`), because nothing is defined after that.

**AtmQueue.**  One access to `head`, `tail`, `next` or `size` a step, for the push
under `qlock` and for the pop that has given it back.  The build is `-O0`
(`auto/cc/gcc:39`), so `list->tail` may be read twice in `list->tail->next = entry`.
`prev` is left out: nothing in the path reads it.  Two histories name the two moments
at which the missing lock does harm: `raced`, a push that runs while the last entry is
being popped, and `miscounted`, a push and a pop that have both read `size` when neither
has written it yet.

**AtmBuf.**  Each buffer has a filling and a draining thread, `fill[b]` and
`drain[b]`.  An r_buf's are the same read task, so they alternate; a w_buf's are the
read and the write task of a connection and run at the same time.  The list of
blocks changes under `buf->_mutex` (a whole section is one step for the filling side,
which reads only its own `widx`; the draining side reads the other's, so its section
is cut at each read).  The n-th byte of buffer b is `<<b, n>>`: a byte lost, repeated
or handed to another buffer shows.

**AtmDict.**  A set, get or delete holds the read-write lock, so it is one step, its
part of the rehash included (`Set` and `Del` end in `Rehash`).  A table keeps for each
key the values of its entries in list order; only the first of a key is ever looked at,
so the order between keys does not matter, and the hash says in which bucket the entries
are.  `Get` looks in the active table first, as `atm_dict_get` does, so during a rehash
it may give a value that is no longer the one last written; `AtmStore` has both, `store`
for the value last written and `seen` for what a read gives.  `made` is the set of
buckets that exist, kept apart from the contents because a bucket stays when it is
empty.  `NextPower` is the power of two of `atm_util_next_power`, `fatal` one of the six
calls of `exit` in the rehash.

**AtmTask.**  `workers` is the array with its slots, because the code depends on their
layout: `atm_arr_get` gives the address of a slot, which the dispatch follows to the
worker and the monitor does not.  What `atm_task_load`, `atm_task_del_worker` and the
recycling read as the status of worker i is therefore the word in slot i + 2
(`StatusWord`), and the load they add up comes from the thread's descriptor
(`ThreadWord`, any number).  The loop thread starts the workers (`StartWorker`, where
`pthread_create` may fail), then alternates event rounds and callback rounds;
`MonitorCalled` adds the calls of the monitor that its comment asks for.  A worker
begins, waits for its queue (`Take`), pops, runs.  Its queue is a FIFO as long as no
push meets a pop: a push while the worker is between its wait and the end of its pop
(`popping`) may leave the queue `hurt`, and of a hurt queue only what `PopsInOrder` of
`AtmQueue` says is known.  A pop may pass tasks over (`passed`), which no later one
returns to, it may find nothing (`PopNothing`), the wait need not end, and a push may
find the list currapt or use a freed entry.
`down` is the process killed by that, by a bad pointer or by a division by zero.

**AtmSess.**  A client sends the requests of a script; `TaskRead` moves any number of
the bytes on the wire to `rbuf`; then each turn of the loop of `atm_sess_process` is a
step.  A byte is a string, and a word without blanks or quotes counts as one byte.
`Words` are the bytes a client writes besides separators and quotes.
`argv` and `cmd` keep what the code does not assign.  `cache` is what was last written
to each key and `seen` what a get gives: with every set, any keys may stay behind
(`late`) and the others catch up (`Lag`), which is what the dictionary promises and no
more.  `order` records in which order the commands of all sessions ran and which keys
stayed behind, so that `RepliesExplained` can compare every reply with what one command
after the other would have answered on such a store (`Served`).  Where the code reads
past the end of `argv` the model has the two outcomes that can be told apart, a NULL
or a crash; a readable word that is neither is not modelled.

**AtmStr.**  `cap` and `len` with the code's rounding and unsigned difference; the
split is the code's loop, one byte after the other (`Splitting`), next to the split
that a stack of open quotes defines (`SplitRef`).

**AtmList, AtmArr.**  One call a step.  Entries are numbered in order of allocation, so
a value is known by the entry it came with; a freed entry keeps its mark.  `Walk` follows
the pointers, and `items`, the values met from the head on, is what stands for the deque.
The array's
slots are numbered from 0 and memory starts as zero, as `atm_alloc` gives it.

## 3. What the runs check

| run | states | shows |
|---|---|---|
| `pipe` | 99,828 | two workers and the loop, two messages each, a pipe of one byte: no queued message without a wakeup on its way; the pipe is the mailbox (`MailboxSpec`) and, with fairness, hands over every message |
| `conn` | 22,192 | one connection, two workers, a client that sends two requests ahead and may close: a session is run by one worker and not freed under it; replies are written; a client that waits for replies gets them; a closed connection is freed |
| `conn_reset` | 1.55 million | the same with a reset: tasks of one connection run at once; it is still put in `free_list` once, a reclaimable one has a free task on its way, and a reply in `w_buf` always has a writer coming |
| `dict` | 3,562 | sets and switches of resizing through three growths: no `exit`, the dictionary is a map whose reads may lag (`StoreSpec`), a read never goes back to an older copy |
| `dict_del` | 7,478 | deletes too, until an `exit`: counters, indices and contents agree, growth keeps up, a delete takes one entry of its key and none of another |
| `queue` | 10,830 | whatever the race does, tasks run at most once and in order; it harms the pointers only when the last entry is popped during a push, and `size` only when a push and a pop update it at once; until one of these every task pushed is popped |
| `buf` | 687,614 | an r_buf and a w_buf sharing a pool of one block: bytes come out in order, each once and from their own buffer; a block has one owner; `aval` agrees with what was put in and taken out; an r_buf loses nothing |
| `containers` | 93,032 | a list of up to four entries, with an iterator in the middle of it, is a deque whose pointers agree both ways, whose values have one owner and which loses none if it is deep; an array that grows and shrinks is the sequence of its calls |
| `task` | 238,595 | a pool of up to five workers with its monitor called at any callback round, three tasks, queues that may take harm: what the monitor marks is never a slot in use, a task is in one place, shares differ by one at most, every task is run unless the process is killed or the task is in a queue that took harm |
| `sess` | 265,350 | two sessions on one key, bytes cut in every way, six scripts of requests ended by LF or CR LF: each reply is the answer to its request in some order of the commands, on a store whose reads may lag; there is one too many only where CR LF was cut; strings stay inside their memory; all splits of up to five bytes; a client that waits is answered |

Two runs show the code doing what one of its comments rules out:

| run | property | what happens |
|---|---|---|
| `conn_eagain` | `RepliesWritten` | "need wait another event" (`src/core/atm_conn.c:282`): after a partial write `atm_conn_yield_write` stops and no event is asked for |
| `task_monitor` | `MonitorRuns` | "should be invoked periodically" (`src/core/atm_task.c:348`): `atm_ctx_init` registers the bytes of the function, and at the 10000th turn the loop calls the address of the slot they are in |

Other departures have no run of their own, because a property that holds already says
exactly when they happen:

* `HarmOnlyAtLastEntry`: a push that runs while the last entry is being popped can find
  a head without a tail and exit ("list currapt", `src/core/atm_list.c:210`), use the
  entry that was just freed, or leave an entry no pop will reach.  This is about the
  pointers of the list only.
* `SizeCounts`: in a list of any length the unlocked `list->size--` of the pop
  (`src/core/atm_list.c:116`) and the `list->size++` of the push (`:220`) can lose one of
  the two.  A `size` that is one too small reaches zero with a task left, and the worker
  waits at `src/core/atm_queue.c:33` until the next push; one too large sends it into an
  empty list.  So "every task is run" holds only as long as this does not happen, which
  is what `EveryEntryPopped` and `EveryTaskRun` say.
* `ReadsCatchUp`: during a rehash a `set` writes to the backup table and a `get` looks in
  the active one first (`src/core/atm_dict.c:701`), so a client that sets a key again and
  gets it may be answered the value before.  Its reads never go back once they have
  given the newer one.  `StoreSpec` and `RepliesExplained` are stated for such reads.
* `DeleteTakesOne`: a key written before and during a rehash is still found after
  `atm_dict_del`, where `src/test/core/atm_test_dict.c:142` expects nothing.
* `SingleSessionThread` holds without resets only: after one, epoll reports the socket
  although it is masked and a second read task can enter the session, against "this
  func is in a single thread ctx" (`src/core/atm_sess.h:33`).
* `RBufComplete` is stated for an r_buf: a w_buf can lose bytes, when `widx` reaches the
  end of a block between the two loads of the condition at `src/core/atm_buf.c:28`.
* `OneReplyEach`: a CR LF that arrives in two pieces gets two replies.
* `SlotsHoldWorkers`: the monitor cannot shrink the pool, since what it marks is a word
  of the array past the slots in use; a worker added later overwrites it.
* `SessionNotFreed` is about a worker inside of a session.  Another thread can reach a
  freed connection, after an orderly close too: the read task that finds the client gone
  makes it inactive and a worker runs `atm_conn_free_func`, while the loop still holds
  the write half of the same event (`src/core/atm_event.c:85`) or another worker a
  queued task.  The model stops such a thread (`Stopped`) and says nothing of what
  follows.

`AtmConn` takes queues and buffers as they are meant to be, so that what it shows about
connections is not drowned by their races: its liveness properties are those of
connections whose queues took no harm (`EveryEntryPopped`) and whose `w_buf` lost no block.

What some of the properties do not reach: `ClosedIsFreed` is for a client that closes
after the last reply or before, not for a reset, after which a connection can stay in
`free_list` for ever (`src/core/atm_conn.c:128`).  `NoFatal` is checked without deletes and
does not watch what they leave behind.  `AvalCounts` says how far `aval` is off, not what
the write task decides on it.  `RBufComplete` watches the block boundaries of a buffer
whose two sides take turns.  `StringsWhole` meets no string that grows.  `PoliteAnswered`
is for clients that wait for each reply; the second of two requests sent together waits
for the client's next byte.

### Bounds

* `MCPipe`: one byte of capacity makes a refused write the common case; two messages
  a thread are enough for one to be queued while the loop flushes an earlier byte.
* `MCConn`: connections share only the queues and `free_list`, so one is enough for
  the per-connection properties, with two workers to run its two tasks at once.
  `Window` 2 lets requests overtake replies.  `SockCap` 2 never refuses a reply, 1
  does.  `MaxTasks` limits how far the loop runs ahead of the workers, since each
  hang-up adds tasks without end.
* `MCDict`: tables of 2, 4, 8 and 16 buckets; three keys collide in the first, two in
  the second.  `MaxEntries` 12 is never reached without deletes; 6 cuts the growth by
  repeated delete and set.
* `MCQueue`: four pushes: a longer list (where `size` loses an update), the last entry, and
  a push after the damage.
* `MCBuf`: blocks of two bytes and three bytes a buffer, so that a buffer spans
  blocks and recycles one; a pool of one, so that two releases meet at its limit.
  Eight blocks are more than both buffers and the pool can hold.
* `MCContainers`: four entries give a middle with two neighbours; two keys let a
  deletion choose among equals.  The array starts with 6 slots (32 in the code) and
  reaches 9, so that it grows and shrinks.
* `MCTask`: 6 slots again, so that the monitor's five workers make the array grow; three
  words of a descriptor (0, 6, 24) give loads below, between and above the thresholds.
  `Period` 2 stands for 10000.  Three tasks: one passed over by
  a pop, one taken by it and one pushed after.
* `MCSess`: a client that sends what it likes, in lines ended by LF or CR LF: values in
  quotes, a missing value, a missing key, a line of blanks, nested quotes, repeated
  blanks; and one that waits for its replies, on the same key.

### Deadlock and fairness

Deadlock is checked for the pipe, connection, buffer and delete-free dictionary
models; the first two have an explicit step for the state in which everything sleeps
(and, for `AtmConn`, for a thread that holds a freed pointer).  It is not checked in
`AtmQueue` and in the dictionary runs with deletes, which stop at a crash, at an
`exit` or at the bound on pushes; nor for the list, whose entries run out, the pool,
which may be killed, and the sessions, whose clients stop sending.

Weak fairness stands for the kernel's scheduler: a thread that can go on does.  It is
given to each thread's steps once it is in the code (`NotifyRest`, `Recv`, `Loop`,
`Worker`, `Begin`, `Pop`, `PopNothing`, `Run`), never to the decision to notify, send, close or
reset.  `ClientRecv` is fair: a client reads what it is sent.  `RequestsAnswered` and
`PoliteAnswered` are stated for clients that wait for each reply: `atm_sess_process`
runs one command for each read event, so the second of two lines that arrive together
waits for the client's next byte.

In `AtmTask` the end of an event round is not fair, because `epoll_wait` is called
without a timeout and may sleep for ever.  `Handle` is strongly fair: callback rounds
come between event rounds, and the pipe hands over every message
(`EveryMessageDelivered` of `AtmPipe`).  `Take` is fair for a queue that took no harm
(`EveryEntryPopped` of `AtmQueue`); nothing is promised for one that did.  In `AtmQueue`
a push that has begun is fair and so is the pop; nobody must push.  In `AtmSess`,
`Runs(s)` is `WF_vars(ProcessSess(s))` with the condition under which a session has a
step written out, which TLC evaluates much faster than `ENABLED`.

## 4. What is proved

For every value of the constants, from the named assumptions on them only:

* `AtmPipeProofs`
  * `PipeInvariant`: `Spec => []PipeInv`.  `PipeInv` is inductive: besides types it
    says who holds `mqlock` (`LockDiscipline`), that a byte is always announced
    (`ByteAnnounced`), that the loop enters the handler because of a byte
    (`NoEmptyWakeup`) and that the queue stays empty while the remaining bytes are
    flushed (`FlushIsSafe`).  Without the last two `NoLostMessage` is not inductive: a
    read of zero bytes would end the handler with messages queued.
  * `NoLostWakeup`: `Spec => []NoLostMessage`, from it.
  * `PipeImplementsMailbox`: `Spec => MailboxSpec` with `box <- mqueue`,
    `handed <- delivered`: `NotifyPush` is Send, `ProcessMsg` is Deliver, all other
    steps stutter.  It needs `FreshMessage`: a thread's message was not sent before.
* `AtmDictProofs`
  * `LoadStaysBounded` and `TablesStayConsistent`, deletes included.  The inductive
    invariant adds to the agreement of the counters that during a rehash
    `act.size + bak.size + (act.nb - ridx) <= bak.nb`: every write adds at most one
    entry and moves the index by one, and the table was made for twice the entries.
  * `SetsNeverFatal`: with `AllowDel = FALSE`, `Spec => []NoFatal`.  The strengthening
    (`Whole`) says that every bucket made and not yet moved has an entry and that the
    active table is not empty during a rehash; a delete breaks exactly that.
  * `DictImplementsStore`: with `AllowDel = FALSE`, `Spec => StoreSpec`.  `store` is the
    value last written to a key, its first entry in the backup table or else in the active
    one; `seen` is what `Get` gives.  A set moves the reads of some keys to the value last
    written and leaves the others (`SeenStep`, from `ReadsCatchUp`'s lemmas), and a key
    that had no value is read as written.  The server never deletes (`atm_dict_del` is
    called by a test only), so the assumption is its own case.
  * `ReadsAlwaysCatchUp` (with `AllowDel = FALSE`) and `DeletesTakeOne` (deletes included):
    `Spec => ReadsCatchUp` and `Spec => DeleteTakesOne`.  Both look at the entries of one
    key, u in the active table and w in the backup: whatever part of the rehash an
    operation ends in, it leaves them alone, or makes them `<<>>` and `w \o u`, or swaps
    the tables (`Shifted`, and `Spread` for all keys).  So no entry is lost or made, and a
    get finds what it found before or the first of w, which is the value last written
    (`ShiftedGet`).  `WrittenGet` and `DeletedLess` add what the operation itself did.
* `AtmConnProofs`
  * `AlwaysListedIffInactive`: `Spec => []ListedIffInactive`, resets included.  The
    inductive invariant `ListInv` adds that the records have their fields and that the
    flag a task hands to `atm_conn_inactive` is one of the two.  Only three steps change
    what decides: `Accept`, `InactiveLock`, which looks at `active` again under the
    mutex, and `FreeFunc`.  All others are shown to leave `mem` and `active` alone
    (`Kept`), whatever else they do.
  * `NeverForgotten`: `Spec => []FreeNotForgotten`.  With `ListInv` it is inductive
    (`WaitInv`): a thread that clears a flag or lists a connection is then itself on its
    way to the check (`Clears`), and the check sends a free task or finds the connection
    active, hence not listed (`CheckWaits`).  Here the theorem needs that the flag is
    cleared and `active` read in one critical section.
  * `RepliesNeverStuck`: if `MaxReqs <= SockCap`, `Spec => []ReplyNotStuck`.  Without the
    assumption it is false, which is finding `conn_eagain`.  `ReplyInv` adds to it: every
    request is in one place (`CountOK`), so that a write takes all of `w_buf`; what a
    write task remembers of `write_reqs` is not ahead of it (`SeenOK`); and while
    `on_write` is set a write task of the connection has not ended (`FlagHeld`).  The last
    two are what makes `atm_conn_write_notify` right when it only counts: the task under
    way then finds `write_reqs` changed.
  * `OneSessionThread`: with `AllowReset = FALSE`, `Spec => []SingleSessionThread`; with
    resets it is false, and TLC finds it.  The invariant `RightInv` follows
    the right to read a connection: it is the bit of the mask epoll watches, or an
    operation in the event pipe that will set it, or a read task in one worker's queue,
    or a worker inside such a task, never two of these and never one twice
    (`OnceAnywhere`, `OnePlace`).  A hang-up is reported whatever the mask, which is why
    a batch may hold a read entry only while the mask is still set.
  * `SessionNeverFreed`: with `AllowReset = FALSE`, `Spec => []SessionNotFreed`.  Where
    the right exists the connection is in use (`InUse`), and without resets only a read
    task ends that; the same proof shows the types of all variables.
* `AtmBufProofs`, for any buffers, blocks, block size and pool limit
  * `BlocksHaveOneOwner`: `Spec => []BlocksOwnedOnce`.  `Housed` says that every block has
    one home, and that away from a buffer both its indices are zero.
  * `AvalAlwaysCounts`, `BytesInOrder`, `RBufsComplete`: `AvalCounts`, `OwnBytesInOrder` and
    `RBufComplete` from `BufInv`.  All blocks of a buffer before the last are full and only
    the first has been read (`ListOK`), so the place of a byte in the list gives its
    number: the tip, less a block for every place behind (`Number`).  `Content` says that
    each byte written is the one of that number, `FillOK` and `DrainOK` what each of the
    two threads has read and still relies on, `DrainedOK` that what was taken is
    below the first byte left, and for an r_buf exactly that.  A w_buf may skip bytes at
    the lost block; they are still in order.
* `AtmQueueProofs`
  * `PopsAlwaysInOrder`: `next` always leads to an entry pushed later, and the head and
    the entry a pop holds are newer than every entry popped (`Ordered`), whatever the
    race does to the list; `Counted` says why `size` never wraps around: only the pop
    makes it smaller, after it saw that it was not zero.
  * `HarmAlwaysAtLastEntry`: as long as no push has met the pop of the last entry, the
    pointers of the list are described at every pair of places of the two threads
    (`Harmless`), together with what each has already read.  `size` plays no part in it.
  * `SizeAlwaysCounts`: as long as a push and a pop have not both read `size` before
    either wrote it, `size` is what was pushed less what was popped, up to the updates
    under way (`SizeInv`), also when the pointers took harm.
  * `WaitsOnlyWhenEmpty`: with both, `size` is zero between the calls exactly when there
    is no head, so the wait of `atm_queue_nonempty_wait` is never for a queue with a task.
* `AtmTaskProofs`
  * `SlotsAlwaysHoldWorkers`, types included, and `TaskAlwaysInOnePlace`, from `PoolInv`.  It
    says that slot i holds worker i + 1, that the slots past the length hold statuses,
    and that there are two of them at least (`PoolShape`).  So the words the monitor
    can take for ACTIVE and mark are past the length, never a pointer in use, and a
    worker added later overwrites the mark.  The theorems hold for every load the
    monitor may read, every failure of `pthread_create` and every harm to a queue: a
    pop takes a task out of the queue, whichever it takes.
  * `SharesAlwaysEven`: `Spec => []SharesEven`, from `PoolInv`, `TaskInOnePlace` and
    `ShareInv`: while the pool is the one the loop began with, the number of a worker's
    tasks is the quotient of `round` by the size of the pool, plus one where the turn has
    reached its slot.  `round` is counted before it is used, so slot 0 is the last of
    each turn.  A task that is in the pipe is with no worker yet (`TaskInOnePlace`), so a
    dispatch gives one worker exactly one task more.
* `AtmSessProofs`
  * `OneReplyAlways`: `Spec => []OneReplyEach`, for any scripts and any cutting of the
    bytes.  `FlowInv` is about the bytes no command has taken, `rbuf` and the wire
    together: a CR is followed by a LF and a LF by text (`Framed`), every byte has the
    number of its request, and the numbers go up at the end of a line only (`Numbered`).
    So a line that is read is one request, or empty; it is empty only where what is left
    begins with the end of a line, and that is there only because the CR before it was
    the last byte of `rbuf`.  `Loose` counts both places, the invariant is that the empty
    lines taken and `Loose` together are at most `cuts`.
  * `SplitIsByStack`, and from it `SplitAlwaysByStack`: `Split` and `SplitRef` agree on
    every text over any bytes.  The loop of `atm_str_split` remembers how many quotes are
    open and the one opened last; that is enough because a quote that opens inside of
    another is always the other kind, so the open ones alternate (`OpenQuotesIs`,
    `CountsStep`).  `LoopAlways` says what the arguments found so far and the one begun
    are: the pieces between the cuts of the bytes read.
  * `SessAlways`: `Spec => []SessInv`.  What is left of the bytes is, line for line, what
    the client sent and no command has taken (`Lined`), so a line that is read is the
    text of the next request (`ParsedText`); and a session about to run a command holds
    the arguments and the command of that text and of no other (`Meant`): that is why
    `atm_sess_parsing` may leave both unassigned for a line without arguments, since
    `atm_sess_reset` has cleared them.
  * `RepliesAlwaysExplained` and `StringsAlwaysWhole`: `Spec => []RepliesExplained` and
    `Spec => []StringsWhole`, from `ExplainInv`: running the commands recorded in
    `order` one at a time on texts (`ServedBy`) gives the texts of all the replies, and
    the cache holds a string for each text kept and a read gives the string of each text
    seen (`Mirrors`, kept by a set whatever keys stay behind: `MirrorsLag`).  A missing
    argument is the NULL string in the one and the empty text in the other; no argument
    of a split is empty (`ArgsNotEmpty`), so the two are never confused.  One command
    more is one step more (`ServedAppend`).
* `AtmDataProofs`
  * `ArrHoldsAlways` and `RoomForTwoAlways`: the array of any calls is the sequence they
    describe, followed by zeros, with two free slots.  The arithmetic of the thresholds
    needs an initial capacity of at least 6; the code's is 32.
  * `ReplyWhole`: a string made of a C string and one byte appended to it stays inside
    its memory, because `atm_str_size` rounds up even where it need not.
  * `GrownNotWhole`: a string that had to grow for an append is left with a length
    counted twice, so that the next append may find room that is not there.
  * `BothWaysAlways`, `ValuesOwnedAlways` and `IterCoversAlways`: `Spec => []BothWays`,
    `[]ValuesOwnedOnce` and `[]IterCoversRest`, for any number of entries and any keys.
    `ListInv` says that there is a sequence of entries the pointers stand for (`Holds`):
    head and tail are its ends, next and prev lead from place to place, and no other entry
    is allocated.  A push takes the next number and an entry never moves, so the numbers go
    up along the list (`Upwards`); that is why what an iterator has passed are the live
    entries below its own (`Passed`), whatever is pushed or removed meanwhile.  (No run
    checks `IterCoversRest`: the server changes no list under an iterator.)  A pop is
    the removal of an end (`PoppedIsUnlinked`), a clear is pops until there is no head
    (`EmptiedHolds`), and what has left the list are values of freed entries, each once
    (`Out`) and, if the list is deep, all of them (`Accounted`).
  * `ListIsDeque`: `Spec => DequeSpec`.  With the sequence of `Holds`, each call does to
    `items` what the deque's operation does (`DequeStep`).

Every invariant of the passing runs is a theorem.  Outside this prover's reach: liveness
under fairness (`EveryMessageDelivered`, `RepliesWritten`, `RequestsAnswered`,
`ClosedIsFreed`, `EveryEntryPopped`, `EveryTaskRun`, `PoliteAnswered`) and `ENABLED`.
The library's induction theorems cannot be used either, since they take an operator as a
parameter; over the numbers up to a bound, which is all the proofs need, the least
counterexample takes their place: `LeastNat` and, from it, `Upward` and `Unfolds` of
`AtmSessProofs` and `AtmDataProofs` show that a recursive function on `0 .. n` exists
and what it computes.  So recursion is written with such functions; no module uses
`RECURSIVE`, and no proof needs what a fold computes.

## 5. Mutants

Each property of a passing run has a mutated operation, defined next to the original
(`ProcessMsg_Newest`, `InterWrite_NoRecheck`, `RblkFull_Any`, `DelWorker_Slot`, ...),
that breaks it the way a plausible change of the code would.

## 6. Findings

The two of section 3, with quotes, in `PROJECT.json`; the departures listed there
after them are hazards with the property that delimits each.  Also met while reading
and kept as hazards: `_mutex` of a connection can be destroyed while
`atm_conn_inactive` still holds it; a task that finds its connection already inactive
leaves its flag set; after a lost block `aval` never returns to zero and the write
task keeps asking for events; an append to a string that grew writes past its memory,
which the configuration file can reach; the monitor of the pool divides by the number
of workers it takes for active.

## 7. Plan

1. A refinement of the queue of `AtmTask` (`Take`, `Push`, `Pop`, `PopNothing`) by `AtmQueue`,
   and `AtmConn` on queues that may take harm.
2. The start of the server up to the first event, with the worker threads that already
   run while `worker_lock` and the dispatch pipe are still to be initialised
   (`src/core/atm_task.c:303`).

## 8. Not modelled

The listening socket and address handling, configuration, logging, time, files and
signals (I/O or sequential start-up); siphash (the constant `Hash` stands for any
function); memory allocation, except where memory is used after it was freed;
`atm_dict_clear`, `atm_dict_str`, `atm_pipe_free` and the DEL operation of events, which
the server does not call; the client program; `src/misc`, `src/parser`, `src/py` and
the copy of jemalloc under `deps/`, which are not part of the server.  The wording of
replies is not modelled (their lengths are, in `AtmSess`), and the memory of
keys and values is not followed: a set that replaces a value does not release the
old one.
