------------------------------- MODULE AtmBuf -------------------------------
(* The buffers of the connections (atm_buf.c) and the pool their blocks    *)
(* come from and go back to (atm_blk.c).  A buffer has one thread that     *)
(* fills it at the tail block and one that drains it at the head block: an *)
(* r_buf is filled by atm_buf_read_sock and drained by atm_buf_read, both  *)
(* in the read task; a w_buf is filled by atm_buf_write in the read task   *)
(* and drained by atm_buf_write_sock in the write task, at the same time.  *)
(*                                                                         *)
(* buf->_mutex protects the list of blocks; the indices of a block are     *)
(* read and written without it.  The build (-O0, auto/cc/gcc:39) loads     *)
(* bk->widx from memory each time the source names it, so every such       *)
(* access is a step.  The n-th byte put in buffer b is <<b, n>>.           *)
EXTENDS Integers, Sequences, FiniteSets, SequencesExt

CONSTANTS
    RBufs,          \* r_bufs: filled and drained by one task in turn
    WBufs,          \* w_bufs: filled and drained by two tasks
    NBlocks,        \* bound: blocks the heap can give
    BlkLen,         \* ATM_BLK_DFT_LEN
    PoolThreshold,  \* ATM_BLK_POOL_THRESHOLD
    MaxBytes        \* bound: bytes put in one buffer

Bufs == RBufs \cup WBufs
Blocks == 1..NBlocks
NoBlk == 0
Junk == <<"junk", 0>>       \* what a new block holds

ASSUME BufAssumption ==
    /\ RBufs \cap WBufs = {}
    /\ {NBlocks, BlkLen, PoolThreshold, MaxBytes} \subseteq Nat
    /\ BlkLen > 0

VARIABLES
    blk,        \* ridx, widx and head of each block
    blks,       \* buf->blks
    aval,       \* buf->aval
    pool,       \* blk_pool
    heap,       \* blocks that are not allocated
    fill,       \* the thread that fills each buffer
    drain,      \* the thread that drains it
    filled,     \* history: bytes put in the buffer
    drained     \* history: what has been taken out of it, in order

vars == <<blk, blks, aval, pool, heap, fill, drain, filled, drained>>

(* rmn: bytes still to copy; l: those of the copy under way.               *)
Idle == [pc |-> "idle", bk |-> NoBlk, rmn |-> 0, l |-> 0]

Bytes == (Bufs \X (1..MaxBytes)) \cup {Junk}

FillPCs == {"idle", "wblk", "copy", "publish", "count"}
MutexPCs == {"full", "recycle", "check", "push", "raw", "next", "unread"}
DrainPCs == {"idle", "rblk", "take", "advance", "count"} \cup MutexPCs

Thread(pcs) == [pc : pcs, bk : Blocks \cup {NoBlk}, rmn : 0..MaxBytes, l : 0..BlkLen]

TypeOK ==
    /\ blk \in [Blocks -> [ridx : 0..BlkLen, widx : 0..BlkLen,
                           head : [0..BlkLen - 1 -> Bytes]]]
    /\ blks \in [Bufs -> Seq(Blocks)]
    /\ aval \in [Bufs -> -MaxBytes..MaxBytes]
    /\ pool \in Seq(Blocks) /\ heap \subseteq Blocks
    /\ fill \in [Bufs -> Thread(FillPCs)]
    /\ drain \in [Bufs -> Thread(DrainPCs)]
    /\ filled \in [Bufs -> 0..MaxBytes]
    /\ drained \in [Bufs -> Seq(Bytes)]

Init ==
    /\ blk = [k \in Blocks |-> [ridx |-> 0, widx |-> 0, head |-> [i \in 0..BlkLen - 1 |-> Junk]]]
    /\ blks = [b \in Bufs |-> << >>]
    /\ aval = [b \in Bufs |-> 0]
    /\ pool = << >> /\ heap = Blocks
    /\ fill = [b \in Bufs |-> Idle]
    /\ drain = [b \in Bufs |-> Idle]
    /\ filled = [b \in Bufs |-> 0]
    /\ drained = [b \in Bufs |-> << >>]

-----------------------------------------------------------------------------
Least(n, m) == IF n < m THEN n ELSE m

(* buf->_mutex is free: only the drain's section is more than one step.    *)
MutexFree(b) == drain[b].pc \notin MutexPCs

Fill(b, from) == fill[b].pc = from
Drain(b, from) == drain[b].pc = from
DrainTo(b, to) == drain' = [drain EXCEPT ![b].pc = to]

-----------------------------------------------------------------------------
(* Filling: atm_buf_write(n bytes), or atm_buf_read_sock when n bytes are  *)
(* in the socket.                                                          *)
FillCall(b, n) ==
    /\ Fill(b, "idle")
    /\ b \in RBufs => Drain(b, "idle")
    /\ filled[b] + n <= MaxBytes
    /\ fill' = [fill EXCEPT ![b] = [Idle EXCEPT !.pc = "wblk", !.rmn = n]]
    /\ UNCHANGED <<blk, blks, aval, pool, heap, drain, filled, drained>>

HasRoom(b) == blks[b] # << >> /\ blk[Last(blks[b])].widx # BlkLen

(* atm_buf_get_wblk: the last block of the list if it has room, else ...   *)
GetWblk(b) ==
    /\ Fill(b, "wblk") /\ MutexFree(b)
    /\ HasRoom(b)
    /\ fill' = [fill EXCEPT ![b].pc = "copy", ![b].bk = Last(blks[b])]
    /\ UNCHANGED <<blk, blks, aval, pool, heap, drain, filled, drained>>

(* ... one of the pool, or of the heap when the pool is empty.             *)
NewBlk(b) ==
    /\ Fill(b, "wblk") /\ MutexFree(b)
    /\ ~ HasRoom(b)
    /\ \E k \in Blocks :
        /\ \/ pool # << >> /\ k = Head(pool) /\ pool' = Tail(pool) /\ UNCHANGED <<heap, blk>>
           \/ /\ pool = << >> /\ k \in heap /\ \A j \in heap : k <= j
              /\ heap' = heap \ {k}
              /\ blk' = [blk EXCEPT ![k].ridx = 0, ![k].widx = 0]
              /\ UNCHANGED pool
        /\ blks' = [blks EXCEPT ![b] = Append(@, k)]
        /\ fill' = [fill EXCEPT ![b].pc = "copy", ![b].bk = k]
    /\ UNCHANGED <<aval, drain, filled, drained>>

(* memcpy, or read(2) of what the socket has.  With nothing left the read  *)
(* fails and atm_buf_read_sock ends.                                       *)
FillCopy(b) ==
    LET k == fill[b].bk
        l == Least(BlkLen - blk[k].widx, fill[b].rmn)
        new(i) == <<b, filled[b] + 1 + i - blk[k].widx>>
    IN  /\ Fill(b, "copy")
        /\ \/ /\ l > 0
              /\ blk' = [blk EXCEPT ![k].head = [i \in DOMAIN @ |->
                     IF i \in blk[k].widx..blk[k].widx + l - 1 THEN new(i) ELSE @[i]]]
              /\ filled' = [filled EXCEPT ![b] = @ + l]
              /\ fill' = [fill EXCEPT ![b].pc = "publish", ![b].l = l]
           \/ /\ l = 0
              /\ fill' = [fill EXCEPT ![b] = Idle]
              /\ UNCHANGED <<blk, filled>>
        /\ UNCHANGED <<blks, aval, pool, heap, drain, drained>>

FillPublish(b) ==
    /\ Fill(b, "publish")
    /\ blk' = [blk EXCEPT ![fill[b].bk].widx = @ + fill[b].l]
    /\ fill' = [fill EXCEPT ![b].pc = "count"]
    /\ UNCHANGED <<blks, aval, pool, heap, drain, filled, drained>>

(* The bytes are counted; atm_buf_read_sock always reads again.            *)
FillCount(b) ==
    LET rmn == fill[b].rmn - fill[b].l
    IN  /\ Fill(b, "count")
        /\ aval' = [aval EXCEPT ![b] = @ + fill[b].l]
        /\ fill' = [fill EXCEPT ![b] = IF rmn > 0 \/ b \in RBufs
                                       THEN [Idle EXCEPT !.pc = "wblk", !.rmn = rmn] ELSE Idle]
        /\ UNCHANGED <<blk, blks, pool, heap, drain, filled, drained>>

-----------------------------------------------------------------------------
(* Draining: atm_buf_read(n bytes), or atm_buf_write_sock when the socket  *)
(* takes n bytes more.                                                     *)
DrainCall(b, n) ==
    /\ Drain(b, "idle")
    /\ b \in RBufs => Fill(b, "idle") /\ n <= aval[b]
    /\ drain' = [drain EXCEPT ![b] = [Idle EXCEPT !.pc = "rblk", !.rmn = n]]
    /\ UNCHANGED <<blk, blks, aval, pool, heap, fill, filled, drained>>

(* Mutant: a block written up to its end is taken for one that is read.    *)
GetRblk_Written(b) ==
    /\ Drain(b, "rblk") /\ MutexFree(b)
    /\ \/ blks[b] = << >> /\ drain' = [drain EXCEPT ![b] = Idle]
       \/ /\ blks[b] # << >>
          /\ drain' = [drain EXCEPT ![b].bk = Head(blks[b]), ![b].pc = "full"]
    /\ UNCHANGED <<blk, blks, aval, pool, heap, fill, filled, drained>>

(* atm_buf_get_rblk: is the first block read up to widx?                   *)
GetRblk(b) ==
    /\ Drain(b, "rblk") /\ MutexFree(b)
    /\ \/ blks[b] = << >> /\ drain' = [drain EXCEPT ![b] = Idle]
       \/ /\ blks[b] # << >>
          /\ LET k == Head(blks[b])
             IN  drain' = [drain EXCEPT ![b].bk = k, ![b].pc =
                            IF blk[k].ridx = blk[k].widx THEN "full" ELSE "unread"]
    /\ UNCHANGED <<blk, blks, aval, pool, heap, fill, filled, drained>>

(* Mutant: a block is recycled as soon as all that was written is read.    *)
RblkFull_Any(b) ==
    /\ Drain(b, "full")
    /\ DrainTo(b, "recycle")
    /\ UNCHANGED <<blk, blks, aval, pool, heap, fill, filled, drained>>

(* ... and, with widx read again, written up to its end?                   *)
RblkFull(b) ==
    /\ Drain(b, "full")
    /\ DrainTo(b, IF blk[drain[b].bk].widx = BlkLen THEN "recycle" ELSE "unread")
    /\ UNCHANGED <<blk, blks, aval, pool, heap, fill, filled, drained>>

(* Then it leaves the buffer and is reset ...                              *)
Recycle(b) ==
    /\ Drain(b, "recycle")
    /\ blks' = [blks EXCEPT ![b] = Tail(@)]
    /\ blk' = [blk EXCEPT ![drain[b].bk].ridx = 0, ![drain[b].bk].widx = 0]
    /\ DrainTo(b, "check")
    /\ UNCHANGED <<aval, pool, heap, fill, filled, drained>>

(* ... for the pool, if that is not full: atm_blk_pool_release looks       *)
(* without bp_lock first.                                                  *)
PoolCheck(b) ==
    /\ Drain(b, "check")
    /\ DrainTo(b, IF Len(pool) < PoolThreshold THEN "push" ELSE "raw")
    /\ UNCHANGED <<blk, blks, aval, pool, heap, fill, filled, drained>>

(* Mutant: the size is not looked at again under bp_lock.                  *)
PoolPush_NoRecheck(b) ==
    /\ Drain(b, "push")
    /\ pool' = Append(pool, drain[b].bk) /\ DrainTo(b, "next")
    /\ UNCHANGED <<blk, blks, aval, heap, fill, filled, drained>>

PoolPush(b) ==
    /\ Drain(b, "push")
    /\ \/ Len(pool) < PoolThreshold /\ pool' = Append(pool, drain[b].bk) /\ DrainTo(b, "next")
       \/ Len(pool) >= PoolThreshold /\ DrainTo(b, "raw") /\ UNCHANGED pool
    /\ UNCHANGED <<blk, blks, aval, heap, fill, filled, drained>>

(* atm_blk_free_raw                                                        *)
FreeRaw(b) ==
    /\ Drain(b, "raw")
    /\ heap' = heap \cup {drain[b].bk}
    /\ DrainTo(b, "next")
    /\ UNCHANGED <<blk, blks, aval, pool, fill, filled, drained>>

(* The block that is first now, if any ...                                 *)
NextRblk(b) ==
    /\ Drain(b, "next")
    /\ \/ blks[b] = << >> /\ drain' = [drain EXCEPT ![b] = Idle]
       \/ /\ blks[b] # << >>
          /\ drain' = [drain EXCEPT ![b].pc = "unread", ![b].bk = Head(blks[b])]
    /\ UNCHANGED <<blk, blks, aval, pool, heap, fill, filled, drained>>

(* ... is used if it has bytes to read; otherwise the call ends.           *)
RblkUnread(b) ==
    LET k == blk[drain[b].bk]
    IN  /\ Drain(b, "unread")
        /\ \/ k.ridx < k.widx /\ DrainTo(b, "take")
           \/ k.ridx >= k.widx /\ drain' = [drain EXCEPT ![b] = Idle]
        /\ UNCHANGED <<blk, blks, aval, pool, heap, fill, filled, drained>>

(* memcpy, or write(2) of what the socket takes: nothing ends the call.    *)
DrainTake(b) ==
    LET k == blk[drain[b].bk]
        l == Least(k.widx - k.ridx, drain[b].rmn)
    IN  /\ Drain(b, "take")
        /\ \/ /\ l > 0
              /\ drained' = [drained EXCEPT ![b] = @ \o [i \in 1..l |-> k.head[k.ridx + i - 1]]]
              /\ drain' = [drain EXCEPT ![b].pc = "advance", ![b].l = l]
           \/ l = 0 /\ drain' = [drain EXCEPT ![b] = Idle] /\ UNCHANGED drained
        /\ UNCHANGED <<blk, blks, aval, pool, heap, fill, filled>>

DrainAdvance(b) ==
    /\ Drain(b, "advance")
    /\ blk' = [blk EXCEPT ![drain[b].bk].ridx = @ + drain[b].l]
    /\ DrainTo(b, "count")
    /\ UNCHANGED <<blks, aval, pool, heap, fill, filled, drained>>

(* Mutant: what was asked for is counted, not what was taken.              *)
DrainCount_Asked(b) ==
    LET rmn == drain[b].rmn - drain[b].l
    IN  /\ Drain(b, "count")
        /\ aval' = [aval EXCEPT ![b] = @ - drain[b].rmn]
        /\ drain' = [drain EXCEPT ![b] = IF rmn > 0 \/ b \in WBufs
                                         THEN [Idle EXCEPT !.pc = "rblk", !.rmn = rmn] ELSE Idle]
        /\ UNCHANGED <<blk, blks, pool, heap, fill, filled, drained>>

DrainCount(b) ==
    LET rmn == drain[b].rmn - drain[b].l
    IN  /\ Drain(b, "count")
        /\ aval' = [aval EXCEPT ![b] = @ - drain[b].l]
        /\ drain' = [drain EXCEPT ![b] = IF rmn > 0 \/ b \in WBufs
                                         THEN [Idle EXCEPT !.pc = "rblk", !.rmn = rmn] ELSE Idle]
        /\ UNCHANGED <<blk, blks, pool, heap, fill, filled, drained>>

-----------------------------------------------------------------------------
FillStep(b) ==
    \/ \E n \in 1..MaxBytes : FillCall(b, n)
    \/ GetWblk(b) \/ NewBlk(b) \/ FillCopy(b) \/ FillPublish(b) \/ FillCount(b)

DrainStep(b) ==
    \/ \E n \in 1..MaxBytes : DrainCall(b, n)
    \/ GetRblk(b) \/ RblkFull(b) \/ Recycle(b) \/ PoolCheck(b) \/ PoolPush(b) \/ FreeRaw(b)
    \/ NextRblk(b) \/ RblkUnread(b) \/ DrainTake(b) \/ DrainAdvance(b) \/ DrainCount(b)

Next == \E b \in Bufs : FillStep(b) \/ DrainStep(b)

Spec == Init /\ [][Next]_vars

-----------------------------------------------------------------------------
(* Properties                                                              *)

(* Bytes are numbered in the order they are put in: what comes out of a    *)
(* buffer are its own bytes, in that order and none twice.  A connection   *)
(* never gets bytes of another through a block of the pool.                *)
OwnBytesInOrder ==
    \A b \in Bufs :
        /\ \A i \in DOMAIN drained[b] : drained[b][i][1] = b
        /\ \A i, j \in DOMAIN drained[b] : i < j => drained[b][i][2] < drained[b][j][2]

(* Every block is in one place: the heap, the pool, one buffer, or the     *)
(* hands of a thread that gives it back.  A thread works only on blocks of *)
(* its own buffer, and the pool never grows past its threshold.            *)
InHand(b, k) == drain[b].pc \in {"check", "push", "raw"} /\ drain[b].bk = k

Homes(k) ==
    (IF k \in heap THEN {<<"heap">>} ELSE {}) \cup
    (IF k \in Range(pool) THEN {<<"pool">>} ELSE {}) \cup
    {<<"buffer", b>> : b \in {d \in Bufs : k \in Range(blks[d])}} \cup
    {<<"hand", b>> : b \in {d \in Bufs : InHand(d, k)}}

BlocksOwnedOnce ==
    /\ TypeOK
    /\ Len(pool) <= PoolThreshold
    /\ \A k \in Blocks : \E home \in Homes(k) : Homes(k) = {home}
    /\ IsInjective(pool) /\ \A b \in Bufs : IsInjective(blks[b])
    /\ \A b \in Bufs :
        /\ fill[b].pc \in {"copy", "publish"} => fill[b].bk = Last(blks[b])
        /\ drain[b].pc \in {"take", "advance", "full", "unread"} => drain[b].bk = Head(blks[b])

(* aval is the number of bytes put in and not taken out, up to what the    *)
(* two threads have under way.                                             *)
AvalCounts ==
    \A b \in Bufs :
        aval[b] = filled[b] - Len(drained[b])
                  - (IF fill[b].pc \in {"publish", "count"} THEN fill[b].l ELSE 0)
                  + (IF drain[b].pc \in {"advance", "count"} THEN drain[b].l ELSE 0)

(* A buffer filled and drained by one task gives back every byte.          *)
RBufComplete ==
    \A b \in RBufs : \A i \in DOMAIN drained[b] : drained[b][i] = <<b, i>>
=============================================================================
