---------------------------- MODULE AtmBufProofs ----------------------------
(***************************************************************************)
(* Proofs about the buffers, their blocks and the pool, for any number of  *)
(* buffers and blocks and any length of a block: no block is in two        *)
(* places, aval counts, and what comes out of a buffer is what was put in  *)
(* it, in order.                                                           *)
(***************************************************************************)
EXTENDS AtmBuf, SequenceTheorems, TLAPS

(* The block at place i of the list of b.                                  *)
Block(b, i) == blk[blks[b][i]]

(* Bytes copied but not published; bytes taken but still before ridx.      *)
UnderWay(b) == IF fill[b].pc = "publish" THEN fill[b].l ELSE 0
Taken(b) == IF drain[b].pc = "advance" THEN drain[b].l ELSE 0

(* The number of the first byte in the last block, how many bytes fit      *)
(* between that of the block at place i and it, and so the number of the   *)
(* first byte in the block at place i: the blocks before the last are full.*)
Tip(b) == filled[b] + 1 - (Block(b, Len(blks[b])).widx + UnderWay(b))
Behind(b, i) == (Len(blks[b]) - i) * BlkLen
Number(b, i) == Tip(b) - Behind(b, i)

(* How far the block at place i is written.                                *)
Written(b, i) == Block(b, i).widx + (IF i = Len(blks[b]) THEN UnderWay(b) ELSE 0)

(* The number of the last byte taken out, or lost.                         *)
Fore(b) == Block(b, 1).ridx + Taken(b)
Read(b) == IF blks[b] = <<>> THEN filled[b] ELSE Number(b, 1) + Fore(b) - 1

FillOK(b) ==
    /\ fill[b].pc \in {"copy", "publish"} =>
         /\ blks[b] # <<>> /\ fill[b].bk = blks[b][Len(blks[b])]
         /\ Block(b, Len(blks[b])).widx < BlkLen
    /\ fill[b].pc \in {"wblk", "copy"} => fill[b].l = 0
    /\ fill[b].pc = "publish" => Block(b, Len(blks[b])).widx + fill[b].l <= BlkLen
    /\ fill[b].pc \in {"publish", "count"} => fill[b].l >= 1 /\ fill[b].l <= fill[b].rmn
    /\ filled[b] + fill[b].rmn - fill[b].l <= MaxBytes

AtHead == {"full", "recycle", "unread", "take", "advance"}
HandPCs == {"check", "push", "raw"}

DrainOK(b) ==
    /\ drain[b].pc \in AtHead => blks[b] # <<>> /\ drain[b].bk = blks[b][1]
    /\ drain[b].pc \in HandPCs => drain[b].bk \in Blocks
    /\ drain[b].pc = "recycle" => Block(b, 1).widx = BlkLen
    /\ drain[b].pc = "take" => Block(b, 1).ridx < Block(b, 1).widx
    /\ drain[b].pc = "advance" => Block(b, 1).ridx + drain[b].l <= Block(b, 1).widx
    /\ drain[b].pc \in {"advance", "count"} =>
         drain[b].l >= 1 /\ drain[b].l <= drain[b].rmn /\ drain[b].l <= Len(drained[b])
    /\ b \in RBufs /\ drain[b].pc # "idle" => fill[b].pc = "idle"
    /\ b \in RBufs /\ drain[b].pc \in {"full", "recycle"} => Block(b, 1).ridx = Block(b, 1).widx

ListOK(b) ==
    \A i \in 1 .. Len(blks[b]) :
        /\ Block(b, i).ridx <= Block(b, i).widx
        /\ i < Len(blks[b]) => Block(b, i).widx = BlkLen
        /\ i > 1 => Block(b, i).ridx = 0

Content(b) ==
    \A i \in 1 .. Len(blks[b]) : \A x \in 0 .. Written(b, i) - 1 :
        Block(b, i).head[x] = <<b, Number(b, i) + x>>

DrainedOK(b) ==
    /\ \A j \in 1 .. Len(drained[b]) : drained[b][j][1] = b /\ drained[b][j][2] <= Read(b)
    /\ \A i, j \in 1 .. Len(drained[b]) : i < j => drained[b][i][2] < drained[b][j][2]
    /\ Len(drained[b]) <= Read(b)
    /\ b \in RBufs => /\ Len(drained[b]) = Read(b)
                      /\ \A j \in 1 .. Len(drained[b]) : drained[b][j] = <<b, j>>

Local(b) == FillOK(b) /\ DrainOK(b) /\ ListOK(b) /\ Content(b) /\ DrainedOK(b)

(* A block is in no two places; away from the buffers it is reset.         *)
In(b, k) == \E i \in DOMAIN blks[b] : blks[b][i] = k
InPool(k) == \E i \in DOMAIN pool : pool[i] = k

Blank(k) == blk[k].ridx = 0 /\ blk[k].widx = 0

Housed ==
    /\ \A i, j \in DOMAIN pool : pool[i] = pool[j] => i = j
    /\ \A b \in Bufs : \A i, j \in DOMAIN blks[b] : blks[b][i] = blks[b][j] => i = j
    /\ \A k \in Blocks :
         /\ k \in heap \/ InPool(k) \/ (\E b \in Bufs : In(b, k) \/ InHand(b, k))
         /\ k \in heap => ~ InPool(k)
         /\ \A b \in Bufs :
              /\ In(b, k) => k \notin heap /\ ~ InPool(k)
              /\ InHand(b, k) => k \notin heap /\ ~ InPool(k) /\ Blank(k)
              /\ \A d \in Bufs :
                   /\ ~ (In(b, k) /\ InHand(d, k))
                   /\ In(b, k) /\ In(d, k) => b = d
                   /\ InHand(b, k) /\ InHand(d, k) => b = d
         /\ InPool(k) => Blank(k)
    /\ Len(pool) <= PoolThreshold

(* The types, without the range of aval, which follows.                    *)
Typed ==
    /\ blk \in [Blocks -> [ridx : 0..BlkLen, widx : 0..BlkLen,
                           head : [0..BlkLen - 1 -> Bytes]]]
    /\ blks \in [Bufs -> Seq(Blocks)]
    /\ aval \in [Bufs -> Int]
    /\ pool \in Seq(Blocks) /\ heap \subseteq Blocks
    /\ fill \in [Bufs -> Thread(FillPCs)]
    /\ drain \in [Bufs -> Thread(DrainPCs)]
    /\ filled \in [Bufs -> 0..MaxBytes]
    /\ drained \in [Bufs -> Seq(Bytes)]

BufInv == Typed /\ Housed /\ AvalCounts /\ \A b \in Bufs : Local(b)

-----------------------------------------------------------------------------
(* How a thread's record is updated.                                       *)
LEMMA PutPc ==
  ASSUME NEW pcs, NEW s \in Thread(pcs), NEW p \in pcs, NEW r, r = [s EXCEPT !.pc = p]
  PROVE  r \in Thread(pcs) /\ r.pc = p /\ r.bk = s.bk /\ r.rmn = s.rmn /\ r.l = s.l
  BY DEF Thread

LEMMA PutBk ==
  ASSUME NEW pcs, NEW s \in Thread(pcs), NEW k \in Blocks, NEW r, r = [s EXCEPT !.bk = k]
  PROVE  r \in Thread(pcs) /\ r.pc = s.pc /\ r.bk = k /\ r.rmn = s.rmn /\ r.l = s.l
  BY DEF Thread

LEMMA PutL ==
  ASSUME NEW pcs, NEW s \in Thread(pcs), NEW n \in 0..BlkLen, NEW r, r = [s EXCEPT !.l = n]
  PROVE  r \in Thread(pcs) /\ r.pc = s.pc /\ r.bk = s.bk /\ r.rmn = s.rmn /\ r.l = n
  BY DEF Thread

LEMMA PutRmn ==
  ASSUME NEW pcs, NEW s \in Thread(pcs), NEW n \in 0..MaxBytes, NEW r, r = [s EXCEPT !.rmn = n]
  PROVE  r \in Thread(pcs) /\ r.pc = s.pc /\ r.bk = s.bk /\ r.rmn = n /\ r.l = s.l
  BY DEF Thread

(* A thread that starts on n bytes.                                        *)
Start(p, n) == [Idle EXCEPT !.pc = p, !.rmn = n]

LEMMA StartTyped ==
  ASSUME NEW p, NEW n \in 0..MaxBytes, NEW pcs, p \in pcs, "idle" \in pcs
  PROVE  /\ Start(p, n) \in Thread(pcs)
         /\ Start(p, n).pc = p /\ Start(p, n).rmn = n /\ Start(p, n).l = 0
<1> DEFINE s == Idle
           t == [s EXCEPT !.pc = p]
           u == [t EXCEPT !.rmn = n]
<1>1. s \in Thread(pcs) /\ s.l = 0
  BY BufAssumption DEF Idle, Thread
<1>2. Start(p, n) = u
  BY DEF Start
<1>3. t = [s EXCEPT !.pc = p]
  OBVIOUS
<1>4. u = [t EXCEPT !.rmn = n]
  OBVIOUS
<1> HIDE DEF s, t, u
<1>5. t \in Thread(pcs) /\ t.pc = p /\ t.l = 0
  BY <1>1, <1>3, PutPc
<1>6. u \in Thread(pcs) /\ u.pc = p /\ u.rmn = n /\ u.l = 0
  BY <1>4, <1>5, PutRmn
<1>7. QED
  BY <1>2, <1>6

LEMMA IdleTyped ==
  /\ Idle \in Thread(FillPCs) /\ Idle \in Thread(DrainPCs)
  /\ Idle.pc = "idle" /\ Idle.l = 0 /\ Idle.rmn = 0
  BY BufAssumption DEF Idle, Thread, FillPCs, DrainPCs

(* The thread that fills b, and no other, goes on with the record r.       *)
FillAs(b, r) ==
    /\ fill' \in [Bufs -> Thread(FillPCs)] /\ fill'[b] = r
    /\ \A d \in Bufs \ {b} : fill'[d] = fill[d]

DrainAs(b, r) ==
    /\ drain' \in [Bufs -> Thread(DrainPCs)] /\ drain'[b] = r
    /\ \A d \in Bufs \ {b} : drain'[d] = drain[d]

LEMMA FillPut ==
  ASSUME Typed, NEW b \in Bufs, NEW r \in Thread(FillPCs), fill' = [fill EXCEPT ![b] = r]
  PROVE  FillAs(b, r)
  BY DEF Typed, FillAs

LEMMA DrainPut ==
  ASSUME Typed, NEW b \in Bufs, NEW r \in Thread(DrainPCs), drain' = [drain EXCEPT ![b] = r]
  PROVE  DrainAs(b, r)
  BY DEF Typed, DrainAs

LEMMA DrainMoves ==
  ASSUME Typed, NEW b \in Bufs, NEW to \in DrainPCs, DrainTo(b, to)
  PROVE  \E r : /\ DrainAs(b, r) /\ r.pc = to
                /\ r.bk = drain[b].bk /\ r.rmn = drain[b].rmn /\ r.l = drain[b].l
<1> DEFINE s == drain[b]
           r == [s EXCEPT !.pc = to]
<1>1. s \in Thread(DrainPCs) /\ drain' = [drain EXCEPT ![b] = r]
  BY DEF Typed, DrainTo
<1>2. r = [s EXCEPT !.pc = to]
  OBVIOUS
<1> HIDE DEF r, s
<1>3. r \in Thread(DrainPCs) /\ r.pc = to /\ r.bk = s.bk /\ r.rmn = s.rmn /\ r.l = s.l
  BY <1>1, <1>2, PutPc
<1>4. DrainAs(b, r)
  BY <1>1, <1>3, DrainPut
<1>5. QED
  BY <1>3, <1>4 DEF s

LEMMA BufFacts ==
  ASSUME Typed, NEW b \in Bufs
  PROVE  /\ MaxBytes \in Nat /\ BlkLen \in Nat \ {0} /\ PoolThreshold \in Nat
         /\ Len(blks[b]) \in Nat /\ DOMAIN blks[b] = 1 .. Len(blks[b])
         /\ blks[b] \in Seq(Blocks)
         /\ \A i \in 1 .. Len(blks[b]) : blks[b][i] \in Blocks
         /\ blks[b] = <<>> <=> Len(blks[b]) = 0
         /\ Len(drained[b]) \in Nat /\ DOMAIN drained[b] = 1 .. Len(drained[b])
         /\ drained[b] \in Seq(Bytes)
         /\ fill[b] \in Thread(FillPCs) /\ drain[b] \in Thread(DrainPCs)
         /\ filled[b] \in 0 .. MaxBytes
  BY BufAssumption DEF Typed

LEMMA BlockFacts ==
  ASSUME Typed, NEW k \in Blocks
  PROVE  /\ blk[k].ridx \in 0 .. BlkLen /\ blk[k].widx \in 0 .. BlkLen
         /\ blk[k].head \in [0 .. BlkLen - 1 -> Bytes]
  BY DEF Typed

(* What a step of another buffer leaves alone.                             *)
LEMMA LocalFrame ==
  ASSUME Typed, NEW d \in Bufs, Local(d), blks'[d] = blks[d], fill'[d] = fill[d],
         drain'[d] = drain[d], filled'[d] = filled[d], drained'[d] = drained[d],
         \A k : In(d, k) => blk'[k] = blk[k]
  PROVE  Local(d)'
<1>1. /\ Len(blks[d]) \in Nat /\ DOMAIN blks[d] = 1 .. Len(blks[d])
      /\ blks[d] = <<>> <=> Len(blks[d]) = 0
  BY BufFacts
<1>2. \A i \in 1 .. Len(blks[d]) : Block(d, i)' = Block(d, i)
  BY <1>1 DEF Block, In
<1>3. blks[d] # <<>> => Block(d, Len(blks[d]))' = Block(d, Len(blks[d])) /\ Block(d, 1)' = Block(d, 1)
  BY <1>1, <1>2
<1>4. UnderWay(d)' = UnderWay(d) /\ Taken(d)' = Taken(d)
  BY DEF UnderWay, Taken
<1>5. Len(blks'[d]) = Len(blks[d])
  OBVIOUS
<1>6. \A i \in 1 .. Len(blks[d]) : Number(d, i)' = Number(d, i) /\ Written(d, i)' = Written(d, i)
  <2> SUFFICES ASSUME NEW i \in 1 .. Len(blks[d])
      PROVE  Number(d, i)' = Number(d, i) /\ Written(d, i)' = Written(d, i)
    OBVIOUS
  <2>1. blks[d] # <<>>
    BY <1>1
  <2>2. Tip(d)' = Tip(d)
    BY <1>3, <1>4, <1>5, <2>1 DEF Tip
  <2>3. Behind(d, i)' = Behind(d, i)
    BY DEF Behind
  <2>4. Block(d, i)' = Block(d, i)
    BY <1>2
  <2>5. QED
    BY <1>4, <1>5, <2>2, <2>3, <2>4 DEF Number, Written
<1>7. Read(d)' = Read(d)
  BY <1>1, <1>3, <1>4, <1>6 DEF Read, Fore
<1>8. ListOK(d)' /\ Content(d)' /\ DrainedOK(d)'
  BY <1>2, <1>6, <1>7 DEF Local, ListOK, Content, DrainedOK
<1>9. FillOK(d)'
  BY <1>3, <1>5 DEF Local, FillOK
<1>10. DrainOK(d)'
  BY <1>3 DEF Local, DrainOK, AtHead
<1>11. QED
  BY <1>8, <1>9, <1>10 DEF Local

(* What is under way in the two threads, as AvalCounts has it.             *)
Uncounted(b) == IF fill[b].pc \in {"publish", "count"} THEN fill[b].l ELSE 0
Counted(b) == IF drain[b].pc \in {"advance", "count"} THEN drain[b].l ELSE 0

AvalOf(b) == aval[b] = filled[b] - Len(drained[b]) - Uncounted(b) + Counted(b)

LEMMA AvalIsAll == AvalCounts <=> \A b \in Bufs : AvalOf(b)
  BY DEF AvalCounts, AvalOf, Uncounted, Counted

LEMMA AvalFrame ==
  ASSUME AvalCounts, NEW d \in Bufs, aval'[d] = aval[d], filled'[d] = filled[d],
         drained'[d] = drained[d], Uncounted(d)' = Uncounted(d), Counted(d)' = Counted(d)
  PROVE  AvalOf(d)'
<1>1. AvalOf(d)
  BY AvalIsAll
<1>2. QED
  BY <1>1 DEF AvalOf

(* A step of b that leaves blocks, lists and bytes alone.                  *)
LEMMA QuietLocal ==
  ASSUME BufInv, NEW b \in Bufs, blk' = blk, blks' = blks, filled' = filled, drained' = drained,
         \A d \in Bufs \ {b} : fill'[d] = fill[d] /\ drain'[d] = drain[d],
         UnderWay(b)' = UnderWay(b), Taken(b)' = Taken(b), FillOK(b)', DrainOK(b)'
  PROVE  \A d \in Bufs : Local(d)'
<1>1. ASSUME NEW d \in Bufs \ {b} PROVE Local(d)'
  BY LocalFrame DEF BufInv
<1>2. Local(b)'
  <2>1. \A i : /\ Block(b, i)' = Block(b, i)
               /\ Number(b, i)' = Number(b, i)
               /\ Written(b, i)' = Written(b, i)
    BY DEF Block, Number, Tip, Behind, Written
  <2>2. Read(b)' = Read(b)
    BY <2>1 DEF Read, Fore
  <2>3. ListOK(b)' /\ Content(b)' /\ DrainedOK(b)'
    BY <2>1, <2>2 DEF BufInv, Local, ListOK, Content, DrainedOK
  <2>4. QED
    BY <2>3 DEF Local
<1>3. QED
  BY <1>1, <1>2

(* A step that moves no block.                                             *)
LEMMA HousedFrame ==
  ASSUME BufInv, heap' = heap, pool' = pool, blks' = blks,
         \A d \in Bufs, k \in Blocks : InHand(d, k)' <=> InHand(d, k),
         \A k \in Blocks : InPool(k) \/ (\E d \in Bufs : InHand(d, k)) => blk'[k] = blk[k]
  PROVE  Housed'
<1>1. \A d \in Bufs, k \in Blocks : In(d, k)' = In(d, k)
  BY DEF In
<1>2. \A k \in Blocks : InPool(k)' = InPool(k)
  BY DEF InPool
<1>3. \A k \in Blocks : InPool(k) \/ (\E d \in Bufs : InHand(d, k)) => Blank(k)'
  BY DEF BufInv, Housed, Blank
<1>4. QED
  BY <1>1, <1>2, <1>3 DEF BufInv, Housed

LEMMA FillOnly ==
  ASSUME BufInv, NEW b \in Bufs, NEW r, FillAs(b, r), blk' = blk, blks' = blks, pool' = pool,
         heap' = heap, drain' = drain, filled' = filled, drained' = drained,
         aval' \in [Bufs -> Int], \A d \in Bufs \ {b} : aval'[d] = aval[d], AvalOf(b)',
         r.pc # "publish", fill[b].pc # "publish", FillOK(b)',
         b \in RBufs /\ drain[b].pc # "idle" => r.pc = "idle"
  PROVE  BufInv'
<1>1. UnderWay(b)' = UnderWay(b) /\ Taken(b)' = Taken(b)
  BY DEF UnderWay, Taken, FillAs
<1>2. DrainOK(b)'
  <2>1. \A i : Block(b, i)' = Block(b, i)
    BY DEF Block
  <2>2. QED
    BY <2>1 DEF BufInv, Local, DrainOK, FillAs, AtHead, HandPCs
<1>3. \A d \in Bufs : Local(d)'
  BY <1>1, <1>2, QuietLocal DEF FillAs
<1>4. Housed'
  BY HousedFrame DEF InHand
<1>5. AvalCounts'
  <2>1. ASSUME NEW d \in Bufs \ {b} PROVE AvalOf(d)'
    <3>1. Uncounted(d)' = Uncounted(d) /\ Counted(d)' = Counted(d)
      BY DEF Uncounted, Counted, FillAs
    <3>2. QED
      BY <3>1, AvalFrame DEF BufInv
  <2>2. \A d \in Bufs : AvalOf(d)'
    BY <2>1
  <2>3. QED
    BY <2>2 DEF AvalCounts, AvalOf, Uncounted, Counted
<1>6. Typed'
  BY DEF BufInv, Typed, FillAs
<1>7. QED
  BY <1>3, <1>4, <1>5, <1>6 DEF BufInv

LEMMA DrainOnly ==
  ASSUME BufInv, NEW b \in Bufs, NEW r, DrainAs(b, r), blk' = blk, blks' = blks,
         fill' = fill, filled' = filled, drained' = drained, Housed',
         pool' \in Seq(Blocks), heap' \subseteq Blocks,
         aval' \in [Bufs -> Int], \A d \in Bufs \ {b} : aval'[d] = aval[d], AvalOf(b)',
         r.pc # "advance", drain[b].pc # "advance", DrainOK(b)'
  PROVE  BufInv'
<1>1. UnderWay(b)' = UnderWay(b) /\ Taken(b)' = Taken(b)
  BY DEF UnderWay, Taken, DrainAs
<1>2. FillOK(b)'
  <2>1. \A i : Block(b, i)' = Block(b, i)
    BY DEF Block
  <2>2. QED
    BY <2>1 DEF BufInv, Local, FillOK
<1>3. \A d \in Bufs : Local(d)'
  BY <1>1, <1>2, QuietLocal DEF DrainAs
<1>4. AvalCounts'
  <2>1. ASSUME NEW d \in Bufs \ {b} PROVE AvalOf(d)'
    <3>1. Uncounted(d)' = Uncounted(d) /\ Counted(d)' = Counted(d)
      BY DEF Uncounted, Counted, DrainAs
    <3>2. QED
      BY <3>1, AvalFrame DEF BufInv
  <2>2. \A d \in Bufs : AvalOf(d)'
    BY <2>1
  <2>3. QED
    BY <2>2 DEF AvalCounts, AvalOf, Uncounted, Counted
<1>5. Typed'
  BY DEF BufInv, Typed, DrainAs
<1>6. QED
  BY <1>3, <1>4, <1>5 DEF BufInv

-----------------------------------------------------------------------------
(* Filling.                                                                *)
LEMMA CallFill ==
  ASSUME BufInv, NEW b \in Bufs, NEW n \in 1 .. MaxBytes, FillCall(b, n)
  PROVE  BufInv'
<1> DEFINE r == Start("wblk", n)
<1>1. /\ fill[b].pc = "idle" /\ (b \in RBufs => drain[b].pc = "idle") /\ filled[b] + n <= MaxBytes
      /\ fill' = [fill EXCEPT ![b] = r]
      /\ blk' = blk /\ blks' = blks /\ pool' = pool /\ heap' = heap /\ drain' = drain
      /\ filled' = filled /\ drained' = drained /\ aval' = aval
  BY DEF FillCall, Fill, Drain, Start
<1>2. r \in Thread(FillPCs) /\ r.pc = "wblk" /\ r.rmn = n /\ r.l = 0
  <2>1. n \in 0 .. MaxBytes /\ "wblk" \in FillPCs /\ "idle" \in FillPCs
    BY BufFacts DEF FillPCs, BufInv
  <2>2. QED
    BY <2>1, StartTyped
<1> HIDE DEF r
<1>3. FillAs(b, r)
  BY <1>1, <1>2, FillPut DEF BufInv
<1>4. FillOK(b)'
  BY <1>1, <1>2, <1>3, BufFacts DEF FillOK, FillAs, BufInv
<1>5. AvalOf(b)'
  BY <1>1, <1>2, <1>3, AvalFrame DEF FillAs, Uncounted, Counted, BufInv
<1>6. QED
  BY <1>1, <1>2, <1>3, <1>4, <1>5, FillOnly DEF BufInv, Typed

LEMMA GetFill ==
  ASSUME BufInv, NEW b \in Bufs, GetWblk(b)
  PROVE  BufInv'
<1> DEFINE k == blks[b][Len(blks[b])]
           s == fill[b]
           t == [s EXCEPT !.pc = "copy"]
           r == [t EXCEPT !.bk = k]
<1>1. /\ fill[b].pc = "wblk" /\ blks[b] # <<>> /\ blk[k].widx # BlkLen
      /\ blk' = blk /\ blks' = blks /\ pool' = pool /\ heap' = heap /\ drain' = drain
      /\ filled' = filled /\ drained' = drained /\ aval' = aval
  BY DEF GetWblk, Fill, HasRoom, Last
<1>2. s \in Thread(FillPCs) /\ k \in Blocks /\ Len(blks[b]) \in Nat
  BY <1>1, BufFacts DEF BufInv
<1>3. fill' = [fill EXCEPT ![b] = r]
  BY <1>2 DEF GetWblk, Last, BufInv, Typed
<1>4. t = [s EXCEPT !.pc = "copy"]
  OBVIOUS
<1>5. r = [t EXCEPT !.bk = k]
  OBVIOUS
<1> HIDE DEF r, t, s
<1>6. t \in Thread(FillPCs) /\ t.pc = "copy" /\ t.rmn = s.rmn /\ t.l = s.l
  BY <1>2, <1>4, PutPc DEF FillPCs
<1>7. r \in Thread(FillPCs) /\ r.pc = "copy" /\ r.bk = k /\ r.rmn = s.rmn /\ r.l = s.l
  BY <1>2, <1>5, <1>6, PutBk
<1>8. FillAs(b, r)
  BY <1>3, <1>7, FillPut DEF BufInv
<1>9. blk[k].widx < BlkLen
  BY <1>1, <1>2, BlockFacts, BufFacts DEF BufInv
<1>10. FillOK(b)'
  <2>1. Block(b, Len(blks[b]))' = blk[k] /\ blks'[b][Len(blks'[b])] = k /\ fill'[b] = r
    BY <1>1, <1>8 DEF Block, FillAs
  <2>2. filled[b] + s.rmn - s.l <= MaxBytes
    BY DEF BufInv, Local, FillOK, s
  <2>3. Block(b, Len(blks[b])).widx < BlkLen
    BY <1>9 DEF Block
  <2>4. s.l = 0
    BY <1>1 DEF BufInv, Local, FillOK, s
  <2> HIDE DEF k
  <2>5. QED
    BY <1>1, <1>7, <1>9, <2>1, <2>2, <2>3, <2>4 DEF FillOK, Block
<1>11. AvalOf(b)'
  BY <1>1, <1>7, <1>8, AvalFrame DEF FillAs, Uncounted, Counted, BufInv
<1>12. b \in RBufs /\ drain[b].pc # "idle" => r.pc = "idle"
  BY <1>1 DEF BufInv, Local, DrainOK
<1>13. QED
  BY <1>1, <1>7, <1>8, <1>10, <1>11, <1>12, FillOnly DEF BufInv, Typed

LEMMA CountFill ==
  ASSUME BufInv, NEW b \in Bufs, FillCount(b)
  PROVE  BufInv'
<1> DEFINE s == fill[b]
           n == s.rmn - s.l
           u == Start("wblk", n)
           r == IF n > 0 \/ b \in RBufs THEN u ELSE Idle
<1>1. /\ s.pc = "count" /\ fill' = [fill EXCEPT ![b] = r] /\ aval' = [aval EXCEPT ![b] = @ + s.l]
      /\ blk' = blk /\ blks' = blks /\ pool' = pool /\ heap' = heap /\ drain' = drain
      /\ filled' = filled /\ drained' = drained
  BY DEF FillCount, Fill, Start
<1>2. /\ s \in Thread(FillPCs) /\ aval \in [Bufs -> Int] /\ s.l \in Nat /\ s.rmn \in Nat
      /\ s.rmn \in 0 .. MaxBytes /\ MaxBytes \in Nat /\ filled[b] \in Nat
  <2>1. s \in Thread(FillPCs) /\ filled[b] \in 0 .. MaxBytes /\ MaxBytes \in Nat
    BY BufFacts DEF BufInv
  <2>2. aval \in [Bufs -> Int]
    BY DEF BufInv, Typed
  <2> HIDE DEF s
  <2>3. s.l \in Nat /\ s.rmn \in 0 .. MaxBytes
    BY <2>1 DEF Thread
  <2>4. QED
    BY <2>1, <2>2, <2>3
<1>3. s.l >= 1 /\ s.l <= s.rmn /\ filled[b] + s.rmn - s.l <= MaxBytes
  BY <1>1 DEF BufInv, Local, FillOK
<1>4. n \in 0 .. MaxBytes /\ filled[b] + n <= MaxBytes /\ filled[b] <= MaxBytes
  BY <1>2, <1>3
<1> HIDE DEF n, u
<1>6. u \in Thread(FillPCs) /\ u.pc = "wblk" /\ u.rmn = n /\ u.l = 0
  <2>1. "wblk" \in FillPCs /\ "idle" \in FillPCs
    BY DEF FillPCs
  <2>2. QED
    BY <1>4, <2>1, StartTyped DEF u
<1>7. r \in Thread(FillPCs) /\ r.pc \in {"wblk", "idle"} /\ r.l = 0 /\ r.rmn \in {n, 0}
  BY <1>6, IdleTyped
<1> HIDE DEF r
<1>8. FillAs(b, r)
  BY <1>1, <1>7, FillPut DEF BufInv
<1>9. FillOK(b)'
  BY <1>1, <1>2, <1>4, <1>7, <1>8 DEF FillOK, FillAs
<1>10. aval' \in [Bufs -> Int] /\ aval'[b] = aval[b] + s.l /\ \A d \in Bufs \ {b} : aval'[d] = aval[d]
  BY <1>1, <1>2
<1>11. AvalOf(b)'
  <2>1. aval[b] = filled[b] - Len(drained[b]) - Uncounted(b) + Counted(b) /\ aval[b] \in Int
    BY <1>2, AvalIsAll DEF BufInv, AvalOf
  <2>2. Uncounted(b) = s.l /\ Uncounted(b)' = 0 /\ Counted(b)' = Counted(b)
    BY <1>1, <1>7, <1>8 DEF Uncounted, Counted, FillAs
  <2>3. Counted(b) \in Int /\ Len(drained[b]) \in Int
    BY BufFacts DEF Counted, Thread, BufInv
  <2>4. QED
    BY <1>1, <1>2, <1>10, <2>1, <2>2, <2>3 DEF AvalOf
<1>12. ~ (b \in RBufs /\ drain[b].pc # "idle")
  BY <1>1 DEF BufInv, Local, DrainOK
<1>13. QED
  BY <1>1, <1>7, <1>8, <1>9, <1>10, <1>11, <1>12, FillOnly

(* A copy of nothing ends the call.                                        *)
LEMMA CopyNothing ==
  ASSUME BufInv, NEW b \in Bufs, fill[b].pc = "copy", fill' = [fill EXCEPT ![b] = Idle],
         blk' = blk, filled' = filled, blks' = blks, aval' = aval, pool' = pool, heap' = heap,
         drain' = drain, drained' = drained
  PROVE  BufInv'
<1>1. FillAs(b, Idle)
  BY IdleTyped, FillPut DEF BufInv
<1>2. FillOK(b)'
  BY <1>1, IdleTyped, BufFacts DEF FillOK, FillAs, BufInv
<1>3. AvalOf(b)'
  BY <1>1, IdleTyped, AvalFrame DEF FillAs, Uncounted, Counted, BufInv
<1>4. QED
  BY <1>1, <1>2, <1>3, IdleTyped, FillOnly DEF BufInv, Typed

-----------------------------------------------------------------------------
(* Draining: first the steps that move neither a block nor a byte.         *)
LEMMA DrainStays ==
  ASSUME BufInv, NEW b \in Bufs, NEW r, DrainAs(b, r), blk' = blk, blks' = blks, aval' = aval,
         pool' = pool, heap' = heap, fill' = fill, filled' = filled, drained' = drained,
         {r.pc, drain[b].pc} \cap {"advance", "count"} = {},
         r.pc \in HandPCs <=> drain[b].pc \in HandPCs,
         r.pc \in HandPCs => r.bk = drain[b].bk,
         DrainOK(b)'
  PROVE  BufInv'
<1>1. Housed'
  <2>1. \A d \in Bufs, k \in Blocks : InHand(d, k)' <=> InHand(d, k)
    BY DEF InHand, DrainAs, HandPCs
  <2>2. QED
    BY <2>1, HousedFrame
<1>2. AvalOf(b)'
  <2>1. Counted(b)' = Counted(b) /\ Uncounted(b)' = Uncounted(b)
    BY DEF Counted, Uncounted, DrainAs
  <2>2. QED
    BY <2>1, AvalFrame DEF BufInv
<1>3. QED
  BY <1>1, <1>2, DrainOnly DEF BufInv, Typed

LEMMA DrainAway ==
  ASSUME NEW b \in Bufs, NEW r, DrainAs(b, r), r.pc \notin AtHead, r.pc # "count",
         r.pc \in HandPCs => r.bk \in Blocks,
         b \in RBufs /\ r.pc # "idle" => fill'[b].pc = "idle"
  PROVE  DrainOK(b)'
  BY DEF DrainOK, DrainAs, AtHead, HandPCs

(* A drain call ends.                                                      *)
LEMMA EndDrain ==
  ASSUME BufInv, NEW b \in Bufs, drain' = [drain EXCEPT ![b] = Idle],
         drain[b].pc \notin HandPCs \cup {"advance", "count"},
         blk' = blk, blks' = blks, aval' = aval,
         pool' = pool, heap' = heap, fill' = fill, filled' = filled, drained' = drained
  PROVE  BufInv'
<1>1. DrainAs(b, Idle)
  BY IdleTyped, DrainPut DEF BufInv
<1>2. DrainOK(b)'
  BY <1>1, IdleTyped, DrainAway DEF AtHead, HandPCs
<1>3. QED
  BY <1>1, <1>2, IdleTyped, DrainStays DEF HandPCs

LEMMA CallDrain ==
  ASSUME BufInv, NEW b \in Bufs, NEW n \in 1 .. MaxBytes, DrainCall(b, n)
  PROVE  BufInv'
<1> DEFINE r == Start("rblk", n)
<1>1. /\ drain[b].pc = "idle" /\ (b \in RBufs => fill[b].pc = "idle")
      /\ drain' = [drain EXCEPT ![b] = r]
      /\ blk' = blk /\ blks' = blks /\ pool' = pool /\ heap' = heap /\ fill' = fill
      /\ filled' = filled /\ drained' = drained /\ aval' = aval
  BY DEF DrainCall, Fill, Drain, Start
<1>2. r \in Thread(DrainPCs) /\ r.pc = "rblk"
  <2>1. n \in 0 .. MaxBytes /\ "rblk" \in DrainPCs /\ "idle" \in DrainPCs
    BY BufFacts DEF DrainPCs, BufInv
  <2>2. QED
    BY <2>1, StartTyped
<1> HIDE DEF r
<1>3. DrainAs(b, r)
  BY <1>1, <1>2, DrainPut DEF BufInv
<1>4. DrainOK(b)'
  BY <1>1, <1>2, <1>3, DrainAway DEF AtHead, HandPCs
<1>5. QED
  BY <1>1, <1>2, <1>3, <1>4, DrainStays DEF HandPCs

(* The thread that drains b goes to the first block.                       *)
LEMMA ToHead ==
  ASSUME BufInv, NEW b \in Bufs, blks[b] # <<>>, NEW to \in {"full", "unread"},
         drain[b].pc \in {"rblk", "next"}, to = "full" => Block(b, 1).ridx = Block(b, 1).widx,
         drain' = [drain EXCEPT ![b].bk = Head(blks[b]), ![b].pc = to],
         blk' = blk, blks' = blks, aval' = aval,
         pool' = pool, heap' = heap, fill' = fill, filled' = filled, drained' = drained
  PROVE  BufInv'
<1> DEFINE s == drain[b]
           k == blks[b][1]
           t == [s EXCEPT !.bk = k]
           r == [t EXCEPT !.pc = to]
<1>1. s \in Thread(DrainPCs) /\ k \in Blocks /\ Len(blks[b]) \in Nat /\ k = Head(blks[b])
  BY BufFacts DEF BufInv
<1>2. drain' = [drain EXCEPT ![b] = r]
  BY <1>1 DEF BufInv, Typed
<1>3. t = [s EXCEPT !.bk = k]
  OBVIOUS
<1>4. r = [t EXCEPT !.pc = to]
  OBVIOUS
<1>5. to \in DrainPCs
  BY DEF DrainPCs, MutexPCs
<1>6. b \in RBufs => fill[b].pc = "idle"
  BY DEF BufInv, Local, DrainOK
<1> HIDE DEF r, t, s, k
<1>7. t \in Thread(DrainPCs) /\ t.bk = k
  BY <1>1, <1>3, PutBk
<1>8. r \in Thread(DrainPCs) /\ r.pc = to /\ r.bk = k
  BY <1>4, <1>5, <1>7, PutPc
<1>9. DrainAs(b, r)
  BY <1>2, <1>8, DrainPut DEF BufInv
<1>10. DrainOK(b)'
  <2>1. drain'[b] = r /\ blks'[b] # <<>> /\ blks'[b][1] = k /\ Block(b, 1)' = Block(b, 1)
    BY <1>9 DEF Block, DrainAs, k
  <2>2. QED
    BY <1>6, <1>8, <2>1 DEF DrainOK, AtHead, HandPCs
<1>11. QED
  BY <1>8, <1>9, <1>10, DrainStays DEF HandPCs

LEMMA RblkGet ==
  ASSUME BufInv, NEW b \in Bufs, GetRblk(b)
  PROVE  BufInv'
<1>1. /\ drain[b].pc = "rblk"
      /\ blk' = blk /\ blks' = blks /\ pool' = pool /\ heap' = heap /\ fill' = fill
      /\ filled' = filled /\ drained' = drained /\ aval' = aval
  BY DEF GetRblk, Drain
<1>2. CASE blks[b] = <<>> /\ drain' = [drain EXCEPT ![b] = Idle]
  BY <1>1, <1>2, EndDrain DEF HandPCs
<1>3. CASE blks[b] # <<>>
  <2> DEFINE k == Head(blks[b])
             to == IF blk[k].ridx = blk[k].widx THEN "full" ELSE "unread"
  <2>1. drain' = [drain EXCEPT ![b].bk = k, ![b].pc = to]
    BY <1>3 DEF GetRblk
  <2>2. to \in {"full", "unread"}
    OBVIOUS
  <2>3. to = "full" => Block(b, 1).ridx = Block(b, 1).widx
    BY <1>3, BufFacts DEF Block, BufInv
  <2> HIDE DEF to
  <2>4. QED
    BY <1>1, <1>3, <2>1, <2>2, <2>3, ToHead
<1>4. QED
  BY <1>2, <1>3 DEF GetRblk

LEMMA RblkNext ==
  ASSUME BufInv, NEW b \in Bufs, NextRblk(b)
  PROVE  BufInv'
<1>1. /\ drain[b].pc = "next"
      /\ blk' = blk /\ blks' = blks /\ pool' = pool /\ heap' = heap /\ fill' = fill
      /\ filled' = filled /\ drained' = drained /\ aval' = aval
  BY DEF NextRblk, Drain
<1>2. CASE blks[b] = <<>> /\ drain' = [drain EXCEPT ![b] = Idle]
  BY <1>1, <1>2, EndDrain DEF HandPCs
<1>3. CASE blks[b] # <<>>
  <2>1. drain' = [drain EXCEPT ![b].bk = Head(blks[b]), ![b].pc = "unread"]
    BY <1>3, BufFacts DEF NextRblk, BufInv, Typed
  <2>2. QED
    BY <1>1, <1>3, <2>1, ToHead
<1>4. QED
  BY <1>2, <1>3 DEF NextRblk

(* At the first block, the thread goes on to another step.                 *)
LEMMA AtHeadMoves ==
  ASSUME BufInv, NEW b \in Bufs, NEW to \in {"recycle", "unread", "take"}, DrainTo(b, to),
         drain[b].pc \in {"full", "unread"},
         to = "recycle" => drain[b].pc = "full" /\ Block(b, 1).widx = BlkLen,
         to = "take" => Block(b, 1).ridx < Block(b, 1).widx,
         blk' = blk, blks' = blks, aval' = aval,
         pool' = pool, heap' = heap, fill' = fill, filled' = filled, drained' = drained
  PROVE  BufInv'
<1>1. to \in DrainPCs
  BY DEF DrainPCs, MutexPCs
<1>2. PICK r : /\ DrainAs(b, r) /\ r.pc = to
               /\ r.bk = drain[b].bk /\ r.rmn = drain[b].rmn /\ r.l = drain[b].l
  BY <1>1, DrainMoves DEF BufInv
<1>3. DrainOK(b)'
  <2>1. drain'[b] = r /\ blks'[b] = blks[b] /\ Block(b, 1)' = Block(b, 1)
    BY <1>2 DEF Block, DrainAs
  <2>2. blks[b] # <<>> /\ drain[b].bk = blks[b][1]
    BY DEF BufInv, Local, DrainOK, AtHead, HandPCs
  <2>3. b \in RBufs => fill[b].pc = "idle"
    BY DEF BufInv, Local, DrainOK
  <2>4. b \in RBufs /\ to = "recycle" => Block(b, 1).ridx = Block(b, 1).widx
    BY DEF BufInv, Local, DrainOK
  <2>5. QED
    BY <1>2, <2>1, <2>2, <2>3, <2>4 DEF DrainOK, HandPCs
<1>4. QED
  BY <1>2, <1>3, DrainStays DEF HandPCs

LEMMA FullRblk ==
  ASSUME BufInv, NEW b \in Bufs, RblkFull(b)
  PROVE  BufInv'
<1> DEFINE to == IF blk[drain[b].bk].widx = BlkLen THEN "recycle" ELSE "unread"
<1>1. /\ drain[b].pc = "full" /\ DrainTo(b, to)
      /\ blk' = blk /\ blks' = blks /\ pool' = pool /\ heap' = heap /\ fill' = fill
      /\ filled' = filled /\ drained' = drained /\ aval' = aval
  BY DEF RblkFull, Drain
<1>2. drain[b].bk = blks[b][1]
  BY <1>1 DEF BufInv, Local, DrainOK, AtHead, HandPCs
<1>3. to \in {"recycle", "unread"} /\ (to = "recycle" => Block(b, 1).widx = BlkLen)
  BY <1>2 DEF Block
<1> HIDE DEF to
<1>4. QED
  BY <1>1, <1>3, AtHeadMoves

LEMMA UnreadRblk ==
  ASSUME BufInv, NEW b \in Bufs, RblkUnread(b)
  PROVE  BufInv'
<1>1. /\ drain[b].pc = "unread"
      /\ blk' = blk /\ blks' = blks /\ pool' = pool /\ heap' = heap /\ fill' = fill
      /\ filled' = filled /\ drained' = drained /\ aval' = aval
  BY DEF RblkUnread, Drain
<1>2. drain[b].bk = blks[b][1]
  BY <1>1 DEF BufInv, Local, DrainOK, AtHead, HandPCs
<1>3. CASE blk[drain[b].bk].ridx < blk[drain[b].bk].widx /\ DrainTo(b, "take")
  BY <1>1, <1>2, <1>3, AtHeadMoves DEF Block
<1>4. CASE drain' = [drain EXCEPT ![b] = Idle]
  BY <1>1, <1>4, EndDrain DEF HandPCs
<1>5. QED
  BY <1>3, <1>4 DEF RblkUnread

(* A step on the way of a block back to the pool or the heap.              *)
LEMMA CheckPool ==
  ASSUME BufInv, NEW b \in Bufs, NEW to \in {"push", "raw"}, DrainTo(b, to),
         drain[b].pc \in HandPCs,
         blk' = blk, blks' = blks, aval' = aval,
         pool' = pool, heap' = heap, fill' = fill, filled' = filled, drained' = drained
  PROVE  BufInv'
<1>1. to \in DrainPCs
  BY DEF DrainPCs, MutexPCs
<1>2. PICK r : /\ DrainAs(b, r) /\ r.pc = to
               /\ r.bk = drain[b].bk /\ r.rmn = drain[b].rmn /\ r.l = drain[b].l
  BY <1>1, DrainMoves DEF BufInv
<1>3. (b \in RBufs => fill[b].pc = "idle") /\ drain[b].bk \in Blocks
  BY DEF BufInv, Local, DrainOK, HandPCs
<1>4. DrainOK(b)'
  BY <1>2, <1>3, DrainAway DEF AtHead
<1>5. QED
  BY <1>2, <1>4, DrainStays DEF HandPCs

ToPool(k) == pool' = Append(pool, k) /\ Len(pool) < PoolThreshold /\ heap' = heap
ToHeap(k) == pool' = pool /\ heap' = heap \cup {k}

LEMMA AppendIs ==
  ASSUME NEW S, NEW s \in Seq(S), NEW x \in S
  PROVE  /\ Append(s, x) \in Seq(S) /\ Len(Append(s, x)) = Len(s) + 1
         /\ DOMAIN Append(s, x) = 1 .. Len(s) + 1
         /\ Append(s, x)[Len(s) + 1] = x
         /\ \A i \in 1 .. Len(s) : Append(s, x)[i] = s[i]
  OBVIOUS

(* The block in the hands of the thread that drains b has its new home.    *)
LEMMA HandOver ==
  ASSUME BufInv, NEW b \in Bufs, NEW k \in Blocks, drain[b].bk = k, drain[b].pc \in HandPCs, DrainTo(b, "next"),
         blk' = blk, blks' = blks, aval' = aval,
         fill' = fill, filled' = filled, drained' = drained,
         ToPool(k) \/ ToHeap(k)
  PROVE  BufInv'
<1>1. "next" \in DrainPCs
  BY DEF DrainPCs, MutexPCs
<1>2. PICK r : /\ DrainAs(b, r) /\ r.pc = "next"
               /\ r.bk = drain[b].bk /\ r.rmn = drain[b].rmn /\ r.l = drain[b].l
  BY <1>1, DrainMoves DEF BufInv
<1>3. b \in RBufs => fill[b].pc = "idle"
  BY DEF BufInv, Local, DrainOK, HandPCs
<1>4. DrainOK(b)'
  BY <1>2, <1>3, DrainAway DEF AtHead, HandPCs
<1>5. InHand(b, k) /\ (\A j \in Blocks \ {k} : ~ InHand(b, j)) /\ \A j \in Blocks : ~ InHand(b, j)'
  BY <1>2 DEF InHand, HandPCs, DrainAs
<1>6. \A d \in Bufs \ {b}, j \in Blocks : InHand(d, j)' <=> InHand(d, j)
  BY <1>2 DEF InHand, DrainAs
<1>7. \A d \in Bufs, j \in Blocks : (In(d, j)' <=> In(d, j)) /\ (Blank(j)' <=> Blank(j))
  BY DEF In, Blank
<1>8. /\ pool \in Seq(Blocks) /\ heap \subseteq Blocks /\ Len(pool) \in Nat
      /\ DOMAIN pool = 1 .. Len(pool) /\ Len(pool) <= PoolThreshold /\ PoolThreshold \in Nat
  BY BufAssumption DEF BufInv, Typed, Housed
<1>9. Blank(k) /\ k \notin heap /\ ~ InPool(k) /\ \A d \in Bufs : ~ In(d, k) /\ (InHand(d, k) => d = b)
  BY <1>5 DEF BufInv, Housed
<1>10. /\ \A d \in Bufs : \A i, j \in DOMAIN blks'[d] : blks'[d][i] = blks'[d][j] => i = j
  BY DEF BufInv, Housed
<1>11. Housed' /\ pool' \in Seq(Blocks) /\ heap' \subseteq Blocks
  <2>1. CASE ToPool(k)
    <3>9. heap' = heap
      BY <2>1 DEF ToPool
    <3>1. /\ pool' \in Seq(Blocks) /\ Len(pool') = Len(pool) + 1 /\ DOMAIN pool' = 1 .. Len(pool) + 1
          /\ pool'[Len(pool) + 1] = k
          /\ \A i \in 1 .. Len(pool) : pool'[i] = pool[i]
      BY <1>8, <2>1, AppendIs DEF ToPool
    <3>8. InPool(k)'
      <4>1. Len(pool) + 1 \in DOMAIN pool'
        BY <1>8, <3>1
      <4>2. QED
        BY <3>1, <4>1 DEF InPool
    <3>2. ASSUME NEW j \in Blocks \ {k} PROVE InPool(j)' <=> InPool(j)
      <4>1. ASSUME InPool(j) PROVE InPool(j)'
        <5>1. PICK i \in DOMAIN pool : pool[i] = j
          BY <4>1 DEF InPool
        <5>2. i \in DOMAIN pool' /\ pool'[i] = j
          BY <1>8, <3>1, <5>1
        <5>3. QED
          BY <5>2 DEF InPool
      <4>2. ASSUME InPool(j)' PROVE InPool(j)
        <5>1. PICK i \in DOMAIN pool' : pool'[i] = j
          BY <4>2 DEF InPool
        <5>2. i \in DOMAIN pool /\ pool[i] = j
          BY <1>8, <3>1, <5>1
        <5>3. QED
          BY <5>2 DEF InPool
      <4>3. QED
        BY <4>1, <4>2
    <3>3. \A i, j \in DOMAIN pool' : pool'[i] = pool'[j] => i = j
      <4>1. \A i \in 1 .. Len(pool) : pool[i] # k
        BY <1>8, <1>9 DEF InPool
      <4>2. \A i, j \in 1 .. Len(pool) : pool[i] = pool[j] => i = j
        BY <1>8 DEF BufInv, Housed
      <4>3. QED
        BY <1>8, <3>1, <4>1, <4>2
    <3>4. Len(pool') <= PoolThreshold
      BY <1>8, <2>1, <3>1 DEF ToPool
    <3>5. ASSUME NEW j \in Blocks, NEW d \in Bufs, NEW e \in Bufs
          PROVE  /\ j \in heap' => ~ InPool(j)'
                 /\ In(d, j)' => j \notin heap' /\ ~ InPool(j)'
                 /\ InHand(d, j)' => j \notin heap' /\ ~ InPool(j)' /\ Blank(j)'
                 /\ ~ (In(d, j)' /\ InHand(e, j)')
                 /\ In(d, j)' /\ In(e, j)' => d = e
                 /\ InHand(d, j)' /\ InHand(e, j)' => d = e
                 /\ InPool(j)' => Blank(j)'
      BY <1>5, <1>6, <1>7, <1>9, <3>9, <3>8, <3>2 DEF BufInv, Housed
    <3>6. \A j \in Blocks : \/ j \in heap' \/ InPool(j)'
                            \/ \E d \in Bufs : In(d, j)' \/ InHand(d, j)'
      <4>1. ASSUME NEW j \in Blocks \ {k}
            PROVE  \/ j \in heap' \/ InPool(j)' \/ \E d \in Bufs : In(d, j)' \/ InHand(d, j)'
        <5>1. j \in heap \/ InPool(j) \/ \E d \in Bufs : In(d, j) \/ InHand(d, j)
          BY DEF BufInv, Housed
        <5>2. InPool(j)' <=> InPool(j)
          BY <3>2
        <5>3. \A d \in Bufs : InHand(d, j) => InHand(d, j)'
          BY <1>5, <1>6
        <5>4. QED
          BY <1>7, <3>9, <5>1, <5>2, <5>3
      <4>2. QED
        BY <3>8, <4>1
    <3>7. QED
      BY <1>8, <1>10, <3>9, <3>1, <3>3, <3>4, <3>5, <3>6 DEF Housed
  <2>2. CASE ToHeap(k)
    <3>1. \A j \in Blocks : InPool(j)' <=> InPool(j)
      BY <2>2 DEF InPool, ToHeap
    <3>2. ASSUME NEW j \in Blocks, NEW d \in Bufs, NEW e \in Bufs
          PROVE  /\ j \in heap' => ~ InPool(j)'
                 /\ In(d, j)' => j \notin heap' /\ ~ InPool(j)'
                 /\ InHand(d, j)' => j \notin heap' /\ ~ InPool(j)' /\ Blank(j)'
                 /\ ~ (In(d, j)' /\ InHand(e, j)')
                 /\ In(d, j)' /\ In(e, j)' => d = e
                 /\ InHand(d, j)' /\ InHand(e, j)' => d = e
                 /\ InPool(j)' => Blank(j)'
      BY <1>5, <1>6, <1>7, <1>9, <2>2, <3>1 DEF BufInv, Housed, ToHeap
    <3>3. \A j \in Blocks : \/ j \in heap' \/ InPool(j)'
                            \/ \E d \in Bufs : In(d, j)' \/ InHand(d, j)'
      BY <1>5, <1>6, <1>7, <2>2, <3>1 DEF BufInv, Housed, ToHeap
    <3>4. \A i, j \in DOMAIN pool' : pool'[i] = pool'[j] => i = j
      BY <2>2 DEF BufInv, Housed, ToHeap
    <3>5. heap' \subseteq Blocks
      BY <1>8, <2>2 DEF ToHeap
    <3>6. QED
      BY <1>8, <1>10, <2>2, <3>2, <3>3, <3>4, <3>5 DEF Housed, ToHeap
  <2>3. QED
    BY <2>1, <2>2
<1>12. AvalOf(b)'
  <2>1. Counted(b)' = Counted(b) /\ Uncounted(b)' = Uncounted(b)
    BY <1>2 DEF Counted, Uncounted, DrainAs, HandPCs
  <2>2. QED
    BY <2>1, AvalFrame DEF BufInv
<1>13. drain[b].pc # "advance"
  BY DEF HandPCs
<1>14. QED
  BY <1>2, <1>4, <1>11, <1>12, <1>13, DrainOnly DEF BufInv, Typed

LEMMA PutInPool ==
  ASSUME BufInv, NEW b \in Bufs, PoolPush(b)
  PROVE  BufInv'
<1>1. /\ drain[b].pc = "push"
      /\ blk' = blk /\ blks' = blks /\ heap' = heap /\ fill' = fill
      /\ filled' = filled /\ drained' = drained /\ aval' = aval
  BY DEF PoolPush, Drain
<1>2. drain[b].bk \in Blocks
  BY <1>1 DEF BufInv, Local, DrainOK, HandPCs
<1>3. CASE DrainTo(b, "next") /\ ToPool(drain[b].bk)
  BY <1>1, <1>2, <1>3, HandOver DEF HandPCs
<1>4. CASE DrainTo(b, "raw") /\ pool' = pool
  BY <1>1, <1>4, CheckPool DEF HandPCs
<1>5. QED
  BY <1>1, <1>3, <1>4 DEF PoolPush, ToPool

LEMMA PutInHeap ==
  ASSUME BufInv, NEW b \in Bufs, FreeRaw(b)
  PROVE  BufInv'
<1>1. /\ drain[b].pc = "raw" /\ DrainTo(b, "next") /\ heap' = heap \cup {drain[b].bk}
      /\ blk' = blk /\ blks' = blks /\ pool' = pool /\ fill' = fill
      /\ filled' = filled /\ drained' = drained /\ aval' = aval
  BY DEF FreeRaw, Drain
<1>2. drain[b].bk \in Blocks /\ ToHeap(drain[b].bk)
  BY <1>1 DEF BufInv, Local, DrainOK, HandPCs, ToHeap
<1>3. QED
  BY <1>1, <1>2, HandOver DEF HandPCs

LEMMA LookAtPool ==
  ASSUME BufInv, NEW b \in Bufs, PoolCheck(b)
  PROVE  BufInv'
<1> DEFINE to == IF Len(pool) < PoolThreshold THEN "push" ELSE "raw"
<1>1. /\ drain[b].pc = "check" /\ DrainTo(b, to)
      /\ blk' = blk /\ blks' = blks /\ pool' = pool /\ heap' = heap /\ fill' = fill
      /\ filled' = filled /\ drained' = drained /\ aval' = aval
  BY DEF PoolCheck, Drain
<1>2. to \in {"push", "raw"}
  OBVIOUS
<1> HIDE DEF to
<1>3. QED
  BY <1>1, <1>2, CheckPool DEF HandPCs

LEMMA CountDrain ==
  ASSUME BufInv, NEW b \in Bufs, DrainCount(b)
  PROVE  BufInv'
<1> DEFINE s == drain[b]
           n == s.rmn - s.l
           u == Start("rblk", n)
           r == IF n > 0 \/ b \in WBufs THEN u ELSE Idle
<1>1. /\ s.pc = "count" /\ drain' = [drain EXCEPT ![b] = r] /\ aval' = [aval EXCEPT ![b] = @ - s.l]
      /\ blk' = blk /\ blks' = blks /\ pool' = pool /\ heap' = heap /\ fill' = fill
      /\ filled' = filled /\ drained' = drained
  BY DEF DrainCount, Drain, Start
<1>2. /\ s \in Thread(DrainPCs) /\ aval \in [Bufs -> Int] /\ s.l \in Nat /\ s.rmn \in Nat
      /\ s.rmn \in 0 .. MaxBytes /\ MaxBytes \in Nat
  <2>1. s \in Thread(DrainPCs) /\ MaxBytes \in Nat /\ BlkLen \in Nat /\ aval \in [Bufs -> Int]
    BY BufFacts DEF BufInv, Typed
  <2>2. PICK x : x = s
    OBVIOUS
  <2>3. x.l \in 0 .. BlkLen /\ x.rmn \in 0 .. MaxBytes
    BY <2>1, <2>2 DEF Thread
  <2>4. x.l \in Nat /\ x.rmn \in Nat
    BY <2>1, <2>3
  <2>5. QED
    BY <2>1, <2>2, <2>3, <2>4
<1>3. s.l >= 1 /\ s.l <= s.rmn
  BY <1>1 DEF BufInv, Local, DrainOK
<1>4. n \in 0 .. MaxBytes
  BY <1>2, <1>3
<1> HIDE DEF n, u
<1>5. u \in Thread(DrainPCs) /\ u.pc = "rblk" /\ u.l = 0
  <2>1. "rblk" \in DrainPCs /\ "idle" \in DrainPCs
    BY DEF DrainPCs
  <2>2. QED
    BY <1>4, <2>1, StartTyped DEF u
<1>6. r \in Thread(DrainPCs) /\ r.pc \in {"rblk", "idle"} /\ r.l = 0
  BY <1>5, IdleTyped
<1> HIDE DEF r
<1>7. DrainAs(b, r)
  BY <1>1, <1>6, DrainPut DEF BufInv
<1>8. DrainOK(b)'
  <2>1. b \in RBufs => fill'[b].pc = "idle"
    BY <1>1 DEF BufInv, Local, DrainOK
  <2>2. QED
    BY <1>6, <1>7, <2>1, DrainAway DEF AtHead, HandPCs
<1>9. Housed'
  <2>1. \A d \in Bufs, k \in Blocks : InHand(d, k)' <=> InHand(d, k)
    BY <1>1, <1>6, <1>7 DEF InHand, DrainAs
  <2>2. QED
    BY <1>1, <2>1, HousedFrame
<1>10. aval' \in [Bufs -> Int] /\ aval'[b] = aval[b] - s.l /\ \A d \in Bufs \ {b} : aval'[d] = aval[d]
  BY <1>1, <1>2
<1>11. AvalOf(b)'
  <2>1. aval[b] = filled[b] - Len(drained[b]) - Uncounted(b) + Counted(b) /\ aval[b] \in Int
    BY <1>2, AvalIsAll DEF BufInv, AvalOf
  <2>2. Counted(b) = s.l /\ Counted(b)' = 0 /\ Uncounted(b)' = Uncounted(b)
    BY <1>1, <1>6, <1>7 DEF Uncounted, Counted, DrainAs
  <2>3. Uncounted(b) \in Int /\ Len(drained[b]) \in Int /\ filled[b] \in Int
    BY BufFacts DEF Uncounted, Thread, BufInv
  <2>4. QED
    BY <1>1, <1>2, <1>10, <2>1, <2>2, <2>3 DEF AvalOf
<1>12. pool' \in Seq(Blocks) /\ heap' \subseteq Blocks
  BY <1>1 DEF BufInv, Typed
<1>13. QED
  BY <1>1, <1>6, <1>7, <1>8, <1>9, <1>10, <1>11, <1>12, DrainOnly

-----------------------------------------------------------------------------
(* The steps on the bytes and the indices of a block.                      *)
LEMMA SetHead ==
  ASSUME Typed, NEW k \in Blocks, NEW h \in [0..BlkLen - 1 -> Bytes],
         blk' = [blk EXCEPT ![k].head = h]
  PROVE  /\ blk' \in [Blocks -> [ridx : 0..BlkLen, widx : 0..BlkLen, head : [0..BlkLen - 1 -> Bytes]]]
         /\ blk'[k].ridx = blk[k].ridx /\ blk'[k].widx = blk[k].widx /\ blk'[k].head = h
         /\ \A j \in Blocks \ {k} : blk'[j] = blk[j]
  BY DEF Typed

LEMMA SetWidx ==
  ASSUME Typed, NEW k \in Blocks, NEW n \in 0..BlkLen, blk' = [blk EXCEPT ![k].widx = n]
  PROVE  /\ blk' \in [Blocks -> [ridx : 0..BlkLen, widx : 0..BlkLen, head : [0..BlkLen - 1 -> Bytes]]]
         /\ blk'[k].ridx = blk[k].ridx /\ blk'[k].widx = n /\ blk'[k].head = blk[k].head
         /\ \A j \in Blocks \ {k} : blk'[j] = blk[j]
  BY DEF Typed

LEMMA SetRidx ==
  ASSUME Typed, NEW k \in Blocks, NEW n \in 0..BlkLen, blk' = [blk EXCEPT ![k].ridx = n]
  PROVE  /\ blk' \in [Blocks -> [ridx : 0..BlkLen, widx : 0..BlkLen, head : [0..BlkLen - 1 -> Bytes]]]
         /\ blk'[k].ridx = n /\ blk'[k].widx = blk[k].widx /\ blk'[k].head = blk[k].head
         /\ \A j \in Blocks \ {k} : blk'[j] = blk[j]
  BY DEF Typed

LEMMA ResetBlk ==
  ASSUME Typed, NEW k \in Blocks, blk' = [blk EXCEPT ![k].ridx = 0, ![k].widx = 0]
  PROVE  /\ blk' \in [Blocks -> [ridx : 0..BlkLen, widx : 0..BlkLen, head : [0..BlkLen - 1 -> Bytes]]]
         /\ blk'[k].ridx = 0 /\ blk'[k].widx = 0
         /\ \A j \in Blocks \ {k} : blk'[j] = blk[j]
<1> DEFINE s == blk[k]
           t == [s EXCEPT !.ridx = 0]
           r == [t EXCEPT !.widx = 0]
           BlkSet == [ridx : 0..BlkLen, widx : 0..BlkLen, head : [0..BlkLen - 1 -> Bytes]]
<1>1. s \in BlkSet /\ 0 \in 0..BlkLen
  BY BufAssumption DEF Typed
<1>2. blk' = [blk EXCEPT ![k] = r] /\ blk \in [Blocks -> BlkSet]
  BY DEF Typed
<1>3. t = [s EXCEPT !.ridx = 0]
  OBVIOUS
<1>4. r = [t EXCEPT !.widx = 0]
  OBVIOUS
<1> HIDE DEF s, t, r
<1>5. t \in BlkSet /\ t.ridx = 0
  BY <1>1, <1>3
<1>6. r \in BlkSet /\ r.ridx = 0 /\ r.widx = 0
  BY <1>1, <1>4, <1>5
<1> HIDE DEF BlkSet
<1>7. blk' \in [Blocks -> BlkSet] /\ blk'[k] = r /\ \A j \in Blocks \ {k} : blk'[j] = blk[j]
  BY <1>2, <1>6
<1>8. QED
  BY <1>6, <1>7 DEF BlkSet

LEMMA OthersLocal ==
  ASSUME BufInv, NEW b \in Bufs, NEW k \in Blocks, \A j \in Blocks \ {k} : blk'[j] = blk[j],
         \A d \in Bufs \ {b} :
            /\ ~ In(d, k) /\ blks'[d] = blks[d] /\ fill'[d] = fill[d] /\ drain'[d] = drain[d]
            /\ filled'[d] = filled[d] /\ drained'[d] = drained[d]
  PROVE  \A d \in Bufs \ {b} : Local(d)'
<1> SUFFICES ASSUME NEW d \in Bufs \ {b} PROVE Local(d)'
  OBVIOUS
<1>1. \A j : In(d, j) => j \in Blocks \ {k}
  BY BufFacts DEF In, BufInv
<1>2. QED
  BY <1>1, LocalFrame DEF BufInv

(* A block of the list of b is nowhere else, and once in the list.         *)
LEMMA InList ==
  ASSUME BufInv, NEW b \in Bufs, NEW n \in 1 .. Len(blks[b])
  PROVE  LET k == blks[b][n]
         IN  /\ k \in Blocks /\ In(b, k) /\ ~ InPool(k) /\ k \notin heap
             /\ \A d \in Bufs : ~ InHand(d, k)
             /\ \A d \in Bufs \ {b} : ~ In(d, k)
             /\ \A i \in 1 .. Len(blks[b]) : blks[b][i] = k => i = n
<1> DEFINE k == blks[b][n]
<1>1. k \in Blocks /\ In(b, k)
  BY BufFacts DEF In, BufInv
<1>2. \A i \in 1 .. Len(blks[b]) : blks[b][i] = k => i = n
  BY BufFacts DEF Housed, BufInv
<1> HIDE DEF k
<1>3. ~ InPool(k) /\ k \notin heap /\ (\A d \in Bufs : ~ InHand(d, k)) /\ \A d \in Bufs \ {b} : ~ In(d, k)
  BY <1>1 DEF BufInv, Housed
<1>4. QED
  BY <1>1, <1>2, <1>3 DEF k

(* A step of b that changes nothing but the block k of its list.           *)
LEMMA OneBlock ==
  ASSUME BufInv, NEW b \in Bufs, NEW n \in 1 .. Len(blks[b]), NEW k \in Blocks, k = blks[b][n],
         \A j \in Blocks \ {k} : blk'[j] = blk[j],
         blk' \in [Blocks -> [ridx : 0..BlkLen, widx : 0..BlkLen, head : [0..BlkLen - 1 -> Bytes]]],
         blks' = blks, pool' = pool, heap' = heap, aval' = aval,
         fill' \in [Bufs -> Thread(FillPCs)], drain' \in [Bufs -> Thread(DrainPCs)],
         filled' \in [Bufs -> 0..MaxBytes], drained' \in [Bufs -> Seq(Bytes)],
         \A d \in Bufs \ {b} : /\ fill'[d] = fill[d] /\ drain'[d] = drain[d]
                               /\ filled'[d] = filled[d] /\ drained'[d] = drained[d],
         {drain[b].pc, drain'[b].pc} \cap HandPCs = {} \/ drain'[b] = drain[b],
         AvalOf(b)', Local(b)'
  PROVE  BufInv'
<1>1. /\ In(b, k) /\ ~ InPool(k) /\ (\A d \in Bufs : ~ InHand(d, k))
      /\ \A d \in Bufs \ {b} : ~ In(d, k)
  BY InList
<1>2. \A d \in Bufs : Local(d)'
  BY <1>1, OthersLocal
<1>3. Housed'
  <2>1. \A d \in Bufs, j \in Blocks : InHand(d, j)' <=> InHand(d, j)
    BY DEF InHand, HandPCs
  <2>2. QED
    BY <1>1, <2>1, HousedFrame
<1>4. AvalCounts'
  <2>1. ASSUME NEW d \in Bufs \ {b} PROVE AvalOf(d)'
    <3>1. Uncounted(d)' = Uncounted(d) /\ Counted(d)' = Counted(d)
      BY DEF Uncounted, Counted
    <3>2. QED
      BY <3>1, AvalFrame DEF BufInv
  <2>2. \A d \in Bufs : AvalOf(d)'
    BY <2>1
  <2>3. QED
    BY <2>2 DEF AvalCounts, AvalOf, Uncounted, Counted
<1>5. Typed'
  BY DEF BufInv, Typed
<1>6. QED
  BY <1>2, <1>3, <1>4, <1>5 DEF BufInv

LEMMA Ints ==
  ASSUME Typed, NEW b \in Bufs
  PROVE  /\ UnderWay(b) \in 0 .. BlkLen /\ Taken(b) \in 0 .. BlkLen
         /\ \A i \in 1 .. Len(blks[b]) :
              /\ Block(b, i).ridx \in 0 .. BlkLen /\ Block(b, i).widx \in 0 .. BlkLen
              /\ Block(b, i).head \in [0 .. BlkLen - 1 -> Bytes]
              /\ Number(b, i) \in Int /\ Written(b, i) \in Nat
         /\ blks[b] # <<>> => Tip(b) \in Int /\ Fore(b) \in Nat
<1>1. /\ BlkLen \in Nat /\ Len(blks[b]) \in Nat /\ filled[b] \in Int
      /\ \A i \in 1 .. Len(blks[b]) : blks[b][i] \in Blocks
      /\ blks[b] = <<>> <=> Len(blks[b]) = 0
  BY BufFacts
<1>2. UnderWay(b) \in 0 .. BlkLen /\ Taken(b) \in 0 .. BlkLen
  BY <1>1, BufFacts DEF UnderWay, Taken, Thread
<1>3. ASSUME NEW i \in 1 .. Len(blks[b])
      PROVE  /\ Block(b, i).ridx \in 0 .. BlkLen /\ Block(b, i).widx \in 0 .. BlkLen
             /\ Block(b, i).head \in [0 .. BlkLen - 1 -> Bytes]
  BY <1>1, BlockFacts DEF Block
<1>4. ASSUME blks[b] # <<>> PROVE Tip(b) \in Int /\ Fore(b) \in Nat
  <2>1. 1 \in 1 .. Len(blks[b]) /\ Len(blks[b]) \in 1 .. Len(blks[b])
    BY <1>1, <1>4
  <2>2. Block(b, 1).ridx \in Nat /\ Block(b, Len(blks[b])).widx \in Nat /\ UnderWay(b) \in Nat /\ Taken(b) \in Nat
    BY <1>1, <1>2, <1>3, <2>1
  <2>3. QED
    BY <1>1, <2>2 DEF Tip, Fore
<1>5. ASSUME NEW i \in 1 .. Len(blks[b]) PROVE Number(b, i) \in Int
  <2>1. Behind(b, i) \in Int
    BY <1>1 DEF Behind
  <2>2. Tip(b) \in Int
    BY <1>1, <1>4
  <2>3. QED
    BY <2>1, <2>2 DEF Number
<1>6. ASSUME NEW i \in 1 .. Len(blks[b]) PROVE Written(b, i) \in Nat
  <2>1. Block(b, i).widx \in Nat /\ UnderWay(b) \in Nat
    BY <1>1, <1>2, <1>3
  <2>2. QED
    BY <2>1 DEF Written
<1>7. QED
  BY <1>2, <1>3, <1>4, <1>5, <1>6

LEMMA ReadKept ==
  ASSUME BufInv, NEW b \in Bufs, blks' = blks, blks[b] # <<>>, drained'[b] = drained[b],
         Number(b, 1)' = Number(b, 1), Fore(b)' = Fore(b)
  PROVE  DrainedOK(b)'
<1>1. Read(b)' = Read(b)
  BY DEF Read
<1>2. QED
  BY <1>1 DEF BufInv, Local, DrainedOK

(* Bytes are copied behind widx of the last block.                         *)
LEMMA CopyBytes ==
  ASSUME BufInv, NEW b \in Bufs, FillCopy(b), filled' # filled
  PROVE  BufInv'
<1>1. PICK n : n = Len(blks[b])
  OBVIOUS
<1>2. PICK k : k = blks[b][n]
  OBVIOUS
<1>3. PICK w : w = blk[k].widx
  OBVIOUS
<1>4. PICK m : m = fill[b].rmn
  OBVIOUS
<1>5. PICK l : l = Least(BlkLen - w, m)
  OBVIOUS
<1>6. PICK old : old = blk[k].head
  OBVIOUS
<1>7. PICK f : f = filled[b]
  OBVIOUS
<1>8. PICK h : h = [i \in DOMAIN old |-> IF i \in w..w + l - 1 THEN <<b, f + 1 + i - w>> ELSE old[i]]
  OBVIOUS
<1>9. fill[b].pc = "copy" /\ blks[b] # <<>> /\ fill[b].bk = k /\ fill[b].l = 0
  BY <1>1, <1>2 DEF FillCopy, Fill, BufInv, Local, FillOK
<1>10. n \in 1 .. Len(blks[b]) /\ n \in Nat \ {0} /\ k \in Blocks
  BY <1>1, <1>2, <1>9, BufFacts DEF BufInv
<1>11. /\ l > 0 /\ blk' = [blk EXCEPT ![k].head = h] /\ filled' = [filled EXCEPT ![b] = @ + l]
       /\ fill' = [fill EXCEPT ![b].pc = "publish", ![b].l = l]
       /\ blks' = blks /\ aval' = aval /\ pool' = pool /\ heap' = heap
       /\ drain' = drain /\ drained' = drained
  BY <1>3, <1>4, <1>5, <1>6, <1>7, <1>8, <1>9, <1>10 DEF FillCopy, BufInv, Typed
<1>12. /\ BlkLen \in Nat /\ MaxBytes \in Nat /\ w \in 0 .. BlkLen /\ m \in 0 .. MaxBytes
       /\ f \in 0 .. MaxBytes /\ old \in [0 .. BlkLen - 1 -> Bytes]
  BY <1>3, <1>4, <1>6, <1>7, <1>10, BufFacts, BlockFacts DEF BufInv, Thread
<1>13. f + m <= MaxBytes
  <2>1. f + m - 0 <= MaxBytes
    BY <1>4, <1>7, <1>9 DEF BufInv, Local, FillOK
  <2>2. QED
    BY <1>12, <2>1
<1>14. l \in 1 .. BlkLen /\ l <= m /\ w + l <= BlkLen
  BY <1>5, <1>11, <1>12 DEF Least
<1>15. h \in [0 .. BlkLen - 1 -> Bytes]
  <2>1. ASSUME NEW i \in w .. w + l - 1 PROVE <<b, f + 1 + i - w>> \in Bytes
    <3>1. f + 1 + i - w \in 1 .. MaxBytes
      BY <1>12, <1>13, <1>14
    <3>2. QED
      BY <3>1 DEF Bytes
  <2>2. QED
    BY <1>8, <1>12, <2>1
<1>16. /\ \A x \in 0 .. w - 1 : h[x] = old[x]
       /\ \A x \in w .. w + l - 1 : h[x] = <<b, f + 1 + x - w>>
  <2>1. ASSUME NEW x \in 0 .. w - 1 PROVE h[x] = old[x]
    <3>1. x \in 0 .. BlkLen - 1 /\ x \notin w .. w + l - 1
      BY <1>12, <1>14
    <3>2. QED
      BY <1>8, <1>12, <3>1
  <2>2. ASSUME NEW x \in w .. w + l - 1 PROVE h[x] = <<b, f + 1 + x - w>>
    <3>1. x \in 0 .. BlkLen - 1
      BY <1>12, <1>14
    <3>2. QED
      BY <1>8, <1>12, <3>1
  <2>3. QED
    BY <2>1, <2>2
<1>17. PICK r : /\ FillAs(b, r) /\ r.pc = "publish" /\ r.rmn = m /\ r.bk = k /\ r.l = l
  <2> DEFINE s == fill[b]
             t == [s EXCEPT !.pc = "publish"]
             r == [t EXCEPT !.l = l]
  <2>1. fill' = [fill EXCEPT ![b] = r]
    BY <1>11 DEF BufInv, Typed
  <2>2. s \in Thread(FillPCs) /\ s.rmn = m /\ s.bk = k
    BY <1>4, <1>9, BufFacts DEF BufInv
  <2>3. t = [s EXCEPT !.pc = "publish"]
    OBVIOUS
  <2>4. r = [t EXCEPT !.l = l]
    OBVIOUS
  <2>5. "publish" \in FillPCs /\ l \in 0 .. BlkLen
    BY <1>14, <1>12 DEF FillPCs
  <2> HIDE DEF s, t, r
  <2>6. t \in Thread(FillPCs) /\ t.pc = "publish" /\ t.rmn = m /\ t.bk = k
    BY <2>2, <2>3, <2>5, PutPc
  <2>7. r \in Thread(FillPCs) /\ r.pc = "publish" /\ r.rmn = m /\ r.bk = k /\ r.l = l
    BY <2>4, <2>5, <2>6, PutL
  <2>8. FillAs(b, r)
    BY <2>1, <2>7, FillPut DEF BufInv
  <2>9. QED
    BY <2>7, <2>8
<1>18. /\ blk' \in [Blocks -> [ridx : 0..BlkLen, widx : 0..BlkLen, head : [0..BlkLen - 1 -> Bytes]]]
       /\ blk'[k].ridx = blk[k].ridx /\ blk'[k].widx = w /\ blk'[k].head = h
       /\ \A j \in Blocks \ {k} : blk'[j] = blk[j]
  BY <1>3, <1>10, <1>11, <1>15, SetHead DEF BufInv
<1>19. filled' \in [Bufs -> 0..MaxBytes] /\ filled'[b] = f + l /\ \A d \in Bufs \ {b} : filled'[d] = filled[d]
  <2>1. f + l \in 0 .. MaxBytes
    BY <1>12, <1>13, <1>14
  <2>2. filled' = [filled EXCEPT ![b] = f + l] /\ filled \in [Bufs -> 0..MaxBytes]
    BY <1>7, <1>11 DEF BufInv, Typed
  <2>3. QED
    BY <2>1, <2>2
<1>20. ASSUME NEW i \in 1 .. n
       PROVE  /\ Block(b, i)'.ridx = Block(b, i).ridx
              /\ Block(b, i)'.widx = Block(b, i).widx
              /\ i # n => Block(b, i)' = Block(b, i)
  <2>1. blks[b][i] \in Blocks /\ (i # n => blks[b][i] # k)
    BY <1>1, <1>2, <1>10, InList, BufFacts DEF BufInv
  <2>2. QED
    BY <1>2, <1>3, <1>11, <1>18, <2>1 DEF Block
<1>21. /\ UnderWay(b) = 0 /\ UnderWay(b)' = l /\ Taken(b)' = Taken(b)
       /\ Block(b, n).widx = w /\ Block(b, n)'.widx = w /\ Block(b, n).head = old /\ Block(b, n)'.head = h
  BY <1>2, <1>3, <1>6, <1>9, <1>11, <1>17, <1>18 DEF UnderWay, Taken, FillAs, Block
<1>22. Tip(b) = f + 1 - w /\ Tip(b)' = f + 1 - w
  <2>1. Tip(b) = f + 1 - (w + 0) /\ Tip(b)' = f + l + 1 - (w + l)
    BY <1>1, <1>7, <1>11, <1>19, <1>21 DEF Tip
  <2>2. QED
    BY <1>12, <1>14, <2>1
<1>23. \A i : Number(b, i)' = Number(b, i)
  BY <1>11, <1>22 DEF Number, Behind
<1>24. Number(b, n) = f + 1 - w
  <2>1. Behind(b, n) = 0
    BY <1>1, <1>10, <1>12 DEF Behind
  <2>2. QED
    BY <1>12, <1>22, <2>1 DEF Number
<1>25. \A i \in 1 .. n : i # n => Written(b, i)' = Written(b, i)
  BY <1>1, <1>11, <1>12, <1>20, Ints DEF Written, BufInv
<1>26. Written(b, n) = w /\ Written(b, n)' = w + l
  BY <1>1, <1>11, <1>12, <1>21 DEF Written
<1>27. Content(b)'
  <2>1. ASSUME NEW i \in 1 .. n, NEW x, x \in 0 .. Written(b, i)' - 1
        PROVE  Block(b, i)'.head[x] = <<b, Number(b, i)' + x>>
    <3>1. CASE i # n
      <4>1. Block(b, i).head[x] = <<b, Number(b, i) + x>>
        BY <1>1, <1>25, <2>1, <3>1 DEF BufInv, Local, Content
      <4>2. QED
        BY <1>20, <1>23, <3>1, <4>1
    <3>2. CASE i = n
      <4>1. x \in 0 .. w + l - 1
        <5>1. Written(b, i)' = w + l
          BY <1>26, <3>2
        <5>2. QED
          BY <1>12, <1>14, <2>1, <5>1
      <4>2. Number(b, i)' = f + 1 - w /\ Block(b, i)'.head = h
        BY <1>21, <1>23, <1>24, <3>2
      <4>3. CASE x < w
        <5>1. x \in 0 .. w - 1
          BY <1>12, <1>14, <4>1, <4>3
        <5>2. old[x] = <<b, f + 1 - w + x>>
          BY <1>1, <1>10, <1>21, <1>24, <1>26, <5>1 DEF BufInv, Local, Content
        <5>3. QED
          BY <1>16, <4>2, <5>1, <5>2
      <4>4. CASE x >= w
        <5>1. x \in w .. w + l - 1
          BY <1>12, <1>14, <4>1, <4>4
        <5>2. f + 1 + x - w = f + 1 - w + x
          BY <1>12, <4>1
        <5>3. QED
          BY <1>16, <4>2, <5>1, <5>2
      <4>5. QED
        BY <1>12, <1>14, <4>1, <4>3, <4>4
    <3>3. QED
      BY <3>1, <3>2
  <2>2. QED
    BY <1>1, <1>11, <2>1 DEF Content
<1>28. ListOK(b)'
  <2>1. \A i \in 1 .. n : /\ Block(b, i).ridx <= Block(b, i).widx
                          /\ i < n => Block(b, i).widx = BlkLen
                          /\ i > 1 => Block(b, i).ridx = 0
    BY <1>1 DEF BufInv, Local, ListOK
  <2>2. \A i \in 1 .. n : /\ Block(b, i)'.ridx <= Block(b, i)'.widx
                          /\ i < n => Block(b, i)'.widx = BlkLen
                          /\ i > 1 => Block(b, i)'.ridx = 0
    BY <1>20, <2>1
  <2>3. QED
    BY <1>1, <1>11, <2>2 DEF ListOK
<1>29. Block(b, 1)'.ridx = Block(b, 1).ridx /\ Block(b, 1)'.widx = Block(b, 1).widx
  <2>1. 1 \in 1 .. n
    BY <1>10
  <2>2. QED
    BY <1>20, <2>1
<1>30. DrainedOK(b)'
  <2>1. Fore(b)' = Fore(b)
    BY <1>21, <1>29 DEF Fore
  <2>2. QED
    BY <1>9, <1>11, <1>23, <2>1, ReadKept
<1>31. FillOK(b)'
  <2>1. fill'[b] = r /\ blks'[b] # <<>> /\ blks'[b][Len(blks'[b])] = k /\ Block(b, Len(blks[b]))'.widx = w
    BY <1>1, <1>2, <1>9, <1>11, <1>17, <1>21 DEF FillAs
  <2>2. filled'[b] + r.rmn - r.l <= MaxBytes
    BY <1>12, <1>13, <1>14, <1>17, <1>19
  <2>3. w < BlkLen
    BY <1>12, <1>14
  <2>4. l >= 1
    BY <1>14, <1>12
  <2>5. QED
    BY <1>14, <1>17, <2>1, <2>2, <2>3, <2>4 DEF FillOK
<1>32. DrainOK(b)'
  <2>1. ~ (b \in RBufs /\ drain[b].pc # "idle")
    BY <1>9 DEF BufInv, Local, DrainOK
  <2>2. QED
    BY <1>11, <1>29, <2>1 DEF BufInv, Local, DrainOK, AtHead, HandPCs
<1>33. AvalOf(b)'
  <2>1. aval[b] = filled[b] - Len(drained[b]) - Uncounted(b) + Counted(b) /\ aval[b] \in Int
    BY AvalIsAll DEF BufInv, AvalOf, Typed
  <2>2. Uncounted(b) = 0 /\ Uncounted(b)' = l /\ Counted(b)' = Counted(b)
    BY <1>9, <1>11, <1>17 DEF Uncounted, Counted, FillAs
  <2>3. Counted(b) \in Int /\ Len(drained[b]) \in Int
    BY BufFacts DEF Counted, Thread, BufInv
  <2>4. aval[b] = f + l - Len(drained[b]) - l + Counted(b)
    <3>1. PICK p \in Int, c \in Int : p = Len(drained[b]) /\ c = Counted(b)
      BY <2>3
    <3>2. aval[b] = f - p - 0 + c
      BY <1>7, <2>1, <2>2, <3>1
    <3>3. f - p - 0 + c = f + l - p - l + c
      BY <1>12, <1>14, <3>1
    <3>4. QED
      BY <3>1, <3>2, <3>3
  <2>5. AvalOf(b)' <=> aval'[b] = filled'[b] - Len(drained'[b]) - Uncounted(b)' + Counted(b)'
    BY DEF AvalOf
  <2>6. QED
    BY <1>11, <1>12, <1>14, <1>19, <2>1, <2>2, <2>3, <2>4, <2>5
<1>34. Local(b)'
  BY <1>27, <1>28, <1>30, <1>31, <1>32 DEF Local
<1>35. /\ fill' \in [Bufs -> Thread(FillPCs)] /\ drain' \in [Bufs -> Thread(DrainPCs)]
       /\ drained' \in [Bufs -> Seq(Bytes)] /\ \A d \in Bufs \ {b} : fill'[d] = fill[d]
  BY <1>11, <1>17 DEF FillAs, BufInv, Typed
<1>36. QED
  BY <1>2, <1>10, <1>11, <1>18, <1>19, <1>33, <1>34, <1>35, OneBlock

(* widx moves past them.                                                   *)
LEMMA PublishBytes ==
  ASSUME BufInv, NEW b \in Bufs, FillPublish(b)
  PROVE  BufInv'
<1>1. PICK n : n = Len(blks[b])
  OBVIOUS
<1>2. PICK k : k = blks[b][n]
  OBVIOUS
<1>3. PICK w : w = blk[k].widx
  OBVIOUS
<1>4. PICK l : l = fill[b].l
  OBVIOUS
<1>5. PICK f : f = filled[b]
  OBVIOUS
<1>6. fill[b].pc = "publish" /\ blks[b] # <<>> /\ fill[b].bk = k
  BY <1>1, <1>2 DEF FillPublish, Fill, BufInv, Local, FillOK
<1>7. n \in 1 .. Len(blks[b]) /\ n \in Nat \ {0} /\ k \in Blocks
  BY <1>1, <1>2, <1>6, BufFacts DEF BufInv
<1>8. w < BlkLen /\ w + l <= BlkLen /\ l >= 1 /\ l <= fill[b].rmn /\ f + fill[b].rmn - l <= MaxBytes
  BY <1>1, <1>2, <1>3, <1>4, <1>5, <1>6 DEF BufInv, Local, FillOK, Block
<1>9. BlkLen \in Nat /\ w \in 0 .. BlkLen /\ l \in 0 .. BlkLen /\ f \in Nat
  BY <1>3, <1>4, <1>5, <1>7, BufFacts, BlockFacts DEF BufInv, Thread
<1>10. /\ blk' = [blk EXCEPT ![k].widx = w + l] /\ fill' = [fill EXCEPT ![b].pc = "count"]
       /\ blks' = blks /\ aval' = aval /\ pool' = pool /\ heap' = heap
       /\ drain' = drain /\ drained' = drained /\ filled' = filled
  BY <1>3, <1>4, <1>6, <1>7 DEF FillPublish, BufInv, Typed
<1>11. PICK r : FillAs(b, r) /\ r.pc = "count" /\ r.rmn = fill[b].rmn /\ r.l = l
  <2> DEFINE s == fill[b]
             r == [s EXCEPT !.pc = "count"]
  <2>1. fill' = [fill EXCEPT ![b] = r]
    BY <1>10 DEF BufInv, Typed
  <2>2. s \in Thread(FillPCs) /\ s.l = l
    BY <1>4, BufFacts DEF BufInv
  <2>3. r = [s EXCEPT !.pc = "count"]
    OBVIOUS
  <2>4. "count" \in FillPCs
    BY DEF FillPCs
  <2> HIDE DEF r, s
  <2>5. r \in Thread(FillPCs) /\ r.pc = "count" /\ r.rmn = s.rmn /\ r.l = l
    BY <2>2, <2>3, <2>4, PutPc
  <2>6. FillAs(b, r)
    BY <2>1, <2>5, FillPut DEF BufInv
  <2>7. QED
    BY <2>5, <2>6 DEF s
<1>12. /\ blk' \in [Blocks -> [ridx : 0..BlkLen, widx : 0..BlkLen, head : [0..BlkLen - 1 -> Bytes]]]
       /\ blk'[k].ridx = blk[k].ridx /\ blk'[k].widx = w + l /\ blk'[k].head = blk[k].head
       /\ \A j \in Blocks \ {k} : blk'[j] = blk[j]
  <2>1. w + l \in 0 .. BlkLen
    BY <1>8, <1>9
  <2>2. QED
    BY <1>7, <1>10, <2>1, SetWidx DEF BufInv
<1>13. ASSUME NEW i \in 1 .. n
       PROVE  /\ Block(b, i)'.ridx = Block(b, i).ridx
              /\ Block(b, i)'.head = Block(b, i).head
              /\ i # n => Block(b, i)'.widx = Block(b, i).widx
  <2>1. blks[b][i] \in Blocks /\ (i # n => blks[b][i] # k)
    BY <1>1, <1>2, <1>7, InList, BufFacts DEF BufInv
  <2>2. QED
    BY <1>2, <1>10, <1>12, <2>1 DEF Block
<1>14. /\ UnderWay(b) = l /\ UnderWay(b)' = 0 /\ Taken(b)' = Taken(b)
       /\ Block(b, n).widx = w /\ Block(b, n)'.widx = w + l
  BY <1>2, <1>3, <1>4, <1>6, <1>10, <1>11, <1>12 DEF UnderWay, Taken, FillAs, Block
<1>15. Tip(b)' = Tip(b)
  <2>1. Tip(b) = f + 1 - (w + l) /\ Tip(b)' = f + 1 - (w + l + 0)
    BY <1>1, <1>5, <1>10, <1>14 DEF Tip
  <2>2. QED
    BY <1>9, <2>1
<1>16. \A i : Number(b, i)' = Number(b, i)
  BY <1>10, <1>15 DEF Number, Behind
<1>17. ASSUME NEW i \in 1 .. n PROVE Written(b, i)' = Written(b, i)
  <2>1. CASE i = n
    BY <1>1, <1>9, <1>10, <1>14, <2>1 DEF Written
  <2>2. CASE i # n
    BY <1>1, <1>10, <1>13, <2>2 DEF Written
  <2>3. QED
    BY <2>1, <2>2
<1>18. Content(b)'
  BY <1>1, <1>10, <1>13, <1>16, <1>17 DEF BufInv, Local, Content
<1>19. ASSUME NEW i \in 1 .. n
       PROVE  /\ Block(b, i)'.widx >= Block(b, i).widx /\ Block(b, i)'.widx <= BlkLen
              /\ Block(b, i).widx \in Nat /\ Block(b, i).ridx \in Nat
              /\ Block(b, i)'.widx \in Nat
  <2>1. /\ Block(b, i).widx \in Nat /\ Block(b, i).ridx \in Nat
        /\ Block(b, i).widx <= BlkLen
    BY <1>1, <1>9, Ints DEF BufInv
  <2>2. CASE i = n
    BY <1>8, <1>9, <1>14, <2>1, <2>2
  <2>3. CASE i # n
    BY <1>9, <1>13, <2>1, <2>3
  <2>4. QED
    BY <2>2, <2>3
<1>20. ListOK(b)'
  <2>1. ASSUME NEW i \in 1 .. n
        PROVE  /\ Block(b, i)'.ridx <= Block(b, i)'.widx
               /\ i < n => Block(b, i)'.widx = BlkLen
               /\ i > 1 => Block(b, i)'.ridx = 0
    <3>1. /\ Block(b, i).ridx <= Block(b, i).widx
          /\ i < n => Block(b, i).widx = BlkLen
          /\ i > 1 => Block(b, i).ridx = 0
      BY <1>1 DEF BufInv, Local, ListOK
    <3>2. Block(b, i)'.ridx <= Block(b, i)'.widx
      BY <1>13, <1>19, <3>1
    <3>3. QED
      BY <1>7, <1>13, <3>1, <3>2
  <2>2. QED
    BY <1>1, <1>10, <2>1 DEF ListOK
<1>21. 1 \in 1 .. n
  BY <1>7
<1>22. DrainedOK(b)'
  <2>1. Fore(b)' = Fore(b)
    BY <1>13, <1>14, <1>21 DEF Fore
  <2>2. QED
    BY <1>6, <1>10, <1>16, <2>1, ReadKept
<1>23. FillOK(b)'
  BY <1>5, <1>8, <1>10, <1>11 DEF FillOK, FillAs
<1>24. DrainOK(b)'
  <2>1. ~ (b \in RBufs /\ drain[b].pc # "idle")
    BY <1>6 DEF BufInv, Local, DrainOK
  <2>2. /\ Block(b, 1)'.ridx = Block(b, 1).ridx /\ Block(b, 1)'.widx >= Block(b, 1).widx
        /\ Block(b, 1)'.widx <= BlkLen /\ Block(b, 1).widx \in Nat /\ Block(b, 1).ridx \in Nat
        /\ Block(b, 1)'.widx \in Nat
    BY <1>13, <1>19, <1>21
  <2>3. drain[b].pc = "recycle" => Block(b, 1)'.widx = BlkLen
    BY <1>9, <2>2 DEF BufInv, Local, DrainOK
  <2>4. drain[b].pc = "take" => Block(b, 1)'.ridx < Block(b, 1)'.widx
    BY <1>9, <2>2 DEF BufInv, Local, DrainOK
  <2>5. drain[b].pc = "advance" => Block(b, 1)'.ridx + drain[b].l <= Block(b, 1)'.widx
    <3>1. drain[b].l \in Nat
      BY <1>9, BufFacts DEF BufInv, Thread
    <3>2. QED
      BY <1>9, <2>2, <3>1 DEF BufInv, Local, DrainOK
  <2>6. QED
    BY <1>10, <2>1, <2>3, <2>4, <2>5 DEF BufInv, Local, DrainOK, AtHead, HandPCs
<1>25. AvalOf(b)'
  <2>1. Uncounted(b)' = Uncounted(b) /\ Counted(b)' = Counted(b)
    BY <1>4, <1>6, <1>10, <1>11 DEF Uncounted, Counted, FillAs
  <2>2. QED
    BY <1>10, <2>1, AvalFrame DEF BufInv
<1>26. Local(b)'
  BY <1>18, <1>20, <1>22, <1>23, <1>24 DEF Local
<1>27. /\ fill' \in [Bufs -> Thread(FillPCs)] /\ drain' \in [Bufs -> Thread(DrainPCs)]
       /\ drained' \in [Bufs -> Seq(Bytes)] /\ filled' \in [Bufs -> 0..MaxBytes]
       /\ \A d \in Bufs \ {b} : fill'[d] = fill[d]
  BY <1>10, <1>11 DEF FillAs, BufInv, Typed
<1>28. QED
  BY <1>2, <1>7, <1>10, <1>12, <1>25, <1>26, <1>27, OneBlock

LEMMA ConcatIs ==
  ASSUME NEW S, NEW s \in Seq(S), NEW t \in Seq(S)
  PROVE  /\ s \o t \in Seq(S) /\ Len(s \o t) = Len(s) + Len(t)
         /\ \A i \in 1 .. Len(s) : (s \o t)[i] = s[i]
         /\ \A i \in 1 .. Len(t) : (s \o t)[Len(s) + i] = t[i]
  OBVIOUS

(* The bytes taken are the next ones.                                      *)
LEMMA TakeBytes ==
  ASSUME BufInv, NEW b \in Bufs, DrainTake(b), drain'[b].pc = "advance"
  PROVE  BufInv'
<1>1. PICK n : n = Len(blks[b])
  OBVIOUS
<1>2. PICK k : k = blks[b][1]
  OBVIOUS
<1>3. PICK ri : ri = blk[k].ridx
  OBVIOUS
<1>4. PICK w : w = blk[k].widx
  OBVIOUS
<1>5. PICK m : m = drain[b].rmn
  OBVIOUS
<1>6. PICK l : l = Least(w - ri, m)
  OBVIOUS
<1>7. PICK old : old = blk[k].head
  OBVIOUS
<1>8. PICK dn : dn = drained[b]
  OBVIOUS
<1>9. PICK new : new = [i \in 1 .. l |-> old[ri + i - 1]]
  OBVIOUS
<1>10. PICK rd : rd = Read(b)
  OBVIOUS
<1>11. PICK p : p = Len(dn)
  OBVIOUS
<1>12. drain[b].pc = "take" /\ blks[b] # <<>> /\ drain[b].bk = k
  BY <1>2 DEF DrainTake, Drain, BufInv, Local, DrainOK, AtHead
<1>13. 1 \in 1 .. Len(blks[b]) /\ n \in Nat \ {0} /\ k \in Blocks
  BY <1>1, <1>2, <1>12, BufFacts DEF BufInv
<1>14. ri < w
  BY <1>2, <1>3, <1>4, <1>12 DEF BufInv, Local, DrainOK, Block
<1>15. /\ BlkLen \in Nat /\ w \in 0 .. BlkLen /\ ri \in 0 .. BlkLen /\ m \in 0 .. MaxBytes
       /\ MaxBytes \in Nat /\ old \in [0 .. BlkLen - 1 -> Bytes] /\ dn \in Seq(Bytes) /\ p \in Nat
  BY <1>3, <1>4, <1>5, <1>7, <1>8, <1>11, <1>13, BufFacts, BlockFacts DEF BufInv, Thread
<1>16. /\ l > 0 /\ drained' = [drained EXCEPT ![b] = dn \o new]
       /\ drain' = [drain EXCEPT ![b].pc = "advance", ![b].l = l]
       /\ blks' = blks /\ aval' = aval /\ pool' = pool /\ heap' = heap
       /\ fill' = fill /\ filled' = filled /\ blk' = blk
  <2>1. drain' # [drain EXCEPT ![b] = Idle]
    <3>1. [drain EXCEPT ![b] = Idle][b].pc = "idle"
      BY IdleTyped DEF BufInv, Typed
    <3>2. QED
      BY <3>1
  <2>2. QED
    BY <1>3, <1>4, <1>5, <1>6, <1>7, <1>8, <1>9, <1>12, <2>1 DEF DrainTake
<1>17. l \in 1 .. BlkLen /\ l \in 1 .. m /\ ri + l <= w
  BY <1>6, <1>14, <1>15, <1>16 DEF Least
<1>18. PICK r : DrainAs(b, r) /\ r.pc = "advance" /\ r.rmn = m /\ r.bk = k /\ r.l = l
  <2> DEFINE s == drain[b]
             t == [s EXCEPT !.pc = "advance"]
             r == [t EXCEPT !.l = l]
  <2>1. drain' = [drain EXCEPT ![b] = r]
    BY <1>16 DEF BufInv, Typed
  <2>2. s \in Thread(DrainPCs) /\ s.rmn = m /\ s.bk = k
    BY <1>5, <1>12, BufFacts DEF BufInv
  <2>3. t = [s EXCEPT !.pc = "advance"]
    OBVIOUS
  <2>4. r = [t EXCEPT !.l = l]
    OBVIOUS
  <2>5. "advance" \in DrainPCs /\ l \in 0 .. BlkLen
    BY <1>15, <1>17 DEF DrainPCs
  <2> HIDE DEF s, t, r
  <2>6. t \in Thread(DrainPCs) /\ t.pc = "advance" /\ t.rmn = m /\ t.bk = k
    BY <2>2, <2>3, <2>5, PutPc
  <2>7. r \in Thread(DrainPCs) /\ r.pc = "advance" /\ r.rmn = m /\ r.bk = k /\ r.l = l
    BY <2>4, <2>5, <2>6, PutL
  <2>8. DrainAs(b, r)
    BY <2>1, <2>7, DrainPut DEF BufInv
  <2>9. QED
    BY <2>7, <2>8
<1>19. \A i : Block(b, i)' = Block(b, i)
  BY <1>16 DEF Block
<1>20. /\ UnderWay(b)' = UnderWay(b) /\ Taken(b) = 0 /\ Taken(b)' = l
  BY <1>12, <1>16, <1>18 DEF UnderWay, Taken, DrainAs
<1>21. \A i : Number(b, i)' = Number(b, i) /\ Written(b, i)' = Written(b, i)
  BY <1>16, <1>19, <1>20 DEF Number, Tip, Behind, Written
<1>22. /\ Block(b, 1).ridx = ri /\ Block(b, 1).widx = w /\ Block(b, 1).head = old
       /\ Number(b, 1) \in Int
  BY <1>2, <1>3, <1>4, <1>7, <1>13, Ints DEF Block, BufInv
<1>23. rd = Number(b, 1) + ri - 1 /\ rd \in Int
  <2>1. rd = Number(b, 1) + (ri + 0) - 1
    BY <1>10, <1>12, <1>20, <1>22 DEF Read, Fore
  <2>2. QED
    BY <1>15, <1>22, <2>1
<1>24. Read(b)' = rd + l
  <2>1. Read(b)' = Number(b, 1) + (ri + l) - 1
    BY <1>12, <1>16, <1>19, <1>20, <1>21, <1>22 DEF Read, Fore
  <2>2. QED
    BY <1>15, <1>17, <1>22, <1>23, <2>1
<1>25. new \in Seq(Bytes) /\ Len(new) = l /\ \A i \in 1 .. l : new[i] = <<b, rd + i>>
  <2>1. ASSUME NEW i \in 1 .. l
        PROVE  new[i] = old[ri + i - 1] /\ old[ri + i - 1] \in Bytes /\ old[ri + i - 1] = <<b, rd + i>>
    <3>1. ri + i - 1 \in 0 .. w - 1 /\ ri + i - 1 \in 0 .. BlkLen - 1
      BY <1>15, <1>17
    <3>2. Written(b, 1) \in Nat /\ Written(b, 1) >= w
      <4>1. UnderWay(b) \in Nat
        BY <1>15, Ints DEF BufInv
      <4>2. QED
        BY <1>13, <1>15, <1>22, <4>1, Ints DEF Written, BufInv
    <3>3. ri + i - 1 \in 0 .. Written(b, 1) - 1
      BY <1>15, <3>1, <3>2
    <3>4. old[ri + i - 1] = <<b, Number(b, 1) + (ri + i - 1)>>
      BY <1>13, <1>22, <3>3 DEF BufInv, Local, Content
    <3>5. Number(b, 1) + (ri + i - 1) = rd + i
      BY <1>15, <1>17, <1>22, <1>23
    <3>6. QED
      BY <1>9, <1>15, <3>1, <3>4, <3>5
  <2>2. l \in Nat
    BY <1>15, <1>17
  <2>3. new \in [1 .. l -> Bytes]
    BY <1>9, <2>1
  <2>4. new \in Seq(Bytes) /\ Len(new) = l
    BY <2>2, <2>3, SeqDef
  <2>5. QED
    BY <2>1, <2>4
<1>26. PICK dm : dm = dn \o new
  OBVIOUS
<1>27. /\ dm \in Seq(Bytes) /\ Len(dm) = p + l
       /\ \A i \in 1 .. p : dm[i] = dn[i]
       /\ \A i \in 1 .. l : dm[p + i] = <<b, rd + i>>
  <2>1. /\ dm \in Seq(Bytes) /\ Len(dm) = p + l
        /\ \A i \in 1 .. p : dm[i] = dn[i]
        /\ \A i \in 1 .. l : dm[p + i] = new[i]
    <3>1. dn \in Seq(Bytes) /\ new \in Seq(Bytes)
      BY <1>15, <1>25
    <3>2. /\ dm \in Seq(Bytes) /\ Len(dm) = Len(dn) + Len(new)
          /\ \A i \in 1 .. Len(dn) : dm[i] = dn[i]
          /\ \A i \in 1 .. Len(new) : dm[Len(dn) + i] = new[i]
      <4>1. /\ dn \o new \in Seq(Bytes) /\ Len(dn \o new) = Len(dn) + Len(new)
            /\ \A i \in 1 .. Len(dn) : (dn \o new)[i] = dn[i]
            /\ \A i \in 1 .. Len(new) : (dn \o new)[Len(dn) + i] = new[i]
        BY <3>1, ConcatIs
      <4>2. QED
        BY <1>26, <4>1, Zenon
    <3>3. QED
      BY <1>11, <1>25, <3>2
  <2>2. QED
    BY <1>25, <2>1
<1>28. \A j \in p + 1 .. p + l : dm[j] = <<b, rd + (j - p)>> /\ j - p \in 1 .. l
  <2> SUFFICES ASSUME NEW j \in p + 1 .. p + l
               PROVE  dm[j] = <<b, rd + (j - p)>> /\ j - p \in 1 .. l
    OBVIOUS
  <2>1. j - p \in 1 .. l /\ p + (j - p) = j
    BY <1>15, <1>17
  <2>2. QED
    BY <1>27, <2>1
<1>29. /\ drained'[b] = dm /\ drained' \in [Bufs -> Seq(Bytes)]
       /\ \A d \in Bufs \ {b} : drained'[d] = drained[d]
  BY <1>16, <1>26, <1>27 DEF BufInv, Typed
<1>30. /\ \A j \in 1 .. p : dn[j][1] = b /\ dn[j][2] <= rd
       /\ \A i, j \in 1 .. p : i < j => dn[i][2] < dn[j][2]
       /\ p <= rd
       /\ b \in RBufs => p = rd /\ \A j \in 1 .. p : dn[j] = <<b, j>>
  BY <1>8, <1>10, <1>11 DEF BufInv, Local, DrainedOK
<1>31. \A j \in 1 .. p : dn[j][2] \in Int
  <2>1. \A j \in 1 .. p : dn[j] \in Bytes
    BY <1>11, <1>15
  <2>2. \A x \in Bytes : x[2] \in Int
    BY <1>15 DEF Bytes, Junk
  <2>3. QED
    BY <2>1, <2>2
<1>32. DrainedOK(b)'
  <2>1. ASSUME NEW j \in 1 .. p + l PROVE j \in 1 .. p \/ j \in p + 1 .. p + l
    BY <1>15, <1>17
  <2>2. ASSUME NEW j \in 1 .. p + l PROVE dm[j][1] = b /\ dm[j][2] <= rd + l
    <3>1. CASE j \in 1 .. p
      <4>1. dm[j] = dn[j] /\ dn[j][1] = b /\ dn[j][2] <= rd /\ dn[j][2] \in Int
        BY <1>27, <1>30, <1>31, <3>1
      <4>2. QED
        BY <1>17, <1>15, <1>23, <4>1
    <3>2. CASE j \in p + 1 .. p + l
      <4>1. dm[j] = <<b, rd + (j - p)>> /\ j - p \in 1 .. l
        BY <1>28, <3>2
      <4>2. QED
        BY <1>15, <1>17, <1>23, <4>1
    <3>3. QED
      BY <2>1, <3>1, <3>2
  <2>3. ASSUME NEW i \in 1 .. p + l, NEW j \in 1 .. p + l, i < j PROVE dm[i][2] < dm[j][2]
    <3>1. CASE j \in 1 .. p
      <4>1. i \in 1 .. p
        BY <1>15, <2>3, <3>1
      <4>2. QED
        BY <1>27, <1>30, <2>3, <3>1, <4>1
    <3>2. CASE i \in 1 .. p /\ j \in p + 1 .. p + l
      <4>1. dm[j][2] = rd + (j - p) /\ j - p \in 1 .. l
        BY <1>28, <3>2
      <4>2. dm[i][2] \in Int /\ dm[i][2] <= rd
        BY <1>27, <1>30, <1>31, <3>2
      <4>3. QED
        BY <1>15, <1>17, <1>23, <4>1, <4>2
    <3>3. CASE i \in p + 1 .. p + l /\ j \in p + 1 .. p + l
      <4>1. dm[j][2] = rd + (j - p) /\ dm[i][2] = rd + (i - p)
        BY <1>28, <3>3
      <4>2. QED
        BY <1>15, <1>17, <1>23, <2>3, <3>3, <4>1
    <3>4. QED
      BY <1>15, <1>17, <2>1, <2>3, <3>1, <3>2, <3>3
  <2>4. p + l <= rd + l
    BY <1>15, <1>17, <1>23, <1>30
  <2>5. ASSUME b \in RBufs PROVE p + l = rd + l /\ \A j \in 1 .. p + l : dm[j] = <<b, j>>
    <3>1. p = rd
      BY <1>30, <2>5
    <3>2. ASSUME NEW j \in 1 .. p + l PROVE dm[j] = <<b, j>>
      <4>1. CASE j \in 1 .. p
        BY <1>27, <1>30, <2>5, <4>1
      <4>2. CASE j \in p + 1 .. p + l
        <5>1. dm[j] = <<b, rd + (j - p)>>
          BY <1>28, <4>2
        <5>2. rd + (j - p) = j
          BY <1>15, <1>17, <3>1
        <5>3. QED
          BY <5>1, <5>2
      <4>3. QED
        BY <2>1, <4>1, <4>2
    <3>3. QED
      BY <3>1, <3>2
  <2>6. QED
    BY <1>24, <1>27, <1>29, <2>2, <2>3, <2>4, <2>5 DEF DrainedOK
<1>33. FillOK(b)' /\ ListOK(b)' /\ Content(b)'
  BY <1>16, <1>19, <1>21 DEF BufInv, Local, FillOK, ListOK, Content
<1>34. DrainOK(b)'
  <2>1. drain'[b] = r /\ blks'[b] # <<>> /\ blks'[b][1] = k /\ Block(b, 1)'.ridx + l <= Block(b, 1)'.widx
    BY <1>2, <1>12, <1>16, <1>17, <1>18, <1>19, <1>22 DEF DrainAs
  <2>2. l >= 1 /\ l <= m /\ l <= Len(drained'[b])
    BY <1>15, <1>17, <1>27, <1>29
  <2>3. b \in RBufs => fill'[b].pc = "idle"
    BY <1>12, <1>16 DEF BufInv, Local, DrainOK
  <2>4. QED
    BY <1>18, <2>1, <2>2, <2>3 DEF DrainOK, HandPCs
<1>35. AvalOf(b)'
  <2>1. aval[b] = filled[b] - p - Uncounted(b) + Counted(b) /\ aval[b] \in Int
    BY <1>8, <1>11, AvalIsAll DEF BufInv, AvalOf, Typed
  <2>2. Counted(b) = 0 /\ Counted(b)' = l /\ Uncounted(b)' = Uncounted(b)
    BY <1>12, <1>16, <1>18 DEF Uncounted, Counted, DrainAs
  <2>3. Uncounted(b) \in Int /\ filled[b] \in Int
    BY BufFacts DEF Uncounted, Thread, BufInv
  <2>4. aval[b] = filled[b] - (p + l) - Uncounted(b) + l
    BY <1>15, <1>17, <2>1, <2>2, <2>3
  <2>5. AvalOf(b)' <=> aval'[b] = filled'[b] - Len(drained'[b]) - Uncounted(b)' + Counted(b)'
    BY DEF AvalOf
  <2>6. QED
    BY <1>15, <1>16, <1>17, <1>27, <1>29, <2>2, <2>3, <2>4, <2>5
<1>36. Local(b)'
  BY <1>32, <1>33, <1>34 DEF Local
<1>37. /\ fill' \in [Bufs -> Thread(FillPCs)] /\ drain' \in [Bufs -> Thread(DrainPCs)]
       /\ filled' \in [Bufs -> 0..MaxBytes] /\ \A d \in Bufs \ {b} : drain'[d] = drain[d]
       /\ blk' \in [Blocks -> [ridx : 0..BlkLen, widx : 0..BlkLen, head : [0..BlkLen - 1 -> Bytes]]]
  BY <1>16, <1>18 DEF DrainAs, BufInv, Typed
<1>38. {drain[b].pc, drain'[b].pc} \cap HandPCs = {}
  BY <1>12, <1>18 DEF DrainAs, HandPCs
<1>39. QED
  BY <1>2, <1>13, <1>16, <1>29, <1>35, <1>36, <1>37, <1>38, OneBlock

(* ridx moves past them.                                                   *)
LEMMA AdvanceBytes ==
  ASSUME BufInv, NEW b \in Bufs, DrainAdvance(b)
  PROVE  BufInv'
<1>1. PICK n : n = Len(blks[b])
  OBVIOUS
<1>2. PICK k : k = blks[b][1]
  OBVIOUS
<1>3. PICK ri : ri = blk[k].ridx
  OBVIOUS
<1>4. PICK l : l = drain[b].l
  OBVIOUS
<1>5. drain[b].pc = "advance" /\ blks[b] # <<>> /\ drain[b].bk = k
  BY <1>2 DEF DrainAdvance, Drain, BufInv, Local, DrainOK, AtHead
<1>6. 1 \in 1 .. Len(blks[b]) /\ n \in Nat \ {0} /\ k \in Blocks
  BY <1>1, <1>2, <1>5, BufFacts DEF BufInv
<1>7. BlkLen \in Nat /\ ri \in 0 .. BlkLen /\ l \in 0 .. BlkLen /\ blk[k].widx \in 0 .. BlkLen
  BY <1>3, <1>4, <1>6, BufFacts, BlockFacts DEF BufInv, Thread
<1>8. ri + l <= blk[k].widx /\ l >= 1 /\ l <= drain[b].rmn /\ l <= Len(drained[b])
  BY <1>2, <1>3, <1>4, <1>5 DEF BufInv, Local, DrainOK, Block
<1>9. /\ blk' = [blk EXCEPT ![k].ridx = ri + l] /\ DrainTo(b, "count")
      /\ blks' = blks /\ aval' = aval /\ pool' = pool /\ heap' = heap
      /\ fill' = fill /\ drained' = drained /\ filled' = filled
  BY <1>3, <1>4, <1>5, <1>6 DEF DrainAdvance, BufInv, Typed
<1>10. PICK r : DrainAs(b, r) /\ r.pc = "count" /\ r.rmn = drain[b].rmn /\ r.l = l
  <2>1. "count" \in DrainPCs
    BY DEF DrainPCs
  <2>2. QED
    BY <1>4, <1>9, <2>1, DrainMoves DEF BufInv
<1>11. /\ blk' \in [Blocks -> [ridx : 0..BlkLen, widx : 0..BlkLen, head : [0..BlkLen - 1 -> Bytes]]]
       /\ blk'[k].ridx = ri + l /\ blk'[k].widx = blk[k].widx /\ blk'[k].head = blk[k].head
       /\ \A j \in Blocks \ {k} : blk'[j] = blk[j]
  <2>1. ri + l \in 0 .. BlkLen
    BY <1>7, <1>8
  <2>2. QED
    BY <1>6, <1>9, <2>1, SetRidx DEF BufInv
<1>12. ASSUME NEW i \in 1 .. n
       PROVE  /\ Block(b, i)'.widx = Block(b, i).widx
              /\ Block(b, i)'.head = Block(b, i).head
              /\ i # 1 => Block(b, i)' = Block(b, i)
  <2>1. blks[b][i] \in Blocks /\ (i # 1 => blks[b][i] # k)
    BY <1>1, <1>2, <1>6, InList, BufFacts DEF BufInv
  <2>2. QED
    BY <1>2, <1>9, <1>11, <2>1 DEF Block
<1>13. /\ UnderWay(b)' = UnderWay(b) /\ Taken(b) = l /\ Taken(b)' = 0
       /\ Block(b, 1).ridx = ri /\ Block(b, 1)'.ridx = ri + l
  BY <1>2, <1>3, <1>4, <1>5, <1>9, <1>10, <1>11 DEF UnderWay, Taken, DrainAs, Block
<1>14. Tip(b)' = Tip(b)
  <2>1. Block(b, Len(blks[b]))'.widx = Block(b, Len(blks[b])).widx
    BY <1>1, <1>6, <1>9, <1>12
  <2>2. QED
    BY <1>9, <1>13, <2>1 DEF Tip
<1>15. \A i : Number(b, i)' = Number(b, i)
  BY <1>9, <1>14 DEF Number, Behind
<1>16. \A i \in 1 .. n : Written(b, i)' = Written(b, i)
  BY <1>9, <1>12, <1>13 DEF Written
<1>17. Content(b)'
  BY <1>1, <1>9, <1>12, <1>15, <1>16 DEF BufInv, Local, Content
<1>18. 1 \in 1 .. n /\ Block(b, 1).widx = blk[k].widx
  BY <1>2, <1>6 DEF Block
<1>19. ListOK(b)'
  <2>1. ASSUME NEW i \in 1 .. n
        PROVE  /\ Block(b, i)'.ridx <= Block(b, i)'.widx
               /\ i < n => Block(b, i)'.widx = BlkLen
               /\ i > 1 => Block(b, i)'.ridx = 0
    <3>1. /\ Block(b, i).ridx <= Block(b, i).widx
          /\ i < n => Block(b, i).widx = BlkLen
          /\ i > 1 => Block(b, i).ridx = 0
      BY <1>1 DEF BufInv, Local, ListOK
    <3>2. CASE i = 1
      BY <1>8, <1>12, <1>13, <1>18, <3>1, <3>2
    <3>3. CASE i # 1
      BY <1>12, <3>1, <3>3
    <3>4. QED
      BY <3>2, <3>3
  <2>2. QED
    BY <1>1, <1>9, <2>1 DEF ListOK
<1>20. DrainedOK(b)'
  <2>1. Fore(b) = ri + l /\ Fore(b)' = ri + l + 0
    BY <1>13 DEF Fore
  <2>2. Fore(b)' = Fore(b)
    BY <1>7, <2>1
  <2>3. QED
    BY <1>5, <1>9, <1>15, <2>2, ReadKept
<1>21. FillOK(b)'
  <2>1. Block(b, Len(blks[b]))'.widx = Block(b, Len(blks[b])).widx
    BY <1>1, <1>6, <1>9, <1>12
  <2>2. QED
    BY <1>9, <2>1 DEF BufInv, Local, FillOK
<1>22. DrainOK(b)'
  <2>1. b \in RBufs => fill'[b].pc = "idle"
    BY <1>5, <1>9 DEF BufInv, Local, DrainOK
  <2>2. QED
    BY <1>8, <1>9, <1>10, <2>1 DEF DrainOK, DrainAs, AtHead, HandPCs
<1>23. AvalOf(b)'
  <2>1. Uncounted(b)' = Uncounted(b) /\ Counted(b)' = Counted(b)
    BY <1>4, <1>5, <1>9, <1>10 DEF Uncounted, Counted, DrainAs
  <2>2. QED
    BY <1>9, <2>1, AvalFrame DEF BufInv
<1>24. Local(b)'
  BY <1>17, <1>19, <1>20, <1>21, <1>22 DEF Local
<1>25. /\ fill' \in [Bufs -> Thread(FillPCs)] /\ drain' \in [Bufs -> Thread(DrainPCs)]
       /\ drained' \in [Bufs -> Seq(Bytes)] /\ filled' \in [Bufs -> 0..MaxBytes]
       /\ \A d \in Bufs \ {b} : drain'[d] = drain[d]
  BY <1>9, <1>10 DEF DrainAs, BufInv, Typed
<1>26. {drain[b].pc, drain'[b].pc} \cap HandPCs = {}
  BY <1>5, <1>10 DEF DrainAs, HandPCs
<1>27. QED
  BY <1>2, <1>6, <1>9, <1>11, <1>23, <1>24, <1>25, <1>26, OneBlock

(* (m + 1) places are one block more than m.                               *)
LEMMA OnePlace ==
  ASSUME NEW m \in Int, NEW c \in Int
  PROVE  m * c \in Int /\ (m + 1) * c = m * c + c
  OBVIOUS

LEMMA EmptyIs ==
  ASSUME NEW S, NEW s \in Seq(S)
  PROVE  s = <<>> <=> Len(s) = 0
  OBVIOUS

LEMMA TailIs ==
  ASSUME NEW S, NEW s \in Seq(S), s # <<>>
  PROVE  /\ Tail(s) \in Seq(S) /\ Len(Tail(s)) = Len(s) - 1
         /\ \A i \in 1 .. Len(s) - 1 : Tail(s)[i] = s[i + 1]
         /\ Head(s) = s[1] /\ Head(s) \in S /\ Len(s) \in Nat \ {0}
         /\ Tail(s) = <<>> <=> Len(s) = 1
<1>1. Len(s) \in Nat \ {0} /\ Tail(s) \in Seq(S) /\ Len(Tail(s)) = Len(s) - 1
  OBVIOUS
<1>2. Tail(s) = <<>> <=> Len(Tail(s)) = 0
  BY <1>1, EmptyIs
<1>3. Tail(s) = <<>> <=> Len(s) = 1
  BY <1>1, <1>2
<1>4. \A i \in 1 .. Len(s) - 1 : Tail(s)[i] = s[i + 1]
  OBVIOUS
<1>5. Head(s) = s[1] /\ Head(s) \in S
  BY <1>1
<1>6. QED
  BY <1>1, <1>3, <1>4, <1>5

(* The first block of b, written and read, leaves the list.                *)
LEMMA RecycleLocal ==
  ASSUME BufInv, NEW b \in Bufs, Recycle(b)
  PROVE  Local(b)'
<1>1. PICK n : n = Len(blks[b])
  OBVIOUS
<1>2. PICK k : k = blks[b][1]
  OBVIOUS
<1>3. PICK q : q = Tail(blks[b])
  OBVIOUS
<1>4. drain[b].pc = "recycle" /\ blks[b] # <<>> /\ drain[b].bk = k
  BY <1>2 DEF Recycle, Drain, BufInv, Local, DrainOK, AtHead
<1>5. 1 \in 1 .. Len(blks[b]) /\ n \in Nat \ {0} /\ k \in Blocks /\ BlkLen \in Nat \ {0}
  BY <1>1, <1>2, <1>4, BufFacts DEF BufInv
<1>6. /\ blk' = [blk EXCEPT ![k].ridx = 0, ![k].widx = 0] /\ DrainTo(b, "check")
      /\ blks'[b] = q /\ aval' = aval /\ pool' = pool /\ heap' = heap
      /\ fill' = fill /\ drained' = drained /\ filled' = filled
  BY <1>3, <1>4 DEF Recycle, BufInv, Typed
<1>7. PICK r : DrainAs(b, r) /\ r.pc = "check" /\ r.bk = k
  <2>1. "check" \in DrainPCs
    BY DEF DrainPCs, MutexPCs
  <2>2. QED
    BY <1>4, <1>6, <2>1, DrainMoves DEF BufInv
<1>8. \A j \in Blocks \ {k} : blk'[j] = blk[j]
  BY <1>5, <1>6, ResetBlk DEF BufInv
<1>9. /\ Len(q) = n - 1 /\ (\A i \in 1 .. n - 1 : q[i] = blks[b][i + 1]) /\ (q = <<>> <=> n = 1)
  BY <1>1, <1>3, <1>4, TailIs, BufFacts DEF BufInv
<1>10. ASSUME NEW i \in 1 .. n - 1
       PROVE  Block(b, i)' = Block(b, i + 1) /\ i + 1 \in 1 .. n /\ i + 1 # 1
  <2>1. i + 1 \in 1 .. n /\ i + 1 # 1
    BY <1>5
  <2>2. blks[b][i + 1] \in Blocks \ {k}
    BY <1>1, <1>2, <1>5, <2>1, InList, BufFacts DEF BufInv
  <2>3. QED
    BY <1>6, <1>8, <1>9, <2>1, <2>2 DEF Block
<1>11. UnderWay(b)' = UnderWay(b) /\ Taken(b) = 0 /\ Taken(b)' = 0
  BY <1>4, <1>6, <1>7 DEF UnderWay, Taken, DrainAs
<1>12. Block(b, 1).widx = BlkLen
  BY <1>4 DEF BufInv, Local, DrainOK
<1>13. ASSUME n # 1 PROVE Tip(b)' = Tip(b)
  <2>1. n - 1 \in 1 .. n - 1 /\ n - 1 + 1 = n
    BY <1>5, <1>13
  <2>2. Block(b, n - 1)' = Block(b, n)
    BY <1>10, <2>1
  <2>3. QED
    BY <1>1, <1>6, <1>9, <1>11, <2>2 DEF Tip
<1>14. ASSUME NEW i \in 1 .. n - 1 PROVE Number(b, i)' = Number(b, i + 1)
  <2>1. Behind(b, i)' = (n - 1 - i) * BlkLen /\ Behind(b, i + 1) = (n - (i + 1)) * BlkLen
    BY <1>1, <1>6, <1>9 DEF Behind
  <2>2. n - 1 - i = n - (i + 1) /\ n # 1
    BY <1>5
  <2>3. QED
    BY <1>13, <2>1, <2>2 DEF Number
<1>15. ASSUME NEW i \in 1 .. n - 1 PROVE Written(b, i)' = Written(b, i + 1)
  <2>1. (i = n - 1) <=> (i + 1 = n)
    BY <1>5
  <2>2. QED
    BY <1>1, <1>6, <1>9, <1>10, <1>11, <2>1 DEF Written
<1>16. Content(b)'
  <2>1. ASSUME NEW i \in 1 .. n - 1, NEW x, x \in 0 .. Written(b, i)' - 1
        PROVE  Block(b, i)'.head[x] = <<b, Number(b, i)' + x>>
    BY <1>1, <1>10, <1>14, <1>15, <2>1 DEF BufInv, Local, Content
  <2>2. QED
    BY <1>6, <1>9, <2>1 DEF Content
<1>17. ListOK(b)'
  <2>1. ASSUME NEW i \in 1 .. n - 1
        PROVE  /\ Block(b, i)'.ridx <= Block(b, i)'.widx
               /\ i < n - 1 => Block(b, i)'.widx = BlkLen
               /\ i > 1 => Block(b, i)'.ridx = 0
    <3>1. i + 1 \in 1 .. n /\ i + 1 > 1 /\ (i < n - 1 => i + 1 < n)
      BY <1>5
    <3>2. /\ Block(b, i + 1).ridx <= Block(b, i + 1).widx
          /\ i + 1 < n => Block(b, i + 1).widx = BlkLen
          /\ i + 1 > 1 => Block(b, i + 1).ridx = 0
      BY <1>1, <3>1 DEF BufInv, Local, ListOK
    <3>3. QED
      BY <1>10, <3>1, <3>2
  <2>2. QED
    BY <1>6, <1>9, <2>1 DEF ListOK
<1>18. Read(b)' >= Read(b) /\ Read(b)' \in Int /\ Read(b) \in Int /\ (b \in RBufs => Read(b)' = Read(b))
  <2>1. PICK ri : ri = Block(b, 1).ridx
    OBVIOUS
  <2>2. PICK num : num = Number(b, 1)
    OBVIOUS
  <2>3. ri \in 0 .. BlkLen /\ num \in Int /\ filled[b] \in Int
    BY <1>5, <2>1, <2>2, Ints, BufFacts DEF BufInv
  <2>4. Read(b) = num + ri - 1 /\ Read(b) \in Int
    <3>1. Read(b) = num + (ri + 0) - 1
      BY <1>4, <1>11, <2>1, <2>2 DEF Read, Fore
    <3>2. QED
      BY <1>5, <2>3, <3>1
  <2>5. b \in RBufs => ri = BlkLen /\ UnderWay(b) = 0
    BY <1>4, <1>12, <2>1 DEF BufInv, Local, DrainOK, UnderWay
  <2>6. CASE n = 1
    <3>1. Read(b)' = filled[b]
      BY <1>6, <1>9, <2>6 DEF Read
    <3>2. num = filled[b] + 1 - (BlkLen + UnderWay(b))
      <4>1. Behind(b, 1) = 0
        BY <1>1, <1>5, <2>6 DEF Behind
      <4>2. Len(blks[b]) = 1
        BY <1>1, <2>6
      <4>3. Tip(b) = filled[b] + 1 - (BlkLen + UnderWay(b))
        BY <1>12, <4>2 DEF Tip
      <4>4. Tip(b) \in Int
        BY <1>4, Ints DEF BufInv
      <4>5. num = Tip(b) - 0
        BY <2>2, <4>1 DEF Number
      <4>6. QED
        BY <4>3, <4>4, <4>5
    <3>3. UnderWay(b) \in Nat
      BY <1>5, Ints DEF BufInv
    <3>4. QED
      BY <1>5, <2>3, <2>4, <2>5, <3>1, <3>2, <3>3
  <2>7. CASE n # 1
    <3>1. 1 \in 1 .. n - 1 /\ 1 + 1 = 2 /\ 2 \in 1 .. n /\ 2 > 1
      BY <1>5, <2>7
    <3>2. Number(b, 1)' = Number(b, 2) /\ Block(b, 1)' = Block(b, 2)
      BY <1>10, <1>14, <3>1
    <3>3. Block(b, 2).ridx = 0
      BY <1>1, <3>1 DEF BufInv, Local, ListOK
    <3>4. Number(b, 2) = num + BlkLen
      <4>1. Tip(b) \in Int
        BY <1>4, Ints DEF BufInv
      <4>2. PICK v : v = (n - 2) * BlkLen
        OBVIOUS
      <4>3. n - 2 + 1 = n - 1 /\ n - 2 \in Int
        BY <1>5
      <4>4. (n - 1) * BlkLen = v + BlkLen /\ v \in Int
        BY <1>5, <4>2, <4>3, OnePlace
      <4>5. num = Tip(b) - (v + BlkLen) /\ Number(b, 2) = Tip(b) - v
        BY <1>1, <2>2, <4>2, <4>4 DEF Number, Behind
      <4>6. QED
        BY <1>5, <4>1, <4>4, <4>5
    <3>5. Read(b)' = Number(b, 2) + (0 + 0) - 1
      BY <1>6, <1>9, <1>11, <2>7, <3>2, <3>3 DEF Read, Fore
    <3>6. QED
      BY <1>5, <2>3, <2>4, <2>5, <3>4, <3>5
  <2>8. QED
    BY <2>6, <2>7
<1>19. DrainedOK(b)'
  <2>1. \A j \in 1 .. Len(drained[b]) : drained[b][j][2] \in Int
    <3>1. \A j \in 1 .. Len(drained[b]) : drained[b][j] \in Bytes
      BY BufFacts DEF BufInv
    <3>2. \A x \in Bytes : x[2] \in Int
      BY BufFacts DEF Bytes, Junk, BufInv
    <3>3. QED
      BY <3>1, <3>2
  <2>2. \A j \in 1 .. Len(drained[b]) : drained[b][j][1] = b /\ drained[b][j][2] <= Read(b)'
    BY <1>18, <2>1 DEF BufInv, Local, DrainedOK
  <2>3. Len(drained[b]) <= Read(b)'
    BY <1>18, BufFacts DEF BufInv, Local, DrainedOK
  <2>4. QED
    BY <1>6, <1>18, <2>2, <2>3 DEF BufInv, Local, DrainedOK
<1>20. FillOK(b)'
  <2>1. fill[b].pc \in {"copy", "publish"} => n # 1
    BY <1>1, <1>5, <1>12 DEF BufInv, Local, FillOK
  <2>2. ASSUME n # 1 PROVE q # <<>> /\ Block(b, Len(q))' = Block(b, n) /\ q[Len(q)] = blks[b][n]
    <3>1. n - 1 \in 1 .. n - 1 /\ n - 1 + 1 = n
      BY <1>5, <2>2
    <3>2. QED
      BY <1>9, <1>10, <2>2, <3>1
  <2>3. QED
    BY <1>1, <1>6, <2>1, <2>2 DEF BufInv, Local, FillOK
<1>21. DrainOK(b)'
  <2>1. b \in RBufs => fill'[b].pc = "idle"
    BY <1>4, <1>6 DEF BufInv, Local, DrainOK
  <2>2. QED
    BY <1>5, <1>7, <2>1, DrainAway DEF AtHead
<1>22. QED
  BY <1>16, <1>17, <1>19, <1>20, <1>21 DEF Local

(* What a step of b on the block k comes to.                               *)
LEMMA Assemble ==
  ASSUME BufInv, NEW b \in Bufs, NEW k \in Blocks, \A j \in Blocks \ {k} : blk'[j] = blk[j],
         \A d \in Bufs \ {b} :
            /\ ~ In(d, k) /\ blks'[d] = blks[d] /\ fill'[d] = fill[d] /\ drain'[d] = drain[d]
            /\ filled'[d] = filled[d] /\ drained'[d] = drained[d] /\ aval'[d] = aval[d],
         Typed', Housed', AvalOf(b)', Local(b)'
  PROVE  BufInv'
<1>1. \A d \in Bufs : Local(d)'
  BY OthersLocal
<1>2. ASSUME NEW d \in Bufs \ {b} PROVE AvalOf(d)'
  <2>1. Uncounted(d)' = Uncounted(d) /\ Counted(d)' = Counted(d)
    BY DEF Uncounted, Counted
  <2>2. QED
    BY <2>1, AvalFrame DEF BufInv
<1>3. \A d \in Bufs : AvalOf(d)'
  BY <1>2
<1>4. AvalCounts'
  BY <1>3 DEF AvalCounts, AvalOf, Uncounted, Counted
<1>5. QED
  BY <1>1, <1>4 DEF BufInv

LEMMA RecycleBlock ==
  ASSUME BufInv, NEW b \in Bufs, Recycle(b)
  PROVE  BufInv'
<1>1. PICK n : n = Len(blks[b])
  OBVIOUS
<1>2. PICK k : k = blks[b][1]
  OBVIOUS
<1>3. PICK q : q = Tail(blks[b])
  OBVIOUS
<1>4. drain[b].pc = "recycle" /\ blks[b] # <<>> /\ drain[b].bk = k
  BY <1>2 DEF Recycle, Drain, BufInv, Local, DrainOK, AtHead
<1>5. 1 \in 1 .. Len(blks[b]) /\ n \in Nat \ {0} /\ k \in Blocks /\ blks[b] \in Seq(Blocks)
  BY <1>1, <1>2, <1>4, BufFacts DEF BufInv
<1>6. q \in Seq(Blocks) /\ Len(q) = n - 1 /\ DOMAIN q = 1 .. n - 1 /\ \A i \in 1 .. n - 1 : q[i] = blks[b][i + 1]
  BY <1>1, <1>3, <1>4, <1>5, TailIs
<1>7. /\ blk' = [blk EXCEPT ![k].ridx = 0, ![k].widx = 0] /\ DrainTo(b, "check")
      /\ aval' = aval /\ pool' = pool /\ heap' = heap
      /\ fill' = fill /\ drained' = drained /\ filled' = filled
  BY <1>4 DEF Recycle
<1>8. blks' \in [Bufs -> Seq(Blocks)] /\ blks'[b] = q /\ \A d \in Bufs \ {b} : blks'[d] = blks[d]
  BY <1>3, <1>6 DEF Recycle, BufInv, Typed
<1>9. PICK r : DrainAs(b, r) /\ r.pc = "check" /\ r.bk = k
  <2>1. "check" \in DrainPCs
    BY DEF DrainPCs, MutexPCs
  <2>2. QED
    BY <1>4, <1>7, <2>1, DrainMoves DEF BufInv
<1>10. /\ blk' \in [Blocks -> [ridx : 0..BlkLen, widx : 0..BlkLen, head : [0..BlkLen - 1 -> Bytes]]]
       /\ Blank(k)' /\ \A j \in Blocks \ {k} : blk'[j] = blk[j]
  <2>1. /\ blk' \in [Blocks -> [ridx : 0..BlkLen, widx : 0..BlkLen, head : [0..BlkLen - 1 -> Bytes]]]
        /\ blk'[k].ridx = 0 /\ blk'[k].widx = 0 /\ \A j \in Blocks \ {k} : blk'[j] = blk[j]
    BY <1>5, <1>7, ResetBlk DEF BufInv
  <2>2. QED
    BY <2>1 DEF Blank
<1>11. /\ In(b, k) /\ ~ InPool(k) /\ k \notin heap
       /\ (\A d \in Bufs : ~ InHand(d, k)) /\ (\A d \in Bufs \ {b} : ~ In(d, k))
       /\ \A i \in 1 .. n : blks[b][i] = k => i = 1
  BY <1>1, <1>2, <1>5, InList
<1>12. \A j \in Blocks : In(b, j)' <=> In(b, j) /\ j # k
  <2> SUFFICES ASSUME NEW j \in Blocks PROVE In(b, j)' <=> In(b, j) /\ j # k
    OBVIOUS
  <2>1. ASSUME In(b, j)' PROVE In(b, j) /\ j # k
    <3>1. PICK i \in 1 .. n - 1 : q[i] = j
      BY <1>6, <1>8, <2>1 DEF In
    <3>2. i + 1 \in 1 .. n /\ i + 1 # 1 /\ blks[b][i + 1] = j
      BY <1>5, <1>6, <3>1
    <3>3. i + 1 \in DOMAIN blks[b]
      BY <1>1, <1>5, <3>2
    <3>4. QED
      BY <1>11, <3>2, <3>3 DEF In
  <2>2. ASSUME In(b, j), j # k PROVE In(b, j)'
    <3>1. PICK i \in 1 .. n : blks[b][i] = j
      BY <1>1, <1>5, <2>2 DEF In
    <3>2. i # 1
      BY <1>2, <2>2, <3>1
    <3>3. i - 1 \in 1 .. n - 1 /\ i - 1 + 1 = i
      BY <1>5, <3>1, <3>2
    <3>4. q[i - 1] = j
      BY <1>6, <3>1, <3>3
    <3>5. QED
      BY <1>6, <1>8, <3>3, <3>4 DEF In
  <2>3. QED
    BY <2>1, <2>2
<1>13. \A d \in Bufs \ {b}, j \in Blocks : (In(d, j)' <=> In(d, j)) /\ (InHand(d, j)' <=> InHand(d, j))
  BY <1>8, <1>9 DEF In, InHand, DrainAs
<1>14. \A j \in Blocks : (InHand(b, j)' <=> j = k) /\ ~ InHand(b, j)
  BY <1>4, <1>9 DEF InHand, DrainAs
<1>15. \A j \in Blocks : (InPool(j)' <=> InPool(j)) /\ (j # k => (Blank(j)' <=> Blank(j)))
  BY <1>7, <1>10 DEF InPool, Blank
<1>16. Housed'
  <2>1. ASSUME NEW j \in Blocks, NEW d \in Bufs, NEW e \in Bufs
        PROVE  /\ j \in heap' => ~ InPool(j)'
               /\ In(d, j)' => j \notin heap' /\ ~ InPool(j)'
               /\ InHand(d, j)' => j \notin heap' /\ ~ InPool(j)' /\ Blank(j)'
               /\ ~ (In(d, j)' /\ InHand(e, j)')
               /\ In(d, j)' /\ In(e, j)' => d = e
               /\ InHand(d, j)' /\ InHand(e, j)' => d = e
               /\ InPool(j)' => Blank(j)'
    BY <1>7, <1>10, <1>11, <1>12, <1>13, <1>14, <1>15 DEF BufInv, Housed
  <2>2. ASSUME NEW j \in Blocks
        PROVE  j \in heap' \/ InPool(j)' \/ \E d \in Bufs : In(d, j)' \/ InHand(d, j)'
    <3>1. CASE j = k
      BY <1>14, <3>1
    <3>2. CASE j # k
      <4>1. j \in heap \/ InPool(j) \/ \E d \in Bufs : In(d, j) \/ InHand(d, j)
        BY DEF BufInv, Housed
      <4>2. \A d \in Bufs : (In(d, j) => In(d, j)') /\ (InHand(d, j) => InHand(d, j)')
        BY <1>12, <1>13, <1>14, <3>2
      <4>3. QED
        BY <1>7, <1>15, <4>1, <4>2
    <3>3. QED
      BY <3>1, <3>2
  <2>3. \A i, j \in DOMAIN pool' : pool'[i] = pool'[j] => i = j
    BY <1>7 DEF BufInv, Housed
  <2>4. ASSUME NEW d \in Bufs PROVE \A i, j \in DOMAIN blks'[d] : blks'[d][i] = blks'[d][j] => i = j
    <3>1. CASE d # b
      BY <1>8, <3>1 DEF BufInv, Housed
    <3>2. ASSUME NEW i \in 1 .. n - 1, NEW j \in 1 .. n - 1, q[i] = q[j] PROVE i = j
      <4>1. i + 1 \in DOMAIN blks[b] /\ j + 1 \in DOMAIN blks[b]
        BY <1>1, <1>5
      <4>2. blks[b][i + 1] = blks[b][j + 1]
        BY <1>6, <3>2
      <4>3. i + 1 = j + 1
        BY <4>1, <4>2 DEF BufInv, Housed
      <4>4. QED
        BY <1>5, <4>3
    <3>3. QED
      BY <1>6, <1>8, <3>1, <3>2
  <2>5. Len(pool') <= PoolThreshold
    BY <1>7 DEF BufInv, Housed
  <2>6. QED
    BY <2>1, <2>2, <2>3, <2>4, <2>5 DEF Housed
<1>17. Typed'
  BY <1>7, <1>8, <1>9, <1>10 DEF BufInv, Typed, DrainAs
<1>18. AvalOf(b)'
  <2>1. Uncounted(b)' = Uncounted(b) /\ Counted(b)' = Counted(b)
    BY <1>4, <1>7, <1>9 DEF Uncounted, Counted, DrainAs
  <2>2. QED
    BY <1>7, <2>1, AvalFrame DEF BufInv
<1>19. Local(b)'
  BY RecycleLocal
<1>20. QED
  BY <1>5, <1>7, <1>8, <1>9, <1>10, <1>11, <1>16, <1>17, <1>18, <1>19, Assemble DEF DrainAs

(* A block for the buffer, of the pool or of the heap.                     *)
FromPool(k) == pool # <<>> /\ k = Head(pool) /\ pool' = Tail(pool) /\ heap' = heap /\ blk' = blk
FromHeap(k) ==
    /\ pool' = pool /\ k \in heap /\ heap' = heap \ {k}
    /\ blk' = [blk EXCEPT ![k].ridx = 0, ![k].widx = 0]

LEMMA NewIs ==
  ASSUME BufInv, NEW k \in Blocks, FromPool(k) \/ FromHeap(k)
  PROVE  /\ blk' \in [Blocks -> [ridx : 0..BlkLen, widx : 0..BlkLen, head : [0..BlkLen - 1 -> Bytes]]]
         /\ Blank(k)' /\ \A j \in Blocks \ {k} : blk'[j] = blk[j]
         /\ \A d \in Bufs : ~ In(d, k) /\ ~ InHand(d, k)
         /\ \A j \in Blocks : InPool(j)' <=> InPool(j) /\ j # k
         /\ \A j \in Blocks : j \in heap' <=> j \in heap /\ j # k
         /\ pool' \in Seq(Blocks) /\ heap' \subseteq Blocks /\ Len(pool') <= PoolThreshold
         /\ \A i, j \in DOMAIN pool' : pool'[i] = pool'[j] => i = j
<1>1. pool \in Seq(Blocks) /\ heap \subseteq Blocks /\ Len(pool) <= PoolThreshold /\ PoolThreshold \in Nat
  BY BufAssumption DEF BufInv, Typed, Housed
<1>2. CASE FromPool(k)
  <2>1. PICK n : n = Len(pool)
    OBVIOUS
  <2>2. PICK q : q = Tail(pool)
    OBVIOUS
  <2>3. heap' = heap /\ blk' = blk /\ pool' = q /\ pool # <<>> /\ k = Head(pool)
    BY <1>2, <2>2 DEF FromPool
  <2>4. /\ n \in Nat \ {0} /\ k = pool[1] /\ q \in Seq(Blocks) /\ Len(q) = n - 1
        /\ \A i \in 1 .. n - 1 : q[i] = pool[i + 1]
    BY <1>1, <2>1, <2>2, <2>3, TailIs
  <2>5. DOMAIN q = 1 .. n - 1 /\ DOMAIN pool = 1 .. n /\ 1 \in 1 .. n
    BY <1>1, <2>1, <2>4
  <2>6. \A i, j \in 1 .. n : pool[i] = pool[j] => i = j
    BY <2>5 DEF BufInv, Housed
  <2>7. InPool(k)
    BY <2>4, <2>5 DEF InPool
  <2>8. k \notin heap /\ Blank(k) /\ \A d \in Bufs : ~ In(d, k) /\ ~ InHand(d, k)
    BY <2>7 DEF BufInv, Housed
  <2>9. ASSUME NEW i \in 1 .. n - 1, NEW j \in 1 .. n - 1, q[i] = q[j] PROVE i = j
    <3>1. i + 1 \in 1 .. n /\ j + 1 \in 1 .. n
      BY <2>4
    <3>2. i + 1 = j + 1
      BY <2>4, <2>6, <2>9, <3>1
    <3>3. QED
      BY <2>4, <3>2
  <2>10. ASSUME NEW j \in Blocks PROVE InPool(j)' <=> InPool(j) /\ j # k
    <3>1. ASSUME InPool(j)' PROVE InPool(j) /\ j # k
      <4>1. PICK i \in 1 .. n - 1 : q[i] = j
        BY <2>3, <2>5, <3>1 DEF InPool
      <4>2. i + 1 \in 1 .. n /\ i + 1 # 1 /\ pool[i + 1] = j
        BY <2>4, <4>1
      <4>3. j # k
        BY <2>4, <2>5, <2>6, <4>2
      <4>4. QED
        BY <2>5, <4>2, <4>3 DEF InPool
    <3>2. ASSUME InPool(j), j # k PROVE InPool(j)'
      <4>1. PICK i \in 1 .. n : pool[i] = j
        BY <2>5, <3>2 DEF InPool
      <4>2. i # 1
        BY <2>4, <3>2, <4>1
      <4>3. i - 1 \in 1 .. n - 1 /\ i - 1 + 1 = i
        BY <2>4, <4>1, <4>2
      <4>4. q[i - 1] = j
        BY <2>4, <4>1, <4>3
      <4>5. QED
        BY <2>3, <2>5, <4>3, <4>4 DEF InPool
    <3>3. QED
      BY <3>1, <3>2
  <2>11. Len(pool') <= PoolThreshold
    BY <1>1, <2>1, <2>3, <2>4
  <2>12. Blank(k)'
    BY <2>3, <2>8 DEF Blank
  <2>13. blk \in [Blocks -> [ridx : 0..BlkLen, widx : 0..BlkLen, head : [0..BlkLen - 1 -> Bytes]]]
    BY DEF BufInv, Typed
  <2>14. \A j \in Blocks : j \in heap' <=> j \in heap /\ j # k
    BY <2>3, <2>8
  <2>15. \A i, j \in DOMAIN pool' : pool'[i] = pool'[j] => i = j
    BY <2>3, <2>5, <2>9
  <2>16. QED
    BY <1>1, <2>3, <2>4, <2>8, <2>10, <2>11, <2>12, <2>13, <2>14, <2>15
<1>3. CASE FromHeap(k)
  <2>1. pool' = pool /\ k \in heap /\ heap' = heap \ {k} /\ blk' = [blk EXCEPT ![k].ridx = 0, ![k].widx = 0]
    BY <1>3 DEF FromHeap
  <2>2. ~ InPool(k) /\ \A d \in Bufs : ~ In(d, k) /\ ~ InHand(d, k)
    BY <2>1 DEF BufInv, Housed
  <2>3. \A j \in Blocks : InPool(j)' <=> InPool(j)
    BY <2>1 DEF InPool
  <2>4. /\ blk' \in [Blocks -> [ridx : 0..BlkLen, widx : 0..BlkLen, head : [0..BlkLen - 1 -> Bytes]]]
        /\ blk'[k].ridx = 0 /\ blk'[k].widx = 0 /\ \A j \in Blocks \ {k} : blk'[j] = blk[j]
    BY <2>1, ResetBlk DEF BufInv
  <2>5. Blank(k)'
    BY <2>4 DEF Blank
  <2>6. \A i, j \in DOMAIN pool' : pool'[i] = pool'[j] => i = j
    BY <2>1 DEF BufInv, Housed
  <2>7. \A j \in Blocks : InPool(j)' <=> InPool(j) /\ j # k
    BY <2>2, <2>3
  <2>8. QED
    BY <1>1, <2>1, <2>2, <2>4, <2>5, <2>6, <2>7
<1>4. QED
  BY <1>2, <1>3

LEMMA NewHoused ==
  ASSUME BufInv, NEW b \in Bufs, NEW k \in Blocks, FromPool(k) \/ FromHeap(k), drain' = drain,
         blks' = [blks EXCEPT ![b] = Append(@, k)]
  PROVE  Housed'
<1>1. PICK n : n = Len(blks[b])
  OBVIOUS
<1>2. PICK q : q = Append(blks[b], k)
  OBVIOUS
<1>3. n \in Nat /\ blks[b] \in Seq(Blocks) /\ DOMAIN blks[b] = 1 .. n
  BY <1>1, BufFacts DEF BufInv
<1>4. q \in Seq(Blocks) /\ DOMAIN q = 1 .. n + 1 /\ q[n + 1] = k /\ \A i \in 1 .. n : q[i] = blks[b][i]
  BY <1>1, <1>2, <1>3, AppendIs
<1>5. blks'[b] = q /\ \A d \in Bufs \ {b} : blks'[d] = blks[d]
  BY <1>2 DEF BufInv, Typed
<1>6. /\ Blank(k)' /\ (\A j \in Blocks \ {k} : blk'[j] = blk[j])
      /\ (\A d \in Bufs : ~ In(d, k) /\ ~ InHand(d, k))
      /\ (\A j \in Blocks : InPool(j)' <=> InPool(j) /\ j # k)
      /\ \A j \in Blocks : j \in heap' <=> j \in heap /\ j # k
  BY NewIs
<1>7. \A j \in Blocks : In(b, j)' <=> In(b, j) \/ j = k
  <2> SUFFICES ASSUME NEW j \in Blocks PROVE In(b, j)' <=> In(b, j) \/ j = k
    OBVIOUS
  <2>1. ASSUME In(b, j)' PROVE In(b, j) \/ j = k
    <3>1. PICK i \in 1 .. n + 1 : q[i] = j
      BY <1>4, <1>5, <2>1 DEF In
    <3>2. i \in 1 .. n \/ i = n + 1
      BY <1>3
    <3>3. QED
      BY <1>3, <1>4, <3>1, <3>2 DEF In
  <2>2. ASSUME In(b, j) PROVE In(b, j)'
    <3>1. PICK i \in 1 .. n : blks[b][i] = j
      BY <1>3, <2>2 DEF In
    <3>2. i \in 1 .. n + 1 /\ q[i] = j
      BY <1>3, <1>4, <3>1
    <3>3. QED
      BY <1>4, <1>5, <3>2 DEF In
  <2>3. ASSUME j = k PROVE In(b, j)'
    <3>1. n + 1 \in 1 .. n + 1
      BY <1>3
    <3>2. QED
      BY <1>4, <1>5, <2>3, <3>1 DEF In
  <2>4. QED
    BY <2>1, <2>2, <2>3
<1>8. \A d \in Bufs \ {b}, j \in Blocks : In(d, j)' <=> In(d, j)
  BY <1>5 DEF In
<1>9. \A d \in Bufs, j \in Blocks : InHand(d, j)' <=> InHand(d, j)
  BY DEF InHand
<1>10. \A j \in Blocks : j # k => (Blank(j)' <=> Blank(j))
  BY <1>6 DEF Blank
<1>11. ASSUME NEW j \in Blocks, NEW d \in Bufs, NEW e \in Bufs
        PROVE  /\ j \in heap' => ~ InPool(j)'
               /\ In(d, j)' => j \notin heap' /\ ~ InPool(j)'
               /\ InHand(d, j)' => j \notin heap' /\ ~ InPool(j)' /\ Blank(j)'
               /\ ~ (In(d, j)' /\ InHand(e, j)')
               /\ In(d, j)' /\ In(e, j)' => d = e
               /\ InHand(d, j)' /\ InHand(e, j)' => d = e
               /\ InPool(j)' => Blank(j)'
  BY <1>6, <1>7, <1>8, <1>9, <1>10 DEF BufInv, Housed
<1>12. ASSUME NEW j \in Blocks
       PROVE  j \in heap' \/ InPool(j)' \/ \E d \in Bufs : In(d, j)' \/ InHand(d, j)'
  <2>1. CASE j = k
    BY <1>7, <2>1
  <2>2. CASE j # k
    <3>1. j \in heap \/ InPool(j) \/ \E d \in Bufs : In(d, j) \/ InHand(d, j)
      BY DEF BufInv, Housed
    <3>2. \A d \in Bufs : (In(d, j) => In(d, j)') /\ (InHand(d, j) => InHand(d, j)')
      BY <1>7, <1>8, <1>9
    <3>3. QED
      BY <1>6, <2>2, <3>1, <3>2
  <2>3. QED
    BY <2>1, <2>2
<1>13. ASSUME NEW d \in Bufs PROVE \A i, j \in DOMAIN blks'[d] : blks'[d][i] = blks'[d][j] => i = j
  <2>1. CASE d # b
    BY <1>5, <2>1 DEF BufInv, Housed
  <2>2. ASSUME NEW i \in 1 .. n + 1, NEW j \in 1 .. n + 1, q[i] = q[j] PROVE i = j
    <3>1. \A m \in 1 .. n : q[m] # k
      BY <1>3, <1>4, <1>6 DEF In
    <3>2. \A m \in 1 .. n + 1 : m \in 1 .. n \/ m = n + 1
      BY <1>3
    <3>3. CASE i \in 1 .. n /\ j \in 1 .. n
      <4>1. blks[b][i] = blks[b][j]
        BY <1>4, <2>2, <3>3
      <4>2. QED
        BY <1>3, <3>3, <4>1 DEF BufInv, Housed
    <3>4. QED
      BY <1>4, <2>2, <3>1, <3>2, <3>3
  <2>3. CASE d = b
    <3>1. blks'[d] = q
      BY <1>5, <2>3
    <3>2. \A i, j \in DOMAIN q : q[i] = q[j] => i = j
      <4>1. \A i, j \in 1 .. n + 1 : q[i] = q[j] => i = j
        BY <2>2
      <4>2. QED
        BY <1>4, <4>1
    <3>3. QED
      BY <3>1, <3>2
  <2>4. QED
    BY <2>1, <2>3
<1>14. /\ Len(pool') <= PoolThreshold
       /\ \A i, j \in DOMAIN pool' : pool'[i] = pool'[j] => i = j
  BY NewIs
<1>15. QED
  BY <1>11, <1>12, <1>13, <1>14 DEF Housed

LEMMA NewLocal ==
  ASSUME BufInv, NEW b \in Bufs, NEW k \in Blocks, FromPool(k) \/ FromHeap(k),
         blks' = [blks EXCEPT ![b] = Append(@, k)], fill[b].pc = "wblk", ~ HasRoom(b),
         NEW r, FillAs(b, r), r.pc = "copy", r.bk = k, r.rmn = fill[b].rmn, r.l = fill[b].l,
         drain' = drain, filled' = filled, drained' = drained
  PROVE  Local(b)'
<1>1. PICK n : n = Len(blks[b])
  OBVIOUS
<1>2. PICK q : q = Append(blks[b], k)
  OBVIOUS
<1>3. PICK f : f = filled[b]
  OBVIOUS
<1>4. /\ n \in Nat /\ blks[b] \in Seq(Blocks) /\ DOMAIN blks[b] = 1 .. n /\ BlkLen \in Nat \ {0}
      /\ f \in Nat /\ (blks[b] = <<>> <=> n = 0)
  BY <1>1, <1>3, BufFacts DEF BufInv
<1>5. /\ q \in Seq(Blocks) /\ Len(q) = n + 1 /\ q[n + 1] = k /\ (\A i \in 1 .. n : q[i] = blks[b][i])
  BY <1>1, <1>2, <1>4, AppendIs
<1>6. q # <<>>
  BY <1>4, <1>5, EmptyIs
<1>7. blks'[b] = q
  BY <1>2 DEF BufInv, Typed
<1>8. ASSUME NEW i \in 1 .. n PROVE Block(b, i)' = Block(b, i)
  <2>1. blks[b][i] # k /\ blks[b][i] \in Blocks
    BY <1>4, NewIs DEF In
  <2>2. blks'[b][i] = blks[b][i]
    BY <1>5, <1>7
  <2>3. blk'[blks[b][i]] = blk[blks[b][i]]
    BY <2>1, NewIs
  <2>4. QED
    BY <2>2, <2>3 DEF Block
<1>9. Block(b, n + 1)'.ridx = 0 /\ Block(b, n + 1)'.widx = 0
  <2>1. blk'[k].ridx = 0 /\ blk'[k].widx = 0
    BY NewIs DEF Blank
  <2>2. QED
    BY <1>5, <1>7, <2>1 DEF Block
<1>10. /\ UnderWay(b) = 0 /\ UnderWay(b)' = 0 /\ Taken(b)' = Taken(b) /\ fill[b].l = 0
       /\ (n = 0 => Taken(b) = 0)
  <2>1. UnderWay(b) = 0 /\ UnderWay(b)' = 0 /\ Taken(b)' = Taken(b)
    BY DEF UnderWay, Taken, FillAs
  <2>2. fill[b].l = 0
    BY DEF BufInv, Local, FillOK
  <2>3. n = 0 => drain[b].pc # "advance"
    BY <1>4 DEF BufInv, Local, DrainOK, AtHead
  <2>4. QED
    BY <2>1, <2>2, <2>3 DEF Taken
<1>11. Tip(b)' = f + 1
  <2>1. Tip(b)' = f + 1 - (0 + 0)
    BY <1>3, <1>5, <1>7, <1>9, <1>10 DEF Tip
  <2>2. QED
    BY <1>4, <2>1
<1>12. ASSUME n # 0
       PROVE  n \in 1 .. n /\ Block(b, n).widx = BlkLen /\ Tip(b) = f + 1 - BlkLen
  <2>1. n \in 1 .. n /\ blks[b] # <<>>
    BY <1>4, <1>12
  <2>2. Block(b, n).widx = BlkLen
    BY <1>1, <1>4, <2>1 DEF HasRoom, Block, Last
  <2>3. Tip(b) = f + 1 - (BlkLen + 0)
    BY <1>1, <1>3, <1>10, <2>2 DEF Tip
  <2>4. QED
    BY <1>4, <2>1, <2>2, <2>3
<1>13. ASSUME NEW i \in 1 .. n PROVE Number(b, i)' = Number(b, i)
  <2>1. PICK v : v = (n - i) * BlkLen
    OBVIOUS
  <2>2. n - i + 1 = n + 1 - i /\ n - i \in Int /\ n # 0
    BY <1>4
  <2>3. (n + 1 - i) * BlkLen = v + BlkLen /\ v \in Int
    <3>1. PICK m \in Int : m = n - i
      BY <2>2
    <3>2. BlkLen \in Int
      BY <1>4
    <3>3. m * BlkLen \in Int /\ (m + 1) * BlkLen = m * BlkLen + BlkLen
      BY <3>1, <3>2, OnePlace
    <3>4. m + 1 = n + 1 - i
      BY <2>2, <3>1
    <3>5. QED
      BY <2>1, <3>1, <3>3, <3>4
  <2>4. Behind(b, i) = v /\ Behind(b, i)' = v + BlkLen
    BY <1>1, <1>5, <1>7, <2>1, <2>3 DEF Behind
  <2>5. Number(b, i) = Tip(b) - v /\ Number(b, i)' = Tip(b)' - (v + BlkLen)
    BY <2>4 DEF Number
  <2>6. Tip(b) = f + 1 - BlkLen
    BY <1>12, <2>2
  <2>7. QED
    BY <1>4, <1>11, <2>3, <2>5, <2>6
<1>14. ASSUME NEW i \in 1 .. n PROVE Written(b, i)' = Written(b, i)
  <2>1. i # n + 1 /\ Block(b, i).widx \in Nat
    BY <1>1, <1>4, Ints DEF BufInv
  <2>2. QED
    BY <1>5, <1>7, <1>8, <1>10, <2>1 DEF Written
<1>15. Written(b, n + 1)' = 0
  BY <1>5, <1>7, <1>9, <1>10 DEF Written
<1>16. \A i \in 1 .. n + 1 : i \in 1 .. n \/ i = n + 1
  BY <1>4
<1>17. Content(b)'
  <2>1. ASSUME NEW i \in 1 .. n + 1, NEW x, x \in 0 .. Written(b, i)' - 1
        PROVE  Block(b, i)'.head[x] = <<b, Number(b, i)' + x>>
    <3>1. CASE i \in 1 .. n
      <4>1. Block(b, i).head[x] = <<b, Number(b, i) + x>>
        BY <1>1, <1>14, <2>1, <3>1 DEF BufInv, Local, Content
      <4>2. QED
        BY <1>8, <1>13, <3>1, <4>1
    <3>2. CASE i = n + 1
      <4>1. Written(b, i)' = 0
        BY <1>15, <3>2
      <4>2. x \in 0 .. -1
        BY <2>1, <4>1
      <4>3. QED
        BY <4>2
    <3>3. QED
      BY <1>16, <3>1, <3>2
  <2>2. QED
    BY <1>5, <1>7, <2>1 DEF Content
<1>18. ListOK(b)'
  <2>1. ASSUME NEW i \in 1 .. n + 1
        PROVE  /\ Block(b, i)'.ridx <= Block(b, i)'.widx
               /\ i < n + 1 => Block(b, i)'.widx = BlkLen
               /\ i > 1 => Block(b, i)'.ridx = 0
    <3>1. CASE i \in 1 .. n
      <4>1. /\ Block(b, i).ridx <= Block(b, i).widx
            /\ i < n => Block(b, i).widx = BlkLen
            /\ i > 1 => Block(b, i).ridx = 0
        BY <1>1, <3>1 DEF BufInv, Local, ListOK
      <4>2. i < n \/ i = n
        BY <1>4, <3>1
      <4>3. n # 0
        BY <1>4, <3>1
      <4>4. QED
        BY <1>8, <1>12, <3>1, <4>1, <4>2, <4>3
    <3>2. CASE i = n + 1
      <4>1. ~ (i < n + 1)
        BY <1>4, <3>2
      <4>2. QED
        BY <1>9, <3>2, <4>1
    <3>3. QED
      BY <1>16, <3>1, <3>2
  <2>2. QED
    BY <1>5, <1>7, <2>1 DEF ListOK
<1>19. Read(b)' = Read(b)
  <2>1. CASE n = 0
    <3>1. Read(b) = f
      BY <1>3, <1>4, <2>1 DEF Read
    <3>2. Behind(b, 1)' = 0
      <4>1. Behind(b, 1)' = (Len(blks'[b]) - 1) * BlkLen
        BY DEF Behind
      <4>2. Len(blks'[b]) - 1 = 0
        BY <1>5, <1>7, <2>1
      <4>3. 0 * BlkLen = 0
        BY <1>4
      <4>4. QED
        BY <4>1, <4>2, <4>3
    <3>3. Fore(b)' = 0 + 0
      BY <1>9, <1>10, <2>1 DEF Fore
    <3>4. Read(b)' = Number(b, 1)' + Fore(b)' - 1
      BY <1>6, <1>7 DEF Read
    <3>5. Number(b, 1)' = Tip(b)' - 0
      BY <3>2 DEF Number
    <3>6. QED
      BY <1>4, <1>11, <3>1, <3>3, <3>4, <3>5
  <2>2. CASE n # 0
    <3>1. 1 \in 1 .. n
      BY <1>4, <2>2
    <3>2. Number(b, 1)' = Number(b, 1) /\ Fore(b)' = Fore(b)
      BY <1>8, <1>10, <1>13, <3>1 DEF Fore
    <3>3. QED
      BY <1>4, <1>6, <1>7, <2>2, <3>2 DEF Read
  <2>3. QED
    BY <2>1, <2>2
<1>20. DrainedOK(b)'
  BY <1>19 DEF BufInv, Local, DrainedOK
<1>21. FillOK(b)'
  <2>1. fill'[b] = r /\ blks'[b] # <<>> /\ blks'[b][Len(blks'[b])] = k /\ Block(b, Len(blks[b]))'.widx = 0
    BY <1>5, <1>6, <1>7, <1>9 DEF FillAs
  <2>2. filled'[b] + r.rmn - r.l <= MaxBytes
    BY DEF BufInv, Local, FillOK
  <2>3. 0 < BlkLen
    BY <1>4
  <2>4. QED
    BY <1>10, <2>1, <2>2, <2>3 DEF FillOK
<1>22. DrainOK(b)'
  <2>1. ~ (b \in RBufs /\ drain[b].pc # "idle")
    BY DEF BufInv, Local, DrainOK
  <2>2. CASE drain[b].pc \in AtHead
    <3>1. blks[b] # <<>> /\ drain[b].bk = blks[b][1]
      BY <2>2 DEF BufInv, Local, DrainOK
    <3>2. 1 \in 1 .. n
      BY <1>4, <3>1
    <3>3. Block(b, 1)' = Block(b, 1) /\ blks'[b][1] = blks[b][1] /\ blks'[b] # <<>>
      BY <1>5, <1>6, <1>7, <1>8, <3>2
    <3>4. QED
      BY <2>1, <3>1, <3>3 DEF BufInv, Local, DrainOK
  <2>3. CASE drain[b].pc \notin AtHead
    BY <2>1, <2>3 DEF BufInv, Local, DrainOK, AtHead
  <2>4. QED
    BY <2>2, <2>3
<1>23. QED
  BY <1>17, <1>18, <1>20, <1>21, <1>22 DEF Local

LEMMA NewBlock ==
  ASSUME BufInv, NEW b \in Bufs, NewBlk(b)
  PROVE  BufInv'
<1>1. PICK k \in Blocks :
        /\ FromPool(k) \/ FromHeap(k)
        /\ blks' = [blks EXCEPT ![b] = Append(@, k)]
        /\ fill' = [fill EXCEPT ![b].pc = "copy", ![b].bk = k]
  BY DEF NewBlk, FromPool, FromHeap
<1>2. /\ fill[b].pc = "wblk" /\ ~ HasRoom(b)
      /\ aval' = aval /\ drain' = drain /\ filled' = filled /\ drained' = drained
  BY DEF NewBlk, Fill
<1>3. PICK r : FillAs(b, r) /\ r.pc = "copy" /\ r.bk = k /\ r.rmn = fill[b].rmn /\ r.l = fill[b].l
  <2> DEFINE s == fill[b]
             t == [s EXCEPT !.pc = "copy"]
             r == [t EXCEPT !.bk = k]
  <2>1. fill' = [fill EXCEPT ![b] = r]
    BY <1>1 DEF BufInv, Typed
  <2>2. s \in Thread(FillPCs) /\ "copy" \in FillPCs
    BY BufFacts DEF BufInv, FillPCs
  <2>3. t = [s EXCEPT !.pc = "copy"]
    OBVIOUS
  <2>4. r = [t EXCEPT !.bk = k]
    OBVIOUS
  <2> HIDE DEF s, t, r
  <2>5. t \in Thread(FillPCs) /\ t.pc = "copy" /\ t.rmn = s.rmn /\ t.l = s.l
    BY <2>2, <2>3, PutPc
  <2>6. r \in Thread(FillPCs) /\ r.pc = "copy" /\ r.bk = k /\ r.rmn = s.rmn /\ r.l = s.l
    BY <2>4, <2>5, PutBk
  <2>7. FillAs(b, r)
    BY <2>1, <2>6, FillPut DEF BufInv
  <2>8. QED
    BY <2>6, <2>7 DEF s
<1>4. Local(b)'
  BY <1>1, <1>2, <1>3, NewLocal
<1>5. Housed'
  BY <1>1, <1>2, NewHoused
<1>6. blks' \in [Bufs -> Seq(Blocks)] /\ \A d \in Bufs \ {b} : blks'[d] = blks[d]
  <2>1. Append(blks[b], k) \in Seq(Blocks)
    BY BufFacts, AppendIs DEF BufInv
  <2>2. QED
    BY <1>1, <2>1 DEF BufInv, Typed
<1>7. /\ blk' \in [Blocks -> [ridx : 0..BlkLen, widx : 0..BlkLen, head : [0..BlkLen - 1 -> Bytes]]]
      /\ (\A j \in Blocks \ {k} : blk'[j] = blk[j]) /\ (\A d \in Bufs : ~ In(d, k))
      /\ pool' \in Seq(Blocks) /\ heap' \subseteq Blocks
  BY <1>1, NewIs
<1>8. Typed'
  BY <1>2, <1>3, <1>6, <1>7 DEF BufInv, Typed, FillAs
<1>9. AvalOf(b)'
  <2>1. Uncounted(b)' = Uncounted(b) /\ Counted(b)' = Counted(b)
    BY <1>2, <1>3 DEF Uncounted, Counted, FillAs
  <2>2. QED
    BY <1>2, <2>1, AvalFrame DEF BufInv
<1>10. QED
  BY <1>2, <1>3, <1>4, <1>5, <1>6, <1>7, <1>8, <1>9, Assemble DEF FillAs

-----------------------------------------------------------------------------
(* The invariant.                                                          *)
LEMMA FillCopyInv ==
  ASSUME BufInv, NEW b \in Bufs, FillCopy(b)
  PROVE  BufInv'
<1> DEFINE l == Least(BlkLen - blk[fill[b].bk].widx, fill[b].rmn)
<1>1. fill[b].pc = "copy"
  BY DEF FillCopy, Fill
<1>2. CASE filled' # filled
  BY <1>2, CopyBytes
<1>3. CASE l > 0 /\ filled' = [filled EXCEPT ![b] = @ + l]
  <2>1. filled' # filled
    <3>1. fill[b].bk \in Blocks
      BY <1>1, BufFacts DEF BufInv, Local, FillOK
    <3>2. l \in Int /\ filled[b] \in Int
      BY <3>1, BufFacts, BlockFacts DEF BufInv, Thread, Least
    <3> HIDE DEF l
    <3>3. filled'[b] = filled[b] + l
      BY <1>3 DEF BufInv, Typed
    <3>4. QED
      BY <1>3, <3>2, <3>3
  <2>2. QED
    BY <2>1, CopyBytes
<1>4. CASE fill' = [fill EXCEPT ![b] = Idle] /\ blk' = blk /\ filled' = filled
  <2>1. /\ blks' = blks /\ aval' = aval /\ pool' = pool /\ heap' = heap
        /\ drain' = drain /\ drained' = drained
    BY DEF FillCopy
  <2>2. QED
    BY <1>1, <1>4, <2>1, CopyNothing
<1>5. QED
  BY <1>3, <1>4 DEF FillCopy

LEMMA DrainTakeInv ==
  ASSUME BufInv, NEW b \in Bufs, DrainTake(b)
  PROVE  BufInv'
<1>1. /\ drain[b].pc = "take"
      /\ blk' = blk /\ blks' = blks /\ pool' = pool /\ heap' = heap /\ fill' = fill
      /\ filled' = filled /\ aval' = aval
  BY DEF DrainTake, Drain
<1>2. CASE drain' = [drain EXCEPT ![b] = Idle] /\ drained' = drained
  BY <1>1, <1>2, EndDrain DEF HandPCs
<1>3. ASSUME NEW l, drain' = [drain EXCEPT ![b].pc = "advance", ![b].l = l]
      PROVE  BufInv'
  <2>1. drain'[b].pc = "advance"
    BY <1>3 DEF BufInv, Typed, Thread
  <2>2. QED
    BY <2>1, TakeBytes
<1>4. QED
  BY <1>2, <1>3 DEF DrainTake

LEMMA InitInv == Init => BufInv
<1> SUFFICES ASSUME Init PROVE BufInv
  OBVIOUS
<1>1. BlkLen \in Nat \ {0} /\ MaxBytes \in Nat /\ PoolThreshold \in Nat
  BY BufAssumption
<1>2. Typed
  <2>1. blk \in [Blocks -> [ridx : 0..BlkLen, widx : 0..BlkLen, head : [0..BlkLen - 1 -> Bytes]]]
    BY <1>1 DEF Init, Bytes
  <2>2. /\ fill \in [Bufs -> Thread(FillPCs)] /\ drain \in [Bufs -> Thread(DrainPCs)]
    BY IdleTyped DEF Init
  <2>3. /\ blks \in [Bufs -> Seq(Blocks)] /\ aval \in [Bufs -> Int] /\ pool \in Seq(Blocks)
        /\ heap \subseteq Blocks /\ filled \in [Bufs -> 0..MaxBytes] /\ drained \in [Bufs -> Seq(Bytes)]
    BY <1>1 DEF Init
  <2>4. QED
    BY <2>1, <2>2, <2>3 DEF Typed
<1>3. /\ pool = <<>> /\ heap = Blocks
      /\ \A b \in Bufs : /\ blks[b] = <<>> /\ drained[b] = <<>> /\ filled[b] = 0 /\ aval[b] = 0
                         /\ fill[b] = Idle /\ drain[b] = Idle
  BY DEF Init
<1>4. Housed
  <2>1. DOMAIN pool = {} /\ Len(pool) = 0
    BY <1>3
  <2>2. \A b \in Bufs : DOMAIN blks[b] = {}
    BY <1>3
  <2>3. \A b \in Bufs, k \in Blocks : ~ In(b, k) /\ ~ InHand(b, k)
    BY <1>3, <2>2, IdleTyped DEF In, InHand
  <2>4. \A k \in Blocks : ~ InPool(k)
    BY <2>1 DEF InPool
  <2>5. QED
    BY <1>1, <1>3, <2>1, <2>2, <2>3, <2>4 DEF Housed
<1>5. AvalCounts
  <2>1. \A b \in Bufs : Len(drained[b]) = 0
    BY <1>3
  <2>2. QED
    BY <1>3, <2>1, IdleTyped DEF AvalCounts
<1>6. ASSUME NEW b \in Bufs PROVE Local(b)
  <2>1. Len(blks[b]) = 0 /\ Len(drained[b]) = 0 /\ blks[b] = <<>>
    BY <1>3
  <2>2. fill[b].pc = "idle" /\ drain[b].pc = "idle" /\ fill[b].l = 0 /\ fill[b].rmn = 0 /\ filled[b] = 0
    BY <1>3, IdleTyped
  <2>3. FillOK(b)
    BY <1>1, <2>2 DEF FillOK
  <2>4. DrainOK(b)
    BY <2>2 DEF DrainOK, AtHead, HandPCs
  <2>5. ListOK(b) /\ Content(b)
    BY <2>1 DEF ListOK, Content
  <2>6. Read(b) = 0
    BY <2>1, <2>2 DEF Read
  <2>7. DrainedOK(b)
    BY <2>1, <2>6 DEF DrainedOK
  <2>8. QED
    BY <2>3, <2>4, <2>5, <2>7 DEF Local
<1>7. QED
  BY <1>2, <1>4, <1>5, <1>6 DEF BufInv

LEMMA StutterInv ==
  ASSUME BufInv, UNCHANGED vars
  PROVE  BufInv'
<1>1. /\ blk' = blk /\ blks' = blks /\ pool' = pool /\ heap' = heap /\ fill' = fill /\ drain' = drain
      /\ filled' = filled /\ drained' = drained /\ aval' = aval
  BY DEF vars
<1>2. \A d \in Bufs : Local(d)'
  BY <1>1, LocalFrame DEF BufInv
<1>3. Housed'
  BY <1>1, HousedFrame DEF InHand
<1>4. QED
  BY <1>1, <1>2, <1>3 DEF BufInv, Typed, AvalCounts

LEMMA NextInv ==
  ASSUME BufInv, [Next]_vars
  PROVE  BufInv'
<1>1. ASSUME NEW b \in Bufs, FillStep(b) PROVE BufInv'
  BY <1>1, CallFill, GetFill, NewBlock, FillCopyInv, PublishBytes, CountFill DEF FillStep
<1>2. ASSUME NEW b \in Bufs, DrainStep(b) PROVE BufInv'
  BY <1>2, CallDrain, RblkGet, FullRblk, RecycleBlock, LookAtPool, PutInPool, PutInHeap,
     RblkNext, UnreadRblk, DrainTakeInv, AdvanceBytes, CountDrain DEF DrainStep
<1>3. CASE UNCHANGED vars
  BY <1>3, StutterInv
<1>4. QED
  BY <1>1, <1>2, <1>3 DEF Next

LEMMA AlwaysBufInv == Spec => []BufInv
<1>1. Init => BufInv
  BY InitInv
<1>2. BufInv /\ [Next]_vars => BufInv'
  BY NextInv
<1>3. QED
  BY <1>1, <1>2, PTL DEF Spec

-----------------------------------------------------------------------------
(* aval is what has been put in and not taken out, up to the bytes the two *)
(* threads have under way: atm_buf_write and atm_buf_read_sock add after   *)
(* the copy, atm_buf_read and atm_buf_write_sock subtract after it.        *)
THEOREM AvalAlwaysCounts == Spec => []AvalCounts
<1>1. BufInv => AvalCounts
  BY DEF BufInv
<1>2. QED
  BY <1>1, AlwaysBufInv, PTL

(* What comes out of a buffer are its own bytes, each at most once, in the *)
(* order they were put in: the blocks that atm_buf_get_rblk gives back to  *)
(* the pool take no byte of one buffer to another.                         *)
THEOREM BytesInOrder == Spec => []OwnBytesInOrder
<1>1. BufInv => OwnBytesInOrder
  <2> SUFFICES ASSUME BufInv, NEW b \in Bufs
               PROVE  /\ \A i \in DOMAIN drained[b] : drained[b][i][1] = b
                      /\ \A i, j \in DOMAIN drained[b] : i < j => drained[b][i][2] < drained[b][j][2]
    BY DEF OwnBytesInOrder
  <2>1. DOMAIN drained[b] = 1 .. Len(drained[b])
    BY BufFacts DEF BufInv
  <2>2. QED
    BY <2>1 DEF BufInv, Local, DrainedOK
<1>2. QED
  BY <1>1, AlwaysBufInv, PTL

(* A buffer that one task fills and drains, an r_buf, loses no byte: the   *)
(* n-th byte out is the n-th byte in.                                      *)
THEOREM RBufsComplete == Spec => []RBufComplete
<1>1. BufInv => RBufComplete
  <2> SUFFICES ASSUME BufInv, NEW b \in RBufs
               PROVE  \A i \in DOMAIN drained[b] : drained[b][i] = <<b, i>>
    BY DEF RBufComplete
  <2>1. b \in Bufs
    BY DEF Bufs
  <2>2. DOMAIN drained[b] = 1 .. Len(drained[b])
    BY <2>1, BufFacts DEF BufInv
  <2>3. QED
    BY <2>1, <2>2 DEF BufInv, Local, DrainedOK
<1>2. QED
  BY <1>1, AlwaysBufInv, PTL

(* No more is read of a buffer than was put in it.                         *)
LEMMA Product ==
  ASSUME NEW m \in Nat, NEW c \in Nat
  PROVE  m * c \in Nat
  OBVIOUS

LEMMA ReadFilled ==
  ASSUME BufInv, NEW b \in Bufs
  PROVE  Read(b) <= filled[b]
<1>1. PICK n : n = Len(blks[b])
  OBVIOUS
<1>2. PICK f : f = filled[b]
  OBVIOUS
<1>3. PICK u : u = UnderWay(b)
  OBVIOUS
<1>4. n \in Nat /\ f \in Nat /\ BlkLen \in Nat \ {0} /\ u \in Nat /\ (blks[b] = <<>> <=> n = 0)
  BY <1>1, <1>2, <1>3, BufFacts, Ints DEF BufInv
<1>5. CASE n = 0
  BY <1>2, <1>4, <1>5 DEF Read
<1>6. CASE n # 0
  <2>1. PICK w : w = Block(b, n).widx
    OBVIOUS
  <2>2. PICK v : v = (n - 1) * BlkLen
    OBVIOUS
  <2>3. PICK fo : fo = Fore(b)
    OBVIOUS
  <2>4. n \in 1 .. n /\ 1 \in 1 .. n /\ blks[b] # <<>>
    BY <1>4, <1>6
  <2>5. w \in Nat /\ fo \in Nat /\ Block(b, 1).widx \in 0 .. BlkLen /\ Block(b, 1).ridx \in Nat
    BY <1>1, <2>1, <2>3, <2>4, Ints DEF BufInv
  <2>6. fo <= Block(b, 1).widx
    <3>1. CASE drain[b].pc = "advance"
      BY <2>3, <3>1 DEF BufInv, Local, DrainOK, Fore, Taken
    <3>2. CASE drain[b].pc # "advance"
      <4>1. fo = Block(b, 1).ridx + 0 /\ Block(b, 1).ridx <= Block(b, 1).widx
        BY <1>1, <2>3, <2>4, <3>2 DEF BufInv, Local, ListOK, Fore, Taken
      <4>2. QED
        BY <2>5, <4>1
    <3>3. QED
      BY <3>1, <3>2
  <2>7. Tip(b) = f + 1 - (w + u)
    BY <1>1, <1>2, <1>3, <2>1 DEF Tip
  <2>8. Number(b, 1) = Tip(b) - v
    BY <1>1, <2>2 DEF Number, Behind
  <2>9. Read(b) = Number(b, 1) + fo - 1
    BY <2>3, <2>4 DEF Read
  <2>10. v \in Nat
    <3>1. n - 1 \in Nat
      BY <1>4, <1>6
    <3>2. QED
      BY <1>4, <2>2, <3>1, Product
  <2>11. fo <= w + v
    <3>1. CASE n = 1
      BY <2>1, <2>5, <2>6, <2>10, <3>1
    <3>2. CASE n # 1
      <4>1. n - 2 \in Nat /\ n - 2 + 1 = n - 1
        BY <1>4, <1>6, <3>2
      <4>2. v = (n - 2) * BlkLen + BlkLen /\ (n - 2) * BlkLen \in Nat
        BY <1>4, <2>2, <4>1, OnePlace, Product
      <4>3. v >= BlkLen
        BY <1>4, <4>2
      <4>4. QED
        BY <1>4, <2>5, <2>6, <2>10, <4>3
    <3>3. QED
      BY <3>1, <3>2
  <2>12. Read(b) = ((f + 1 - (w + u)) - v) + fo - 1
    BY <2>7, <2>8, <2>9
  <2>13. f \in Nat /\ w \in Nat /\ u \in Nat /\ fo \in Nat /\ v \in Nat
    BY <1>4, <2>5, <2>10
  <2>14. ((f + 1 - (w + u)) - v) + fo - 1 <= f
    BY <2>11, <2>13
  <2>15. QED
    BY <1>2, <2>12, <2>14
<1>7. QED
  BY <1>5, <1>6

LEMMA InvTypes == BufInv => TypeOK
<1> SUFFICES ASSUME BufInv PROVE TypeOK
  OBVIOUS
<1>1. ASSUME NEW b \in Bufs PROVE aval[b] \in -MaxBytes .. MaxBytes
  <2>1. PICK p : p = Len(drained[b])
    OBVIOUS
  <2>2. PICK u : u = Uncounted(b)
    OBVIOUS
  <2>3. PICK c : c = Counted(b)
    OBVIOUS
  <2>4. aval[b] = filled[b] - p - u + c /\ aval[b] \in Int
    BY <2>1, <2>2, <2>3, AvalIsAll DEF BufInv, AvalOf, Typed
  <2>5. p \in Nat /\ filled[b] \in 0 .. MaxBytes /\ MaxBytes \in Nat
    BY <2>1, BufFacts DEF BufInv
  <2>6. u \in 0 .. MaxBytes
    <3>1. fill[b].l \in Nat /\ fill[b].rmn \in 0 .. MaxBytes
      BY BufFacts DEF BufInv, Thread
    <3>2. fill[b].pc \in {"publish", "count"} => fill[b].l <= fill[b].rmn
      BY DEF BufInv, Local, FillOK
    <3>3. QED
      BY <2>2, <2>5, <3>1, <3>2 DEF Uncounted
  <2>7. c \in Nat /\ c <= p
    <3>1. drain[b].l \in Nat
      BY BufFacts DEF BufInv, Thread
    <3>2. drain[b].pc \in {"advance", "count"} => drain[b].l <= p
      BY <2>1 DEF BufInv, Local, DrainOK
    <3>3. QED
      BY <2>3, <2>5, <3>1, <3>2 DEF Counted
  <2>8. p <= filled[b]
    <3>1. p <= Read(b) /\ Read(b) <= filled[b]
      BY <2>1, ReadFilled DEF BufInv, Local, DrainedOK
    <3>2. Read(b) \in Int
      <4>1. CASE blks[b] = <<>>
        BY <2>5, <4>1 DEF Read
      <4>2. CASE blks[b] # <<>>
        <5>1. 1 \in 1 .. Len(blks[b])
          BY <4>2, BufFacts DEF BufInv
        <5>2. Number(b, 1) \in Int /\ Fore(b) \in Nat
          BY <4>2, <5>1, Ints DEF BufInv
        <5>3. QED
          BY <4>2, <5>2 DEF Read
      <4>3. QED
        BY <4>1, <4>2
    <3>3. QED
      BY <2>5, <3>1, <3>2
  <2>9. QED
    BY <2>4, <2>5, <2>6, <2>7, <2>8
<1>2. aval \in [Bufs -> -MaxBytes .. MaxBytes]
  BY <1>1 DEF BufInv, Typed
<1>3. QED
  BY <1>2 DEF BufInv, Typed, TypeOK

(* Where a block is, in terms of the invariant.                            *)
LEMMA HomesAre ==
  ASSUME BufInv, NEW k \in Blocks, NEW x
  PROVE  x \in Homes(k) <=>
            \/ x = <<"heap">> /\ k \in heap
            \/ x = <<"pool">> /\ InPool(k)
            \/ \E b \in Bufs : x = <<"buffer", b>> /\ In(b, k)
            \/ \E b \in Bufs : x = <<"hand", b>> /\ InHand(b, k)
<1>1. k \in Range(pool) <=> InPool(k)
  BY DEF Range, InPool
<1>2. \A b \in Bufs : k \in Range(blks[b]) <=> In(b, k)
  BY DEF Range, In
<1>3. x \in Homes(k) <=>
            \/ x = <<"heap">> /\ k \in heap
            \/ x = <<"pool">> /\ k \in Range(pool)
            \/ \E b \in Bufs : x = <<"buffer", b>> /\ k \in Range(blks[b])
            \/ \E b \in Bufs : x = <<"hand", b>> /\ InHand(b, k)
  BY DEF Homes
<1>4. QED
  BY <1>1, <1>2, <1>3

LEMMA OneHome ==
  ASSUME BufInv, NEW k \in Blocks
  PROVE  \E home \in Homes(k) : Homes(k) = {home}
<1>1. k \in heap \/ InPool(k) \/ \E b \in Bufs : In(b, k) \/ InHand(b, k)
  BY DEF BufInv, Housed
<1>2. CASE k \in heap
  <2>1. ~ InPool(k) /\ \A b \in Bufs : ~ In(b, k) /\ ~ InHand(b, k)
    BY <1>2 DEF BufInv, Housed
  <2>2. \A x : x \in Homes(k) <=> x = <<"heap">>
    BY <1>2, <2>1, HomesAre
  <2>3. PICK h : h = <<"heap">>
    OBVIOUS
  <2>4. h \in Homes(k)
    BY <2>2, <2>3
  <2>5. Homes(k) = {h}
    BY <2>2, <2>3
  <2>6. QED
    BY <2>4, <2>5
<1>3. CASE InPool(k)
  <2>1. k \notin heap /\ \A b \in Bufs : ~ In(b, k) /\ ~ InHand(b, k)
    BY <1>3 DEF BufInv, Housed
  <2>2. \A x : x \in Homes(k) <=> x = <<"pool">>
    BY <1>3, <2>1, HomesAre
  <2>3. PICK h : h = <<"pool">>
    OBVIOUS
  <2>4. h \in Homes(k)
    BY <2>2, <2>3
  <2>5. Homes(k) = {h}
    BY <2>2, <2>3
  <2>6. QED
    BY <2>4, <2>5
<1>4. ASSUME NEW b \in Bufs, In(b, k) PROVE \E home \in Homes(k) : Homes(k) = {home}
  <2>1. /\ k \notin heap /\ ~ InPool(k)
        /\ \A d \in Bufs : ~ InHand(d, k) /\ (In(d, k) => d = b)
    BY <1>4 DEF BufInv, Housed
  <2>2. \A x : x \in Homes(k) <=> x = <<"buffer", b>>
    BY <1>4, <2>1, HomesAre
  <2>3. PICK h : h = <<"buffer", b>>
    OBVIOUS
  <2>4. h \in Homes(k)
    BY <2>2, <2>3
  <2>5. Homes(k) = {h}
    BY <2>2, <2>3
  <2>6. QED
    BY <2>4, <2>5
<1>5. ASSUME NEW b \in Bufs, InHand(b, k) PROVE \E home \in Homes(k) : Homes(k) = {home}
  <2>1. /\ k \notin heap /\ ~ InPool(k)
        /\ \A d \in Bufs : ~ In(d, k) /\ (InHand(d, k) => d = b)
    BY <1>5 DEF BufInv, Housed
  <2>2. \A x : x \in Homes(k) <=> x = <<"hand", b>>
    BY <1>5, <2>1, HomesAre
  <2>3. PICK h : h = <<"hand", b>>
    OBVIOUS
  <2>4. h \in Homes(k)
    BY <2>2, <2>3
  <2>5. Homes(k) = {h}
    BY <2>2, <2>3
  <2>6. QED
    BY <2>4, <2>5
<1>6. QED
  BY <1>1, <1>2, <1>3, <1>4, <1>5

(* Each block is in the heap, in the pool, in one buffer or in the hands   *)
(* of one thread that gives it back, and in one of them only; the pool is  *)
(* never over its threshold, though atm_blk_pool_release looks at its size *)
(* before it takes bp_lock.                                                *)
THEOREM BlocksHaveOneOwner == Spec => []BlocksOwnedOnce
<1>1. BufInv => BlocksOwnedOnce
  <2> SUFFICES ASSUME BufInv PROVE BlocksOwnedOnce
    OBVIOUS
  <2>1. TypeOK
    BY InvTypes
  <2>2. Len(pool) <= PoolThreshold /\ IsInjective(pool) /\ \A b \in Bufs : IsInjective(blks[b])
    BY DEF BufInv, Housed, IsInjective
  <2>3. \A k \in Blocks : \E home \in Homes(k) : Homes(k) = {home}
    BY OneHome
  <2>4. ASSUME NEW b \in Bufs
        PROVE  /\ fill[b].pc \in {"copy", "publish"} => fill[b].bk = Last(blks[b])
               /\ drain[b].pc \in {"take", "advance", "full", "unread"} => drain[b].bk = Head(blks[b])
    <3>1. fill[b].pc \in {"copy", "publish"} => fill[b].bk = Last(blks[b])
      BY DEF BufInv, Local, FillOK, Last
    <3>2. ASSUME drain[b].pc \in AtHead PROVE drain[b].bk = Head(blks[b])
      <4>1. blks[b] # <<>> /\ drain[b].bk = blks[b][1]
        BY <3>2 DEF BufInv, Local, DrainOK
      <4>2. Head(blks[b]) = blks[b][1]
        BY <4>1, BufFacts, TailIs DEF BufInv
      <4>3. QED
        BY <4>1, <4>2
    <3>3. QED
      BY <3>1, <3>2 DEF AtHead
  <2>5. QED
    BY <2>1, <2>2, <2>3, <2>4 DEF BlocksOwnedOnce
<1>2. QED
  BY <1>1, AlwaysBufInv, PTL

=============================================================================
