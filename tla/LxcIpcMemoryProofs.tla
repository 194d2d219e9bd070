------------------------- MODULE LxcIpcMemoryProofs -------------------------
(***************************************************************************)
(* Proofs about the media memory behind the buffers of LxcIpc: no block is *)
(* released while a buffer uses it, none is lost by the delayed release,   *)
(* and both sides of a channel work on the block the driver holds.         *)
(* They rest on the reference counters, connections and sessions of the    *)
(* other proof modules.                                                    *)
(***************************************************************************)
EXTENDS LxcIpcSessionProofs

\* Each direction is either used by every request or by none: no request gives
\* back, by asking for nothing, the block an earlier one asked for.
Steady ==
  \A d \in Dirs : (\A q \in Requests : q[d] > 0) \/ (\A q \in Requests : q[d] = 0)

-----------------------------------------------------------------------------
(* The memory of one buffer.                                               *)

\* The blocks that wait for DONE, and all the blocks a buffer answers for.
ToFree(k) == {k.release_mem[i].blk : i \in 1 .. Len(k.release_mem)}
Owns(k) == Held(k) \cup ToFree(k)

\* One direction: nothing is remembered of memory that is not there.
DirSound(k, d) ==
  /\ k.sMBuf[d].size = 0 \/ k.sMBuf[d].blk = NoBlk \/ ~k.need[d] => k.sMBuf[d] = NoMem
  /\ (\A q \in Requests : q[d] = 0) => ~k.need[d]

\* The memory k of a buffer when the zone's blocks are bl: what is in use is
\* not about to be released, the directions share no block, and all the blocks
\* are allocated.
MemSound(k, bl) ==
  /\ \A d \in Dirs : DirSound(k, d)
  /\ Held(k) \cap ToFree(k) = {}
  /\ k.sMBuf["in"].blk = k.sMBuf["out"].blk => k.sMBuf["in"].blk = NoBlk
  /\ \A x \in Owns(k) : x \in Blocks /\ bl[x] > 0

\* From memory k and blocks bl to k2 and bl2 nothing is released, and only free
\* blocks are taken.
Grows(k, bl, k2, bl2) ==
  /\ Owns(k) \subseteq Owns(k2)
  /\ \A x \in Blocks : IF x \in Owns(k2) /\ x \notin Owns(k)
                         THEN bl[x] = 0 /\ bl2[x] > 0
                         ELSE bl2[x] = bl[x]

\* Growing twice is growing.
LEMMA GrowsTransitive ==
  ASSUME NEW k, NEW bl, NEW k1, NEW bl1, NEW k2, NEW bl2,
         Grows(k, bl, k1, bl1), Grows(k1, bl1, k2, bl2)
  PROVE  Grows(k, bl, k2, bl2)
  BY DEF Grows

\* What the delayed release adds to the blocks that wait for DONE.
LEMMA ToFreeLazily ==
  ASSUME NEW k \in MemRec, NEW k2 \in MemRec, NEW m \in MmzBuffer,
         k2.release_mem = LazyRelease(k.release_mem, m)
  PROVE  ToFree(k2) = IF m.size = 0 THEN ToFree(k) ELSE ToFree(k) \cup {m.blk}
<1> DEFINE rel == k.release_mem
<1>1. rel \in Seq(MmzBuffer)
  BY DEF MemRec
<1>2. CASE m.size = 0
  BY <1>2 DEF LazyRelease, ToFree
<1>3. CASE m.size # 0
  <2>1. k2.release_mem = Append(rel, m)
    BY <1>3 DEF LazyRelease
  <2>2. /\ Len(Append(rel, m)) = Len(rel) + 1 /\ Len(rel) \in Nat
        /\ Append(rel, m)[Len(rel) + 1] = m
        /\ \A i \in 1 .. Len(rel) : Append(rel, m)[i] = rel[i]
    BY <1>1
  <2>3. \A i : i \in 1 .. Len(rel) + 1 <=> i \in 1 .. Len(rel) \/ i = Len(rel) + 1
    BY <2>2
  <2> QED BY <1>3, <2>1, <2>2, <2>3 DEF ToFree
<1> QED BY <1>2, <1>3

\* The block of each direction that is there is the one reported.
LEMMA SoundReport ==
  ASSUME NEW k \in MemRec, NEW d \in Dirs, DirSound(k, d)
  PROVE  Report(k, d) = k.sMBuf[d]
  BY DEF DirSound, Report

LEMMA SoundHeld ==
  ASSUME NEW k \in MemRec, \A d \in Dirs : DirSound(k, d)
  PROVE  Held(k) = {k.sMBuf["in"].blk, k.sMBuf["out"].blk} \ {NoBlk}
<1>1. \A d \in Dirs : Report(k, d) = k.sMBuf[d]
  BY SoundReport
<1> QED BY <1>1 DEF Held, Dirs

\* Memory m of n bytes was allocated between bl and bl2, or could not be.
Allocates(bl, n, m, bl2) ==
  \/ m = NoMem /\ bl2 = bl
  \/ \E x \in Blocks : /\ bl[x] = 0 /\ m = [blk |-> x, size |-> n]
                       /\ bl2 = [bl EXCEPT ![x] = n]

\* Allocation takes a free block or fails.
LEMMA AllocOutcome ==
  ASSUME NEW bl, NEW n, NEW a \in Alloc(bl, n)
  PROVE  Allocates(bl, n, a.m, a.bl)
<1> DEFINE free == {x \in Blocks : bl[x] = 0}
<1>1. CASE free = {}
  BY <1>1 DEF Alloc, Allocates
<1>2. CASE free # {}
  <2>1. PICK x \in free : a = [m |-> [blk |-> x, size |-> n], bl |-> [bl EXCEPT ![x] = n]]
    BY <1>2 DEF Alloc
  <2> QED BY <2>1 DEF Allocates
<1> QED BY <1>1, <1>2

\* One direction of RESIZE under steady requests: all stays as it is, or the
\* block is replaced by a free one of another size, or by none.
Replaced(k, bl, d, s, r) ==
  /\ r.ok /\ k.sMBuf[d].size # AllocSize(s)
  /\ \A e \in Dirs \ {d} : r.k.sMBuf[e] = k.sMBuf[e] /\ r.k.need[e] = k.need[e]
  /\ r.k.need[d]
  /\ r.k.release_mem = LazyRelease(k.release_mem, k.sMBuf[d])
  /\ Allocates(bl, AllocSize(s), r.k.sMBuf[d], r.bl)

\* A block that replaces another has another size.
LEMMA ReplacedSize ==
  ASSUME NEW k, NEW bl, NEW d, NEW s, NEW r, Replaced(k, bl, d, s, r)
  PROVE  r.k.sMBuf[d] = NoMem \/ r.k.sMBuf[d].size # k.sMBuf[d].size
<1>1. PICK n, m : n = AllocSize(s) /\ m = r.k.sMBuf[d]
  OBVIOUS
<1>2. Allocates(bl, n, m, r.bl) /\ k.sMBuf[d].size # n
  BY <1>1 DEF Replaced
<1>3. ASSUME NEW x, m = [blk |-> x, size |-> n] PROVE m.size # k.sMBuf[d].size
  BY <1>2, <1>3
<1> QED BY <1>1, <1>2, <1>3 DEF Allocates

\* Those are the outcomes; without room in the table the request fails.
LEMMA SteadyResizeDir ==
  ASSUME Steady, NEW k \in MemRec, NEW bl \in [Blocks -> Nat], NEW q \in Requests,
         NEW d \in Dirs, NEW r \in ResizeDir(k, bl, d, q[d]), DirSound(k, d)
  PROVE  \/ r.k = k /\ r.bl = bl /\ (r.ok \/ Len(k.release_mem) = RESIZE_MAX)
         \/ q[d] > 0 /\ Replaced(k, bl, d, q[d], r)
<1> DEFINE s == q[d]
           m == k.sMBuf[d]
           rel == IF k.need[d] THEN LazyRelease(k.release_mem, m) ELSE k.release_mem
           needed(v) == [k.need EXCEPT ![d] = v]
<1>1. /\ m \in MmzBuffer /\ k.release_mem \in Seq(MmzBuffer)
      /\ AllocSize(s) \in Nat /\ s \in Nat /\ AllocSize(s) >= s
      /\ k.sMBuf \in [Dirs -> MmzBuffer] /\ k.need \in [Dirs -> BOOLEAN]
      /\ k = [sMBuf |-> k.sMBuf, need |-> k.need, release_mem |-> k.release_mem]
  BY SizesAssumption, MemoryAssumption DEF MemRec
<1>2. s > 0 \/ ~k.need[d]
  BY DEF Steady, DirSound
<1>3. ~k.need[d] => m = NoMem /\ m.size = 0
  BY DEF DirSound, NoMem
<1>4. rel = LazyRelease(k.release_mem, m)
  BY <1>3 DEF LazyRelease
<1>5. CASE s > 0 /\ m.size = AllocSize(s)
  <2>1. r = [ok |-> TRUE, bl |-> bl,
               k |-> [sMBuf |-> k.sMBuf, need |-> needed(TRUE), release_mem |-> k.release_mem]]
    BY <1>5 DEF ResizeDir
  <2>2. k.need[d]
    BY <1>1, <1>3, <1>5
  <2>3. needed(TRUE) = k.need
    BY <1>1, <2>2
  <2> QED BY <1>1, <2>1, <2>3
<1>6. CASE ~(s > 0 /\ m.size = AllocSize(s)) /\ k.need[d] /\ Len(k.release_mem) = RESIZE_MAX
  <2>1. r = [ok |-> FALSE, bl |-> bl, k |-> k]
    BY <1>6 DEF ResizeDir
  <2> QED BY <1>6, <2>1
<1>7. CASE s = 0
  <2>1. ~k.need[d]
    BY <1>2, <1>7
  <2>2. r = [ok |-> TRUE, bl |-> bl,
               k |-> [sMBuf |-> k.sMBuf, need |-> needed(FALSE), release_mem |-> rel]]
    BY <1>7, <2>1 DEF ResizeDir
  <2>3. needed(FALSE) = k.need /\ rel = k.release_mem
    BY <1>1, <2>1
  <2> QED BY <1>1, <2>2, <2>3
<1>8. CASE s > 0 /\ m.size # AllocSize(s) /\ ~(k.need[d] /\ Len(k.release_mem) = RESIZE_MAX)
  <2>1. PICK a \in Alloc(bl, AllocSize(s)) :
               r = [ok |-> TRUE, bl |-> a.bl,
                    k |-> [sMBuf |-> [k.sMBuf EXCEPT ![d] = a.m], need |-> needed(TRUE),
                           release_mem |-> rel]]
    BY <1>8 DEF ResizeDir
  <2>2. /\ r.ok /\ r.bl = a.bl /\ r.k.sMBuf = [k.sMBuf EXCEPT ![d] = a.m]
        /\ r.k.need = needed(TRUE) /\ r.k.release_mem = rel
    BY <2>1
  <2>3. /\ r.k.sMBuf[d] = a.m /\ r.k.need[d]
        /\ \A e \in Dirs \ {d} : r.k.sMBuf[e] = k.sMBuf[e] /\ r.k.need[e] = k.need[e]
    BY <1>1, <2>2
  <2>4. Allocates(bl, AllocSize(s), a.m, a.bl)
    BY AllocOutcome
  <2> HIDE DEF rel
  <2> QED BY <1>4, <1>8, <2>2, <2>3, <2>4 DEF Replaced
<1> QED BY <1>1, <1>5, <1>6, <1>7, <1>8

\* One direction of RESIZE takes free blocks only and releases none.
LEMMA ResizeDirGrows ==
  ASSUME Steady, NEW k \in MemRec, NEW bl \in [Blocks -> Nat], NEW q \in Requests,
         NEW d \in Dirs, NEW r \in ResizeDir(k, bl, d, q[d]), MemSound(k, bl)
  PROVE  MemSound(r.k, r.bl) /\ Grows(k, bl, r.k, r.bl)
<1>1. r.k \in MemRec /\ r.bl \in [Blocks -> Nat]
  BY ResizeDirType
<1>2. CASE r.k = k /\ r.bl = bl
  BY <1>2 DEF Grows
<1>3. CASE q[d] > 0 /\ Replaced(k, bl, d, q[d], r)
  <2>1. PICK n : n = AllocSize(q[d])
    OBVIOUS
  <2>2. n \in Nat /\ n > 0
    BY <1>3, <2>1, SizesAssumption, MemoryAssumption
  <2>3. PICK e \in Dirs : e # d /\ Dirs = {d, e}
    BY DEF Dirs
  <2>4. PICK m, m2, o : m = k.sMBuf[d] /\ m2 = r.k.sMBuf[d] /\ o = k.sMBuf[e]
    OBVIOUS
  <2>5. /\ r.k.sMBuf[e] = o /\ r.k.need[e] = k.need[e] /\ r.k.need[d]
        /\ r.k.release_mem = LazyRelease(k.release_mem, m)
        /\ Allocates(bl, n, m2, r.bl)
    BY <1>3, <2>1, <2>3, <2>4 DEF Replaced
  <2>6. /\ m \in MmzBuffer /\ m2 \in MmzBuffer /\ o \in MmzBuffer
        /\ k.need \in [Dirs -> BOOLEAN] /\ r.k.need \in [Dirs -> BOOLEAN]
    BY <1>1, <2>4 DEF MemRec
  <2>7. DirSound(k, d) /\ DirSound(k, e)
    BY DEF MemSound
  <2>8. m2.size = 0 \/ m2.blk = NoBlk => m2 = NoMem
    <3>1. ASSUME NEW x \in Blocks, m2 = [blk |-> x, size |-> n]
          PROVE  m2.size # 0 /\ m2.blk # NoBlk
      BY <2>2, <3>1, MemoryAssumption
    <3> QED BY <2>5, <3>1 DEF Allocates
  <2>9. DirSound(r.k, d)
    <3>1. ~\A p \in Requests : p[d] = 0
      BY <1>3
    <3> QED BY <2>4, <2>5, <2>8, <3>1 DEF DirSound
  <2>10. DirSound(r.k, e)
    BY <2>4, <2>5, <2>7 DEF DirSound
  <2>11. /\ Held(k) = {m.blk, o.blk} \ {NoBlk}
         /\ Held(r.k) = {m2.blk, o.blk} \ {NoBlk}
    <3>1. /\ Held(k) = {k.sMBuf["in"].blk, k.sMBuf["out"].blk} \ {NoBlk}
          /\ Held(r.k) = {r.k.sMBuf["in"].blk, r.k.sMBuf["out"].blk} \ {NoBlk}
      BY <1>1, <2>3, <2>7, <2>9, <2>10, SoundHeld
    <3> QED BY <2>3, <2>4, <2>5, <3>1 DEF Dirs
  <2>12. ToFree(r.k) = ToFree(k) \cup ({m.blk} \ {NoBlk})
    <3>1. ToFree(r.k) = IF m.size = 0 THEN ToFree(k) ELSE ToFree(k) \cup {m.blk}
      BY <1>1, <2>5, <2>6, ToFreeLazily
    <3>2. m.size = 0 <=> m.blk = NoBlk
      BY <2>4, <2>7 DEF DirSound, NoMem
    <3> QED BY <3>1, <3>2
  <2>13. /\ \A x \in Held(k) : x \notin ToFree(k)
         /\ m.blk = o.blk => m.blk = NoBlk
         /\ \A x \in Held(k) \cup ToFree(k) : x \in Blocks /\ bl[x] > 0
    <3>1. m.blk = o.blk => m.blk = NoBlk
      BY <2>3, <2>4 DEF MemSound, Dirs
    <3> QED BY <3>1 DEF MemSound, Owns
  <2>14. CASE m2 = NoMem /\ r.bl = bl
    <3>1. m2.blk = NoBlk
      BY <2>14 DEF NoMem
    <3>2. Owns(r.k) = Owns(k)
      BY <2>11, <2>12, <3>1 DEF Owns
    <3>3. \A x \in Held(r.k) : x \notin ToFree(r.k)
      BY <2>11, <2>12, <2>13, <3>1
    <3>4. r.k.sMBuf["in"].blk = r.k.sMBuf["out"].blk => r.k.sMBuf["in"].blk = NoBlk
      BY <2>3, <2>4, <2>5, <3>1 DEF Dirs
    <3>5. MemSound(r.k, r.bl)
      BY <2>3, <2>9, <2>10, <2>13, <2>14, <3>2, <3>3, <3>4 DEF MemSound, Owns
    <3> QED BY <2>14, <3>2, <3>5 DEF Grows
  <2>15. ASSUME NEW x \in Blocks, bl[x] = 0, m2 = [blk |-> x, size |-> n],
                r.bl = [bl EXCEPT ![x] = n]
         PROVE  MemSound(r.k, r.bl) /\ Grows(k, bl, r.k, r.bl)
    <3>1. /\ m2.blk = x /\ x # NoBlk /\ x \notin Held(k) /\ x \notin ToFree(k)
          /\ r.bl[x] = n /\ \A y \in Blocks \ {x} : r.bl[y] = bl[y]
      BY <2>13, <2>15, MemoryAssumption
    <3>2. Owns(r.k) = Owns(k) \cup {x}
      BY <2>11, <2>12, <3>1 DEF Owns
    <3>3. \A y \in Held(r.k) : y \notin ToFree(r.k)
      BY <2>11, <2>12, <2>13, <3>1
    <3>4. x # o.blk
      BY <2>11, <3>1
    <3>5. r.k.sMBuf["in"].blk # r.k.sMBuf["out"].blk
      BY <2>3, <2>4, <2>5, <3>1, <3>4 DEF Dirs
    <3>6. \A y \in Owns(r.k) : y \in Blocks /\ r.bl[y] > 0
      BY <2>2, <2>13, <3>1, <3>2 DEF Owns
    <3>7. MemSound(r.k, r.bl)
      BY <2>3, <2>9, <2>10, <3>3, <3>5, <3>6 DEF MemSound
    <3> QED BY <2>2, <2>15, <3>1, <3>2, <3>7 DEF Grows, Owns
  <2> QED BY <2>5, <2>14, <2>15 DEF Allocates
<1>4. DirSound(k, d)
  BY DEF MemSound
<1> QED BY <1>2, <1>3, <1>4, SteadyResizeDir

-----------------------------------------------------------------------------
(* What a step may do to the memory.  Only RESIZE, DONE, the last DETACH of *)
(* a buffer and the last close of the device touch a block.                *)

MemoryKept == mem' = mem /\ blocks' = blocks

\* RESIZE on buffer b.
MemoryGrows(b) ==
  \E k \in MemRec : /\ mem' = [mem EXCEPT ![b] = k]
                    /\ MemSound(k, blocks') /\ Grows(mem[b], blocks, k, blocks')

\* DONE on buffer b.
MemoryDone(b) ==
  /\ mem' = [mem EXCEPT ![b] = ClearReleased(@)]
  /\ blocks' = Freed(blocks, ToFree(mem[b]))

\* The last DETACH of buffer b.
MemoryFreed(b) ==
  /\ mem' = [mem EXCEPT ![b] = Mem0]
  /\ blocks' = Freed(blocks, Held(mem[b]))

\* The last close.
MemoryEmptied ==
  /\ mem' = [b \in BufIds |-> Mem0]
  /\ blocks' = Freed(blocks, UNION {Held(mem[b]) : b \in BufIds})

MemoryStep ==
  \/ MemoryKept
  \/ \E b \in BufIds : MemoryGrows(b) \/ MemoryDone(b) \/ MemoryFreed(b)
  \/ MemoryEmptied

\* The memory of a buffer that is not there.
Emptied == \A b \in BufIds : buf_cnt[b] = 0 => mem[b] = Mem0

\* No block is in use twice, or in use and free.
MemoryInv ==
  /\ \A b \in BufIds : MemSound(mem[b], blocks)
  /\ \A a, b \in BufIds : a # b => Owns(mem[a]) \cap Owns(mem[b]) = {}
  /\ Emptied

\* The empty memory owns nothing.
LEMMA EmptyMemory ==
  /\ Owns(Mem0) = {} /\ Held(Mem0) = {} /\ ToFree(Mem0) = {}
  /\ \A bl : MemSound(Mem0, bl)
  /\ \A d \in Dirs : Report(Mem0, d) = NoMem
<1>1. /\ \A d \in Dirs : Mem0.sMBuf[d] = NoMem /\ Mem0.need[d] = FALSE
      /\ Mem0.release_mem = <<>>
  BY DEF Mem0
<1>2. \A d \in Dirs : DirSound(Mem0, d) /\ Report(Mem0, d) = NoMem
  BY <1>1 DEF DirSound, Report
<1>3. Held(Mem0) = {}
  BY <1>2 DEF Held, NoMem
<1>4. ToFree(Mem0) = {}
  BY <1>1 DEF ToFree
<1>5. Mem0.sMBuf["in"].blk = NoBlk
  BY <1>1 DEF Dirs, NoMem
<1>6. Owns(Mem0) = {}
  BY <1>3, <1>4 DEF Owns
<1> QED BY <1>2, <1>3, <1>4, <1>5, <1>6 DEF MemSound

\* Clearing the delayed releases leaves what is in use.
LEMMA Cleared ==
  ASSUME NEW k \in MemRec
  PROVE  LET c == ClearReleased(k)
         IN  /\ c.sMBuf = k.sMBuf /\ c.need = k.need /\ c.release_mem = <<>>
             /\ \A d \in Dirs : Report(c, d) = Report(k, d)
             /\ Held(c) = Held(k) /\ ToFree(c) = {}
<1> DEFINE c == ClearReleased(k)
<1>1. c.sMBuf = k.sMBuf /\ c.need = k.need /\ c.release_mem = <<>>
  BY DEF ClearReleased, MemRec
<1> HIDE DEF c
<1>2. \A d \in Dirs : Report(c, d) = Report(k, d)
  BY <1>1 DEF Report
<1>3. Held(c) = Held(k)
  BY <1>2 DEF Held
<1>4. ToFree(c) = {}
  BY <1>1 DEF ToFree
<1> QED BY <1>1, <1>2, <1>3, <1>4 DEF c

\* Every step of the memory keeps blocks apart.
LEMMA MemoryInvKept ==
  ASSUME IInv, MemoryInv, MemoryStep, Emptied'
  PROVE  MemoryInv'
<1>1. mem \in [BufIds -> MemRec] /\ blocks \in [Blocks -> Nat]
  BY DEF IInv, TypeOK, MemoryTypes
<1>2. CASE MemoryKept
  BY <1>2 DEF MemoryKept, MemoryInv
<1>3. /\ \A b \in BufIds : MemSound(mem[b], blocks)
      /\ \A a, b \in BufIds : a # b => Owns(mem[a]) \cap Owns(mem[b]) = {}
  BY DEF MemoryInv
<1>4. ASSUME NEW k, NEW bl, MemSound(k, blocks), \A x \in Owns(k) : bl[x] = blocks[x]
      PROVE  MemSound(k, bl)
  BY <1>4 DEF MemSound
<1>5. ASSUME NEW b \in BufIds, \A a \in BufIds \ {b} : mem'[a] = mem[a],
             MemSound(mem'[b], blocks'),
             \A a \in BufIds \ {b} : \A x \in Owns(mem[a]) : blocks'[x] = blocks[x],
             \A a \in BufIds \ {b} : Owns(mem'[b]) \cap Owns(mem[a]) = {}
      PROVE  MemoryInv'
  <2>1. \A a \in BufIds \ {b} : MemSound(mem'[a], blocks')
    BY <1>3, <1>4, <1>5
  <2>2. ASSUME NEW a \in BufIds, NEW c \in BufIds, a # c
        PROVE  Owns(mem'[a]) \cap Owns(mem'[c]) = {}
    BY <1>3, <1>5, <2>2
  <2> QED BY <1>5, <2>1, <2>2 DEF MemoryInv
<1>6. ASSUME NEW b \in BufIds, MemoryGrows(b) PROVE MemoryInv'
  <2>1. PICK k \in MemRec : /\ mem' = [mem EXCEPT ![b] = k]
                            /\ MemSound(k, blocks') /\ Grows(mem[b], blocks, k, blocks')
    BY <1>6 DEF MemoryGrows
  <2>2. mem'[b] = k /\ \A a \in BufIds \ {b} : mem'[a] = mem[a]
    BY <1>1, <2>1
  <2>3. \A x \in Blocks : blocks[x] > 0 => blocks'[x] = blocks[x]
    BY <1>1, <2>1 DEF Grows
  <2>4. \A a \in BufIds : \A x \in Owns(mem[a]) : x \in Blocks /\ blocks[x] > 0
    BY <1>3 DEF MemSound
  <2>5. ASSUME NEW a \in BufIds \ {b}, NEW x \in Owns(k), x \in Owns(mem[a]) PROVE FALSE
    <3>1. x \notin Owns(mem[b])
      BY <1>3, <2>5
    <3>2. x \in Blocks /\ blocks[x] > 0
      BY <2>4, <2>5
    <3> QED BY <2>1, <2>5, <3>1, <3>2 DEF Grows
  <2> QED BY <1>5, <2>1, <2>2, <2>3, <2>4, <2>5
<1>7. ASSUME NEW b \in BufIds, NEW F, F \subseteq Owns(mem[b]), blocks' = Freed(blocks, F),
             \A a \in BufIds \ {b} : mem'[a] = mem[a],
             \A d \in Dirs : DirSound(mem'[b], d),
             mem'[b].sMBuf["in"].blk = mem'[b].sMBuf["out"].blk => mem'[b].sMBuf["in"].blk = NoBlk,
             ToFree(mem'[b]) = {}, Held(mem'[b]) \subseteq Held(mem[b]),
             Held(mem'[b]) \cap F = {}
      PROVE  MemoryInv'
  <2>1. /\ \A x \in Blocks \ F : blocks'[x] = blocks[x]
        /\ \A a \in BufIds : \A x \in Owns(mem[a]) : x \in Blocks /\ blocks[x] > 0
    BY <1>3, <1>7 DEF Freed, MemSound
  <2>2. Owns(mem'[b]) = Held(mem'[b])
    BY <1>7 DEF Owns
  <2>3. Held(mem'[b]) \subseteq Owns(mem[b])
    BY <1>7 DEF Owns
  <2>4. \A x \in Owns(mem'[b]) : x \in Blocks /\ blocks'[x] > 0
    BY <1>7, <2>1, <2>2, <2>3
  <2>5. MemSound(mem'[b], blocks')
    BY <1>7, <2>4 DEF MemSound
  <2>6. \A a \in BufIds \ {b} : \A x \in Owns(mem[a]) : x \notin Owns(mem[b])
    BY <1>3
  <2> QED BY <1>5, <1>7, <2>1, <2>2, <2>3, <2>5, <2>6
<1>8. ASSUME NEW b \in BufIds, MemoryDone(b) PROVE MemoryInv'
  <2>1. mem'[b] = ClearReleased(mem[b]) /\ \A a \in BufIds \ {b} : mem'[a] = mem[a]
    BY <1>1, <1>8 DEF MemoryDone
  <2>2. /\ mem'[b].sMBuf = mem[b].sMBuf /\ mem'[b].need = mem[b].need
        /\ Held(mem'[b]) = Held(mem[b]) /\ ToFree(mem'[b]) = {}
    BY <1>1, <2>1, Cleared
  <2>3. MemSound(mem[b], blocks)
    BY <1>3
  <2>4. /\ \A d \in Dirs : DirSound(mem'[b], d)
        /\ mem'[b].sMBuf["in"].blk = mem'[b].sMBuf["out"].blk => mem'[b].sMBuf["in"].blk = NoBlk
        /\ Held(mem'[b]) \cap ToFree(mem[b]) = {}
    BY <2>2, <2>3 DEF MemSound, DirSound
  <2>5. ToFree(mem[b]) \subseteq Owns(mem[b])
    BY DEF Owns
  <2> QED BY <1>7, <1>8, <2>1, <2>2, <2>4, <2>5 DEF MemoryDone
<1>9. ASSUME NEW b \in BufIds, MemoryFreed(b) PROVE MemoryInv'
  <2>1. mem'[b] = Mem0 /\ \A a \in BufIds \ {b} : mem'[a] = mem[a]
    BY <1>1, <1>9 DEF MemoryFreed
  <2>2. /\ \A d \in Dirs : DirSound(Mem0, d)
        /\ Mem0.sMBuf["in"].blk = Mem0.sMBuf["out"].blk => Mem0.sMBuf["in"].blk = NoBlk
        /\ Held(Mem0) = {} /\ ToFree(Mem0) = {}
    BY EmptyMemory DEF MemSound
  <2>3. Held(mem[b]) \subseteq Owns(mem[b])
    BY DEF Owns
  <2> QED BY <1>7, <1>9, <2>1, <2>2, <2>3 DEF MemoryFreed
<1>10. CASE MemoryEmptied
  <2>1. \A b \in BufIds : mem'[b] = Mem0
    BY <1>10 DEF MemoryEmptied
  <2> QED BY <2>1, EmptyMemory DEF MemoryInv
<1> QED BY <1>2, <1>6, <1>8, <1>9, <1>10 DEF MemoryStep

-----------------------------------------------------------------------------
(* Every step is one of those of the memory.                               *)

\* A step that touches neither memory nor the number of references.
LEMMA MemoryUnchanged ==
  ASSUME Emptied, mem' = mem, blocks' = blocks,
         \A b \in BufIds : buf_cnt'[b] = 0 => buf_cnt[b] = 0
  PROVE  MemoryStep /\ Emptied'
  BY DEF MemoryStep, MemoryKept, Emptied

\* DETACH releases the memory of a buffer with its last reference.
LEMMA DetachMemory ==
  ASSUME IInv, Emptied, NEW p, NEW b \in BufIds, Detach(p, b), buf_cnt[b] > 0
  PROVE  /\ (MemoryKept /\ buf_cnt'[b] > 0) \/ (MemoryFreed(b) /\ buf_cnt'[b] = 0)
         /\ MemoryStep /\ Emptied'
<1>1. mem \in [BufIds -> MemRec] /\ buf_cnt \in [BufIds -> Nat]
  BY DEF IInv, TypeOK, MemoryTypes, KernelTypes
<1>2. buf_cnt'[b] = buf_cnt[b] - 1 /\ \A a \in BufIds \ {b} : buf_cnt'[a] = buf_cnt[a]
  BY <1>1 DEF Detach
<1>3. CASE buf_cnt[b] - 1 <= 0
  <2>1. MemoryFreed(b)
    BY <1>3 DEF Detach, MemoryFreed
  <2>2. mem'[b] = Mem0 /\ \A a \in BufIds \ {b} : mem'[a] = mem[a]
    BY <1>1, <2>1 DEF MemoryFreed
  <2> QED BY <1>1, <1>2, <1>3, <2>1, <2>2 DEF MemoryStep, Emptied
<1>4. CASE ~(buf_cnt[b] - 1 <= 0)
  <2>1. MemoryKept
    BY <1>4 DEF Detach, MemoryKept
  <2>2. buf_cnt'[b] > 0 /\ \A a \in BufIds : buf_cnt'[a] = 0 => buf_cnt[a] = 0
    BY <1>1, <1>2, <1>4
  <2> QED BY <2>1, <2>2, MemoryUnchanged DEF MemoryKept
<1> QED BY <1>3, <1>4

\* close(fd) leaves the memory alone or releases all of it.
LEMMA ReleaseMemory ==
  ASSUME Emptied, ReleaseFile
  PROVE  MemoryStep /\ Emptied'
<1>1. CASE LastFile
  BY <1>1 DEF ReleaseFile, MemoryStep, MemoryEmptied, Emptied
<1>2. CASE ~LastFile
  BY <1>2, MemoryUnchanged DEF ReleaseFile
<1> QED BY <1>1, <1>2

\* RESIZE only takes memory that is free.
LEMMA ResizeMemory ==
  ASSUME Steady, IInv, MemoryInv, NEW c \in Clients, NEW q \in Requests, Resize(c, q)
  PROVE  h[c] \in BufIds /\ MemoryGrows(h[c])
<1>1. PICK b : b = h[c]
  OBVIOUS
<1>2. b \in BufIds /\ mem[b] \in MemRec /\ blocks \in [Blocks -> Nat]
  BY <1>1 DEF Resize, IInv, TypeOK, MemoryTypes, HandlesConsistent, ClientRef, InSession
<1>3. MemSound(mem[b], blocks)
  BY <1>2 DEF MemoryInv
<1>4. "in" \in Dirs /\ "out" \in Dirs
  BY DEF Dirs
<1>5. PICK i \in ResizeDir(mem[b], blocks, "in", q["in"]) :
           \/ mem' = [mem EXCEPT ![b] = i.k] /\ blocks' = i.bl
           \/ \E o \in ResizeDir(i.k, i.bl, "out", q["out"]) :
                   mem' = [mem EXCEPT ![b] = o.k] /\ blocks' = o.bl
  BY <1>1 DEF Resize
<1>6. /\ i.k \in MemRec /\ i.bl \in [Blocks -> Nat]
      /\ MemSound(i.k, i.bl) /\ Grows(mem[b], blocks, i.k, i.bl)
  BY <1>2, <1>3, <1>4, ResizeDirType, ResizeDirGrows
<1>7. ASSUME NEW o \in ResizeDir(i.k, i.bl, "out", q["out"])
      PROVE  o.k \in MemRec /\ MemSound(o.k, o.bl) /\ Grows(mem[b], blocks, o.k, o.bl)
  <2>1. o.k \in MemRec /\ MemSound(o.k, o.bl) /\ Grows(i.k, i.bl, o.k, o.bl)
    BY <1>4, <1>6, ResizeDirType, ResizeDirGrows
  <2> QED BY <1>6, <2>1, GrowsTransitive
<1>8. MemoryGrows(b)
  <2>1. CASE mem' = [mem EXCEPT ![b] = i.k] /\ blocks' = i.bl
    BY <1>6, <2>1 DEF MemoryGrows
  <2>2. ASSUME NEW o \in ResizeDir(i.k, i.bl, "out", q["out"]),
               mem' = [mem EXCEPT ![b] = o.k], blocks' = o.bl
        PROVE  MemoryGrows(b)
    BY <1>7, <2>2 DEF MemoryGrows
  <2> QED BY <1>5, <2>1, <2>2
<1> QED BY <1>1, <1>2, <1>8

\* A step of a client as the memory sees it.
LEMMA ClientMemory ==
  ASSUME Steady, IInv, MemoryInv, NEW c \in Clients, ClientNext(c)
  PROVE  MemoryStep /\ Emptied'
<1>1. /\ Emptied /\ ClientRef(c) /\ NameOf[c] \in Names /\ TidOf[c] \in Tids
      /\ mem \in [BufIds -> MemRec] /\ buf_cnt \in [BufIds -> Nat]
  BY ConstantsAssumption
  DEF MemoryInv, IInv, HandlesConsistent, TypeOK, KernelTypes, MemoryTypes
<1>2. CASE OpenFile(c)
  BY <1>1, <1>2, MemoryUnchanged DEF OpenFile, memory
<1>3. CASE AttachClient(c)
  <2> DEFINE n == NameOf[c]
             t == TidOf[c]
  <2>1. blocks' = blocks
    BY <1>3 DEF AttachClient
  <2>2. ASSUME NEW i \in FreeSlots(n, t), buf_cnt' = [buf_cnt EXCEPT ![<<n, t, i>>] = 1],
               mem' = [mem EXCEPT ![<<n, t, i>>] = Mem0]
        PROVE  MemoryStep /\ Emptied'
    <3>1. PICK b : b = <<n, t, i>>
      OBVIOUS
    <3>2. b \in BufIds /\ buf_cnt[b] = 0
      BY <1>1, <3>1 DEF FreeSlots, BufIds
    <3>3. mem[b] = Mem0
      BY <1>1, <3>2 DEF Emptied
    <3>4. mem' = mem
      BY <1>1, <2>2, <3>1, <3>2, <3>3
    <3>5. \A a \in BufIds : buf_cnt'[a] = 0 => buf_cnt[a] = 0
      BY <1>1, <2>2, <3>1, <3>2
    <3> QED BY <1>1, <2>1, <3>4, <3>5, MemoryUnchanged
  <2>3. ASSUME mem' = mem, buf_cnt' = buf_cnt PROVE MemoryStep /\ Emptied'
    BY <1>1, <2>1, <2>3, MemoryUnchanged
  <2> QED BY <1>3, <2>2, <2>3 DEF AttachClient
<1>4. CASE CloseFile(c)
  BY <1>1, <1>4, ReleaseMemory DEF CloseFile
<1>5. ASSUME NEW q \in Requests, Resize(c, q) PROVE MemoryStep /\ Emptied'
  <2>1. PICK b \in BufIds : b = h[c] /\ MemoryGrows(b)
    BY <1>5, ResizeMemory
  <2>2. \A a \in BufIds \ {b} : mem'[a] = mem[a]
    BY <1>1, <2>1 DEF MemoryGrows
  <2>3. buf_cnt[b] > 0 /\ buf_cnt' = buf_cnt
    BY <1>5, <2>1 DEF Resize, Found, kernel
  <2> QED BY <1>1, <2>1, <2>2, <2>3 DEF MemoryStep, Emptied
<1>6. ASSUME NEW op \in Ops, Call(c, op) PROVE MemoryStep /\ Emptied'
  BY <1>1, <1>6, MemoryUnchanged DEF Call, Post, memory
<1>7. CASE CallAgain(c)
  BY <1>1, <1>7, MemoryUnchanged DEF CallAgain, Post, memory
<1>8. CASE CallDone(c)
  BY <1>1, <1>8, MemoryUnchanged DEF CallDone, memory
<1>9. CASE CallTimeout(c) \/ CallInterrupted(c)
  BY <1>1, <1>9, MemoryUnchanged DEF CallTimeout, CallInterrupted, memory, kernel
<1>10. CASE CloseClient(c)
  <2>1. h[c] \in BufIds /\ Detach(c, h[c]) /\ buf_cnt[h[c]] > 0
    BY <1>1, <1>10 DEF CloseClient, ClientRef, InSession, Found
  <2> QED BY <1>1, <2>1, DetachMemory
<1>11. CASE CrashClient(c)
  BY <1>1, <1>11, ReleaseMemory DEF CrashClient
<1> QED BY <1>2, <1>3, <1>4, <1>5, <1>6, <1>7, <1>8, <1>9, <1>10, <1>11 DEF ClientNext

\* A step of a server as the memory sees it.
LEMMA ServerMemory ==
  ASSUME IInv, MemoryInv, NEW s \in Servers, ServerNext(s)
  PROVE  MemoryStep /\ Emptied'
<1>1. Emptied /\ buf_cnt \in [BufIds -> Nat]
  BY DEF MemoryInv, IInv, TypeOK, KernelTypes
<1>2. CASE OpenFile(s) \/ AttachServer(s)
  BY <1>1, <1>2, MemoryUnchanged DEF OpenFile, AttachServer, memory
<1>3. CASE CloseFile(s) \/ CrashServer(s)
  BY <1>1, <1>3, ReleaseMemory DEF CloseFile, CrashServer
<1>4. CASE Listen(s) \/ ListenWake(s) \/ ListenInterrupted(s) \/ CloseServer(s)
  BY <1>1, <1>4, MemoryUnchanged
  DEF Listen, ListenWake, ListenInterrupted, CloseServer, memory, kernel
<1>5. CASE ListenPick(s)
  <2>1. mem' = mem /\ blocks' = blocks
    BY <1>5 DEF ListenPick, memory
  <2>2. \/ \E b \in Unconnected(NameOf[s]) : buf_cnt' = [buf_cnt EXCEPT ![b] = @ + 1]
        \/ buf_cnt' = buf_cnt
    BY <1>5 DEF ListenPick
  <2>3. \A b \in BufIds : buf_cnt'[b] = 0 => buf_cnt[b] = 0
    BY <1>1, <2>2
  <2> QED BY <1>1, <2>1, <2>3, MemoryUnchanged
<1> QED BY <1>2, <1>3, <1>4, <1>5 DEF ServerNext

\* A step of a worker as the memory sees it.
LEMMA WorkerMemory ==
  ASSUME IInv, MemoryInv, NEW w \in Workers, WorkerNext(w)
  PROVE  MemoryStep /\ Emptied'
<1>1. /\ Emptied /\ WorkerRef(w) /\ mem \in [BufIds -> MemRec]
  BY DEF MemoryInv, IInv, HandlesConsistent, TypeOK, MemoryTypes
<1>2. CASE Accept(w) \/ AcceptWake(w) \/ AcceptRead(w) \/ AcceptInterrupted(w) \/ Serve(w)
  BY <1>1, <1>2, MemoryUnchanged
  DEF Accept, AcceptWake, AcceptRead, AcceptInterrupted, Serve, memory, kernel
<1>3. CASE Done(w)
  <2>1. PICK b : b = h[w]
    OBVIOUS
  <2>2. b \in BufIds
    BY <1>1, <1>3, <2>1 DEF Done, WorkerRef
  <2>3. buf_cnt' = buf_cnt
    BY <1>3 DEF Done
  <2>4. ASSUME Found(b), MemoryDone(b) PROVE MemoryStep /\ Emptied'
    <3>1. \A a \in BufIds \ {b} : mem'[a] = mem[a]
      BY <1>1, <2>4 DEF MemoryDone
    <3> QED BY <1>1, <2>2, <2>3, <2>4, <3>1 DEF MemoryStep, Emptied, Found
  <2>5. (Found(b) /\ MemoryDone(b)) \/ (mem' = mem /\ blocks' = blocks)
    BY <1>3, <2>1 DEF Done, MemoryDone, ToFree
  <2> QED BY <1>1, <2>3, <2>4, <2>5, MemoryUnchanged
<1>4. CASE CloseAccepted(w)
  <2>1. h[w] \in BufIds /\ Detach(w, h[w]) /\ buf_cnt[h[w]] > 0
    BY <1>1, <1>4 DEF CloseAccepted, WorkerRef, Attached, Found
  <2> QED BY <1>1, <2>1, DetachMemory
<1> QED BY <1>2, <1>3, <1>4 DEF WorkerNext

\* Every step is a step of the memory.
LEMMA MemorySteps ==
  ASSUME Steady
  PROVE  IInv /\ MemoryInv /\ [Next]_vars => MemoryStep /\ MemoryInv'
<1> SUFFICES ASSUME IInv, MemoryInv, [Next]_vars PROVE MemoryStep /\ MemoryInv'
  OBVIOUS
<1>1. CASE UNCHANGED vars
  <2>1. MemoryStep /\ Emptied'
    BY <1>1, MemoryUnchanged DEF vars, memory, kernel, MemoryInv
  <2> QED BY <2>1, MemoryInvKept
<1>2. CASE Next
  <2>1. MemoryStep /\ Emptied'
    BY <1>2, ClientMemory, ServerMemory, WorkerMemory DEF Next
  <2> QED BY <2>1, MemoryInvKept
<1> QED BY <1>1, <1>2

LEMMA MemoryInit == Init => MemoryInv
<1> SUFFICES ASSUME Init PROVE MemoryInv
  OBVIOUS
<1>1. \A b \in BufIds : mem[b] = Mem0
  BY DEF Init
<1> QED BY <1>1, EmptyMemory DEF MemoryInv, Emptied

\* No block belongs to two buffers, to both directions of one, or to what a
\* buffer uses and what it is about to release, and none of them is free,
\* whatever fails in between.
THEOREM BlocksApart == ASSUME Steady PROVE Spec => []MemoryInv
<1>1. IInv /\ MemoryInv /\ [Next]_vars => MemoryInv'
  BY MemorySteps
<1> QED BY <1>1, MemoryInit, Invariance, PTL DEF Spec

\* A block that was released is not in use, as long as no client gives a block
\* back by asking for nothing: RESIZE, DONE, DETACH and the last close never
\* release what a live buffer reports to its users, whatever times out, is
\* interrupted, leaves early or is killed.
THEOREM ReleasedIsNotUsed == ASSUME Steady PROVE Spec => []ReleasedNotUsed
<1>1. IInv /\ MemoryInv => ReleasedNotUsed
  <2> SUFFICES ASSUME IInv, MemoryInv, NEW b \in BufIds, NEW d \in Dirs,
                      Report(mem[b], d).size > 0
               PROVE  blocks[Report(mem[b], d).blk] > 0
    BY DEF ReleasedNotUsed
  <2>1. mem[b] \in MemRec /\ MemSound(mem[b], blocks)
    BY DEF IInv, TypeOK, MemoryTypes, MemoryInv
  <2>2. Report(mem[b], d) = mem[b].sMBuf[d]
    BY <2>1, SoundReport DEF MemSound
  <2>3. Report(mem[b], d).blk # NoBlk
    BY <2>1, <2>2 DEF MemSound, DirSound, NoMem
  <2>4. Report(mem[b], d).blk \in Owns(mem[b])
    BY <2>3 DEF Owns, Held
  <2> QED BY <2>1, <2>4 DEF MemSound
<1> QED BY <1>1, Invariance, BlocksApart, PTL

-----------------------------------------------------------------------------
(* The delayed release.                                                    *)

\* An answered call has had its replaced blocks released.
DoneClear == \A b \in BufIds : buf[b].done > 0 => mem[b].release_mem = <<>>

\* The updates of a buffer other than DONE and the end of a wait for it leave
\* `done` alone.
LEMMA DoneKept ==
  ASSUME NEW r \in BufRec
  PROVE  /\ \A j : PostCall(r, j).done = r.done
         /\ \A v : StoreResult(r, v).done = r.done /\ SetConnected(r, v).done = r.done
         /\ TakeCall(r).done = r.done
         /\ TakeDone(r).done = r.done - 1
  BY DEF BufRec, PostCall, StoreResult, SetConnected, TakeCall, TakeDone

\* A step that leaves the memory of each buffer alone, or empties its delayed
\* releases, posts no answer before the release.
LEMMA DoneClearFrame ==
  ASSUME DoneClear,
         \A b \in BufIds : \/ mem'[b].release_mem = <<>>
                           \/ buf'[b].done = 0
                           \/ mem'[b] = mem[b] /\ (buf'[b].done > 0 => buf[b].done > 0)
  PROVE  DoneClear'
  BY DEF DoneClear

LEMMA DetachDone ==
  ASSUME IInv, DoneClear, NEW p, NEW b \in BufIds, Detach(p, b)
  PROVE  DoneClear'
<1>1. mem \in [BufIds -> MemRec] /\ buf \in [BufIds -> BufRec]
  BY DEF IInv, TypeOK, MemoryTypes, KernelTypes
<1>2. \A a \in BufIds \ {b} : mem'[a] = mem[a] /\ buf'[a] = buf[a]
  BY <1>1 DEF Detach
<1>3. CASE buf_cnt[b] - 1 <= 0
  <2>1. mem'[b] = Mem0
    BY <1>1, <1>3 DEF Detach
  <2>2. mem'[b].release_mem = <<>>
    BY <2>1 DEF Mem0
  <2> QED BY <1>2, <2>2, DoneClearFrame
<1>4. CASE ~(buf_cnt[b] - 1 <= 0)
  <2>1. mem'[b] = mem[b] /\ buf'[b] = SetConnected(buf[b], -1)
    BY <1>1, <1>4 DEF Detach
  <2>2. buf'[b].done = buf[b].done
    BY <1>1, <2>1, DoneKept
  <2> QED BY <1>2, <2>1, <2>2, DoneClearFrame
<1> QED BY <1>3, <1>4

LEMMA ReleaseDone ==
  ASSUME DoneClear, ReleaseFile
  PROVE  DoneClear'
<1>1. CASE LastFile
  <2>1. \A b \in BufIds : buf'[b].done = 0
    BY <1>1 DEF ReleaseFile, Buf0
  <2> QED BY <2>1, DoneClearFrame
<1>2. CASE ~LastFile
  BY <1>2 DEF ReleaseFile, DoneClear
<1> QED BY <1>1, <1>2

\* A step that writes one buffer and no memory.
LEMMA DoneClearAt ==
  ASSUME IInv, DoneClear, mem' = mem, NEW b, NEW r, buf' = [buf EXCEPT ![b] = r],
         b \in BufIds => (r.done > 0 => buf[b].done > 0)
  PROVE  DoneClear'
<1>1. buf \in [BufIds -> BufRec]
  BY DEF IInv, TypeOK, KernelTypes
<1>2. \A a \in BufIds : buf'[a].done > 0 => buf[a].done > 0
  BY <1>1
<1> QED BY <1>2, DoneClearFrame

\* RESIZE does not meet an answer: between calls there is none.
LEMMA ClientDone ==
  ASSUME Steady, IInv, MemoryInv, SessionInv, DoneClear, NEW c \in Clients, ClientNext(c)
  PROVE  DoneClear'
<1>1. /\ ClientRef(c) /\ NameOf[c] \in Names /\ TidOf[c] \in Tids
      /\ mem \in [BufIds -> MemRec] /\ buf \in [BufIds -> BufRec]
      /\ \A b \in BufIds : buf[b].done \in Nat
      /\ pc[c] \in InSession => h[c] \in BufIds /\ Session(c)
  BY ConstantsAssumption
  DEF IInv, HandlesConsistent, ClientRef, TypeOK, KernelTypes, MemoryTypes, BufRec, SessionInv
<1>2. CASE OpenFile(c)
  BY <1>2 DEF OpenFile, memory, DoneClear
<1>3. CASE AttachClient(c)
  <2> DEFINE n == NameOf[c]
             t == TidOf[c]
  <2>1. ASSUME NEW i \in FreeSlots(n, t), buf' = [buf EXCEPT ![<<n, t, i>>] = Buf0],
               mem' = [mem EXCEPT ![<<n, t, i>>] = Mem0]
        PROVE  DoneClear'
    <3>1. PICK b : b = <<n, t, i>>
      OBVIOUS
    <3>2. b \in BufIds
      BY <1>1, <3>1 DEF FreeSlots, BufIds
    <3>3. buf'[b] = Buf0 /\ \A a \in BufIds \ {b} : mem'[a] = mem[a] /\ buf'[a] = buf[a]
      BY <1>1, <2>1, <3>1, <3>2
    <3>4. buf'[b].done = 0
      BY <3>3 DEF Buf0
    <3> QED BY <3>3, <3>4, DoneClearFrame
  <2>2. ASSUME mem' = mem, buf' = buf PROVE DoneClear'
    BY <2>2 DEF DoneClear
  <2> QED BY <1>3, <2>1, <2>2 DEF AttachClient
<1>4. CASE CloseFile(c) \/ CrashClient(c)
  BY <1>4, ReleaseDone DEF CloseFile, CrashClient
<1>5. ASSUME NEW q \in Requests, Resize(c, q) PROVE DoneClear'
  <2>1. PICK b \in BufIds : b = h[c] /\ MemoryGrows(b)
    BY <1>5, ResizeMemory
  <2>2. \A a \in BufIds \ {b} : mem'[a] = mem[a]
    BY <1>1, <2>1 DEF MemoryGrows
  <2>3. buf' = buf /\ pc[c] = "open"
    BY <1>5 DEF Resize, kernel
  <2>4. buf[b].done = 0
    BY <1>1, <2>1, <2>3 DEF Session, SessionOf, InSession
  <2> QED BY <2>2, <2>3, <2>4, DoneClearFrame
<1>6. ASSUME NEW what, Post(c, what) PROVE DoneClear'
  <2>1. mem' = mem /\ buf' = [buf EXCEPT ![h[c]] = PostCall(buf[h[c]], what)]
    BY <1>6 DEF Post, memory
  <2>2. h[c] \in BufIds => PostCall(buf[h[c]], what).done = buf[h[c]].done
    BY <1>1, DoneKept
  <2> QED BY <2>1, <2>2, DoneClearAt
<1>7. CASE (\E op \in Ops : Call(c, op)) \/ CallAgain(c)
  BY <1>6, <1>7 DEF Call, CallAgain
<1>8. CASE CallDone(c)
  <2>1. mem' = mem /\ buf' = [buf EXCEPT ![h[c]] = TakeDone(buf[h[c]])] /\ buf[h[c]].done > 0
    BY <1>8 DEF CallDone, memory
  <2> QED BY <2>1, DoneClearAt
<1>9. CASE CallTimeout(c) \/ CallInterrupted(c)
  BY <1>9 DEF CallTimeout, CallInterrupted, memory, kernel, DoneClear
<1>10. CASE CloseClient(c)
  BY <1>1, <1>10, DetachDone DEF CloseClient, InSession
<1> QED BY <1>2, <1>3, <1>4, <1>5, <1>7, <1>8, <1>9, <1>10 DEF ClientNext

LEMMA ServerDone ==
  ASSUME IInv, DoneClear, NEW s \in Servers, ServerNext(s)
  PROVE  DoneClear'
<1>1. buf \in [BufIds -> BufRec]
  BY DEF IInv, TypeOK, KernelTypes
<1>2. CASE OpenFile(s) \/ AttachServer(s) \/ Listen(s) \/ ListenWake(s)
           \/ ListenInterrupted(s) \/ CloseServer(s)
  BY <1>2 DEF OpenFile, AttachServer, Listen, ListenWake, ListenInterrupted, CloseServer,
              memory, kernel, DoneClear
<1>3. CASE CloseFile(s) \/ CrashServer(s)
  BY <1>3, ReleaseDone DEF CloseFile, CrashServer
<1>4. CASE ListenPick(s)
  <2>1. mem' = mem /\ (\/ buf' = buf
                      \/ \E b \in Unconnected(NameOf[s]) :
                            buf' = [buf EXCEPT ![b] = SetConnected(buf[b], 1)])
    BY <1>4 DEF ListenPick, memory
  <2>2. ASSUME NEW b \in Unconnected(NameOf[s]), buf' = [buf EXCEPT ![b] = SetConnected(buf[b], 1)]
        PROVE  DoneClear'
    <3>1. b \in BufIds /\ SetConnected(buf[b], 1).done = buf[b].done
      BY <1>1, DoneKept DEF Unconnected
    <3> QED BY <2>1, <2>2, <3>1, DoneClearAt
  <2> QED BY <2>1, <2>2 DEF DoneClear
<1> QED BY <1>2, <1>3, <1>4 DEF ServerNext

\* DONE releases before it answers.
LEMMA WorkerDone ==
  ASSUME IInv, DoneClear, NEW w \in Workers, WorkerNext(w)
  PROVE  DoneClear'
<1>1. /\ WorkerRef(w) /\ mem \in [BufIds -> MemRec] /\ buf \in [BufIds -> BufRec]
      /\ Attached(w) => h[w] \in BufIds
  BY DEF IInv, HandlesConsistent, WorkerRef, TypeOK, MemoryTypes, KernelTypes
<1>2. CASE Accept(w) \/ AcceptRead(w) \/ AcceptInterrupted(w)
  BY <1>2 DEF Accept, AcceptRead, AcceptInterrupted, memory, kernel, DoneClear
<1>3. CASE AcceptWake(w)
  <2>1. mem' = mem /\ buf' = [buf EXCEPT ![h[w]] = TakeCall(buf[h[w]])]
    BY <1>3 DEF AcceptWake, memory
  <2>2. h[w] \in BufIds => TakeCall(buf[h[w]]).done = buf[h[w]].done
    BY <1>1, DoneKept
  <2> QED BY <2>1, <2>2, DoneClearAt
<1>4. CASE Serve(w)
  <2>1. mem' = mem /\ buf' = [buf EXCEPT ![h[w]] = StoreResult(buf[h[w]], job[w].tag)]
    BY <1>4 DEF Serve, memory
  <2>2. h[w] \in BufIds => StoreResult(buf[h[w]], job[w].tag).done = buf[h[w]].done
    BY <1>1, DoneKept
  <2> QED BY <2>1, <2>2, DoneClearAt
<1>5. CASE Done(w)
  <2>1. PICK b : b = h[w]
    OBVIOUS
  <2>2. b \in BufIds
    BY <1>1, <1>5, <2>1 DEF Done, WorkerRef
  <2>3. \/ /\ mem' = [mem EXCEPT ![b] = ClearReleased(mem[b])]
           /\ buf' = [buf EXCEPT ![b] = PostDone(buf[b])]
        \/ mem' = mem /\ buf' = buf
    BY <1>5, <2>1 DEF Done
  <2>4. ASSUME mem' = [mem EXCEPT ![b] = ClearReleased(mem[b])],
               buf' = [buf EXCEPT ![b] = PostDone(buf[b])]
        PROVE  DoneClear'
    <3>1. /\ mem'[b] = ClearReleased(mem[b])
          /\ \A a \in BufIds \ {b} : mem'[a] = mem[a] /\ buf'[a] = buf[a]
      BY <1>1, <2>2, <2>4
    <3>2. mem'[b].release_mem = <<>>
      BY <1>1, <2>2, <3>1, Cleared
    <3> QED BY <3>1, <3>2, DoneClearFrame
  <2> QED BY <2>3, <2>4 DEF DoneClear
<1>6. CASE CloseAccepted(w)
  BY <1>1, <1>6, DetachDone DEF CloseAccepted, Attached
<1> QED BY <1>2, <1>3, <1>4, <1>5, <1>6 DEF WorkerNext

\* No step answers a call before its replaced blocks are released.
LEMMA DoneClearStep ==
  ASSUME Steady
  PROVE  IInv /\ MemoryInv /\ SessionInv /\ DoneClear /\ [Next]_vars => DoneClear'
<1>1. DoneClear /\ UNCHANGED vars => DoneClear'
  BY DEF vars, memory, kernel, DoneClear
<1> QED BY <1>1, ClientDone, ServerDone, WorkerDone DEF Next

-----------------------------------------------------------------------------
(* Without kills no block is lost.                                         *)

\* Client c has buffer b and its next answer still ahead.
Uses(c, b) == ref[c] = "buffer" /\ h[c] = b /\ pc[c] \in {"open", "calling", "again"}

\* Blocks wait for DONE only while a client has an answer ahead.
DelayedHeld ==
  \A b \in BufIds : mem[b].release_mem # <<>> => \E c \in Clients : Uses(c, b)

\* Every allocated block belongs to a buffer.
NoLeak == \A x \in Blocks : blocks[x] > 0 => \E b \in BufIds : x \in Owns(mem[b])

\* No step forgets the blocks of b that wait for DONE: they keep waiting, DONE
\* releases them, or RESIZE adds to them.
Remembers(b) ==
  mem[b].release_mem # <<>> =>
    \/ mem'[b].release_mem # <<>> /\ \E c \in Clients : Uses(c, b)'
    \/ MemoryDone(b)
    \/ MemoryGrows(b) /\ \E c \in Clients : Uses(c, b)'

\* What a step has to do for that.
Careful ==
  /\ \A b \in BufIds : Remembers(b)
  /\ \A b \in BufIds : mem'[b].release_mem # <<>> =>
       mem[b].release_mem # <<>> \/ \E c \in Clients : Uses(c, b)'

\* A step that touches no memory and keeps the users of each buffer that has
\* blocks waiting.
LEMMA CarefulFrame ==
  ASSUME DelayedHeld, mem' = mem,
         \A c \in Clients : \A b \in BufIds :
           Uses(c, b) /\ mem[b].release_mem # <<>> => Uses(c, b)'
  PROVE  Careful
  BY DEF Careful, Remembers, DelayedHeld

\* The last close finds no client in a session.
LEMMA ReleaseCareful ==
  ASSUME IInv, DelayedHeld, ReleaseFile, NEW p \in Clients \cup Servers,
         pc[p] \in {"detached", "failed"}, h' = h,
         \A c \in Clients \ {p} : pc'[c] = pc[c]
  PROVE  Careful
<1>1. \A c \in Clients : \A b : Uses(c, b) => c # p
  BY DEF Uses
<1>2. CASE LastFile
  <2>1. \A c \in Clients : \A b : ~Uses(c, b)
    <3> SUFFICES ASSUME NEW c \in Clients, NEW b, Uses(c, b) PROVE FALSE
      OBVIOUS
    <3>1. HasFile(c) /\ HasFile(p)
      BY DEF Uses, HasFile
    <3> QED BY <1>1, <1>2, <3>1, LastFileAlone
  <2>2. \A b \in BufIds : mem'[b] = Mem0
    BY <1>2 DEF ReleaseFile
  <2> QED BY <2>1, <2>2 DEF Careful, Remembers, DelayedHeld, Mem0
<1>3. CASE ~LastFile
  <2>1. mem' = mem /\ ref' = ref
    BY <1>3 DEF ReleaseFile
  <2>2. \A c \in Clients : \A b : Uses(c, b) => Uses(c, b)'
    BY <1>1, <2>1 DEF Uses
  <2> QED BY <2>1, <2>2, CarefulFrame
<1> QED BY <1>2, <1>3

\* A client goes on with the buffer, or its answer has released the blocks.
LEMMA ClientCareful ==
  ASSUME Steady, Orderly, "crash" \notin Faults, IInv, ChannelInv, MemoryInv, SessionInv,
         DoneClear, DelayedHeld, NEW c \in Clients, ClientNext(c)
  PROVE  Careful
<1>1. /\ c \in Procs /\ c \in Users /\ ClientRef(c) /\ NameOf[c] \in Names /\ TidOf[c] \in Tids
      /\ \A d \in Clients : d \in Procs /\ d \in Users
      /\ mem \in [BufIds -> MemRec] /\ h \in [Users -> BufIds \cup {NoBuf}]
      /\ pc \in [Procs -> ClientPcs \cup ServerPcs \cup WorkerPcs]
      /\ ref \in [Procs -> {"none", "name", "thread", "buffer"}]
      /\ pc[c] \in InSession => ref[c] = "buffer" /\ h[c] \in BufIds
  BY ConstantsAssumption
  DEF IInv, HandlesConsistent, ClientRef, TypeOK, HandleTypes, ControlTypes, MemoryTypes,
      Procs, Users
<1>2. \A l : Goto(c, l) => pc'[c] = l /\ \A p \in Procs \ {c} : pc'[p] = pc[p]
  BY <1>1 DEF Goto
<1>3. ASSUME mem' = mem, NEW l, Goto(c, l),
             \A d \in Clients \ {c} : ref'[d] = ref[d] /\ h'[d] = h[d],
             \/ pc[c] \notin {"open", "calling", "again"}
             \/ UNCHANGED <<ref, h>> /\ l \in {"open", "calling", "again"}
             \/ mem[h[c]].release_mem = <<>>
      PROVE  Careful
  <2>1. ASSUME NEW d \in Clients, NEW b \in BufIds, Uses(d, b), mem[b].release_mem # <<>>
        PROVE  Uses(d, b)'
    <3>1. CASE d = c
      BY <1>2, <1>3, <2>1, <3>1 DEF Uses
    <3>2. CASE d # c
      BY <1>1, <1>2, <1>3, <2>1, <3>2 DEF Uses
    <3> QED BY <3>1, <3>2
  <2> QED BY <1>3, <2>1, CarefulFrame
<1>4. CASE OpenFile(c)
  BY <1>3, <1>4 DEF OpenFile, memory
<1>5. CASE AttachClient(c)
  <2> DEFINE n == NameOf[c]
             t == TidOf[c]
  <2>1. ASSUME NEW i \in FreeSlots(n, t), h' = [h EXCEPT ![c] = <<n, t, i>>],
               mem' = [mem EXCEPT ![<<n, t, i>>] = Mem0],
               ref' = [ref EXCEPT ![c] = "buffer"], Goto(c, "open")
        PROVE  Careful
    <3>1. PICK b : b = <<n, t, i>>
      OBVIOUS
    <3>2. b \in BufIds /\ buf_cnt[b] = 0
      BY <1>1, <3>1 DEF FreeSlots, BufIds
    <3>3. mem[b] = Mem0
      BY <3>2 DEF MemoryInv, Emptied
    <3>4. mem' = mem
      BY <1>1, <2>1, <3>1, <3>2, <3>3
    <3> QED BY <1>1, <1>3, <1>5, <2>1, <3>4 DEF AttachClient
  <2>2. ASSUME mem' = mem, h' = [h EXCEPT ![c] = <<n, t, 0>>],
               ref' = [ref EXCEPT ![c] = "thread"], Goto(c, "failed")
        PROVE  Careful
    BY <1>1, <1>3, <1>5, <2>2 DEF AttachClient
  <2> QED BY <1>5, <2>1, <2>2 DEF AttachClient
<1>6. CASE CloseFile(c)
  <2>1. \A d \in Clients \ {c} : pc'[d] = pc[d]
    BY <1>1, <1>2, <1>6 DEF CloseFile
  <2> QED BY <1>6, <2>1, ReleaseCareful DEF CloseFile
<1>7. ASSUME NEW q \in Requests, Resize(c, q) PROVE Careful
  <2>1. PICK b \in BufIds : b = h[c] /\ MemoryGrows(b)
    BY <1>7, ResizeMemory
  <2>2. \A a \in BufIds \ {b} : mem'[a] = mem[a]
    BY <1>1, <2>1 DEF MemoryGrows
  <2>3. UNCHANGED <<pc, h, ref>> /\ pc[c] = "open"
    BY <1>7 DEF Resize
  <2>4. \A d \in Clients : \A a : Uses(d, a)' <=> Uses(d, a)
    BY <2>3 DEF Uses
  <2>5. Uses(c, b)
    BY <1>1, <2>1, <2>3 DEF Uses, InSession
  <2>6. ASSUME NEW a \in BufIds PROVE Remembers(a)
    <3>1. CASE a = b
      BY <2>1, <2>4, <2>5, <3>1 DEF Remembers
    <3>2. CASE a # b
      BY <2>2, <2>4, <3>2 DEF Remembers, DelayedHeld
    <3> QED BY <3>1, <3>2
  <2> QED BY <2>2, <2>4, <2>5, <2>6 DEF Careful
<1>8. ASSUME NEW what, Post(c, what), pc[c] \in {"open", "again"} PROVE Careful
  BY <1>3, <1>8 DEF Post, memory
<1>9. CASE (\E op \in Ops : Call(c, op)) \/ CallAgain(c)
  BY <1>8, <1>9 DEF Call, CallAgain
<1>10. CASE CallDone(c)
  <2>1. /\ mem' = mem /\ UNCHANGED <<h, ref>> /\ Goto(c, AfterCall(c))
        /\ buf[h[c]].done > 0 /\ pc[c] = "calling"
    BY <1>10 DEF CallDone, memory
  <2>2. mem[h[c]].release_mem = <<>>
    BY <1>1, <2>1 DEF DoneClear, InSession
  <2> QED BY <1>3, <2>1, <2>2
<1>11. CASE CallInterrupted(c)
  BY <1>3, <1>11 DEF CallInterrupted, memory
<1>12. ~CallTimeout(c) /\ ~CrashClient(c)
  BY DEF CallTimeout, CrashClient, Fault, Orderly
<1>13. CASE CloseClient(c)
  <2>1. PICK b : b = h[c]
    OBVIOUS
  <2>2. /\ pc[c] = "last" /\ b \in BufIds /\ Detach(c, b) /\ ref[c] = "buffer"
        /\ h' = [h EXCEPT ![c] = NoBuf] /\ Goto(c, "detached")
    BY <1>1, <1>13, <2>1 DEF CloseClient, Fault, Orderly, InSession
  <2>3. \A d \in Clients : ~Uses(d, b)
    BY <2>1, <2>2 DEF Uses, ChannelInv, OneClientPerBuffer
  <2>4. mem[b].release_mem = <<>>
    BY <2>2, <2>3 DEF DelayedHeld
  <2>5. /\ \A a \in BufIds \ {b} : mem'[a] = mem[a]
        /\ mem'[b] = mem[b] \/ mem'[b] = Mem0
        /\ \A d \in Clients \ {c} : h'[d] = h[d] /\ ref'[d] = ref[d]
    BY <1>1, <2>2 DEF Detach
  <2>6. \A d \in Clients : \A a : Uses(d, a) => Uses(d, a)'
    BY <1>1, <1>2, <2>2, <2>5 DEF Uses
  <2>7. \A a \in BufIds : Remembers(a)
    BY <2>4, <2>5, <2>6 DEF Remembers, DelayedHeld
  <2>8. mem'[b].release_mem = <<>>
    BY <2>4, <2>5 DEF Mem0
  <2> QED BY <2>5, <2>7, <2>8 DEF Careful
<1> QED BY <1>4, <1>5, <1>6, <1>7, <1>9, <1>10, <1>11, <1>12, <1>13 DEF ClientNext

\* A server touches no client.
LEMMA ServerCareful ==
  ASSUME "crash" \notin Faults, IInv, DelayedHeld, NEW s \in Servers, ServerNext(s)
  PROVE  Careful
<1>1. /\ s \in Procs /\ \A c \in Clients : c \in Procs /\ c \in Users /\ c # s /\ c \notin Workers
      /\ \A w \in Workers : w \in Procs /\ w \notin Clients
      /\ h \in [Users -> BufIds \cup {NoBuf}]
      /\ pc \in [Procs -> ClientPcs \cup ServerPcs \cup WorkerPcs]
      /\ ref \in [Procs -> {"none", "name", "thread", "buffer"}]
  BY ConstantsAssumption DEF IInv, TypeOK, HandleTypes, ControlTypes, Procs, Users
<1>2. \A l : Goto(s, l) => \A c \in Clients : pc'[c] = pc[c]
  BY <1>1 DEF Goto
<1>3. ASSUME mem' = mem, \A c \in Clients : pc'[c] = pc[c] /\ ref'[c] = ref[c] /\ h'[c] = h[c]
      PROVE  Careful
  BY <1>3, CarefulFrame DEF Uses
<1>4. CASE OpenFile(s) \/ Listen(s) \/ ListenWake(s) \/ ListenInterrupted(s)
  BY <1>2, <1>3, <1>4 DEF OpenFile, Listen, ListenWake, ListenInterrupted, memory
<1>5. CASE AttachServer(s) \/ CloseServer(s)
  <2>1. /\ mem' = mem /\ h' = h /\ \E l : Goto(s, l)
        /\ ref' = [ref EXCEPT ![s] = "name"] \/ ref' = [ref EXCEPT ![s] = "none"]
    BY <1>5 DEF AttachServer, CloseServer, memory
  <2> QED BY <1>1, <1>2, <1>3, <2>1
<1>6. CASE CloseFile(s)
  <2>1. \A c \in Clients : pc'[c] = pc[c]
    BY <1>2, <1>6 DEF CloseFile
  <2> QED BY <1>6, <2>1, ReleaseCareful DEF CloseFile
<1>7. CASE ListenPick(s)
  <2>1. ASSUME NEW w \in IdleWorkers(s), NEW b, h' = [h EXCEPT ![w] = b],
               ref' = [ref EXCEPT ![w] = "buffer"],
               pc' = [pc EXCEPT ![s] = "ready", ![w] = "start"], mem' = mem
        PROVE  Careful
    <3>1. w \in Workers
      BY DEF IdleWorkers
    <3> QED BY <1>1, <1>3, <2>1, <3>1
  <2>2. ASSUME Goto(s, "ready"), UNCHANGED <<h, ref, mem>> PROVE Careful
    BY <1>2, <1>3, <2>2
  <2> QED BY <1>7, <2>1, <2>2 DEF ListenPick, memory
<1>8. ~CrashServer(s)
  BY DEF CrashServer, Fault
<1> QED BY <1>4, <1>5, <1>6, <1>7, <1>8 DEF ServerNext

\* A worker that leaves a buffer whose blocks wait for DONE leaves a client there.
LEMMA WorkerCareful ==
  ASSUME IInv, IInv', MemoryInv, DelayedHeld, NEW w \in Workers, WorkerNext(w)
  PROVE  Careful
<1>1. /\ w \in Procs /\ w \in Users /\ WorkerRef(w)
      /\ \A c \in Clients : c \in Procs /\ c \in Users /\ c # w
      /\ mem \in [BufIds -> MemRec] /\ h \in [Users -> BufIds \cup {NoBuf}]
      /\ pc \in [Procs -> ClientPcs \cup ServerPcs \cup WorkerPcs]
      /\ ref \in [Procs -> {"none", "name", "thread", "buffer"}]
  BY ConstantsAssumption DEF IInv, HandlesConsistent, TypeOK, HandleTypes, ControlTypes,
                             MemoryTypes, Procs, Users
<1>2. /\ \E l : Goto(w, l)
      /\ ref' = ref \/ ref' = [ref EXCEPT ![w] = "none"]
      /\ h' = h \/ h' = [h EXCEPT ![w] = NoBuf]
  BY DEF WorkerNext, Accept, AcceptWake, AcceptRead, AcceptInterrupted, Serve, Done,
         CloseAccepted, Detach, Retire
<1>3. \A c \in Clients : pc'[c] = pc[c] /\ ref'[c] = ref[c] /\ h'[c] = h[c]
  BY <1>1, <1>2 DEF Goto
<1>4. \A c \in Clients : \A b : Uses(c, b)' <=> Uses(c, b)
  BY <1>3 DEF Uses
<1>5. CASE mem' = mem
  BY <1>4, <1>5, CarefulFrame
<1>6. ASSUME NEW b \in BufIds, MemoryDone(b) PROVE Careful
  <2>1. mem'[b] = ClearReleased(mem[b]) /\ \A a \in BufIds \ {b} : mem'[a] = mem[a]
    BY <1>1, <1>6 DEF MemoryDone
  <2>2. mem'[b].release_mem = <<>>
    BY <1>1, <2>1, Cleared
  <2>3. \A a \in BufIds : Remembers(a)
    BY <1>4, <1>6, <2>1 DEF Remembers, DelayedHeld
  <2> QED BY <2>1, <2>2, <2>3 DEF Careful
<1>7. CASE Done(w)
  <2>1. PICK b : b = h[w]
    OBVIOUS
  <2>2. b \in BufIds
    BY <1>1, <1>7, <2>1 DEF Done, WorkerRef
  <2>3. MemoryDone(b) \/ mem' = mem
    BY <1>7, <2>1 DEF Done, MemoryDone, ToFree
  <2> QED BY <1>5, <1>6, <2>2, <2>3
<1>8. CASE CloseAccepted(w)
  <2>1. PICK b : b = h[w]
    OBVIOUS
  <2>2. b \in BufIds /\ Detach(w, b) /\ buf_cnt[b] > 0 /\ Emptied
    BY <1>1, <1>8, <2>1 DEF CloseAccepted, WorkerRef, Attached, Found, MemoryInv
  <2>3. CASE MemoryKept
    BY <1>5, <2>3 DEF MemoryKept
  <2>4. CASE MemoryFreed(b) /\ buf_cnt'[b] = 0
    <3>1. \A c \in Clients : ~Uses(c, b)
      <4>1. \A c \in Clients : ref'[c] = "buffer" => buf_cnt'[h'[c]] > 0
        BY <1>1, NextHeld DEF BuffersHeld
      <4> QED BY <1>3, <2>4, <4>1 DEF Uses
    <3>2. mem[b].release_mem = <<>>
      BY <2>2, <3>1 DEF DelayedHeld
    <3>3. mem'[b] = Mem0 /\ \A a \in BufIds \ {b} : mem'[a] = mem[a]
      BY <1>1, <2>2, <2>4 DEF MemoryFreed
    <3>4. mem'[b].release_mem = <<>>
      BY <3>3 DEF Mem0
    <3>5. \A a \in BufIds : Remembers(a)
      BY <1>4, <3>2, <3>3 DEF Remembers, DelayedHeld
    <3> QED BY <3>3, <3>4, <3>5 DEF Careful
  <2> QED BY <2>2, <2>3, <2>4, DetachMemory
<1>9. CASE Accept(w) \/ AcceptWake(w) \/ AcceptRead(w) \/ AcceptInterrupted(w) \/ Serve(w)
  BY <1>5, <1>9 DEF Accept, AcceptWake, AcceptRead, AcceptInterrupted, Serve, memory
<1> QED BY <1>7, <1>8, <1>9 DEF WorkerNext

\* A careful step keeps what waits for DONE with a client.
LEMMA CarefulHeld ==
  ASSUME IInv, DelayedHeld, Careful
  PROVE  DelayedHeld'
<1> SUFFICES ASSUME NEW b \in BufIds, mem'[b].release_mem # <<>>
             PROVE  \E c \in Clients : Uses(c, b)'
  BY DEF DelayedHeld, Uses
<1>1. mem \in [BufIds -> MemRec]
  BY DEF IInv, TypeOK, MemoryTypes
<1>2. ~MemoryDone(b)
  <2> SUFFICES ASSUME MemoryDone(b) PROVE FALSE
    OBVIOUS
  <2>1. mem'[b] = ClearReleased(mem[b])
    BY <1>1 DEF MemoryDone
  <2> QED BY <1>1, <2>1, Cleared
<1> QED BY <1>2 DEF Careful, Remembers

\* A careful step of the memory loses no block.
LEMMA LeakFrame ==
  ASSUME IInv, NoLeak, MemoryStep, Careful
  PROVE  NoLeak'
<1>1. mem \in [BufIds -> MemRec] /\ blocks \in [Blocks -> Nat]
  BY DEF IInv, TypeOK, MemoryTypes
<1>2. CASE MemoryKept
  BY <1>2 DEF MemoryKept, NoLeak
<1>3. ASSUME NEW b \in BufIds, MemoryGrows(b) PROVE NoLeak'
  <2>1. PICK k \in MemRec : mem' = [mem EXCEPT ![b] = k] /\ Grows(mem[b], blocks, k, blocks')
    BY <1>3 DEF MemoryGrows
  <2>2. mem'[b] = k /\ \A a \in BufIds \ {b} : mem'[a] = mem[a]
    BY <1>1, <2>1
  <2>3. ASSUME NEW x \in Blocks, blocks'[x] > 0 PROVE \E a \in BufIds : x \in Owns(mem'[a])
    <3>1. CASE x \in Owns(k)
      BY <2>2, <3>1
    <3>2. CASE x \notin Owns(k)
      <4>1. blocks[x] > 0 /\ x \notin Owns(mem[b])
        BY <2>1, <2>3, <3>2 DEF Grows
      <4> QED BY <2>2, <4>1 DEF NoLeak
    <3> QED BY <3>1, <3>2
  <2> QED BY <2>3 DEF NoLeak
<1>4. ASSUME NEW F, blocks' = Freed(blocks, F),
             \A b \in BufIds : \A x \in Owns(mem[b]) : x \in F \/ x \in Owns(mem'[b])
      PROVE  NoLeak'
  <2>1. \A x \in Blocks : blocks'[x] > 0 => blocks[x] > 0 /\ x \notin F
    BY <1>4 DEF Freed
  <2> QED BY <1>4, <2>1 DEF NoLeak
<1>5. ASSUME NEW b \in BufIds, MemoryDone(b) PROVE NoLeak'
  <2>1. mem'[b] = ClearReleased(mem[b]) /\ \A a \in BufIds \ {b} : mem'[a] = mem[a]
    BY <1>1, <1>5 DEF MemoryDone
  <2>2. Held(mem'[b]) = Held(mem[b])
    BY <1>1, <2>1, Cleared
  <2>3. \A a \in BufIds : \A x \in Owns(mem[a]) : x \in ToFree(mem[b]) \/ x \in Owns(mem'[a])
    BY <2>1, <2>2 DEF Owns
  <2> QED BY <1>4, <1>5, <2>3 DEF MemoryDone
<1>6. ASSUME NEW b \in BufIds, mem'[b] = Mem0
      PROVE  ToFree(mem[b]) = {} \/ MemoryDone(b) \/ MemoryGrows(b)
  <2>1. mem'[b].release_mem = <<>>
    BY <1>6 DEF Mem0
  <2>2. mem[b].release_mem = <<>> => ToFree(mem[b]) = {}
    BY DEF ToFree
  <2> QED BY <2>1, <2>2 DEF Careful, Remembers
<1>7. ASSUME NEW b \in BufIds, MemoryFreed(b) PROVE NoLeak'
  <2>1. mem'[b] = Mem0 /\ \A a \in BufIds \ {b} : mem'[a] = mem[a]
    BY <1>1, <1>7 DEF MemoryFreed
  <2>2. CASE ToFree(mem[b]) = {}
    <3>1. \A a \in BufIds : \A x \in Owns(mem[a]) : x \in Held(mem[b]) \/ x \in Owns(mem'[a])
      BY <2>1, <2>2 DEF Owns
    <3> QED BY <1>4, <1>7, <3>1 DEF MemoryFreed
  <2> QED BY <1>3, <1>5, <1>6, <2>1, <2>2
<1>8. CASE MemoryEmptied
  <2>1. \A b \in BufIds : mem'[b] = Mem0
    BY <1>8 DEF MemoryEmptied
  <2>2. CASE \A b \in BufIds : ToFree(mem[b]) = {}
    <3> DEFINE F == UNION {Held(mem[b]) : b \in BufIds}
    <3>1. \A a \in BufIds : \A x \in Owns(mem[a]) : x \in F
      BY <2>2 DEF Owns
    <3>2. blocks' = Freed(blocks, F)
      BY <1>8 DEF MemoryEmptied
    <3> HIDE DEF F
    <3> QED BY <1>4, <3>1, <3>2
  <2> QED BY <1>3, <1>5, <1>6, <2>1, <2>2
<1> QED BY <1>2, <1>3, <1>5, <1>7, <1>8 DEF MemoryStep

\* Blocks and buffers account for each other.
LEMMA AccountedBy == IInv /\ MemoryInv /\ NoLeak => BlocksAccounted
<1> SUFFICES ASSUME IInv, MemoryInv, NoLeak, NEW x \in Blocks
             PROVE  (blocks[x] > 0) <=> (\E b \in BufIds : x \in OwnedBlocks(b))
  BY DEF BlocksAccounted
<1>1. x # NoBlk
  BY MemoryAssumption
<1>2. ASSUME NEW b \in BufIds PROVE x \in OwnedBlocks(b) <=> x \in Owns(mem[b])
  <2>1. mem[b] \in MemRec /\ \A d \in Dirs : DirSound(mem[b], d)
    BY DEF IInv, TypeOK, MemoryTypes, MemoryInv, MemSound
  <2>2. \A d \in Dirs : Report(mem[b], d) = mem[b].sMBuf[d]
    BY <2>1, SoundReport
  <2>3. \A d \in Dirs : ~mem[b].need[d] => mem[b].sMBuf[d].blk = NoBlk
    BY <2>1 DEF DirSound, NoMem
  <2>4. x \in Held(mem[b]) <=> \E d \in Dirs : x = mem[b].sMBuf[d].blk
    BY <1>1, <2>2 DEF Held
  <2> QED BY <1>1, <2>3, <2>4 DEF OwnedBlocks, Owns, ToFree
<1>3. \A b \in BufIds : x \in Owns(mem[b]) => blocks[x] > 0
  BY DEF MemoryInv, MemSound
<1> QED BY <1>2, <1>3 DEF NoLeak

\* Every block is owned by a buffer or free, in sessions that end in order and
\* without kills: what RESIZE replaced is released by the DONE of the next call,
\* and DETACH and the last close, which do not look at it, find nothing left.
THEOREM BlocksAlwaysAccounted ==
  ASSUME Steady, Orderly, "crash" \notin Faults
  PROVE  Spec => []BlocksAccounted
<1> DEFINE LeakInv == DoneClear /\ DelayedHeld /\ NoLeak
<1>1. Init => LeakInv
  <2> SUFFICES ASSUME Init PROVE LeakInv
    OBVIOUS
  <2>1. /\ \A b \in BufIds : mem[b] = Mem0
        /\ \A x \in Blocks : blocks[x] = 0
    BY DEF Init
  <2>2. \A b \in BufIds : mem[b].release_mem = <<>>
    BY <2>1 DEF Mem0
  <2> QED BY <2>1, <2>2 DEF DoneClear, DelayedHeld, NoLeak
<1>2. IInv /\ ChannelInv /\ Places /\ SessionInv /\ MemoryInv /\ LeakInv /\ [Next]_vars => LeakInv'
  <2> SUFFICES ASSUME IInv, ChannelInv, Places, SessionInv, MemoryInv, LeakInv, [Next]_vars
               PROVE  LeakInv'
    OBVIOUS
  <2>1. IInv' /\ MemoryStep /\ DoneClear'
    BY InvStep, MemorySteps, DoneClearStep
  <2>2. Careful
    <3>1. CASE UNCHANGED vars
      BY <3>1, CarefulFrame DEF vars, memory, Uses
    <3> QED BY <2>1, <3>1, ClientCareful, ServerCareful, WorkerCareful DEF Next
  <2> QED BY <2>1, <2>2, CarefulHeld, LeakFrame
<1>3. IInv /\ MemoryInv /\ LeakInv => BlocksAccounted
  BY AccountedBy
<1> HIDE DEF LeakInv
<1> QED BY <1>1, <1>2, <1>3, Invariance, Connections, Sessions, BlocksApart, PTL DEF Spec

-----------------------------------------------------------------------------
(* Mappings.                                                               *)

\* Clients keep to one resize per call, and the table of blocks to release has
\* room for what one resize replaces.
OneResize == MaxResizes \in {0, 1} /\ RESIZE_MAX >= 2

NoMap == [d \in Dirs |-> NoMem]

\* A client at l with the mappings m, after n resizes on a buffer of memory k.
ClientView(l, m, k, n) ==
  /\ n \in {0, 1}
  /\ l \notin {"open", "crashed"} => n = 0
  /\ l = "open" /\ n = 0 => k.release_mem = <<>>
  /\ l \in {"open", "calling", "again"} => \A d \in Dirs : m[d] = Report(k, d)
  /\ l \in {"closed", "file", "detached"} => m = NoMap

\* A worker at l with the job op and the mappings m, on a buffer of memory k: it
\* is never misled by a block of the size it has mapped.
WorkerView(l, op, m, k) ==
  /\ l = "idle" \/ (l = "answer" /\ op = "close") => m = NoMap
  /\ l \in {"start", "accepting", "woken"} =>
       \A d \in Dirs : m[d].size = Report(k, d).size => m[d] = Report(k, d)
  /\ l = "exec" \/ (l = "answer" /\ op # "close") => \A d \in Dirs : m[d] = Report(k, d)

\* Worker w waits on a buffer that was not resized since its last call.
Settled(w) ==
  /\ pc[w] \in {"start", "accepting"} /\ buf[h[w]].call = 0
  /\ \A c \in Clients : ref[c] = "buffer" /\ h[c] = h[w] => resizes[c] = 0

ClientMap(c) == ClientView(pc[c], map[c], mem[h[c]], resizes[c])
WorkerMap(w) ==
  /\ WorkerView(pc[w], job[w].op, map[w], mem[h[w]])
  /\ Settled(w) => \A d \in Dirs : map[w][d] \in {NoMem, Report(mem[h[w]], d)}

MapInv == (\A c \in Clients : ClientMap(c)) /\ (\A w \in Workers : WorkerMap(w))

\* The step leaves what buffer b reports; at most DONE empties its delayed
\* releases.
LeftAlone(b) ==
  /\ \A d \in Dirs : Report(mem'[b], d) = Report(mem[b], d)
  /\ mem'[b].release_mem \in {mem[b].release_mem, <<>>}

\* Users outside P keep their place and their mappings, and nobody disturbs
\* their buffers: only those in P remain to be looked at.
LEMMA MapFrame ==
  ASSUME IInv, MapInv, NEW P,
         \A p \in Users : p \notin P => pc'[p] = pc[p] /\ map'[p] = map[p] /\ h'[p] = h[p],
         \A c \in Clients : c \notin P => resizes'[c] = resizes[c],
         \A w \in Workers : w \notin P => job'[w] = job[w],
         \A p \in Users : p \notin P /\ ref[p] = "buffer" => LeftAlone(h[p]),
         \A w \in Workers : w \notin P /\ Settled(w)' => Settled(w),
         \A c \in Clients : c \in P => ClientMap(c)',
         \A w \in Workers : w \in P => WorkerMap(w)'
  PROVE  MapInv'
<1>1. ASSUME NEW c \in Clients, c \notin P PROVE ClientMap(c)'
  <2>1. /\ c \in Users /\ ClientRef(c) /\ ClientMap(c)
    BY DEF Users, IInv, HandlesConsistent, MapInv
  <2>2. pc[c] \in {"open", "calling", "again"} => LeftAlone(h[c])
    BY <1>1, <2>1 DEF ClientRef, InSession
  <2>3. /\ pc'[c] = pc[c] /\ map'[c] = map[c] /\ h'[c] = h[c] /\ resizes'[c] = resizes[c]
    BY <1>1, <2>1
  <2>4. ClientView(pc[c], map[c], mem'[h[c]], resizes[c])
    BY <2>1, <2>2 DEF ClientMap, ClientView, LeftAlone
  <2> QED BY <2>3, <2>4 DEF ClientMap
<1>2. ASSUME NEW w \in Workers, w \notin P PROVE WorkerMap(w)'
  <2>1. /\ w \in Users /\ WorkerRef(w) /\ WorkerMap(w)
    BY DEF Users, IInv, HandlesConsistent, MapInv
  <2>2. Attached(w) => LeftAlone(h[w])
    BY <1>2, <2>1 DEF WorkerRef
  <2>3. pc'[w] = pc[w] /\ map'[w] = map[w] /\ h'[w] = h[w] /\ job'[w] = job[w]
    BY <1>2, <2>1
  <2>4. WorkerView(pc[w], job[w].op, map[w], mem'[h[w]])
    BY <2>1, <2>2 DEF WorkerMap, WorkerView, LeftAlone, Attached
  <2>5. Settled(w)' => \A d \in Dirs : map[w][d] \in {NoMem, Report(mem'[h[w]], d)}
    <3> SUFFICES ASSUME Settled(w)' PROVE \A d \in Dirs : map[w][d] \in {NoMem, Report(mem'[h[w]], d)}
      OBVIOUS
    <3>1. Settled(w)
      BY <1>2
    <3>2. LeftAlone(h[w])
      BY <2>2, <3>1 DEF Settled, Attached
    <3> QED BY <2>1, <3>1, <3>2 DEF WorkerMap, LeftAlone
  <2> QED BY <2>3, <2>4, <2>5 DEF WorkerMap
<1> QED BY <1>1, <1>2 DEF MapInv

\* A worker whose buffer is settled after a step that neither takes a call nor
\* forgets a resize was settled before.
LEMMA SettledBefore ==
  ASSUME NEW w \in Workers, pc'[w] = pc[w], h'[w] = h[w],
         pc[w] \in {"start", "accepting"} => (buf'[h[w]].call = 0 => buf[h[w]].call = 0),
         \A c \in Clients : ref[c] = "buffer" /\ h[c] = h[w] =>
            resizes[c] = 0 \/ (ref'[c] = "buffer" /\ h'[c] = h[c] /\ resizes'[c] = resizes[c])
  PROVE  Settled(w)' => Settled(w)
  BY DEF Settled

LEMMA KeptAlone ==
  ASSUME NEW b, mem'[b] = mem[b]
  PROVE  LeftAlone(b)
  BY DEF LeftAlone

\* What the invariant of the memory says about what is reported.
LEMMA ReportSound ==
  ASSUME IInv, MemoryInv, NEW b \in BufIds, NEW d \in Dirs, Report(mem[b], d).size = 0
  PROVE  Report(mem[b], d) = NoMem
<1>1. mem[b] \in MemRec /\ DirSound(mem[b], d)
  BY DEF IInv, TypeOK, MemoryTypes, MemoryInv, MemSound
<1>2. Report(mem[b], d) = mem[b].sMBuf[d]
  BY <1>1, SoundReport
<1> QED BY <1>1, <1>2 DEF DirSound

\* After the last close nobody is in a session or works for one.
LEMMA LastMap ==
  ASSUME MapInv, IInv', Places', ReleaseFile, LastFile,
         UNCHANGED <<map, resizes, job, h>>,
         \A w \in Workers : pc'[w] = pc[w] \/ pc'[w] = "crashed",
         \A c \in Clients : \/ pc'[c] = pc[c]
                            \/ pc'[c] = "crashed"
                            \/ pc[c] = "detached" /\ pc'[c] = "closed"
                            \/ pc[c] = "failed" /\ pc'[c] = "gone"
  PROVE  MapInv'
<1>1. /\ \A c \in Clients : ref'[c] = "none" /\ c \in Procs
      /\ \A s \in Servers : ref'[s] = "none"
  BY DEF ReleaseFile, Procs
<1>2. \A c \in Clients : pc'[c] \notin InSession
  BY <1>1 DEF IInv, HandlesConsistent, ClientRef
<1>3. \A s \in Servers : pc'[s] \notin Listening
  BY <1>1 DEF IInv, HandlesConsistent, ServerRef
<1>4. \A w \in Workers : pc'[w] \in {"idle", "crashed"}
  BY <1>3, ConstantsAssumption DEF Places
<1>5. ASSUME NEW c \in Clients PROVE ClientMap(c)'
  <2>1. ClientView(pc[c], map[c], mem[h[c]], resizes[c])
    BY DEF MapInv, ClientMap
  <2>2. ClientView(pc'[c], map[c], mem'[h[c]], resizes[c])
    BY <1>2, <2>1 DEF ClientView, InSession
  <2> QED BY <2>2 DEF ClientMap
<1>6. ASSUME NEW w \in Workers PROVE WorkerMap(w)'
  <2>1. WorkerView(pc[w], job[w].op, map[w], mem[h[w]])
    BY DEF MapInv, WorkerMap
  <2>2. WorkerView(pc'[w], job[w].op, map[w], mem'[h[w]])
    BY <1>4, <2>1 DEF WorkerView
  <2>3. ~Settled(w)'
    BY <1>4 DEF Settled
  <2> QED BY <2>2, <2>3 DEF WorkerMap
<1> QED BY <1>5, <1>6 DEF MapInv

\* DETACH disturbs no other user of a buffer.
LEMMA DetachMap ==
  ASSUME IInv, IInv', MemoryInv, NEW p \in Users, NEW b \in BufIds, Detach(p, b),
         buf_cnt[b] > 0, \A q \in Users \ {p} : h'[q] = h[q]
  PROVE  /\ map'[p] = NoMap
         /\ \A q \in Users \ {p} : map'[q] = map[q] /\ ref'[q] = ref[q]
         /\ \A q \in Users \ {p} : ref[q] = "buffer" =>
               LeftAlone(h[q]) /\ buf'[h[q]].call = buf[h[q]].call
<1>1. /\ mem \in [BufIds -> MemRec] /\ buf \in [BufIds -> BufRec]
      /\ map \in [Users -> [Dirs -> MmzBuffer]]
      /\ ref \in [Procs -> {"none", "name", "thread", "buffer"}]
      /\ \A q \in Users : q \in Procs
  BY DEF IInv, TypeOK, MemoryTypes, KernelTypes, HandleTypes, Users, Procs
<1>2. /\ map'[p] = NoMap
      /\ \A q \in Users \ {p} : map'[q] = map[q] /\ ref'[q] = ref[q]
  BY <1>1 DEF Detach, NoMap
<1>3. ASSUME NEW q \in Users \ {p}, ref[q] = "buffer"
      PROVE  LeftAlone(h[q]) /\ buf'[h[q]].call = buf[h[q]].call
  <2>1. h[q] \in BufIds /\ buf_cnt'[h[q]] > 0
    <3>1. ref'[q] = "buffer" /\ h'[q] = h[q]
      BY <1>2, <1>3
    <3> QED BY <3>1, NextHeld DEF BuffersHeld
  <2>2. CASE h[q] # b
    <3>1. mem'[h[q]] = mem[h[q]] /\ buf'[h[q]] = buf[h[q]]
      BY <1>1, <2>1, <2>2 DEF Detach
    <3> QED BY <3>1, KeptAlone
  <2>3. CASE h[q] = b
    <3>1. buf_cnt \in [BufIds -> Nat] /\ buf_cnt'[b] = buf_cnt[b] - 1
      BY DEF IInv, TypeOK, KernelTypes, Detach
    <3>2. ~(buf_cnt[b] - 1 <= 0)
      BY <2>1, <2>3, <3>1
    <3>3. mem' = mem /\ buf'[b] = SetConnected(buf[b], -1)
      BY <1>1, <3>2 DEF Detach
    <3>4. buf'[b].call = buf[b].call
      BY <1>1, <3>3 DEF SetConnected, BufRec
    <3> QED BY <2>3, <3>3, <3>4, KeptAlone
  <2> QED BY <2>2, <2>3
<1> QED BY <1>2, <1>3

\* With room in the table RESIZE succeeds, and what it reports for a direction
\* is the old block, none, or a block of another size.
LEMMA ResizeSwaps ==
  ASSUME Steady, OneResize, IInv, MemoryInv, NEW c \in Clients, NEW q \in Requests,
         Resize(c, q), mem[h[c]].release_mem = <<>>
  PROVE  /\ h[c] \in BufIds
         /\ \E k \in MemRec :
              /\ mem' = [mem EXCEPT ![h[c]] = k]
              /\ map' = [map EXCEPT ![c] =
                           [d \in Dirs |-> Remap(map[c][d], Report(k, d), q[d])]]
              /\ \A d \in Dirs : \/ Report(k, d) = Report(mem[h[c]], d)
                                 \/ Report(k, d) = NoMem
                                 \/ Report(k, d).size # Report(mem[h[c]], d).size
              /\ \A d \in Dirs : Report(k, d).size = 0 => Report(k, d) = NoMem
<1>1. PICK b, k : b = h[c] /\ k = mem[b]
  OBVIOUS
<1>2. b \in BufIds /\ k \in MemRec /\ blocks \in [Blocks -> Nat]
  BY <1>1 DEF Resize, IInv, TypeOK, MemoryTypes, HandlesConsistent, ClientRef, InSession
<1>3. MemSound(k, blocks)
  BY <1>1, <1>2 DEF MemoryInv
<1>4. "in" \in Dirs /\ "out" \in Dirs /\ Dirs = {"in", "out"}
  BY DEF Dirs
<1>5. PICK i \in ResizeDir(k, blocks, "in", q["in"]) :
           \/ ~i.ok
           \/ /\ i.ok
              /\ \E o \in ResizeDir(i.k, i.bl, "out", q["out"]) :
                   /\ mem' = [mem EXCEPT ![b] = o.k]
                   /\ o.ok => map' = [map EXCEPT ![c] =
                                [d \in Dirs |-> Remap(map[c][d], Report(o.k, d), q[d])]]
  BY <1>1 DEF Resize
<1>6. /\ i.k \in MemRec /\ i.bl \in [Blocks -> Nat] /\ MemSound(i.k, i.bl)
  BY <1>2, <1>3, <1>4, ResizeDirType, ResizeDirGrows
<1>7. /\ k.release_mem = <<>> /\ Len(k.release_mem) = 0
      /\ RESIZE_MAX \in Nat /\ RESIZE_MAX >= 2
  BY <1>1, MemoryAssumption DEF OneResize
<1>8. \A m \in MmzBuffer : Len(LazyRelease(<<>>, m)) \in {0, 1}
  <2> SUFFICES ASSUME NEW m \in MmzBuffer PROVE Len(LazyRelease(<<>>, m)) \in {0, 1}
    OBVIOUS
  <2>1. CASE m.size = 0
    BY <2>1 DEF LazyRelease
  <2>2. CASE m.size # 0
    <3>1. <<>> \in Seq(MmzBuffer) /\ Len(<<>>) = 0
      OBVIOUS
    <3>2. Len(Append(<<>>, m)) = Len(<<>>) + 1
      BY <3>1
    <3> QED BY <2>2, <3>1, <3>2 DEF LazyRelease
  <2> QED BY <2>1, <2>2
\* The request for the in direction.
<1>9. DirSound(k, "in") /\ DirSound(k, "out") /\ DirSound(i.k, "in") /\ DirSound(i.k, "out")
  BY <1>3, <1>4, <1>6 DEF MemSound
<1>10. \/ i.k = k /\ i.bl = blocks /\ (i.ok \/ Len(k.release_mem) = RESIZE_MAX)
       \/ Replaced(k, blocks, "in", q["in"], i)
  BY <1>2, <1>4, <1>9, SteadyResizeDir
<1>11. /\ i.ok /\ Len(i.k.release_mem) \in {0, 1}
       /\ i.k.sMBuf["out"] = k.sMBuf["out"]
       /\ \/ i.k.sMBuf["in"] = k.sMBuf["in"]
          \/ i.k.sMBuf["in"] = NoMem
          \/ i.k.sMBuf["in"].size # k.sMBuf["in"].size
  <2>1. CASE i.k = k /\ (i.ok \/ Len(k.release_mem) = RESIZE_MAX)
    <3>1. Len(k.release_mem) = 0 /\ Len(k.release_mem) # RESIZE_MAX
      BY <1>7
    <3>2. i.ok /\ i.k = k
      BY <2>1, <3>1
    <3> QED BY <3>1, <3>2
  <2>2. CASE Replaced(k, blocks, "in", q["in"], i)
    <3>1. /\ i.ok /\ i.k.sMBuf["out"] = k.sMBuf["out"]
          /\ i.k.release_mem = LazyRelease(<<>>, k.sMBuf["in"])
      BY <1>4, <1>7, <2>2 DEF Replaced
    <3>2. k.sMBuf["in"] \in MmzBuffer
      BY <1>2, <1>4 DEF MemRec
    <3>3. i.k.sMBuf["in"] = NoMem \/ i.k.sMBuf["in"].size # k.sMBuf["in"].size
      BY <2>2, ReplacedSize
    <3> QED BY <1>8, <3>1, <3>2, <3>3
  <2> QED BY <1>10, <2>1, <2>2
\* The request for the out direction.
<1>12. PICK o \in ResizeDir(i.k, i.bl, "out", q["out"]) :
           /\ mem' = [mem EXCEPT ![b] = o.k]
           /\ o.ok => map' = [map EXCEPT ![c] =
                        [d \in Dirs |-> Remap(map[c][d], Report(o.k, d), q[d])]]
  BY <1>5, <1>11
<1>13. o.k \in MemRec /\ MemSound(o.k, o.bl)
  BY <1>4, <1>6, ResizeDirType, ResizeDirGrows
<1>14. \/ o.k = i.k /\ (o.ok \/ Len(i.k.release_mem) = RESIZE_MAX)
       \/ Replaced(i.k, i.bl, "out", q["out"], o)
  BY <1>4, <1>6, <1>9, SteadyResizeDir
<1>15. /\ o.ok /\ o.k.sMBuf["in"] = i.k.sMBuf["in"]
       /\ \/ o.k.sMBuf["out"] = i.k.sMBuf["out"]
          \/ o.k.sMBuf["out"] = NoMem
          \/ o.k.sMBuf["out"].size # i.k.sMBuf["out"].size
  <2>1. CASE o.k = i.k /\ (o.ok \/ Len(i.k.release_mem) = RESIZE_MAX)
    <3> DEFINE n == Len(i.k.release_mem)
    <3>0. n \in {0, 1}
      BY <1>11
    <3>1. n # RESIZE_MAX
      <4> HIDE DEF n
      <4> QED BY <1>7, <3>0
    <3>2. o.ok /\ o.k = i.k
      BY <2>1, <3>1
    <3> QED BY <3>2
  <2>2. CASE Replaced(i.k, i.bl, "out", q["out"], o)
    <3>1. o.ok /\ o.k.sMBuf["in"] = i.k.sMBuf["in"]
      BY <1>4, <2>2 DEF Replaced
    <3>2. o.k.sMBuf["out"] = NoMem \/ o.k.sMBuf["out"].size # i.k.sMBuf["out"].size
      BY <2>2, ReplacedSize
    <3> QED BY <3>1, <3>2
  <2> QED BY <1>14, <2>1, <2>2
<1>16. \A d \in Dirs : /\ Report(o.k, d) = o.k.sMBuf[d] /\ Report(k, d) = k.sMBuf[d]
                       /\ DirSound(o.k, d)
  BY <1>2, <1>3, <1>13, SoundReport DEF MemSound
<1>17. \A d \in Dirs : \/ Report(o.k, d) = Report(k, d)
                       \/ Report(o.k, d) = NoMem
                       \/ Report(o.k, d).size # Report(k, d).size
  BY <1>4, <1>11, <1>15, <1>16
<1>18. \A d \in Dirs : Report(o.k, d).size = 0 => Report(o.k, d) = NoMem
  BY <1>16 DEF DirSound
<1> QED BY <1>1, <1>2, <1>12, <1>13, <1>15, <1>17, <1>18

\* RESIZE: the client maps what the driver now holds, and the worker, which waits
\* for the next call, will notice.
LEMMA ResizeMap ==
  ASSUME Steady, OneResize, IInv, ChannelInv, MemoryInv, SessionInv, MapInv,
         NEW c \in Clients, NEW q \in Requests, Resize(c, q)
  PROVE  MapInv'
<1>1. PICK b, k1 : b = h[c] /\ k1 = mem[b]
  OBVIOUS
<1>2. /\ c \in Users /\ ref[c] = "buffer" /\ c \notin Workers
      /\ map \in [Users -> [Dirs -> MmzBuffer]] /\ mem \in [BufIds -> MemRec]
      /\ resizes \in [Clients -> Nat]
      /\ \A w \in Workers : w \in Users
  BY ConstantsAssumption
  DEF Users, IInv, HandlesConsistent, ClientRef, InSession, Resize, TypeOK, MemoryTypes, DataTypes
<1>3. /\ pc[c] = "open" /\ resizes[c] < MaxResizes /\ UNCHANGED <<pc, h, ref, buf, job>>
      /\ resizes' = [resizes EXCEPT ![c] = @ + 1]
  BY DEF Resize, kernel, data
<1>4. ClientView("open", map[c], k1, resizes[c])
  BY <1>1, <1>3 DEF MapInv, ClientMap
<1>5. resizes[c] = 0 /\ resizes'[c] = 1 /\ \A d \in Clients \ {c} : resizes'[d] = resizes[d]
  BY <1>2, <1>3, <1>4 DEF ClientView, OneResize
<1>6. k1.release_mem = <<>> /\ \A d \in Dirs : map[c][d] = Report(k1, d)
  BY <1>4, <1>5 DEF ClientView
<1>7. PICK k \in MemRec :
           /\ mem' = [mem EXCEPT ![b] = k] /\ b \in BufIds
           /\ map' = [map EXCEPT ![c] =
                        [d \in Dirs |-> Remap(map[c][d], Report(k, d), q[d])]]
           /\ \A d \in Dirs : \/ Report(k, d) = Report(k1, d)
                              \/ Report(k, d) = NoMem
                              \/ Report(k, d).size # Report(k1, d).size
           /\ \A d \in Dirs : Report(k, d).size = 0 => Report(k, d) = NoMem
  BY <1>1, <1>6, ResizeSwaps
<1>8. /\ mem'[b] = k /\ \A a \in BufIds \ {b} : mem'[a] = mem[a]
      /\ \A p \in Users \ {c} : map'[p] = map[p]
      /\ \A d \in Dirs : map'[c][d] = Remap(map[c][d], Report(k, d), q[d])
  BY <1>2, <1>7
<1>9. \A d \in Dirs : map'[c][d] = Report(k, d)
  BY <1>6, <1>7, <1>8 DEF Remap, NoMem
<1>10. ClientMap(c)'
  <2>1. ClientView("open", map'[c], k, 1)
    BY <1>9 DEF ClientView
  <2> QED BY <1>1, <1>3, <1>5, <1>8, <2>1 DEF ClientMap
<1>11. ASSUME NEW w \in Workers, h[w] = b PROVE WorkerMap(w)'
  <2>1. WorkerView(pc[w], job[w].op, map[w], k1)
    BY <1>1, <1>11 DEF MapInv, WorkerMap
  <2>2. buf[b].call = 0 /\ Serving(b) = {}
    BY <1>1, <1>3 DEF SessionInv, Session, SessionOf
  <2>3. pc[w] \notin {"woken", "exec", "answer"}
    BY <1>11, <2>2 DEF Serving
  <2>4. CASE pc[w] \in {"start", "accepting"}
    <3>1. \A d \in Clients : ref[d] = "buffer" /\ h[d] = b => d = c
      BY <1>1, <1>2 DEF ChannelInv, OneClientPerBuffer
    <3>2. Settled(w)
      BY <1>5, <1>11, <2>2, <2>4, <3>1 DEF Settled
    <3>3. \A d \in Dirs : map[w][d] \in {NoMem, Report(k1, d)}
      BY <1>1, <1>11, <3>2 DEF MapInv, WorkerMap
    <3>4. \A d \in Dirs : Report(k1, d).size = 0 => Report(k1, d) = NoMem
      BY <1>1, <1>7, ReportSound
    <3>5. \A d \in Dirs : map[w][d].size = Report(k, d).size => map[w][d] = Report(k, d)
      BY <1>7, <3>3, <3>4 DEF NoMem
    <3>6. WorkerView(pc[w], job[w].op, map[w], k)
      BY <2>4, <3>5 DEF WorkerView
    <3>7. ~Settled(w)'
      BY <1>1, <1>2, <1>3, <1>5, <1>11 DEF Settled
    <3> QED BY <1>2, <1>3, <1>8, <1>11, <3>6, <3>7 DEF WorkerMap
  <2>5. CASE pc[w] \notin {"start", "accepting"}
    <3>1. WorkerView(pc[w], job[w].op, map[w], k)
      BY <2>1, <2>3, <2>5 DEF WorkerView
    <3>2. ~Settled(w)'
      BY <1>3, <2>5 DEF Settled
    <3> QED BY <1>2, <1>3, <1>8, <1>11, <3>1, <3>2 DEF WorkerMap
  <2> QED BY <2>4, <2>5
<1> DEFINE P == {c} \cup {w \in Workers : h[w] = b}
<1>12. /\ \A p \in Users : p \notin P => pc'[p] = pc[p] /\ map'[p] = map[p] /\ h'[p] = h[p]
       /\ \A d \in Clients : d \notin P => resizes'[d] = resizes[d]
       /\ \A w \in Workers : w \notin P => job'[w] = job[w]
       /\ \A d \in Clients : d \in P => ClientMap(d)'
       /\ \A w \in Workers : w \in P => WorkerMap(w)'
  <2>1. \A d \in Clients : d \in P => d = c
    BY ConstantsAssumption
  <2> QED BY <1>2, <1>3, <1>5, <1>8, <1>10, <1>11, <2>1
<1>13. ASSUME NEW p \in Users, p \notin P, ref[p] = "buffer" PROVE LeftAlone(h[p])
  <2>1. h[p] # b
    <3>1. CASE p \in Workers
      BY <1>13, <3>1
    <3>2. CASE p \in Clients
      BY <1>1, <1>2, <1>13, <3>2 DEF ChannelInv, OneClientPerBuffer
    <3> QED BY <3>1, <3>2 DEF Users
  <2>2. h[p] \in BufIds
    BY <1>13, HeldLive
  <2> QED BY <1>8, <2>1, <2>2, KeptAlone
<1>14. ASSUME NEW w \in Workers, w \notin P PROVE Settled(w)' => Settled(w)
  <2>1. \A d \in Clients : ref[d] = "buffer" /\ h[d] = h[w] => resizes'[d] = resizes[d]
    BY <1>1, <1>5, <1>14
  <2> QED BY <1>3, <2>1, SettledBefore
<1> HIDE DEF P
<1> QED BY <1>12, <1>13, <1>14, MapFrame

\* A step of client c that touches no memory.
LEMMA ClientMapMoves ==
  ASSUME IInv, MapInv, NEW c \in Clients, NEW l, Goto(c, l), mem' = mem,
         UNCHANGED <<map, job>>, ClientMap(c)',
         \A p \in Users \ {c} : h'[p] = h[p],
         \A d \in Clients \ {c} : resizes'[d] = resizes[d] /\ ref'[d] = ref[d],
         \A w \in Workers : Settled(w)' => Settled(w)
  PROVE  MapInv'
<1>1. /\ \A w \in Workers : w \in Users /\ w # c
      /\ pc \in [Procs -> ClientPcs \cup ServerPcs \cup WorkerPcs]
      /\ \A p \in Users : p \in Procs
  BY ConstantsAssumption DEF IInv, TypeOK, ControlTypes, Users, Procs
<1>2. \A p \in Users \ {c} : pc'[p] = pc[p]
  BY <1>1 DEF Goto
<1> DEFINE P == {c}
<1>3. /\ \A p \in Users : p \notin P => pc'[p] = pc[p] /\ map'[p] = map[p] /\ h'[p] = h[p]
      /\ \A d \in Clients : d \notin P => resizes'[d] = resizes[d]
      /\ \A w \in Workers : w \notin P => job'[w] = job[w]
      /\ \A d \in Clients : d \in P => ClientMap(d)'
      /\ \A w \in Workers : w \in P => WorkerMap(w)'
  BY <1>1, <1>2
<1>4. \A b : LeftAlone(b)
  BY KeptAlone
<1> HIDE DEF P
<1> QED BY <1>3, <1>4, MapFrame

\* Every step of a client keeps both sides' mappings current.
LEMMA ClientMaps ==
  ASSUME Steady, Orderly, OneResize, IInv, IInv', ChannelInv, Places', MemoryInv, SessionInv,
         DoneClear, MapInv, NEW c \in Clients, ClientNext(c)
  PROVE  MapInv'
<1>1. /\ c \in Procs /\ c \in Users /\ c \notin Workers /\ ClientRef(c)
      /\ NameOf[c] \in Names /\ TidOf[c] \in Tids
      /\ \A w \in Workers : w \in Users /\ w \in Procs /\ w # c
      /\ \A d \in Clients : d \in Users /\ d \in Procs
      /\ buf \in [BufIds -> BufRec] /\ h \in [Users -> BufIds \cup {NoBuf}]
      /\ mem \in [BufIds -> MemRec] /\ resizes \in [Clients -> Nat]
      /\ ref \in [Procs -> {"none", "name", "thread", "buffer"}]
      /\ pc \in [Procs -> ClientPcs \cup ServerPcs \cup WorkerPcs]
  BY ConstantsAssumption
  DEF Procs, Users, IInv, HandlesConsistent, TypeOK, HandleTypes, KernelTypes, ControlTypes,
      MemoryTypes, DataTypes
<1>2. \A l : Goto(c, l) => pc'[c] = l /\ \A p \in Procs \ {c} : pc'[p] = pc[p]
  BY <1>1 DEF Goto
<1>3. /\ ClientView(pc[c], map[c], mem[h[c]], resizes[c])
      /\ pc[c] \in InSession => ref[c] = "buffer" /\ h[c] \in BufIds
      /\ \A w \in Workers : pc[w] \in {"start", "accepting"} =>
            h[w] \in BufIds /\ buf_cnt[h[w]] > 0
  BY SessionFacts DEF MapInv, ClientMap
<1>4. CASE OpenFile(c)
  <2>1. /\ Goto(c, "file") /\ pc[c] = "closed" /\ UNCHANGED <<mem, map, job, resizes, h, ref, buf>>
    BY <1>4 DEF OpenFile, memory, data, bounds
  <2>2. ClientMap(c)'
    BY <1>2, <1>3, <2>1 DEF ClientMap, ClientView
  <2>3. \A w \in Workers : Settled(w)' => Settled(w)
    BY <1>1, <1>2, <2>1, SettledBefore
  <2> QED BY <2>1, <2>2, <2>3, ClientMapMoves
<1>5. CASE AttachClient(c)
  <2> DEFINE n == NameOf[c]
             t == TidOf[c]
  <2>1. pc[c] = "file" /\ UNCHANGED <<map, job, resizes>> /\ ref[c] = "none"
    BY <1>1, <1>5 DEF AttachClient, data, bounds, ClientRef
  <2>2. ASSUME NEW b, h' = [h EXCEPT ![c] = b], \A p \in Procs \ {c} : ref'[p] = ref[p],
               NEW l, Goto(c, l), mem' = mem, ClientView(l, map[c], mem[b], resizes[c]),
               \A w \in Workers : pc[w] \in {"start", "accepting"} => buf'[h[w]] = buf[h[w]]
        PROVE  MapInv'
    <3>1. h'[c] = b /\ \A p \in Users \ {c} : h'[p] = h[p]
      BY <1>1, <2>2
    <3>2. ClientMap(c)'
      BY <1>2, <2>1, <2>2, <3>1 DEF ClientMap
    <3>3. \A w \in Workers : Settled(w)' => Settled(w)
      <4> SUFFICES ASSUME NEW w \in Workers PROVE Settled(w)' => Settled(w)
        OBVIOUS
      <4>1. pc'[w] = pc[w] /\ h'[w] = h[w]
        BY <1>1, <1>2, <2>2, <3>1
      <4>2. \A d \in Clients : ref[d] = "buffer" =>
              ref'[d] = "buffer" /\ h'[d] = h[d] /\ resizes'[d] = resizes[d]
        BY <1>1, <2>1, <2>2, <3>1
      <4> QED BY <2>2, <4>1, <4>2, SettledBefore
    <3> QED BY <1>1, <2>1, <2>2, <3>1, <3>2, <3>3, ClientMapMoves
  <2>3. ASSUME NEW i \in FreeSlots(n, t), h' = [h EXCEPT ![c] = <<n, t, i>>],
               buf' = [buf EXCEPT ![<<n, t, i>>] = Buf0],
               mem' = [mem EXCEPT ![<<n, t, i>>] = Mem0],
               ref' = [ref EXCEPT ![c] = "buffer"], Goto(c, "open")
        PROVE  MapInv'
    <3>1. PICK b : b = <<n, t, i>>
      OBVIOUS
    <3>2. b \in BufIds /\ buf_cnt[b] = 0
      BY <1>1, <3>1 DEF FreeSlots, BufIds
    <3>3. mem[b] = Mem0
      BY <3>2 DEF MemoryInv, Emptied
    <3>4. mem' = mem
      BY <1>1, <2>3, <3>1, <3>2, <3>3
    <3>5. ClientView("open", map[c], mem[b], resizes[c])
      <4>1. map[c] = NoMap /\ resizes[c] = 0
        BY <1>3, <2>1 DEF ClientView
      <4>2. Mem0.release_mem = <<>> /\ \A d \in Dirs : Report(Mem0, d) = NoMem
        BY EmptyMemory DEF Mem0
      <4> QED BY <3>3, <4>1, <4>2 DEF ClientView, NoMap
    <3>6. \A w \in Workers : pc[w] \in {"start", "accepting"} => buf'[h[w]] = buf[h[w]]
      BY <1>1, <1>3, <2>3, <3>1, <3>2
    <3>7. \A p \in Procs \ {c} : ref'[p] = ref[p]
      BY <1>1, <2>3
    <3> QED BY <2>2, <2>3, <3>1, <3>4, <3>5, <3>6, <3>7
  <2>4. ASSUME h' = [h EXCEPT ![c] = <<n, t, 0>>], ref' = [ref EXCEPT ![c] = "thread"],
               UNCHANGED <<buf, mem>>, Goto(c, "failed")
        PROVE  MapInv'
    <3>1. ClientView("failed", map[c], mem[<<n, t, 0>>], resizes[c])
      BY <1>3, <2>1 DEF ClientView
    <3>2. \A p \in Procs \ {c} : ref'[p] = ref[p]
      BY <1>1, <2>4
    <3> QED BY <2>2, <2>4, <3>1, <3>2
  <2> QED BY <1>5, <2>3, <2>4 DEF AttachClient
<1>6. ASSUME NEW l, Goto(c, l), ReleaseFile, UNCHANGED <<map, job, resizes, h>>,
             \/ l = "crashed"
             \/ pc[c] = "detached" /\ l = "closed"
             \/ pc[c] = "failed" /\ l = "gone"
      PROVE  MapInv'
  <2>1. CASE LastFile
    <3>1. /\ \A w \in Workers : pc'[w] = pc[w]
          /\ \A d \in Clients : \/ pc'[d] = pc[d]
                                \/ pc'[d] = "crashed"
                                \/ pc[d] = "detached" /\ pc'[d] = "closed"
                                \/ pc[d] = "failed" /\ pc'[d] = "gone"
      BY <1>1, <1>2, <1>6
    <3> QED BY <1>6, <2>1, <3>1, LastMap
  <2>2. CASE ~LastFile
    <3>1. mem' = mem /\ ref' = ref /\ buf' = buf
      BY <1>6, <2>2 DEF ReleaseFile
    <3>2. ClientMap(c)'
      <4>1. ClientView(l, map[c], mem[h[c]], resizes[c])
        BY <1>3, <1>6 DEF ClientView
      <4> QED BY <1>2, <1>6, <3>1, <4>1 DEF ClientMap
    <3>3. \A w \in Workers : Settled(w)' => Settled(w)
      BY <1>1, <1>2, <1>6, <3>1, SettledBefore
    <3> QED BY <1>6, <3>1, <3>2, <3>3, ClientMapMoves
  <2> QED BY <2>1, <2>2
<1>7. CASE CloseFile(c)
  <2>1. /\ ReleaseFile /\ UNCHANGED <<map, job, resizes, h>>
        /\ \/ pc[c] = "detached" /\ Goto(c, "closed")
           \/ pc[c] = "failed" /\ Goto(c, "gone")
    BY <1>7 DEF CloseFile, data, bounds
  <2> QED BY <1>6, <2>1
<1>8. CASE CrashClient(c)
  BY <1>6, <1>8 DEF CrashClient, data
<1>9. ASSUME NEW q \in Requests, Resize(c, q) PROVE MapInv'
  BY <1>9, ResizeMap
<1>10. ASSUME NEW what, Post(c, what), pc[c] \in {"open", "again"}, resizes'[c] = 0,
              \A d \in Clients \ {c} : resizes'[d] = resizes[d]
       PROVE  MapInv'
  <2>1. /\ Goto(c, "calling") /\ UNCHANGED <<mem, map, job, h, ref>>
        /\ buf' = [buf EXCEPT ![h[c]] = PostCall(buf[h[c]], what)]
        /\ pc[c] \in InSession
    BY <1>10 DEF Post, memory, InSession
  <2>2. ClientMap(c)'
    <3>1. ClientView("calling", map[c], mem[h[c]], 0)
      BY <1>3, <1>10 DEF ClientView
    <3> QED BY <1>2, <1>10, <2>1, <3>1 DEF ClientMap
  <2>3. buf'[h[c]].call # 0 /\ \A b \in BufIds \ {h[c]} : buf'[b] = buf[b]
    <3>1. h[c] \in BufIds /\ buf[h[c]] \in BufRec
      BY <1>1, <1>3, <2>1
    <3>2. PostCall(buf[h[c]], what).call = buf[h[c]].call + 1 /\ buf[h[c]].call \in Nat
      BY <3>1 DEF PostCall, BufRec
    <3> QED BY <1>1, <2>1, <3>1, <3>2
  <2>4. ASSUME NEW w \in Workers PROVE Settled(w)' => Settled(w)
    <3>1. CASE h[w] = h[c]
      BY <2>1, <2>3, <3>1 DEF Settled
    <3>2. CASE h[w] # h[c]
      <4>1. \A d \in Clients : ref[d] = "buffer" /\ h[d] = h[w] =>
              ref'[d] = "buffer" /\ h'[d] = h[d] /\ resizes'[d] = resizes[d]
        BY <1>10, <2>1, <3>2
      <4>2. pc[w] \in {"start", "accepting"} => buf'[h[w]] = buf[h[w]]
        BY <1>3, <2>3, <3>2
      <4> QED BY <1>1, <1>2, <2>1, <4>1, <4>2, SettledBefore
    <3> QED BY <3>1, <3>2
  <2> QED BY <1>10, <2>1, <2>2, <2>4, ClientMapMoves
<1>11. ASSUME NEW op \in Ops, Call(c, op) PROVE MapInv'
  <2>1. /\ pc[c] = "open" /\ Post(c, [op |-> op, tag |-> 1 - tag[c]])
        /\ resizes' = [resizes EXCEPT ![c] = 0]
    BY <1>11 DEF Call
  <2> QED BY <1>1, <1>10, <2>1
<1>12. CASE CallAgain(c)
  <2>1. pc[c] = "again" /\ Post(c, buf[h[c]].do_what) /\ resizes' = resizes
    BY <1>12 DEF CallAgain
  <2>2. resizes[c] = 0
    BY <1>3, <2>1 DEF ClientView
  <2> QED BY <1>10, <2>1, <2>2
<1>13. CASE CallDone(c)
  <2>1. /\ Goto(c, AfterCall(c)) /\ UNCHANGED <<mem, map, job, h, ref, resizes>>
        /\ buf' = [buf EXCEPT ![h[c]] = TakeDone(buf[h[c]])]
        /\ pc[c] = "calling" /\ buf[h[c]].done > 0
    BY <1>13 DEF CallDone, memory, data, bounds
  <2>2. h[c] \in BufIds /\ mem[h[c]].release_mem = <<>>
    BY <1>3, <2>1 DEF DoneClear, InSession
  <2>3. ClientMap(c)'
    <3>1. ClientView(AfterCall(c), map[c], mem[h[c]], resizes[c])
      BY <1>3, <2>1, <2>2 DEF ClientView, AfterCall
    <3> QED BY <1>2, <2>1, <3>1 DEF ClientMap
  <2>4. \A b \in BufIds : buf'[b].call = buf[b].call
    <3>1. buf[h[c]] \in BufRec
      BY <1>1, <2>2
    <3>2. TakeDone(buf[h[c]]).call = buf[h[c]].call
      BY <3>1 DEF TakeDone, BufRec
    <3> QED BY <1>1, <2>1, <2>2, <3>2
  <2>5. \A w \in Workers : Settled(w)' => Settled(w)
    BY <1>1, <1>2, <1>3, <2>1, <2>4, SettledBefore
  <2> QED BY <2>1, <2>3, <2>5, ClientMapMoves
<1>14. CASE CallInterrupted(c)
  <2>1. /\ Goto(c, "again") /\ pc[c] = "calling" /\ UNCHANGED <<mem, map, job, resizes, h, ref, buf>>
    BY <1>14 DEF CallInterrupted, memory, data, kernel
  <2>2. ClientMap(c)'
    BY <1>2, <1>3, <2>1 DEF ClientMap, ClientView
  <2>3. \A w \in Workers : Settled(w)' => Settled(w)
    BY <1>1, <1>2, <2>1, SettledBefore
  <2> QED BY <2>1, <2>2, <2>3, ClientMapMoves
<1>15. ~CallTimeout(c)
  BY DEF CallTimeout, Fault, Orderly
<1>16. CASE CloseClient(c)
  <2>1. PICK b : b = h[c]
    OBVIOUS
  <2>2. /\ pc[c] = "last" /\ b \in BufIds /\ Detach(c, b) /\ buf_cnt[b] > 0 /\ job' = job
        /\ h' = [h EXCEPT ![c] = NoBuf] /\ Goto(c, "detached")
        /\ resizes' = [resizes EXCEPT ![c] = 0]
    BY <1>3, <1>16, <2>1 DEF CloseClient, Fault, Orderly, InSession, Found
  <2>3. resizes'[c] = 0 /\ resizes[c] = 0 /\ \A d \in Clients \ {c} : resizes'[d] = resizes[d]
    BY <1>1, <1>3, <2>2 DEF ClientView
  <2>4. \A p \in Users \ {c} : h'[p] = h[p]
    BY <1>1, <2>2
  <2>5. /\ map'[c] = NoMap
        /\ \A p \in Users \ {c} : map'[p] = map[p] /\ ref'[p] = ref[p]
        /\ \A p \in Users \ {c} : ref[p] = "buffer" =>
              LeftAlone(h[p]) /\ buf'[h[p]].call = buf[h[p]].call
    BY <1>1, <2>2, <2>4, DetachMap
  <2>6. ClientMap(c)'
    <3>1. \A k : ClientView("detached", NoMap, k, 0)
      BY DEF ClientView
    <3> QED BY <1>2, <2>2, <2>3, <2>5, <3>1 DEF ClientMap
  <2>7. ASSUME NEW w \in Workers PROVE Settled(w)' => Settled(w)
    <3>1. \A d \in Clients : ref[d] = "buffer" /\ h[d] = h[w] =>
            resizes[d] = 0 \/ (ref'[d] = "buffer" /\ h'[d] = h[d] /\ resizes'[d] = resizes[d])
      BY <1>1, <2>3, <2>4, <2>5
    <3>2. pc[w] \in {"start", "accepting"} => buf'[h[w]].call = buf[h[w]].call
      BY <1>1, <2>5, SessionFacts
    <3> QED BY <1>1, <1>2, <2>2, <2>4, <3>1, <3>2, SettledBefore
  <2> DEFINE P == {c}
  <2>8. /\ \A p \in Users : p \notin P => pc'[p] = pc[p] /\ map'[p] = map[p] /\ h'[p] = h[p]
        /\ \A d \in Clients : d \notin P => resizes'[d] = resizes[d]
        /\ \A w \in Workers : w \notin P => job'[w] = job[w]
        /\ \A p \in Users : p \notin P /\ ref[p] = "buffer" => LeftAlone(h[p])
        /\ \A d \in Clients : d \in P => ClientMap(d)'
        /\ \A w \in Workers : w \in P => WorkerMap(w)'
    <3>1. \A p \in Users : p \in Procs
      BY DEF Users, Procs
    <3> QED BY <1>1, <1>2, <2>2, <2>3, <2>4, <2>5, <2>6, <3>1
  <2> HIDE DEF P
  <2> QED BY <2>7, <2>8, MapFrame
<1> QED BY <1>4, <1>5, <1>7, <1>8, <1>9, <1>11, <1>12, <1>13, <1>14, <1>15, <1>16 DEF ClientNext

\* A step that leaves clients, workers and their memory where they are.
LEMMA QuietMap ==
  ASSUME IInv, MapInv, mem' = mem, UNCHANGED <<map, job, resizes>>,
         \A p \in Users : pc'[p] = pc[p] /\ h'[p] = h[p] /\ ref'[p] = ref[p],
         \A b \in BufIds : buf'[b].call = buf[b].call
  PROVE  MapInv'
<1>1. /\ \A w \in Workers : w \in Users /\ WorkerRef(w)
      /\ \A c \in Clients : c \in Users
  BY DEF Users, IInv, HandlesConsistent
<1>2. ASSUME NEW w \in Workers PROVE Settled(w)' => Settled(w)
  <2>1. pc[w] \in {"start", "accepting"} => h[w] \in BufIds
    BY <1>1 DEF WorkerRef, Attached
  <2> QED BY <1>1, <2>1, SettledBefore
<1>3. \A b : LeftAlone(b)
  BY KeptAlone
<1> DEFINE P == {}
<1>4. /\ \A p \in Users : p \notin P
      /\ \A c \in Clients : c \notin P
      /\ \A w \in Workers : w \notin P
  OBVIOUS
<1> HIDE DEF P
<1> QED BY <1>2, <1>3, <1>4, MapFrame

\* Every step of a server keeps both sides' mappings current.
LEMMA ServerMaps ==
  ASSUME IInv, IInv', Places', MemoryInv, MapInv, NEW s \in Servers, ServerNext(s)
  PROVE  MapInv'
<1>1. /\ s \in Procs /\ s \notin Users
      /\ \A p \in Users : p \in Procs /\ p # s
      /\ \A c \in Clients : c \in Users /\ c \in Procs /\ c \notin Workers
      /\ \A w \in Workers : w \in Users /\ w \in Procs /\ WorkerRef(w)
      /\ buf \in [BufIds -> BufRec] /\ h \in [Users -> BufIds \cup {NoBuf}]
      /\ ref \in [Procs -> {"none", "name", "thread", "buffer"}]
      /\ pc \in [Procs -> ClientPcs \cup ServerPcs \cup WorkerPcs]
  BY ConstantsAssumption
  DEF Procs, Users, IInv, HandlesConsistent, TypeOK, HandleTypes, KernelTypes, ControlTypes
<1>2. \A l : Goto(s, l) => \A p \in Users : pc'[p] = pc[p]
  BY <1>1 DEF Goto
<1>3. CASE OpenFile(s) \/ Listen(s) \/ ListenWake(s) \/ ListenInterrupted(s)
  <2>1. UNCHANGED <<mem, map, job, resizes, h, ref, buf>> /\ \E l : Goto(s, l)
    BY <1>3 DEF OpenFile, Listen, ListenWake, ListenInterrupted, memory, data, bounds, kernel
  <2> QED BY <1>2, <2>1, QuietMap
<1>4. CASE AttachServer(s) \/ CloseServer(s)
  <2>1. /\ UNCHANGED <<mem, map, job, resizes, h, buf>> /\ \E l : Goto(s, l)
        /\ ref' = [ref EXCEPT ![s] = "name"] \/ ref' = [ref EXCEPT ![s] = "none"]
    BY <1>4 DEF AttachServer, CloseServer, memory, data, bounds
  <2>2. \A p \in Users : ref'[p] = ref[p]
    BY <1>1, <2>1
  <2> QED BY <1>2, <2>1, <2>2, QuietMap
<1>5. CASE CloseFile(s)
  <2>1. /\ ReleaseFile /\ UNCHANGED <<map, job, resizes, h>>
        /\ \A p \in Users : pc'[p] = pc[p]
    BY <1>2, <1>5 DEF CloseFile, data, bounds
  <2>2. CASE LastFile
    BY <1>1, <2>1, <2>2, LastMap
  <2>3. CASE ~LastFile
    BY <2>1, <2>3, QuietMap DEF ReleaseFile
  <2> QED BY <2>2, <2>3
<1>6. CASE ListenPick(s)
  <2>1. UNCHANGED <<mem, map, job, resizes>>
    BY <1>6 DEF ListenPick, memory, data, bounds
  <2>2. ASSUME Goto(s, "ready"), UNCHANGED <<h, ref, buf>> PROVE MapInv'
    BY <1>2, <2>1, <2>2, QuietMap
  <2>3. ASSUME NEW w \in IdleWorkers(s), NEW b \in Unconnected(NameOf[s]),
               h' = [h EXCEPT ![w] = b], ref' = [ref EXCEPT ![w] = "buffer"],
               buf' = [buf EXCEPT ![b] = SetConnected(buf[b], 1)],
               pc' = [pc EXCEPT ![s] = "ready", ![w] = "start"]
        PROVE  MapInv'
    <3>1. w \in Workers /\ pc[w] = "idle" /\ b \in BufIds
      BY DEF IdleWorkers, Unconnected
    <3>2. /\ pc'[w] = "start" /\ h'[w] = b
          /\ \A p \in Users \ {w} : pc'[p] = pc[p] /\ h'[p] = h[p] /\ ref'[p] = ref[p]
      BY <1>1, <2>3, <3>1
    <3>3. \A a \in BufIds : buf'[a].call = buf[a].call
      <4>1. SetConnected(buf[b], 1).call = buf[b].call
        BY <1>1, <3>1 DEF SetConnected, BufRec
      <4> QED BY <1>1, <2>3, <3>1, <4>1
    <3>4. map[w] = NoMap
      BY <3>1 DEF MapInv, WorkerMap, WorkerView
    <3>5. \A d \in Dirs : map[w][d] = NoMem
      BY <3>4 DEF NoMap
    <3>6. WorkerMap(w)'
      <4>1. \A d \in Dirs : map[w][d].size = Report(mem[b], d).size => map[w][d] = Report(mem[b], d)
        BY <3>1, <3>5, ReportSound DEF NoMem
      <4>2. WorkerView("start", job[w].op, map[w], mem[b])
        BY <4>1 DEF WorkerView
      <4> QED BY <2>1, <3>2, <3>5, <4>2 DEF WorkerMap
    <3>7. ASSUME NEW v \in Workers, v # w PROVE Settled(v)' => Settled(v)
      <4>1. pc[v] \in {"start", "accepting"} => h[v] \in BufIds
        BY <1>1 DEF WorkerRef, Attached
      <4>2. \A c \in Clients : c # w
        BY <1>1, <3>1
      <4> QED BY <1>1, <2>1, <3>2, <3>3, <3>7, <4>1, <4>2, SettledBefore
    <3>8. \A a : LeftAlone(a)
      BY <2>1, KeptAlone
    <3> DEFINE P == {w}
    <3>9. /\ \A p \in Users : p \notin P => pc'[p] = pc[p] /\ map'[p] = map[p] /\ h'[p] = h[p]
          /\ \A c \in Clients : c \notin P => resizes'[c] = resizes[c]
          /\ \A v \in Workers : v \notin P => job'[v] = job[v]
          /\ \A v \in Workers : v \notin P /\ Settled(v)' => Settled(v)
          /\ \A c \in Clients : c \in P => ClientMap(c)'
          /\ \A v \in Workers : v \in P => WorkerMap(v)'
      BY <1>1, <2>1, <3>1, <3>2, <3>6, <3>7
    <3> HIDE DEF P
    <3> QED BY <3>8, <3>9, MapFrame
  <2> QED BY <1>6, <2>2, <2>3 DEF ListenPick
<1>7. CASE CrashServer(s)
  <2> DEFINE P == {w \in Workers : BossOf[w] = s}
  <2>1. /\ ReleaseFile /\ UNCHANGED <<map, job, resizes, h>>
        /\ \A p \in Users : p \notin P => pc'[p] = pc[p]
        /\ \A p \in P : p \in Workers /\ pc'[p] = "crashed"
    BY <1>1, <1>7 DEF CrashServer, data, bounds
  <2>2. CASE LastFile
    BY <1>1, <2>1, <2>2, LastMap
  <2>3. CASE ~LastFile
    <3>1. UNCHANGED <<mem, ref, buf>>
      BY <2>1, <2>3 DEF ReleaseFile
    <3>2. \A b : LeftAlone(b)
      BY <3>1, KeptAlone
    <3>3. ASSUME NEW w \in Workers, w \notin P PROVE Settled(w)' => Settled(w)
      BY <1>1, <2>1, <3>1, <3>3, SettledBefore
    <3>4. ASSUME NEW w \in P PROVE WorkerMap(w)'
      <4>1. \A k : WorkerView("crashed", job[w].op, map[w], k)
        BY DEF WorkerView
      <4>2. ~Settled(w)'
        BY <2>1 DEF Settled
      <4> QED BY <2>1, <4>1, <4>2 DEF WorkerMap
    <3>5. \A c \in Clients : c \notin P
      BY <1>1
    <3> HIDE DEF P
    <3> QED BY <2>1, <3>2, <3>3, <3>4, <3>5, MapFrame
  <2> QED BY <2>2, <2>3
<1> QED BY <1>3, <1>4, <1>5, <1>6, <1>7 DEF ServerNext

\* A step of worker w that disturbs nobody else.
LEMMA WorkerMapMoves ==
  ASSUME IInv, MapInv, NEW w \in Workers, resizes' = resizes, WorkerMap(w)',
         \A p \in Users \ {w} : /\ pc'[p] = pc[p] /\ map'[p] = map[p]
                                /\ h'[p] = h[p] /\ ref'[p] = ref[p],
         \A v \in Workers \ {w} : job'[v] = job[v],
         \A p \in Users \ {w} : ref[p] = "buffer" => LeftAlone(h[p]),
         \A v \in Workers \ {w} : ref[v] = "buffer" => buf'[h[v]].call = buf[h[v]].call
  PROVE  MapInv'
<1>1. /\ \A v \in Workers : v \in Users /\ WorkerRef(v)
      /\ \A c \in Clients : c \in Users /\ c # w
  BY ConstantsAssumption DEF Users, IInv, HandlesConsistent
<1>2. ASSUME NEW v \in Workers, v # w PROVE Settled(v)' => Settled(v)
  <2>1. pc[v] \in {"start", "accepting"} => ref[v] = "buffer"
    BY <1>1 DEF WorkerRef, Attached
  <2> QED BY <1>1, <1>2, <2>1, SettledBefore
<1> DEFINE P == {w}
<1>3. /\ \A p \in Users : p \notin P => pc'[p] = pc[p] /\ map'[p] = map[p] /\ h'[p] = h[p]
      /\ \A c \in Clients : c \notin P => resizes'[c] = resizes[c]
      /\ \A v \in Workers : v \notin P => job'[v] = job[v]
      /\ \A p \in Users : p \notin P /\ ref[p] = "buffer" => LeftAlone(h[p])
      /\ \A v \in Workers : v \notin P /\ Settled(v)' => Settled(v)
      /\ \A c \in Clients : c \in P => ClientMap(c)'
      /\ \A v \in Workers : v \in P => WorkerMap(v)'
  BY <1>1, <1>2
<1> HIDE DEF P
<1> QED BY <1>3, MapFrame

\* Every step of a worker keeps both sides' mappings current.
LEMMA WorkerMaps ==
  ASSUME IInv, IInv', ChannelInv, MemoryInv, MapInv, NEW w \in Workers, WorkerNext(w)
  PROVE  MapInv'
<1>1. /\ w \in Procs /\ w \in Users /\ WorkerRef(w)
      /\ \A p \in Users : p \in Procs
      /\ buf \in [BufIds -> BufRec] /\ h \in [Users -> BufIds \cup {NoBuf}]
      /\ map \in [Users -> [Dirs -> MmzBuffer]] /\ job \in [Workers -> Job]
      /\ mem \in [BufIds -> MemRec]
      /\ pc \in [Procs -> ClientPcs \cup ServerPcs \cup WorkerPcs]
  BY ConstantsAssumption
  DEF Procs, Users, IInv, HandlesConsistent, TypeOK, HandleTypes, KernelTypes, ControlTypes,
      MemoryTypes, DataTypes
<1>2. \A l : Goto(w, l) => pc'[w] = l /\ \A p \in Users \ {w} : pc'[p] = pc[p]
  BY <1>1 DEF Goto
<1>3. WorkerView(pc[w], job[w].op, map[w], mem[h[w]])
  BY DEF MapInv, WorkerMap
<1>4. /\ \A p \in Users : ref[p] = "buffer" => h[p] \in BufIds
      /\ \A v \in Workers : v \in Users
  BY HeldLive DEF Users
<1>5. CASE Accept(w) \/ AcceptInterrupted(w)
  <2>1. /\ UNCHANGED <<mem, map, job, resizes, h, ref, buf>> /\ pc[w] \in {"start", "accepting"}
        /\ \E l \in {"start", "accepting"} : Goto(w, l)
    BY <1>5 DEF Accept, AcceptInterrupted, memory, data, bounds, kernel
  <2>2. pc'[w] \in {"start", "accepting"}
    BY <1>2, <2>1
  <2>3. WorkerMap(w)'
    <3>1. WorkerView(pc'[w], job[w].op, map[w], mem[h[w]])
      BY <1>3, <2>1, <2>2 DEF WorkerView
    <3>2. Settled(w)' => Settled(w)
      BY <2>1 DEF Settled
    <3>3. Settled(w) => \A d \in Dirs : map[w][d] \in {NoMem, Report(mem[h[w]], d)}
      BY DEF MapInv, WorkerMap
    <3> QED BY <2>1, <3>1, <3>2, <3>3 DEF WorkerMap
  <2> QED BY <1>2, <2>1, <2>3, KeptAlone, WorkerMapMoves
<1>6. CASE AcceptWake(w)
  <2>1. /\ UNCHANGED <<mem, map, job, resizes, h, ref>> /\ pc[w] = "accepting" /\ Goto(w, "woken")
        /\ buf' = [buf EXCEPT ![h[w]] = TakeCall(buf[h[w]])]
    BY <1>6 DEF AcceptWake, memory, data, bounds
  <2>2. WorkerMap(w)'
    <3>1. WorkerView("woken", job[w].op, map[w], mem[h[w]])
      BY <1>3, <2>1 DEF WorkerView
    <3>2. ~Settled(w)'
      BY <1>2, <2>1 DEF Settled
    <3> QED BY <1>2, <2>1, <3>1, <3>2 DEF WorkerMap
  <2>3. ASSUME NEW v \in Workers \ {w}, ref[v] = "buffer" PROVE buf'[h[v]] = buf[h[v]]
    <3>1. ref[w] = "buffer"
      BY <1>1, <2>1 DEF WorkerRef, Attached
    <3>2. h[v] # h[w]
      BY <2>3, <3>1 DEF ChannelInv, OneWorkerPerBuffer
    <3> QED BY <1>1, <1>4, <2>1, <2>3, <3>2
  <2> QED BY <1>2, <2>1, <2>2, <2>3, KeptAlone, WorkerMapMoves
<1>7. CASE AcceptRead(w)
  <2>1. /\ UNCHANGED <<mem, resizes, h, ref, buf>> /\ pc[w] = "woken" /\ Goto(w, "exec")
        /\ job' = [job EXCEPT ![w] = buf[h[w]].do_what]
        /\ map' = [map EXCEPT ![w] =
                     [d \in Dirs |-> Remap(map[w][d], Report(mem[h[w]], d),
                                           Report(mem[h[w]], d).size)]]
    BY <1>7 DEF AcceptRead, bounds, kernel
  <2>2. h[w] \in BufIds
    BY <1>1, <2>1 DEF WorkerRef, Attached
  <2>3. ASSUME NEW d \in Dirs PROVE map'[w][d] = Report(mem[h[w]], d)
    <3>1. map'[w][d] = Remap(map[w][d], Report(mem[h[w]], d), Report(mem[h[w]], d).size)
      BY <1>1, <2>1
    <3>2. map[w][d].size = Report(mem[h[w]], d).size => map[w][d] = Report(mem[h[w]], d)
      BY <1>3, <2>1 DEF WorkerView
    <3>3. Report(mem[h[w]], d).size = 0 => Report(mem[h[w]], d) = NoMem
      BY <2>2, ReportSound
    <3> QED BY <3>1, <3>2, <3>3 DEF Remap
  <2>4. WorkerMap(w)'
    <3>1. \A op : WorkerView("exec", op, map'[w], mem[h[w]])
      BY <2>3 DEF WorkerView
    <3>2. ~Settled(w)'
      BY <1>2, <2>1 DEF Settled
    <3> QED BY <1>2, <2>1, <3>1, <3>2 DEF WorkerMap
  <2>5. /\ \A p \in Users \ {w} : map'[p] = map[p]
        /\ \A v \in Workers \ {w} : job'[v] = job[v]
    BY <1>1, <2>1
  <2> QED BY <1>2, <2>1, <2>4, <2>5, KeptAlone, WorkerMapMoves
<1>8. CASE Serve(w)
  <2>1. /\ UNCHANGED <<mem, map, job, resizes, h, ref>> /\ pc[w] = "exec"
        /\ Goto(w, IF job[w].op = "close" THEN "leave" ELSE "answer")
        /\ buf' = [buf EXCEPT ![h[w]] = StoreResult(buf[h[w]], job[w].tag)]
    BY <1>8 DEF Serve, memory, data, bounds
  <2>2. h[w] \in BufIds
    BY <1>1, <2>1 DEF WorkerRef, Attached
  <2>3. WorkerMap(w)'
    <3>1. WorkerView(pc'[w], job[w].op, map[w], mem[h[w]])
      BY <1>2, <1>3, <2>1 DEF WorkerView
    <3>2. ~Settled(w)'
      BY <1>2, <2>1 DEF Settled
    <3> QED BY <2>1, <3>1, <3>2 DEF WorkerMap
  <2>4. \A b \in BufIds : buf'[b].call = buf[b].call
    <3>1. StoreResult(buf[h[w]], job[w].tag).call = buf[h[w]].call
      BY <1>1, <2>2 DEF StoreResult, BufRec
    <3> QED BY <1>1, <2>1, <2>2, <3>1
  <2> QED BY <1>2, <1>4, <2>1, <2>3, <2>4, KeptAlone, WorkerMapMoves
<1>9. CASE Done(w)
  <2>1. PICK b : b = h[w]
    OBVIOUS
  <2>2. /\ UNCHANGED <<map, resizes, ref>> /\ pc[w] = "answer"
        /\ Goto(w, AfterDone(w)) /\ Retire(w, AfterDone(w))
        /\ \/ /\ mem' = [mem EXCEPT ![b] = ClearReleased(mem[b])]
              /\ buf' = [buf EXCEPT ![b] = PostDone(buf[b])]
           \/ UNCHANGED <<mem, buf>>
    BY <1>9, <2>1 DEF Done, bounds
  <2>3. b \in BufIds
    BY <1>1, <2>1, <2>2 DEF WorkerRef
  <2>4. \A a \in BufIds : LeftAlone(a)
    <3>1. CASE mem' = mem
      BY <3>1, KeptAlone
    <3>2. CASE mem' = [mem EXCEPT ![b] = ClearReleased(mem[b])]
      <4>1. \A a \in BufIds \ {b} : mem'[a] = mem[a]
        BY <1>1, <3>2
      <4>2. mem'[b] = ClearReleased(mem[b])
        BY <1>1, <2>3, <3>2
      <4>3. LeftAlone(b)
        BY <1>1, <2>3, <4>2, Cleared DEF LeftAlone
      <4> QED BY <4>1, <4>3, KeptAlone
    <3> QED BY <2>2, <3>1, <3>2
  <2>5. \A a \in BufIds : buf'[a].call = buf[a].call
    <3>1. PostDone(buf[b]).call = buf[b].call
      BY <1>1, <2>3 DEF PostDone, BufRec
    <3> QED BY <1>1, <2>2, <2>3, <3>1
  <2>6. WorkerMap(w)'
    <3>1. CASE job[w].op = "close"
      <4>1. pc'[w] = "idle" /\ map[w] = NoMap
        BY <1>2, <1>3, <2>2, <3>1 DEF AfterDone, WorkerView
      <4>2. \A op, k : WorkerView("idle", op, NoMap, k)
        BY DEF WorkerView
      <4>3. ~Settled(w)'
        BY <4>1 DEF Settled
      <4> QED BY <2>2, <4>1, <4>2, <4>3 DEF WorkerMap
    <3>2. CASE job[w].op = "once"
      <4>1. pc'[w] = "leave"
        BY <1>2, <2>2, <3>2 DEF AfterDone
      <4>2. \A op, m, k : WorkerView("leave", op, m, k)
        BY DEF WorkerView
      <4>3. ~Settled(w)'
        BY <4>1 DEF Settled
      <4> QED BY <4>1, <4>2, <4>3 DEF WorkerMap
    <3>3. CASE job[w].op \notin {"close", "once"}
      <4>1. pc'[w] = "start" /\ h'[w] = b
        BY <1>2, <2>1, <2>2, <3>3 DEF AfterDone, Retire
      <4>2. \A d \in Dirs : map[w][d] = Report(mem[b], d)
        BY <1>3, <2>1, <2>2, <3>3 DEF WorkerView
      <4>3. \A d \in Dirs : map[w][d] = Report(mem'[b], d)
        BY <2>3, <2>4, <4>2 DEF LeftAlone
      <4>4. \A op : WorkerView("start", op, map[w], mem'[b])
        BY <4>3 DEF WorkerView
      <4> QED BY <2>2, <4>1, <4>3, <4>4 DEF WorkerMap
    <3> QED BY <3>1, <3>2, <3>3
  <2>7. /\ \A p \in Users \ {w} : h'[p] = h[p]
        /\ \A v \in Workers \ {w} : job'[v] = job[v]
    BY <1>1, <2>2 DEF Retire
  <2> QED BY <1>2, <1>4, <2>2, <2>4, <2>5, <2>6, <2>7, WorkerMapMoves
<1>10. CASE CloseAccepted(w)
  <2>1. PICK b : b = h[w]
    OBVIOUS
  <2>2. /\ pc[w] = "leave" /\ b \in BufIds /\ Detach(w, b) /\ buf_cnt[b] > 0
        /\ Goto(w, AfterLeave(w)) /\ Retire(w, AfterLeave(w)) /\ resizes' = resizes
    BY <1>1, <1>10, <2>1 DEF CloseAccepted, WorkerRef, Attached, Found, bounds
  <2>3. /\ \A p \in Users \ {w} : h'[p] = h[p]
        /\ \A v \in Workers \ {w} : job'[v] = job[v]
    BY <1>1, <2>2 DEF Retire
  <2>4. /\ map'[w] = NoMap
        /\ \A p \in Users \ {w} : map'[p] = map[p] /\ ref'[p] = ref[p]
        /\ \A p \in Users \ {w} : ref[p] = "buffer" =>
              LeftAlone(h[p]) /\ buf'[h[p]].call = buf[h[p]].call
    BY <1>1, <2>2, <2>3, DetachMap
  <2>5. WorkerMap(w)'
    <3>1. pc'[w] = "idle" \/ (pc'[w] = "answer" /\ job'[w].op = "close")
      BY <1>2, <2>2 DEF AfterLeave, Retire
    <3>2. \A k : WorkerView(pc'[w], job'[w].op, NoMap, k)
      BY <3>1 DEF WorkerView
    <3>3. ~Settled(w)'
      BY <3>1 DEF Settled
    <3> QED BY <2>4, <3>2, <3>3 DEF WorkerMap
  <2> QED BY <1>2, <1>4, <2>2, <2>3, <2>4, <2>5, WorkerMapMoves
<1> QED BY <1>5, <1>6, <1>7, <1>8, <1>9, <1>10 DEF WorkerNext

\* With at most one resize per call, both sides of a channel work on the blocks
\* the driver holds for their buffer: the client between its calls and while it
\* waits, the worker while it serves.  Servers may be killed or closed, and
\* clients killed, at any time.
THEOREM MappingsStayCurrent ==
  ASSUME Steady, Orderly, OneResize
  PROVE  Spec => []MappingsCurrent
<1> DEFINE Inv == DoneClear /\ MapInv
<1>1. Init => Inv
  <2> SUFFICES ASSUME Init PROVE Inv
    OBVIOUS
  <2>1. DoneClear
    BY DEF Init, DoneClear, Mem0
  <2>2. ASSUME NEW c \in Clients PROVE ClientMap(c)
    <3>1. pc[c] = "closed" /\ map[c] = NoMap /\ resizes[c] = 0
      BY ConstantsAssumption DEF Init, Users, Procs, NoMap
    <3> QED BY <3>1 DEF ClientMap, ClientView
  <2>3. ASSUME NEW w \in Workers PROVE WorkerMap(w)
    <3>1. pc[w] = "idle" /\ map[w] = NoMap
      BY DEF Init, Users, Procs, NoMap
    <3> QED BY <3>1 DEF WorkerMap, WorkerView, Settled
  <2> QED BY <2>1, <2>2, <2>3 DEF MapInv
<1>2. IInv /\ IInv' /\ ChannelInv /\ Places' /\ SessionInv /\ MemoryInv /\ Inv /\ [Next]_vars
        => Inv'
  <2> SUFFICES ASSUME IInv, IInv', ChannelInv, Places', SessionInv, MemoryInv, Inv, [Next]_vars
               PROVE  Inv'
    OBVIOUS
  <2>1. DoneClear'
    BY DoneClearStep
  <2>2. CASE UNCHANGED vars
    BY <2>1, <2>2, QuietMap DEF vars, kernel, memory, data, bounds
  <2>3. CASE Next
    BY <2>1, <2>3, ClientMaps, ServerMaps, WorkerMaps DEF Next
  <2> QED BY <2>1, <2>2, <2>3
<1>3. Inv => MappingsCurrent
  <2> SUFFICES ASSUME MapInv PROVE MappingsCurrent
    OBVIOUS
  <2>1. \A c \in Clients : ClientView(pc[c], map[c], mem[h[c]], resizes[c])
    BY DEF MapInv, ClientMap
  <2>2. \A w \in Workers : WorkerView(pc[w], job[w].op, map[w], mem[h[w]])
    BY DEF MapInv, WorkerMap
  <2> QED BY <2>1, <2>2 DEF MappingsCurrent, ClientView, WorkerView, Attached
<1> HIDE DEF Inv
<1> QED BY <1>1, <1>2, <1>3, Invariance, Connections, Sessions, BlocksApart, PTL DEF Spec
=============================================================================
