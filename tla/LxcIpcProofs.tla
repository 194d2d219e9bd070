---------------------------- MODULE LxcIpcProofs ----------------------------
(***************************************************************************)
(* Proofs about LxcIpc, for any number of names, clients, servers, workers *)
(* and buffers and for every choice of faults.                             *)
(***************************************************************************)
EXTENDS LxcIpc, FiniteSetTheorems, TLAPS

-----------------------------------------------------------------------------
(* The inductive invariant.                                                *)

\* Client states between a successful ATTACH and the DETACH.
InSession == {"open", "calling", "again", "last"}

\* Server states between ATTACH and DETACH.
Listening == {"ready", "waiting", "woken"}

\* open_cnt counts the processes that have the device open.
FilesCounted ==
  open_cnt = Cardinality({p \in Clients \cup Servers : HasFile(p)})

\* What each process references, from where it is.
ClientRef(c) ==
  /\ ref[c] # "name"
  /\ ref[c] # "none" => h[c] \in BufIds
  /\ pc[c] \in InSession => ref[c] = "buffer"
  /\ pc[c] \in {"closed", "file", "detached"} => ref[c] = "none"

ServerRef(s) ==
  /\ ref[s] \in {"none", "name"}
  /\ pc[s] \in Listening => ref[s] = "name"
  /\ pc[s] \in {"closed", "file", "detached"} => ref[s] = "none"

WorkerRef(w) ==
  /\ ref[w] # "name"
  /\ ref[w] # "none" => h[w] \in BufIds
  /\ Attached(w) => ref[w] = "buffer" /\ pc[BossOf[w]] \in Listening
  /\ pc[w] = "idle" => ref[w] = "none"
  /\ pc[w] = "answer" => h[w] \in BufIds
  /\ pc[w] = "answer" /\ job[w].op = "close" => ref[w] = "none"

HandlesConsistent ==
  /\ \A c \in Clients : ClientRef(c)
  /\ \A s \in Servers : ServerRef(s)
  /\ \A w \in Workers : WorkerRef(w)

IInv == TypeOK /\ FilesCounted /\ HandlesConsistent /\ RefCountsExact

-----------------------------------------------------------------------------
(* Type correctness.                                                       *)

\* The initial values of a buffer have their types.
LEMMA InitialTypes == Buf0 \in BufRec /\ Mem0 \in MemRec /\ NoMem \in MmzBuffer
  BY DEF Buf0, BufRec, NoJob, Job, Mem0, MemRec, NoMem, MmzBuffer, Dirs

\* Removing a thread from a list leaves a list.
LEMMA UnlinkType ==
  ASSUME NEW l \in Seq(Tids), NEW t
  PROVE  Unlink(l, t) \in Seq(Tids)
<1>1. CASE Len(l) = 0
  BY <1>1 DEF Unlink
<1>2. CASE Len(l) # 0
  BY <1>2 DEF Unlink
<1> QED BY <1>1, <1>2

\* The delayed releases stay a list of blocks.
LEMMA LazyReleaseType ==
  ASSUME NEW rel \in Seq(MmzBuffer), NEW m \in MmzBuffer
  PROVE  LazyRelease(rel, m) \in Seq(MmzBuffer)
  BY DEF LazyRelease

\* Allocation returns a block, or none, and keeps the zone's types.
LEMMA AllocType ==
  ASSUME NEW bl \in [Blocks -> Nat], NEW a \in Nat, NEW r \in Alloc(bl, a)
  PROVE  r.m \in MmzBuffer /\ r.bl \in [Blocks -> Nat]
  BY InitialTypes DEF Alloc, MmzBuffer

\* One direction of RESIZE keeps the types of the buffer's memory and of the
\* zone's blocks.
LEMMA ResizeDirType ==
  ASSUME NEW k \in MemRec, NEW bl \in [Blocks -> Nat], NEW q \in Requests,
         NEW d \in Dirs, NEW r \in ResizeDir(k, bl, d, q[d])
  PROVE  /\ r.k \in MemRec
         /\ r.bl \in [Blocks -> Nat]
<1> DEFINE s == q[d]
           m == k.sMBuf[d]
           rel == IF k.need[d] THEN LazyRelease(k.release_mem, m) ELSE k.release_mem
           needed(v) == [k.need EXCEPT ![d] = v]
<1>1. /\ m \in MmzBuffer /\ k.release_mem \in Seq(MmzBuffer) /\ AllocSize(s) \in Nat
      /\ k.sMBuf \in [Dirs -> MmzBuffer] /\ k.need \in [Dirs -> BOOLEAN]
  BY SizesAssumption DEF MemRec
<1>2. rel \in Seq(MmzBuffer)
  BY <1>1, LazyReleaseType
<1>3. \A v \in BOOLEAN : needed(v) \in [Dirs -> BOOLEAN]
  BY <1>1
<1>4. \A x \in MmzBuffer : [k.sMBuf EXCEPT ![d] = x] \in [Dirs -> MmzBuffer]
  BY <1>1
<1>5. CASE r = [ok |-> TRUE, bl |-> bl,
                k |-> [sMBuf |-> k.sMBuf, need |-> needed(TRUE), release_mem |-> k.release_mem]]
  <2> HIDE DEF needed
  <2> QED BY <1>1, <1>3, <1>5 DEF MemRec
<1>6. CASE r = [ok |-> FALSE, bl |-> bl, k |-> k]
  BY <1>6
<1>7. CASE r = [ok |-> TRUE, bl |-> bl,
                k |-> [sMBuf |-> k.sMBuf, need |-> needed(FALSE), release_mem |-> rel]]
  <2> HIDE DEF needed, rel
  <2> QED BY <1>1, <1>2, <1>3, <1>7 DEF MemRec
<1>8. CASE \E a \in Alloc(bl, AllocSize(s)) :
             r = [ok |-> TRUE, bl |-> a.bl,
                  k |-> [sMBuf |-> [k.sMBuf EXCEPT ![d] = a.m], need |-> needed(TRUE),
                         release_mem |-> rel]]
  <2> PICK a \in Alloc(bl, AllocSize(s)) :
             r = [ok |-> TRUE, bl |-> a.bl,
                  k |-> [sMBuf |-> [k.sMBuf EXCEPT ![d] = a.m], need |-> needed(TRUE),
                         release_mem |-> rel]]
    BY <1>8
  <2>1. a.m \in MmzBuffer /\ a.bl \in [Blocks -> Nat]
    BY <1>1, AllocType
  <2> HIDE DEF needed, rel
  <2> QED BY <1>2, <1>3, <1>4, <2>1 DEF MemRec
<1> QED BY <1>5, <1>6, <1>7, <1>8 DEF ResizeDir

\* The updates of a buffer keep its type.
LEMMA BufUpdateTypes ==
  ASSUME NEW r \in BufRec
  PROVE  /\ \A v \in {-1, 0, 1} : SetConnected(r, v) \in BufRec
         /\ \A v \in {0, 1} : StoreResult(r, v) \in BufRec
         /\ \A j \in Job : PostCall(r, j) \in BufRec
         /\ r.call > 0 => TakeCall(r) \in BufRec
         /\ r.done > 0 => TakeDone(r) \in BufRec
         /\ PostDone(r) \in BufRec
<1>1. r.call \in Nat /\ r.done \in Nat
  BY DEF BufRec
<1>2. /\ \A v \in {-1, 0, 1} : SetConnected(r, v) \in BufRec
      /\ \A v \in {0, 1} : StoreResult(r, v) \in BufRec
      /\ \A v \in Nat : [r EXCEPT !.call = v] \in BufRec
      /\ \A v \in Nat : [r EXCEPT !.done = v] \in BufRec
      /\ \A v \in Nat, j \in Job : [r EXCEPT !.do_what = j, !.call = v] \in BufRec
  BY Zenon DEF BufRec, SetConnected, StoreResult
<1>3. /\ r.call + 1 \in Nat /\ r.done + 1 \in Nat
      /\ r.call > 0 => r.call - 1 \in Nat
      /\ r.done > 0 => r.done - 1 \in Nat
  BY <1>1
<1> QED BY <1>2, <1>3, Zenon DEF PostCall, TakeCall, PostDone, TakeDone

\* So does the end of the delayed releases.
LEMMA ClearReleasedType == ASSUME NEW k \in MemRec PROVE ClearReleased(k) \in MemRec
<1>1. <<>> \in Seq(MmzBuffer)
  OBVIOUS
<1> QED BY <1>1, Zenon DEF MemRec, ClearReleased

\* What the library maps and what the driver reports are blocks.
LEMMA ReportType ==
  ASSUME NEW k \in MemRec, NEW d \in Dirs PROVE Report(k, d) \in MmzBuffer
  BY InitialTypes DEF Report, MemRec

\* What the library maps is what it had, what the driver reports, or nothing.
LEMMA RemapType ==
  ASSUME NEW old \in MmzBuffer, NEW rep \in MmzBuffer, NEW s
  PROVE  Remap(old, rep, s) \in MmzBuffer
  BY InitialTypes DEF Remap

\* The initial state has its types.
LEMMA TypeInit == Init => TypeOK
<1> SUFFICES ASSUME Init PROVE TypeOK
  OBVIOUS
<1> USE ConstantsAssumption, InitialTypes DEF Init
<1>1. KernelTypes
  BY DEF KernelTypes
<1>2. MemoryTypes
  BY DEF MemoryTypes
<1>3. ControlTypes
  BY DEF ControlTypes, Procs, ClientPcs, ServerPcs, WorkerPcs
<1>4. HandleTypes
  BY DEF HandleTypes
<1>5. DataTypes
  BY DEF DataTypes, NoJob, Job
<1> QED BY <1>1, <1>2, <1>3, <1>4, <1>5 DEF TypeOK

\* A process with the device open has been counted.
LEMMA FileCounted ==
  ASSUME IInv, NEW p \in Clients \cup Servers, HasFile(p)
  PROVE  open_cnt \in Nat /\ open_cnt - 1 \in Nat
<1> DEFINE S == {q \in Clients \cup Servers : HasFile(q)}
<1>1. IsFiniteSet(Clients \cup Servers)
  BY ConstantsAssumption, FS_Union
<1>2. IsFiniteSet(S)
  BY <1>1, FS_Subset
<1>3. Cardinality(S) # 0
  BY <1>2, FS_EmptySet
<1> HIDE DEF S
<1>4. open_cnt = Cardinality(S) /\ open_cnt \in Nat
  BY DEF IInv, FilesCounted, TypeOK, KernelTypes, S
<1> QED BY <1>3, <1>4

\* Moving a process to one of its own states keeps the types.
LEMMA GotoTypes ==
  ASSUME ControlTypes, NEW p \in Procs, NEW l, Goto(p, l),
         p \in Clients => l \in ClientPcs,
         p \in Servers => l \in ServerPcs,
         p \in Workers => l \in WorkerPcs
  PROVE  ControlTypes'
  BY DEF ControlTypes, Goto, Procs

\* DETACH keeps the types.
LEMMA DetachTypes ==
  ASSUME TypeOK, NEW p \in Users, NEW b \in BufIds, Found(b), Detach(p, b),
         open_cnt' = open_cnt
  PROVE  /\ KernelTypes' /\ MemoryTypes'
         /\ ref' \in [Procs -> {"none", "name", "thread", "buffer"}]
<1> USE DEF TypeOK
<1>1. b[1] \in Names /\ b[2] \in Tids /\ <<b[1], b[2]>> \in Names \X Tids
  BY DEF BufIds
<1>2. name_cnt' \in [Names -> Nat] /\ attach' \in [Names -> Nat]
  BY <1>1 DEF KernelTypes, Detach, Found
<1>3. list_thread' \in [Names -> Seq(Tids)]
  BY <1>1, UnlinkType DEF KernelTypes, Detach
<1>4. tid_cnt' \in [Names \X Tids -> Nat] /\ buf_cnt' \in [BufIds -> Nat]
  <2> DEFINE k == <<b[1], b[2]>>
  <2>1. tid_cnt \in [Names \X Tids -> Nat] /\ buf_cnt \in [BufIds -> Nat]
    BY DEF KernelTypes
  <2>2. tid_cnt' = [tid_cnt EXCEPT ![k] = @ - 1] /\ buf_cnt' = [buf_cnt EXCEPT ![b] = @ - 1]
    BY DEF Detach
  <2>3. k \in Names \X Tids /\ tid_cnt[k] > 0 /\ buf_cnt[b] > 0
    BY <1>1 DEF Found
  <2> HIDE DEF k
  <2>4. tid_cnt[k] - 1 \in Nat /\ buf_cnt[b] - 1 \in Nat
    BY <2>1, <2>3
  <2> QED BY <2>1, <2>2, <2>4
<1>5. buf' \in [BufIds -> BufRec]
  BY InitialTypes, BufUpdateTypes DEF KernelTypes, Detach
<1>6. mem' \in [BufIds -> MemRec]
  BY InitialTypes DEF MemoryTypes, Detach
<1>7. blocks' \in [Blocks -> Nat]
  BY DEF MemoryTypes, Detach, Freed
<1>8. map' \in [Users -> [Dirs -> MmzBuffer]]
  BY InitialTypes DEF MemoryTypes, Detach
<1>9. ref' \in [Procs -> {"none", "name", "thread", "buffer"}]
  BY DEF HandleTypes, Detach
<1> QED BY <1>2, <1>3, <1>4, <1>5, <1>6, <1>7, <1>8, <1>9 DEF KernelTypes, MemoryTypes

\* So does close(fd), last or not.
LEMMA ReleaseTypes ==
  ASSUME TypeOK, open_cnt - 1 \in Nat, ReleaseFile, map' = map
  PROVE  /\ KernelTypes' /\ MemoryTypes'
         /\ ref' \in [Procs -> {"none", "name", "thread", "buffer"}]
<1> USE DEF TypeOK
<1>1. CASE LastFile
  <2> DEFINE used == UNION {Held(mem[b]) : b \in BufIds}
  <2>1. /\ blocks' = Freed(blocks, used)
        /\ mem' = [b \in BufIds |-> Mem0]
        /\ buf' = [b \in BufIds |-> Buf0]
        /\ list_thread' = [n \in Names |-> <<>>]
    BY <1>1 DEF ReleaseFile
  <2> HIDE DEF used
  <2>2. blocks' \in [Blocks -> Nat]
    BY <2>1 DEF MemoryTypes, Freed
  <2>3. mem' \in [BufIds -> MemRec] /\ buf' \in [BufIds -> BufRec]
    BY <2>1, InitialTypes
  <2>4. /\ open_cnt' \in Nat
        /\ name_cnt' \in [Names -> Nat]
        /\ attach' \in [Names -> Nat]
        /\ tid_cnt' \in [Names \X Tids -> Nat]
        /\ buf_cnt' \in [BufIds -> Nat]
        /\ ref' \in [Procs -> {"none", "name", "thread", "buffer"}]
    BY <1>1 DEF ReleaseFile
  <2>5. list_thread' \in [Names -> Seq(Tids)]
    BY <2>1
  <2> QED BY <2>2, <2>3, <2>4, <2>5 DEF KernelTypes, MemoryTypes
<1>2. CASE ~LastFile
  BY <1>2 DEF ReleaseFile, KernelTypes, MemoryTypes, HandleTypes
<1> QED BY <1>1, <1>2

\* Steps of a client keep the types.
LEMMA ClientTypes ==
  ASSUME IInv, NEW c \in Clients, ClientNext(c)
  PROVE  TypeOK'
<1> USE DEF IInv, TypeOK
<1>1. /\ c \in Procs /\ c \in Users /\ c \in Clients \cup Servers
      /\ NameOf[c] \in Names /\ TidOf[c] \in Tids
      /\ c \notin Servers /\ c \notin Workers
  BY ConstantsAssumption DEF Procs, Users
<1>2. pc[c] \in InSession => h[c] \in BufIds
  BY <1>1 DEF HandlesConsistent, ClientRef
<1>3. \A l \in ClientPcs : Goto(c, l) => ControlTypes'
  BY <1>1, GotoTypes
<1>4. CASE OpenFile(c)
  <2>1. KernelTypes'
    BY <1>4 DEF OpenFile, KernelTypes
  <2>2. MemoryTypes' /\ HandleTypes' /\ DataTypes'
    BY <1>4 DEF OpenFile, MemoryTypes, HandleTypes, DataTypes, memory, data, bounds
  <2>3. ControlTypes'
    BY <1>3, <1>4 DEF OpenFile, ClientPcs
  <2> QED BY <2>1, <2>2, <2>3
<1>5. CASE AttachClient(c)
  <2> DEFINE n == NameOf[c]
             t == TidOf[c]
  <2>1. DataTypes'
    BY <1>5 DEF AttachClient, DataTypes, data, bounds
  <2>2. /\ name_cnt' \in [Names -> Nat]
        /\ tid_cnt' \in [Names \X Tids -> Nat]
        /\ blocks' = blocks /\ map' = map /\ open_cnt' = open_cnt
    BY <1>1, <1>5 DEF AttachClient, KernelTypes
  <2>3. list_thread' \in [Names -> Seq(Tids)]
    BY <1>1, <1>5 DEF AttachClient, KernelTypes
  <2>4. CASE FreeSlots(n, t) = {}
    <3>1. <<n, t, 0>> \in BufIds
      BY <1>1, ConstantsAssumption DEF BufIds, Slots
    <3>2. /\ h' = [h EXCEPT ![c] = <<n, t, 0>>]
          /\ ref' = [ref EXCEPT ![c] = "thread"]
          /\ Goto(c, "failed")
          /\ UNCHANGED <<buf_cnt, buf, mem, attach>>
      BY <1>5, <2>4 DEF AttachClient
    <3>3. HandleTypes'
      BY <1>1, <3>1, <3>2 DEF HandleTypes
    <3>4. KernelTypes' /\ MemoryTypes'
      BY <2>2, <2>3, <3>2 DEF KernelTypes, MemoryTypes
    <3> QED BY <1>3, <2>1, <3>2, <3>3, <3>4 DEF ClientPcs
  <2>5. CASE FreeSlots(n, t) # {}
    <3>1. PICK i \in FreeSlots(n, t) :
              /\ h' = [h EXCEPT ![c] = <<n, t, i>>]
              /\ buf_cnt' = [buf_cnt EXCEPT ![<<n, t, i>>] = 1]
              /\ buf' = [buf EXCEPT ![<<n, t, i>>] = Buf0]
              /\ mem' = [mem EXCEPT ![<<n, t, i>>] = Mem0]
              /\ attach' = PostAttach(n)
              /\ ref' = [ref EXCEPT ![c] = "buffer"]
              /\ Goto(c, "open")
      BY <1>5, <2>5 DEF AttachClient
    <3>2. <<n, t, i>> \in BufIds
      BY <1>1 DEF FreeSlots, BufIds
    <3>3. MemoryTypes'
      BY <2>2, <3>1, <3>2, InitialTypes DEF MemoryTypes
    <3>4. KernelTypes'
      BY <1>1, <2>2, <2>3, <3>1, <3>2, InitialTypes DEF KernelTypes, PostAttach
    <3>5. HandleTypes'
      BY <1>1, <3>1, <3>2 DEF HandleTypes
    <3> QED BY <1>3, <2>1, <3>1, <3>3, <3>4, <3>5 DEF ClientPcs
  <2> QED BY <2>4, <2>5
<1>6. CASE CloseFile(c)
  <2>1. HasFile(c) /\ ReleaseFile /\ map' = map /\ h' = h
    BY <1>6 DEF CloseFile, HasFile
  <2>2. open_cnt - 1 \in Nat
    BY <1>1, <2>1, FileCounted
  <2>3. KernelTypes' /\ MemoryTypes' /\ HandleTypes'
    BY <2>1, <2>2, ReleaseTypes DEF HandleTypes
  <2>4. ControlTypes' /\ DataTypes'
    BY <1>3, <1>6 DEF CloseFile, ClientPcs, DataTypes, data, bounds
  <2> QED BY <2>3, <2>4
<1>7. ASSUME NEW q \in Requests, Resize(c, q) PROVE TypeOK'
  <2> DEFINE b == h[c]
  <2>1. b \in BufIds
    BY <1>2, <1>7 DEF Resize, InSession
  <2>2. PICK i \in ResizeDir(mem[b], blocks, "in", q["in"]) :
           \/ /\ mem' = [mem EXCEPT ![b] = i.k]
              /\ blocks' = i.bl
              /\ map' = map
           \/ \E o \in ResizeDir(i.k, i.bl, "out", q["out"]) :
                /\ mem' = [mem EXCEPT ![b] = o.k]
                /\ blocks' = o.bl
                /\ map' = IF o.ok
                            THEN [map EXCEPT ![c] =
                                    [d \in Dirs |-> Remap(@[d], Report(o.k, d), q[d])]]
                            ELSE map
    BY <1>7 DEF Resize
  <2>3. mem[b] \in MemRec /\ blocks \in [Blocks -> Nat] /\ "in" \in Dirs /\ "out" \in Dirs
    BY <2>1 DEF MemoryTypes, Dirs
  <2>4. i.k \in MemRec /\ i.bl \in [Blocks -> Nat]
    BY <2>3, ResizeDirType
  <2>5. MemoryTypes'
    <3>1. CASE /\ mem' = [mem EXCEPT ![b] = i.k]
               /\ blocks' = i.bl
               /\ map' = map
      BY <2>4, <3>1 DEF MemoryTypes
    <3>2. ASSUME NEW o \in ResizeDir(i.k, i.bl, "out", q["out"]),
                 mem' = [mem EXCEPT ![b] = o.k],
                 blocks' = o.bl,
                 map' = IF o.ok
                          THEN [map EXCEPT ![c] =
                                  [d \in Dirs |-> Remap(@[d], Report(o.k, d), q[d])]]
                          ELSE map
          PROVE  MemoryTypes'
      <4>1. o.k \in MemRec /\ o.bl \in [Blocks -> Nat]
        BY <2>3, <2>4, ResizeDirType
      <4>2. \A d \in Dirs : Remap(map[c][d], Report(o.k, d), q[d]) \in MmzBuffer
        BY <1>1, <4>1, RemapType, ReportType DEF MemoryTypes
      <4> QED BY <1>1, <3>2, <4>1, <4>2 DEF MemoryTypes
    <3> QED BY <2>2, <3>1, <3>2
  <2>6. DataTypes'
    BY <1>7 DEF Resize, DataTypes, data
  <2>7. KernelTypes'
    BY <1>7 DEF Resize, KernelTypes, kernel
  <2>8. ControlTypes' /\ HandleTypes'
    BY <1>7 DEF Resize, ControlTypes, HandleTypes
  <2> QED BY <2>5, <2>6, <2>7, <2>8
<1>8. ASSUME NEW what \in Job, Post(c, what), pc[c] \in InSession
      PROVE  KernelTypes' /\ MemoryTypes' /\ ControlTypes' /\ HandleTypes'
  <2>1. KernelTypes'
    BY <1>2, <1>8, BufUpdateTypes DEF Post, KernelTypes
  <2>2. MemoryTypes' /\ HandleTypes'
    BY <1>8 DEF Post, MemoryTypes, HandleTypes, memory
  <2> QED BY <1>3, <1>8, <2>1, <2>2 DEF Post, ClientPcs
<1>9. ASSUME NEW op \in Ops, Call(c, op) PROVE TypeOK'
  <2>1. pc[c] \in InSession /\ Post(c, [op |-> op, tag |-> 1 - tag[c]])
    BY <1>9 DEF Call, InSession
  <2>2. tag[c] \in {0, 1}
    BY DEF DataTypes
  <2>3. 1 - tag[c] \in {0, 1}
    BY <2>2
  <2>4. [op |-> op, tag |-> 1 - tag[c]] \in Job
    BY <2>3 DEF Job
  <2>5. DataTypes'
    BY <1>9, <2>3 DEF Call, Post, DataTypes
  <2> QED BY <1>8, <2>1, <2>4, <2>5
<1>10. CASE CallAgain(c)
  <2>1. pc[c] \in InSession /\ Post(c, buf[h[c]].do_what)
    BY <1>10 DEF CallAgain, InSession
  <2>2. buf[h[c]].do_what \in Job
    BY <1>2, <2>1 DEF BufRec, KernelTypes
  <2>3. DataTypes'
    BY <1>10 DEF CallAgain, Post, DataTypes
  <2> QED BY <1>8, <2>1, <2>2, <2>3
<1>11. CASE CallDone(c)
  <2>1. h[c] \in BufIds
    BY <1>2, <1>11 DEF CallDone, InSession
  <2>2. KernelTypes'
    BY <1>11, <2>1, BufUpdateTypes DEF CallDone, KernelTypes
  <2>3. MemoryTypes' /\ HandleTypes' /\ DataTypes'
    BY <1>11 DEF CallDone, MemoryTypes, HandleTypes, DataTypes, memory, data, bounds
  <2>4. ControlTypes'
    BY <1>3, <1>11 DEF CallDone, AfterCall, ClientPcs
  <2> QED BY <2>2, <2>3, <2>4
<1>12. CASE CallTimeout(c) \/ CallInterrupted(c)
  <2>1. KernelTypes'
    BY <1>12 DEF CallTimeout, CallInterrupted, KernelTypes, kernel
  <2>2. MemoryTypes' /\ HandleTypes' /\ DataTypes'
    BY <1>12 DEF CallTimeout, CallInterrupted, Fault, MemoryTypes, HandleTypes, DataTypes,
                 memory, data
  <2>3. ControlTypes'
    BY <1>3, <1>12 DEF CallTimeout, CallInterrupted, AfterCall, ClientPcs
  <2> QED BY <2>1, <2>2, <2>3
<1>13. CASE CloseClient(c)
  <2>1. h[c] \in BufIds /\ Found(h[c]) /\ Detach(c, h[c]) /\ open_cnt' = open_cnt
    BY <1>2, <1>13 DEF CloseClient, InSession
  <2>2. KernelTypes' /\ MemoryTypes' /\ HandleTypes'
    BY <1>1, <1>13, <2>1, DetachTypes DEF CloseClient, HandleTypes
  <2>3. DataTypes'
    BY <1>13 DEF CloseClient, Fault, DataTypes
  <2>4. ControlTypes'
    BY <1>3, <1>13 DEF CloseClient, ClientPcs
  <2> QED BY <2>2, <2>3, <2>4
<1>14. CASE CrashClient(c)
  <2>1. open_cnt - 1 \in Nat
    BY <1>1, <1>14, FileCounted DEF CrashClient
  <2>2. KernelTypes' /\ MemoryTypes' /\ HandleTypes'
    BY <1>14, <2>1, ReleaseTypes DEF CrashClient, HandleTypes
  <2>3. DataTypes'
    BY <1>14 DEF CrashClient, Fault, DataTypes, data
  <2>4. ControlTypes'
    BY <1>3, <1>14 DEF CrashClient, ClientPcs
  <2> QED BY <2>2, <2>3, <2>4
<1> QED BY <1>4, <1>5, <1>6, <1>7, <1>9, <1>10, <1>11, <1>12, <1>13, <1>14 DEF ClientNext

\* Steps of a server keep the types.
LEMMA ServerTypes ==
  ASSUME IInv, NEW s \in Servers, ServerNext(s)
  PROVE  TypeOK'
<1> USE DEF IInv, TypeOK
<1>1. /\ s \in Procs /\ s \in Clients \cup Servers /\ NameOf[s] \in Names
      /\ s \notin Clients /\ s \notin Workers
  BY ConstantsAssumption DEF Procs
<1>2. \A l \in ServerPcs : Goto(s, l) => ControlTypes'
  BY <1>1, GotoTypes
<1>3. CASE OpenFile(s)
  <2>1. KernelTypes'
    BY <1>3 DEF OpenFile, KernelTypes
  <2>2. MemoryTypes' /\ HandleTypes' /\ DataTypes'
    BY <1>3 DEF OpenFile, MemoryTypes, HandleTypes, DataTypes, memory, data, bounds
  <2>3. ControlTypes'
    BY <1>2, <1>3 DEF OpenFile, ServerPcs
  <2> QED BY <2>1, <2>2, <2>3
<1>4. CASE AttachServer(s)
  <2>1. KernelTypes'
    BY <1>1, <1>4 DEF AttachServer, KernelTypes
  <2>2. MemoryTypes' /\ HandleTypes' /\ DataTypes'
    BY <1>1, <1>4 DEF AttachServer, MemoryTypes, HandleTypes, DataTypes, memory, data, bounds
  <2>3. ControlTypes'
    BY <1>2, <1>4 DEF AttachServer, ServerPcs
  <2> QED BY <2>1, <2>2, <2>3
<1>5. CASE CloseFile(s)
  <2>1. HasFile(s) /\ ReleaseFile /\ map' = map /\ h' = h /\ pc[s] # "failed"
    BY <1>5 DEF CloseFile, HasFile, ControlTypes, ServerPcs
  <2>2. open_cnt - 1 \in Nat
    BY <1>1, <2>1, FileCounted
  <2>3. KernelTypes' /\ MemoryTypes' /\ HandleTypes'
    BY <2>1, <2>2, ReleaseTypes DEF HandleTypes
  <2>4. ControlTypes' /\ DataTypes'
    BY <1>2, <1>5, <2>1 DEF CloseFile, ServerPcs, DataTypes, data, bounds
  <2> QED BY <2>3, <2>4
<1>6. CASE Listen(s) \/ ListenInterrupted(s)
  <2>1. KernelTypes'
    BY <1>6 DEF Listen, ListenInterrupted, KernelTypes, kernel
  <2>2. MemoryTypes' /\ HandleTypes' /\ DataTypes'
    BY <1>6 DEF Listen, ListenInterrupted, Fault, MemoryTypes, HandleTypes, DataTypes,
                memory, data, bounds
  <2>3. ControlTypes'
    BY <1>2, <1>6 DEF Listen, ListenInterrupted, ServerPcs
  <2> QED BY <2>1, <2>2, <2>3
<1>7. CASE ListenWake(s)
  <2>1. KernelTypes'
    BY <1>1, <1>7 DEF ListenWake, AttachPosted, KernelTypes
  <2>2. MemoryTypes' /\ HandleTypes' /\ DataTypes'
    BY <1>7 DEF ListenWake, MemoryTypes, HandleTypes, DataTypes, memory, data, bounds
  <2>3. ControlTypes'
    BY <1>2, <1>7 DEF ListenWake, ServerPcs
  <2> QED BY <2>1, <2>2, <2>3
<1>8. CASE ListenPick(s)
  <2> DEFINE n == NameOf[s]
  <2>1. MemoryTypes' /\ DataTypes'
    BY <1>8 DEF ListenPick, MemoryTypes, DataTypes, memory, data, bounds
  <2>2. CASE Unconnected(n) = {}
    <3>1. KernelTypes' /\ HandleTypes'
      BY <1>8, <2>2 DEF ListenPick, KernelTypes, HandleTypes
    <3> QED BY <1>2, <1>8, <2>1, <2>2, <3>1 DEF ListenPick, ServerPcs
  <2>3. CASE Unconnected(n) # {}
    <3>1. PICK b \in Unconnected(n), w \in IdleWorkers(s) :
              /\ buf' = [buf EXCEPT ![b] = SetConnected(@, 1)]
              /\ buf_cnt' = [buf_cnt EXCEPT ![b] = @ + 1]
              /\ tid_cnt' = [tid_cnt EXCEPT ![<<b[1], b[2]>>] = @ + 1]
              /\ name_cnt' = [name_cnt EXCEPT ![n] = @ + 1]
              /\ h' = [h EXCEPT ![w] = b]
              /\ ref' = [ref EXCEPT ![w] = "buffer"]
              /\ pc' = [pc EXCEPT ![s] = "ready", ![w] = "start"]
      BY <1>8, <2>3 DEF ListenPick
    <3>2. b \in BufIds /\ w \in Workers /\ w \in Users /\ w \in Procs
      BY DEF Unconnected, IdleWorkers, Users, Procs
    <3>3. b[1] \in Names /\ b[2] \in Tids /\ <<b[1], b[2]>> \in Names \X Tids
      BY <3>2 DEF BufIds
    <3>4. KernelTypes'
      <4>1. open_cnt' = open_cnt /\ attach' = attach /\ list_thread' = list_thread
        BY <1>8 DEF ListenPick
      <4>2. buf' \in [BufIds -> BufRec]
        BY <3>1, <3>2, BufUpdateTypes DEF KernelTypes
      <4>3. name_cnt' \in [Names -> Nat]
        BY <1>1, <3>1 DEF KernelTypes
      <4>4. tid_cnt' \in [Names \X Tids -> Nat]
        BY <3>1, <3>3 DEF KernelTypes
      <4>5. buf_cnt' \in [BufIds -> Nat]
        BY <3>1, <3>2 DEF KernelTypes
      <4> QED BY <4>1, <4>2, <4>3, <4>4, <4>5 DEF KernelTypes
    <3>5. HandleTypes'
      BY <3>1, <3>2 DEF HandleTypes
    <3>6. ControlTypes'
      BY <1>1, <3>1, <3>2, ConstantsAssumption DEF ControlTypes, ServerPcs, WorkerPcs, Procs
    <3> QED BY <2>1, <3>4, <3>5, <3>6
  <2> QED BY <2>2, <2>3
<1>9. CASE CloseServer(s)
  <2>1. KernelTypes'
    BY <1>1, <1>9 DEF CloseServer, KernelTypes
  <2>2. MemoryTypes' /\ HandleTypes' /\ DataTypes'
    BY <1>1, <1>9 DEF CloseServer, Fault, MemoryTypes, HandleTypes, DataTypes, memory, data
  <2>3. ControlTypes'
    BY <1>2, <1>9 DEF CloseServer, ServerPcs
  <2> QED BY <2>1, <2>2, <2>3
<1>10. CASE CrashServer(s)
  <2>1. open_cnt - 1 \in Nat
    BY <1>1, <1>10, FileCounted DEF CrashServer
  <2>2. KernelTypes' /\ MemoryTypes' /\ HandleTypes'
    BY <1>10, <2>1, ReleaseTypes DEF CrashServer, HandleTypes
  <2>3. DataTypes'
    BY <1>10 DEF CrashServer, Fault, DataTypes, data
  <2>4. ControlTypes'
    BY <1>1, <1>10, ConstantsAssumption
    DEF CrashServer, ControlTypes, ClientPcs, ServerPcs, WorkerPcs, Procs
  <2> QED BY <2>2, <2>3, <2>4
<1> QED BY <1>3, <1>4, <1>5, <1>6, <1>7, <1>8, <1>9, <1>10 DEF ServerNext

\* Steps of a worker keep the types.
LEMMA WorkerTypes ==
  ASSUME IInv, NEW w \in Workers, WorkerNext(w)
  PROVE  TypeOK'
<1> USE DEF IInv, TypeOK
<1>1. w \in Procs /\ w \in Users /\ w \notin Clients /\ w \notin Servers
  BY ConstantsAssumption DEF Procs, Users
<1>2. Attached(w) => h[w] \in BufIds
  BY <1>1 DEF HandlesConsistent, WorkerRef
<1>3. \A l \in WorkerPcs : Goto(w, l) => ControlTypes'
  BY <1>1, GotoTypes
<1>4. CASE Accept(w) \/ AcceptInterrupted(w)
  <2>1. KernelTypes'
    BY <1>4 DEF Accept, AcceptInterrupted, KernelTypes, kernel
  <2>2. MemoryTypes' /\ HandleTypes' /\ DataTypes'
    BY <1>4 DEF Accept, AcceptInterrupted, Fault, MemoryTypes, HandleTypes, DataTypes,
                memory, data, bounds
  <2>3. ControlTypes'
    BY <1>3, <1>4 DEF Accept, AcceptInterrupted, WorkerPcs
  <2> QED BY <2>1, <2>2, <2>3
<1>5. CASE AcceptWake(w)
  <2>1. KernelTypes'
    BY <1>2, <1>5, BufUpdateTypes DEF AcceptWake, Attached, KernelTypes
  <2>2. MemoryTypes' /\ HandleTypes' /\ DataTypes'
    BY <1>5 DEF AcceptWake, MemoryTypes, HandleTypes, DataTypes, memory, data, bounds
  <2>3. ControlTypes'
    BY <1>3, <1>5 DEF AcceptWake, WorkerPcs
  <2> QED BY <2>1, <2>2, <2>3
<1>6. CASE AcceptRead(w)
  <2>1. h[w] \in BufIds
    BY <1>2, <1>6 DEF AcceptRead, Attached
  <2>2. buf[h[w]].do_what \in Job
    BY <2>1 DEF KernelTypes, BufRec
  <2>3. DataTypes'
    BY <1>6, <2>2 DEF AcceptRead, DataTypes, bounds
  <2>4. KernelTypes'
    BY <1>6 DEF AcceptRead, KernelTypes, kernel
  <2>5. \A d \in Dirs : LET rep == Report(mem[h[w]], d)
                        IN  Remap(map[w][d], rep, rep.size) \in MmzBuffer
    BY <1>1, <2>1, RemapType, ReportType DEF MemoryTypes
  <2>6. MemoryTypes'
    BY <1>1, <1>6, <2>5 DEF AcceptRead, MemoryTypes
  <2>7. HandleTypes' /\ ControlTypes'
    BY <1>3, <1>6 DEF AcceptRead, HandleTypes, WorkerPcs
  <2> QED BY <2>3, <2>4, <2>6, <2>7
<1>7. CASE Serve(w)
  <2>1. h[w] \in BufIds
    BY <1>2, <1>7 DEF Serve, Attached
  <2>2. job[w].tag \in {0, 1}
    BY DEF DataTypes, Job
  <2>3. KernelTypes'
    BY <1>7, <2>1, <2>2, BufUpdateTypes DEF Serve, KernelTypes
  <2>4. MemoryTypes' /\ HandleTypes' /\ DataTypes'
    BY <1>7 DEF Serve, MemoryTypes, HandleTypes, DataTypes, memory, data, bounds
  <2>5. ControlTypes'
    BY <1>3, <1>7 DEF Serve, WorkerPcs
  <2> QED BY <2>3, <2>4, <2>5
<1>8. ASSUME NEW l, Retire(w, l)
      PROVE  job' \in [Workers -> Job] /\ h' \in [Users -> BufIds \cup {NoBuf}]
  BY <1>1, <1>8 DEF Retire, DataTypes, HandleTypes, NoJob, Job
<1>9. CASE Done(w)
  <2>1. h[w] \in BufIds
    BY <1>9 DEF Done, HandlesConsistent, WorkerRef
  <2>2. KernelTypes'
    <3>1. buf' = buf \/ buf' = [buf EXCEPT ![h[w]] = PostDone(@)]
      BY <1>9 DEF Done
    <3>2. PostDone(buf[h[w]]) \in BufRec
      BY <2>1, BufUpdateTypes DEF KernelTypes
    <3>3. buf' \in [BufIds -> BufRec]
      BY <2>1, <3>1, <3>2 DEF KernelTypes
    <3> QED BY <1>9, <3>3 DEF Done, KernelTypes
  <2>3. mem' \in [BufIds -> MemRec] /\ map' = map
    <3>1. map' = map /\ (mem' = mem \/ mem' = [mem EXCEPT ![h[w]] = ClearReleased(@)])
      BY <1>9 DEF Done
    <3> QED BY <2>1, <3>1, ClearReleasedType DEF MemoryTypes
  <2>4. blocks' \in [Blocks -> Nat]
    <3>1. (\E S : blocks' = Freed(blocks, S)) \/ blocks' = blocks
      BY <1>9 DEF Done
    <3> QED BY <3>1 DEF MemoryTypes, Freed
  <2>5. MemoryTypes'
    BY <2>3, <2>4 DEF MemoryTypes
  <2>6. PICK l \in {"leave", "idle", "start"} : Goto(w, l) /\ Retire(w, l)
    BY <1>9 DEF Done, AfterDone
  <2>7. HandleTypes' /\ DataTypes' /\ ControlTypes'
    BY <1>3, <1>8, <1>9, <2>6 DEF Done, HandleTypes, DataTypes, WorkerPcs, bounds
  <2> QED BY <2>2, <2>5, <2>7
<1>10. CASE CloseAccepted(w)
  <2>1. h[w] \in BufIds /\ Found(h[w]) /\ Detach(w, h[w]) /\ open_cnt' = open_cnt
    BY <1>2, <1>10 DEF CloseAccepted, Attached
  <2>2. KernelTypes' /\ MemoryTypes'
        /\ ref' \in [Procs -> {"none", "name", "thread", "buffer"}]
    BY <1>1, <2>1, DetachTypes
  <2>3. HandleTypes' /\ DataTypes' /\ ControlTypes'
    BY <1>3, <1>8, <1>10, <2>2
    DEF CloseAccepted, AfterLeave, HandleTypes, DataTypes, WorkerPcs, bounds
  <2> QED BY <2>2, <2>3
<1> QED BY <1>4, <1>5, <1>6, <1>7, <1>9, <1>10 DEF WorkerNext

\* Every step keeps the types.
LEMMA TypeStep == IInv /\ [Next]_vars => TypeOK'
<1>1. CASE UNCHANGED vars
  <2> SUFFICES ASSUME IInv PROVE TypeOK'
    OBVIOUS
  <2> USE <1>1 DEF vars, IInv, TypeOK
  <2>1. KernelTypes'
    BY DEF kernel, KernelTypes
  <2>2. MemoryTypes' /\ DataTypes'
    BY DEF memory, data, bounds, MemoryTypes, DataTypes
  <2>3. ControlTypes' /\ HandleTypes'
    BY DEF ControlTypes, HandleTypes
  <2> QED BY <2>1, <2>2, <2>3
<1> QED BY <1>1, ClientTypes, ServerTypes, WorkerTypes DEF Next

-----------------------------------------------------------------------------
(* open_cnt.                                                               *)

\* The processes that have the device open are finitely many.
LEMMA FilesFinite == IsFiniteSet({p \in Clients \cup Servers : HasFile(p)})
<1>1. IsFiniteSet(Clients \cup Servers)
  BY ConstantsAssumption, FS_Union
<1> QED BY <1>1, FS_Subset

\* When the last file is closed, nobody else has one.
LEMMA LastFileAlone ==
  ASSUME IInv, LastFile, NEW p \in Clients \cup Servers, HasFile(p),
         NEW q \in Clients \cup Servers, HasFile(q)
  PROVE  p = q
<1> DEFINE S == {x \in Clients \cup Servers : HasFile(x)}
<1>1. open_cnt \in Nat /\ open_cnt - 1 \in Nat /\ open_cnt - 1 <= 0
  BY FileCounted DEF LastFile
<1>2. Cardinality(S) = 1
  BY <1>1 DEF IInv, FilesCounted
<1>3. \E x : S = {x}
  BY <1>2, FilesFinite, FS_Singleton
<1> QED BY <1>3

\* Steps that neither open nor close a file keep the count,
LEMMA FilesSame ==
  ASSUME FilesCounted, open_cnt' = open_cnt,
         \A p \in Clients \cup Servers : HasFile(p) <=> HasFile(p)'
  PROVE  FilesCounted'
<1>1. {p \in Clients \cup Servers : HasFile(p)} = {p \in Clients \cup Servers : HasFile(p)'}
  OBVIOUS
<1> QED BY <1>1 DEF FilesCounted

\* open adds one,
LEMMA FilesOpened ==
  ASSUME FilesCounted, NEW p \in Clients \cup Servers,
         ~HasFile(p), HasFile(p)', open_cnt' = open_cnt + 1,
         \A q \in (Clients \cup Servers) \ {p} : HasFile(q) <=> HasFile(q)'
  PROVE  FilesCounted'
<1> DEFINE S == {x \in Clients \cup Servers : HasFile(x)}
           T == {x \in Clients \cup Servers : HasFile(x)'}
<1>1. T = S \cup {p} /\ p \notin S
  OBVIOUS
<1> HIDE DEF S, T
<1>2. Cardinality(S \cup {p}) = Cardinality(S) + 1
  BY <1>1, FilesFinite, FS_AddElement DEF S
<1>3. Cardinality(T) = Cardinality(S) + 1
  BY <1>1, <1>2
<1> QED BY <1>3 DEF FilesCounted, S, T

\* close takes one away.
LEMMA FilesClosed ==
  ASSUME FilesCounted, NEW p \in Clients \cup Servers,
         HasFile(p), ~HasFile(p)', open_cnt' = open_cnt - 1,
         \A q \in (Clients \cup Servers) \ {p} : HasFile(q) <=> HasFile(q)'
  PROVE  FilesCounted'
<1> DEFINE S == {x \in Clients \cup Servers : HasFile(x)}
           T == {x \in Clients \cup Servers : HasFile(x)'}
<1>1. T = S \ {p} /\ p \in S
  OBVIOUS
<1> HIDE DEF S, T
<1>2. Cardinality(S \ {p}) = Cardinality(S) - 1
  BY <1>1, FilesFinite, FS_RemoveElement DEF S
<1>3. Cardinality(T) = Cardinality(S) - 1
  BY <1>1, <1>2
<1> QED BY <1>3 DEF FilesCounted, S, T

\* Every step keeps the count of open files.
LEMMA FilesStep == IInv /\ [Next]_vars => FilesCounted'
<1> SUFFICES ASSUME IInv, [Next]_vars PROVE FilesCounted'
  OBVIOUS
<1> USE DEF IInv, TypeOK
<1>1. /\ Clients \cup Servers \subseteq Procs /\ Workers \subseteq Procs
      /\ \A w \in Workers : w \notin Clients \cup Servers
      /\ pc \in [Procs -> ClientPcs \cup ServerPcs \cup WorkerPcs]
  BY ConstantsAssumption DEF Procs, ControlTypes
<1>2. ASSUME NEW p \in Procs, NEW l, Goto(p, l)
      PROVE  /\ p \in Clients \cup Servers =>
                  (HasFile(p)' <=> l \notin {"closed", "gone", "crashed"})
             /\ \A q \in (Clients \cup Servers) \ {p} : HasFile(q) <=> HasFile(q)'
  BY <1>1, <1>2 DEF Goto, HasFile
<1>3. ASSUME NEW p \in Procs, NEW l, Goto(p, l), open_cnt' = open_cnt,
             p \in Clients \cup Servers =>
               HasFile(p) /\ l \notin {"closed", "gone", "crashed"}
      PROVE  FilesCounted'
  BY <1>2, <1>3, FilesSame
<1>4. ASSUME NEW p \in Clients \cup Servers, OpenFile(p) PROVE FilesCounted'
  <2>1. Goto(p, "file") /\ open_cnt' = open_cnt + 1 /\ ~HasFile(p)
    BY <1>4 DEF OpenFile, HasFile
  <2>2. HasFile(p)' /\ \A q \in (Clients \cup Servers) \ {p} : HasFile(q) <=> HasFile(q)'
    BY <1>1, <1>2, <2>1
  <2> QED BY <2>1, <2>2, FilesOpened
<1>5. ASSUME NEW p \in Clients \cup Servers, NEW l \in {"closed", "gone", "crashed"},
             HasFile(p), Goto(p, l), ReleaseFile
      PROVE  FilesCounted'
  <2>1. ~HasFile(p)' /\ \A q \in (Clients \cup Servers) \ {p} : HasFile(q) <=> HasFile(q)'
    BY <1>1, <1>2, <1>5
  <2>2. open_cnt' = open_cnt - 1
    BY <1>5 DEF ReleaseFile
  <2> QED BY <1>5, <2>1, <2>2, FilesClosed
<1>6. ASSUME NEW p \in Clients \cup Servers, CloseFile(p) PROVE FilesCounted'
  BY <1>5, <1>6 DEF CloseFile, HasFile
<1>7. ASSUME NEW c \in Clients, ClientNext(c) PROVE FilesCounted'
  <2>1. CASE AttachClient(c)
    BY <1>1, <1>3, <2>1 DEF AttachClient, HasFile
  <2>2. ASSUME NEW q \in Requests, Resize(c, q) PROVE FilesCounted'
    BY <2>2, FilesSame DEF Resize, HasFile, kernel
  <2>3. ASSUME NEW op \in Ops, Call(c, op) PROVE FilesCounted'
    BY <1>1, <1>3, <2>3 DEF Call, Post, HasFile
  <2>4. CASE CallAgain(c)
    BY <1>1, <1>3, <2>4 DEF CallAgain, Post, HasFile
  <2>5. CASE CallDone(c) \/ CallTimeout(c) \/ CallInterrupted(c)
    BY <1>1, <1>3, <2>5 DEF CallDone, CallTimeout, CallInterrupted, AfterCall, HasFile, kernel
  <2>6. CASE CloseClient(c)
    BY <1>1, <1>3, <2>6 DEF CloseClient, HasFile
  <2>7. CASE CrashClient(c)
    BY <1>1, <1>5, <2>7 DEF CrashClient
  <2> QED BY <1>4, <1>6, <1>7, <2>1, <2>2, <2>3, <2>4, <2>5, <2>6, <2>7 DEF ClientNext
<1>8. ASSUME NEW s \in Servers, ServerNext(s) PROVE FilesCounted'
  <2>1. CASE AttachServer(s)
    BY <1>1, <1>3, <2>1 DEF AttachServer, HasFile
  <2>2. CASE Listen(s) \/ ListenInterrupted(s) \/ ListenWake(s)
    BY <1>1, <1>3, <2>2 DEF Listen, ListenInterrupted, ListenWake, HasFile, kernel
  <2>3. CASE ListenPick(s)
    <3>1. open_cnt' = open_cnt /\ HasFile(s)
      BY <2>3 DEF ListenPick, HasFile
    <3>2. \/ Goto(s, "ready")
          \/ \E w \in Workers : pc' = [pc EXCEPT ![s] = "ready", ![w] = "start"]
      BY <2>3 DEF ListenPick, IdleWorkers
    <3>3. ASSUME NEW w \in Workers, pc' = [pc EXCEPT ![s] = "ready", ![w] = "start"]
          PROVE  \A p \in Clients \cup Servers : HasFile(p) <=> HasFile(p)'
      BY <1>1, <3>1, <3>3 DEF HasFile
    <3> QED BY <1>1, <1>3, <3>1, <3>2, <3>3, FilesSame
  <2>4. CASE CloseServer(s)
    BY <1>1, <1>3, <2>4 DEF CloseServer, HasFile
  <2>5. CASE CrashServer(s)
    <3>1. HasFile(s) /\ ~HasFile(s)' /\ open_cnt' = open_cnt - 1
      BY <1>1, <2>5 DEF CrashServer, ReleaseFile, HasFile
    <3>2. \A q \in (Clients \cup Servers) \ {s} : HasFile(q) <=> HasFile(q)'
      BY <1>1, <2>5 DEF CrashServer, HasFile
    <3> QED BY <3>1, <3>2, FilesClosed
  <2> QED BY <1>4, <1>6, <1>8, <2>1, <2>2, <2>3, <2>4, <2>5 DEF ServerNext
<1>9. ASSUME NEW w \in Workers, WorkerNext(w) PROVE FilesCounted'
  <2>1. open_cnt' = open_cnt
    BY <1>9 DEF WorkerNext, Accept, AcceptWake, AcceptRead, AcceptInterrupted, Serve, Done,
                CloseAccepted, kernel
  <2>2. \E l : Goto(w, l)
    BY <1>9 DEF WorkerNext, Accept, AcceptWake, AcceptRead, AcceptInterrupted, Serve, Done,
                CloseAccepted
  <2> QED BY <1>1, <1>3, <2>1, <2>2
<1>10. CASE UNCHANGED vars
  BY <1>10, FilesSame DEF vars, kernel, HasFile
<1> QED BY <1>7, <1>8, <1>9, <1>10 DEF Next

-----------------------------------------------------------------------------
(* What the processes reference.                                           *)

\* A step that changes nothing the invariant speaks of.
LEMMA HandlesSame ==
  ASSUME HandlesConsistent, pc' = pc, h' = h, ref' = ref, job' = job
  PROVE  HandlesConsistent'
  BY DEF HandlesConsistent, ClientRef, ServerRef, WorkerRef, Attached

\* The state of every process but p.
SameButFor(p) ==
  /\ \A q \in Procs \ {p} : pc'[q] = pc[q] /\ ref'[q] = ref[q]
  /\ \A q \in Users \ {p} : h'[q] = h[q]
  /\ \A w \in Workers \ {p} : job'[w] = job[w]

\* A step of one process, which leaves itself consistent and stops listening
\* only when no worker of it is attached.
LEMMA HandlesLocal ==
  ASSUME HandlesConsistent, NEW p \in Procs, SameButFor(p),
         p \in Clients => ClientRef(p)',
         p \in Servers => ServerRef(p)',
         p \in Workers => WorkerRef(p)',
         (p \in Servers /\ pc[p] \in Listening) =>
            \/ pc'[p] \in Listening
            \/ \A w \in Workers : BossOf[w] = p => ~Attached(w)
  PROVE  HandlesConsistent'
<1>1. /\ \A c \in Clients : c \in Procs /\ c \in Users
      /\ \A s \in Servers : s \in Procs
      /\ \A w \in Workers : w \in Procs /\ w \in Users /\ BossOf[w] \in Servers
  BY ConstantsAssumption DEF Procs, Users
<1>2. \A c \in Clients : ClientRef(c)'
  BY <1>1 DEF HandlesConsistent, ClientRef, SameButFor
<1>3. \A s \in Servers : ServerRef(s)'
  BY <1>1 DEF HandlesConsistent, ServerRef, SameButFor
<1>4. ASSUME NEW w \in Workers PROVE WorkerRef(w)'
  <2>1. CASE w = p
    BY <2>1
  <2>2. CASE w # p
    <3>1. /\ pc'[w] = pc[w] /\ ref'[w] = ref[w] /\ h'[w] = h[w] /\ job'[w] = job[w]
          /\ Attached(w) <=> Attached(w)'
      BY <1>1, <2>2 DEF SameButFor, Attached
    <3>2. Attached(w) => pc'[BossOf[w]] \in Listening
      BY <1>1, <2>2 DEF HandlesConsistent, WorkerRef, SameButFor
    <3> QED BY <3>1, <3>2 DEF HandlesConsistent, WorkerRef
  <2> QED BY <2>1, <2>2
<1> QED BY <1>2, <1>3, <1>4 DEF HandlesConsistent

\* The last close: the others have no file, so they reference nothing.
LEMMA HandlesLast ==
  ASSUME IInv, LastFile, ReleaseFile, h' = h, job' = job,
         NEW p \in Clients \cup Servers, HasFile(p),
         pc'[p] \notin InSession \cup Listening,
         \A q \in (Clients \cup Servers) \ {p} : pc'[q] = pc[q],
         \A w \in Workers : pc'[w] \in {pc[w], "crashed"},
         \A w \in Workers : BossOf[w] = p => ~Attached(w)'
  PROVE  HandlesConsistent'
<1>1. \A q \in Procs : ref'[q] = "none"
  BY DEF ReleaseFile
<1>2. \A q \in (Clients \cup Servers) \ {p} : pc'[q] \in {"closed", "gone", "crashed"}
  BY LastFileAlone DEF HasFile
<1>3. \A c \in Clients : ClientRef(c)'
  BY <1>1, <1>2 DEF ClientRef, Procs, InSession
<1>4. \A s \in Servers : ServerRef(s)'
  BY <1>1, <1>2 DEF ServerRef, Procs, Listening
<1>5. ASSUME NEW w \in Workers PROVE WorkerRef(w)'
  <2>1. BossOf[w] \in Servers /\ ref'[w] = "none"
    BY <1>1, ConstantsAssumption DEF Procs
  <2>2. Attached(w)' => Attached(w)
    BY DEF Attached
  <2>3. Attached(w) => pc[BossOf[w]] \in Listening
    BY DEF IInv, HandlesConsistent, WorkerRef
  <2>4. ~Attached(w)'
    BY <1>2, <2>1, <2>2, <2>3 DEF Listening
  <2>5. pc'[w] = "answer" => h'[w] \in BufIds
    BY DEF IInv, HandlesConsistent, WorkerRef
  <2> QED BY <2>1, <2>4, <2>5 DEF WorkerRef
<1> QED BY <1>3, <1>4, <1>5 DEF HandlesConsistent

\* A step that moves p by Goto and changes only p's own handle.
LEMMA LocalFrame ==
  ASSUME TypeOK, NEW p \in Procs, NEW l, Goto(p, l),
         h' = h \/ \E x : h' = [h EXCEPT ![p] = x],
         ref' = ref \/ \E x : ref' = [ref EXCEPT ![p] = x],
         job' = job \/ \E x : job' = [job EXCEPT ![p] = x]
  PROVE  SameButFor(p) /\ pc'[p] = l
  BY DEF TypeOK, ControlTypes, HandleTypes, DataTypes, Goto, SameButFor

\* Every step of a client keeps the references consistent.
LEMMA ClientHandles ==
  ASSUME IInv, NEW c \in Clients, ClientNext(c)
  PROVE  HandlesConsistent'
<1> USE DEF IInv, InSession
<1>1. /\ c \in Procs /\ c \in Users /\ c \in Clients \cup Servers
      /\ c \notin Servers /\ c \notin Workers
      /\ NameOf[c] \in Names /\ TidOf[c] \in Tids
      /\ pc[c] \in ClientPcs
      /\ ClientRef(c)
      /\ h \in [Users -> BufIds \cup {NoBuf}]
      /\ ref \in [Procs -> {"none", "name", "thread", "buffer"}]
  BY ConstantsAssumption
  DEF Procs, Users, HandlesConsistent, TypeOK, ControlTypes, HandleTypes
<1>2. ASSUME SameButFor(c), ClientRef(c)' PROVE HandlesConsistent'
  BY <1>1, <1>2, HandlesLocal
<1>3. ASSUME NEW l, Goto(c, l), h' = h, ref' = ref, job' = job,
             \/ pc[c] \in InSession /\ l \in InSession
             \/ pc[c] = "closed" /\ l = "file"
             \/ l \in {"gone", "crashed"}
             \/ pc[c] = "detached" /\ l = "closed"
      PROVE  HandlesConsistent'
  <2>1. SameButFor(c) /\ pc'[c] = l
    BY <1>1, <1>3, LocalFrame
  <2> QED BY <1>1, <1>2, <1>3, <2>1 DEF ClientRef
<1>4. CASE OpenFile(c)
  BY <1>3, <1>4 DEF OpenFile, data
<1>5. CASE AttachClient(c)
  <2>1. job' = job
    BY <1>5 DEF AttachClient, data
  <2>2. CASE Goto(c, "failed") /\ h' = [h EXCEPT ![c] = <<NameOf[c], TidOf[c], 0>>]
             /\ ref' = [ref EXCEPT ![c] = "thread"]
    <3>1. <<NameOf[c], TidOf[c], 0>> \in BufIds
      BY <1>1, ConstantsAssumption DEF BufIds, Slots
    <3>2. SameButFor(c) /\ pc'[c] = "failed"
      BY <1>1, <2>1, <2>2, LocalFrame
    <3> QED BY <1>1, <1>2, <2>2, <3>1, <3>2 DEF ClientRef
  <2>3. ASSUME NEW i \in FreeSlots(NameOf[c], TidOf[c]), Goto(c, "open"),
               h' = [h EXCEPT ![c] = <<NameOf[c], TidOf[c], i>>],
               ref' = [ref EXCEPT ![c] = "buffer"]
        PROVE  HandlesConsistent'
    <3>1. <<NameOf[c], TidOf[c], i>> \in BufIds
      BY <1>1 DEF BufIds, FreeSlots
    <3>2. SameButFor(c) /\ pc'[c] = "open"
      BY <1>1, <2>1, <2>3, LocalFrame
    <3> QED BY <1>1, <1>2, <2>3, <3>1, <3>2 DEF ClientRef
  <2> QED BY <1>5, <2>2, <2>3 DEF AttachClient
<1>6. ASSUME NEW l \in {"closed", "gone", "crashed"}, Goto(c, l), HasFile(c), ReleaseFile,
             h' = h, job' = job, l = "closed" => pc[c] = "detached"
      PROVE  HandlesConsistent'
  <2>1. CASE ~LastFile
    BY <1>3, <1>6, <2>1 DEF ReleaseFile
  <2>2. CASE LastFile
    <3>1. pc \in [Procs -> ClientPcs \cup ServerPcs \cup WorkerPcs]
          /\ pc' = [pc EXCEPT ![c] = l]
      BY <1>6 DEF TypeOK, ControlTypes, Goto
    <3>2. /\ pc'[c] \notin InSession \cup Listening
          /\ \A q \in (Clients \cup Servers) \ {c} : pc'[q] = pc[q]
          /\ \A w \in Workers : pc'[w] = pc[w] /\ BossOf[w] # c
      BY <1>1, <3>1, ConstantsAssumption DEF Procs, Listening
    <3> HIDE DEF IInv, InSession
    <3> QED BY <1>1, <1>6, <2>2, <3>2, HandlesLast
  <2> QED BY <2>1, <2>2
<1>7. CASE CloseFile(c)
  BY <1>6, <1>7 DEF CloseFile, HasFile, data
<1>8. CASE CrashClient(c)
  BY <1>6, <1>8 DEF CrashClient, data
<1>9. ASSUME NEW q \in Requests, Resize(c, q) PROVE HandlesConsistent'
  BY <1>9, HandlesSame DEF Resize, data
<1>10. ASSUME NEW op \in Ops, Call(c, op) PROVE HandlesConsistent'
  BY <1>3, <1>10 DEF Call, Post
<1>11. CASE CallAgain(c)
  BY <1>3, <1>11 DEF CallAgain, Post
<1>12. CASE CallDone(c) \/ CallTimeout(c) \/ CallInterrupted(c)
  BY <1>3, <1>12 DEF CallDone, CallTimeout, CallInterrupted, AfterCall, data
<1>13. CASE CloseClient(c)
  <2>1. /\ Goto(c, "detached") /\ h' = [h EXCEPT ![c] = NoBuf]
        /\ ref' = [ref EXCEPT ![c] = "none"] /\ job' = job
    BY <1>13 DEF CloseClient, Detach
  <2>2. SameButFor(c) /\ pc'[c] = "detached"
    BY <1>1, <2>1, LocalFrame
  <2> QED BY <1>1, <1>2, <2>1, <2>2 DEF ClientRef
<1> QED BY <1>4, <1>5, <1>7, <1>8, <1>9, <1>10, <1>11, <1>12, <1>13 DEF ClientNext

\* Every step of a server keeps the references consistent.
LEMMA ServerHandles ==
  ASSUME IInv, NEW s \in Servers, ServerNext(s)
  PROVE  HandlesConsistent'
<1> USE DEF IInv, Listening
<1>1. /\ s \in Procs /\ s \in Clients \cup Servers
      /\ s \notin Clients /\ s \notin Workers
      /\ pc[s] \in ServerPcs
      /\ ServerRef(s)
      /\ h \in [Users -> BufIds \cup {NoBuf}]
      /\ ref \in [Procs -> {"none", "name", "thread", "buffer"}]
      /\ pc \in [Procs -> ClientPcs \cup ServerPcs \cup WorkerPcs]
  BY ConstantsAssumption
  DEF Procs, HandlesConsistent, TypeOK, ControlTypes, HandleTypes
<1>2. ASSUME SameButFor(s), ServerRef(s)',
             pc[s] \in Listening =>
               pc'[s] \in Listening \/ \A w \in Workers : BossOf[w] = s => ~Attached(w)
      PROVE  HandlesConsistent'
  BY <1>1, <1>2, HandlesLocal
<1>3. ASSUME NEW l, Goto(s, l), h' = h, ref' = ref, job' = job,
             \/ pc[s] \in Listening /\ l \in Listening
             \/ pc[s] = "closed" /\ l = "file"
             \/ pc[s] = "detached" /\ l = "closed"
      PROVE  HandlesConsistent'
  <2>1. SameButFor(s) /\ pc'[s] = l
    BY <1>1, <1>3, LocalFrame
  <2> QED BY <1>1, <1>2, <1>3, <2>1 DEF ServerRef
<1>4. CASE OpenFile(s)
  BY <1>3, <1>4 DEF OpenFile, data
<1>5. CASE AttachServer(s)
  <2>1. /\ pc[s] = "file" /\ Goto(s, "ready") /\ h' = h
        /\ ref' = [ref EXCEPT ![s] = "name"] /\ job' = job
    BY <1>5 DEF AttachServer, data
  <2>2. SameButFor(s) /\ pc'[s] = "ready"
    BY <1>1, <2>1, LocalFrame
  <2> QED BY <1>1, <1>2, <2>1, <2>2 DEF ServerRef
<1>6. CASE CloseFile(s)
  <2>1. /\ pc[s] = "detached" /\ Goto(s, "closed") /\ h' = h /\ job' = job
        /\ ReleaseFile /\ HasFile(s)
    BY <1>1, <1>6 DEF CloseFile, ServerPcs, HasFile, data
  <2>2. CASE ~LastFile
    BY <1>3, <2>1, <2>2 DEF ReleaseFile
  <2>3. CASE LastFile
    <3>1. pc' = [pc EXCEPT ![s] = "closed"]
      BY <2>1 DEF Goto
    <3>2. /\ pc'[s] \notin InSession \cup Listening
          /\ \A q \in (Clients \cup Servers) \ {s} : pc'[q] = pc[q]
          /\ \A w \in Workers : pc'[w] = pc[w]
      BY <1>1, <3>1, ConstantsAssumption DEF Procs, InSession
    <3>3. \A w \in Workers : BossOf[w] = s => ~Attached(w)
      BY <2>1 DEF HandlesConsistent, WorkerRef
    <3>4. \A w \in Workers : BossOf[w] = s => ~Attached(w)'
      BY <2>1, <3>2, <3>3 DEF Attached
    <3> HIDE DEF IInv, Listening
    <3> QED BY <1>1, <2>1, <2>3, <3>2, <3>4, HandlesLast
  <2> QED BY <2>2, <2>3
<1>7. CASE Listen(s) \/ ListenInterrupted(s) \/ ListenWake(s)
  BY <1>3, <1>7 DEF Listen, ListenInterrupted, ListenWake, data
<1>8. CASE ListenPick(s)
  <2>1. job' = job /\ pc[s] = "woken"
    BY <1>8 DEF ListenPick, data
  <2>2. CASE Goto(s, "ready") /\ h' = h /\ ref' = ref
    BY <1>3, <2>1, <2>2
  <2>3. ASSUME NEW b \in Unconnected(NameOf[s]), NEW w \in IdleWorkers(s),
               h' = [h EXCEPT ![w] = b],
               ref' = [ref EXCEPT ![w] = "buffer"],
               pc' = [pc EXCEPT ![s] = "ready", ![w] = "start"]
        PROVE  HandlesConsistent'
    <3>1. /\ b \in BufIds /\ w \in Workers /\ w \in Users /\ w \in Procs
          /\ BossOf[w] = s /\ pc[w] = "idle" /\ w # s /\ w \notin Clients
      BY <1>1, ConstantsAssumption DEF Unconnected, IdleWorkers, Users, Procs
    <3>2. /\ pc'[s] = "ready" /\ pc'[w] = "start"
          /\ \A q \in Procs \ {s, w} : pc'[q] = pc[q]
          /\ \A q \in Procs \ {w} : ref'[q] = ref[q]
          /\ \A q \in Users \ {w} : h'[q] = h[q]
          /\ ref'[w] = "buffer" /\ h'[w] = b
      BY <1>1, <2>3, <3>1
    <3>3. \A c \in Clients : ClientRef(c)'
      BY <1>1, <3>1, <3>2 DEF HandlesConsistent, ClientRef, Procs, Users
    <3>4. \A x \in Servers : ServerRef(x)'
      BY <1>1, <2>1, <3>1, <3>2, ConstantsAssumption DEF HandlesConsistent, ServerRef, Procs
    <3>5. ASSUME NEW x \in Workers PROVE WorkerRef(x)'
      <4>1. CASE x = w
        BY <3>1, <3>2, <4>1 DEF WorkerRef, Attached
      <4>2. CASE x # w
        <5>1. /\ x \in Procs \ {s, w} /\ x \in Users \ {w}
              /\ BossOf[x] \in Servers /\ BossOf[x] \in Procs \ {w}
          BY <1>1, <3>1, <4>2, ConstantsAssumption DEF Procs, Users
        <5>2. pc[BossOf[x]] \in Listening => pc'[BossOf[x]] \in Listening
          BY <3>2, <5>1
        <5>3. Attached(x) <=> Attached(x)'
          BY <2>1, <3>2, <5>1 DEF Attached
        <5> QED BY <2>1, <3>2, <5>1, <5>2, <5>3 DEF HandlesConsistent, WorkerRef
      <4> QED BY <4>1, <4>2
    <3> QED BY <3>3, <3>4, <3>5 DEF HandlesConsistent
  <2> QED BY <1>8, <2>2, <2>3 DEF ListenPick
<1>9. CASE CloseServer(s)
  <2>1. /\ Goto(s, "detached") /\ h' = h /\ ref' = [ref EXCEPT ![s] = "none"] /\ job' = job
        /\ \A w \in Workers : BossOf[w] = s => ~Attached(w)
    BY <1>9 DEF CloseServer, Attached, data
  <2>2. SameButFor(s) /\ pc'[s] = "detached"
    BY <1>1, <2>1, LocalFrame
  <2> QED BY <1>1, <1>2, <2>1, <2>2 DEF ServerRef
<1>10. CASE CrashServer(s)
  <2>1. /\ pc' = [p \in Procs |-> IF p \in {s} \cup {w \in Workers : BossOf[w] = s}
                                    THEN "crashed" ELSE pc[p]]
        /\ HasFile(s) /\ ReleaseFile /\ h' = h /\ job' = job
    BY <1>10 DEF CrashServer, data
  <2>2. /\ pc'[s] = "crashed"
        /\ \A q \in (Clients \cup Servers) \ {s} : pc'[q] = pc[q]
        /\ \A w \in Workers : pc'[w] = IF BossOf[w] = s THEN "crashed" ELSE pc[w]
        /\ \A w \in Workers : BossOf[w] \in Servers
    BY <1>1, <2>1, ConstantsAssumption DEF Procs
  <2>3. CASE LastFile
    <3>1. \A w \in Workers : BossOf[w] = s => ~Attached(w)'
      BY <2>2 DEF Attached
    <3>2. pc'[s] \notin InSession \cup Listening
      BY <2>2 DEF InSession
    <3> HIDE DEF IInv, Listening
    <3> QED BY <1>1, <2>1, <2>2, <2>3, <3>1, <3>2, HandlesLast
  <2>4. CASE ~LastFile
    <3>1. ref' = ref
      BY <2>1, <2>4 DEF ReleaseFile
    <3>2. \A c \in Clients : ClientRef(c)'
      BY <1>1, <2>1, <2>2, <3>1 DEF HandlesConsistent, ClientRef
    <3>3. \A x \in Servers : ServerRef(x)'
      BY <2>2, <3>1 DEF HandlesConsistent, ServerRef
    <3>4. ASSUME NEW x \in Workers PROVE WorkerRef(x)'
      <4>1. CASE BossOf[x] = s
        BY <2>1, <2>2, <3>1, <4>1 DEF HandlesConsistent, WorkerRef, Attached
      <4>2. CASE BossOf[x] # s
        BY <2>1, <2>2, <3>1, <4>2 DEF HandlesConsistent, WorkerRef, Attached
      <4> QED BY <4>1, <4>2
    <3> QED BY <3>2, <3>3, <3>4 DEF HandlesConsistent
  <2> QED BY <2>3, <2>4
<1> QED BY <1>4, <1>5, <1>6, <1>7, <1>8, <1>9, <1>10 DEF ServerNext

\* Every step of a worker keeps the references consistent.
LEMMA WorkerHandles ==
  ASSUME IInv, NEW w \in Workers, WorkerNext(w)
  PROVE  HandlesConsistent'
<1> USE DEF IInv
<1>1. /\ w \in Procs /\ w \in Users /\ w \notin Clients /\ w \notin Servers
      /\ BossOf[w] \in Procs \ {w}
      /\ WorkerRef(w)
      /\ h \in [Users -> BufIds \cup {NoBuf}]
      /\ ref \in [Procs -> {"none", "name", "thread", "buffer"}]
      /\ job \in [Workers -> Job]
  BY ConstantsAssumption DEF Procs, Users, HandlesConsistent, TypeOK, HandleTypes, DataTypes
<1>2. ASSUME SameButFor(w), WorkerRef(w)' PROVE HandlesConsistent'
  BY <1>1, <1>2, HandlesLocal
<1>3. ASSUME NEW l, Goto(w, l), h' = h, ref' = ref, job' = job, Attached(w),
             l # "idle", l = "answer" => job[w].op # "close"
      PROVE  HandlesConsistent'
  <2>1. SameButFor(w) /\ pc'[w] = l
    BY <1>1, <1>3, LocalFrame
  <2>2. pc'[BossOf[w]] = pc[BossOf[w]]
    BY <1>1, <2>1 DEF SameButFor
  <2> QED BY <1>1, <1>2, <1>3, <2>1, <2>2 DEF WorkerRef
<1>4. CASE Accept(w) \/ AcceptInterrupted(w) \/ AcceptWake(w)
  BY <1>3, <1>4 DEF Accept, AcceptInterrupted, AcceptWake, Attached, data
<1>5. CASE AcceptRead(w)
  <2>1. /\ pc[w] = "woken" /\ Goto(w, "exec") /\ h' = h /\ ref' = ref
        /\ \E x : job' = [job EXCEPT ![w] = x]
    BY <1>5 DEF AcceptRead
  <2>2. SameButFor(w) /\ pc'[w] = "exec"
    BY <1>1, <2>1, LocalFrame
  <2>3. pc'[BossOf[w]] = pc[BossOf[w]] /\ Attached(w)
    BY <1>1, <2>1, <2>2 DEF SameButFor, Attached
  <2> QED BY <1>1, <1>2, <2>1, <2>2, <2>3 DEF WorkerRef
<1>6. CASE Serve(w)
  BY <1>3, <1>6 DEF Serve, Attached, data
<1>7. CASE Done(w)
  <2>1. /\ pc[w] = "answer" /\ Goto(w, AfterDone(w)) /\ Retire(w, AfterDone(w)) /\ ref' = ref
    BY <1>7 DEF Done
  <2>2. CASE job[w].op = "close"
    <3>1. AfterDone(w) = "idle" /\ ref[w] = "none"
      BY <1>1, <2>1, <2>2 DEF AfterDone, WorkerRef
    <3>2. h' = [h EXCEPT ![w] = NoBuf] /\ job' = [job EXCEPT ![w] = NoJob]
      BY <2>1, <3>1 DEF Retire
    <3>3. SameButFor(w) /\ pc'[w] = "idle"
      BY <1>1, <2>1, <3>1, <3>2, LocalFrame
    <3> QED BY <1>1, <1>2, <2>1, <3>1, <3>2, <3>3 DEF WorkerRef, Attached
  <2>3. CASE job[w].op # "close"
    <3>1. AfterDone(w) \in {"leave", "start"} /\ Attached(w)
      BY <2>1, <2>3 DEF AfterDone, Attached
    <3>2. h' = h /\ job' = job
      BY <2>1, <3>1 DEF Retire
    <3> QED BY <1>3, <2>1, <3>1, <3>2
  <2> QED BY <2>2, <2>3
<1>8. CASE CloseAccepted(w)
  <2>1. /\ pc[w] = "leave" /\ Goto(w, AfterLeave(w)) /\ Retire(w, AfterLeave(w))
        /\ ref' = [ref EXCEPT ![w] = "none"]
    BY <1>8 DEF CloseAccepted, Detach
  <2>2. /\ h' = h \/ \E x : h' = [h EXCEPT ![w] = x]
        /\ job' = job \/ \E x : job' = [job EXCEPT ![w] = x]
    BY <2>1 DEF Retire
  <2>3. SameButFor(w) /\ pc'[w] = AfterLeave(w)
    BY <1>1, <2>1, <2>2, LocalFrame
  <2>4. CASE job[w].op = "close"
    <3>1. AfterLeave(w) = "answer" /\ h' = h /\ job' = job /\ h[w] \in BufIds
      BY <1>1, <2>1, <2>4 DEF AfterLeave, Retire, WorkerRef, Attached
    <3> QED BY <1>1, <1>2, <2>1, <2>3, <2>4, <3>1 DEF WorkerRef, Attached
  <2>5. CASE job[w].op # "close"
    <3>1. AfterLeave(w) = "idle"
      BY <2>5 DEF AfterLeave
    <3> QED BY <1>1, <1>2, <2>1, <2>3, <3>1 DEF WorkerRef, Attached
  <2> QED BY <2>4, <2>5
<1> QED BY <1>4, <1>5, <1>6, <1>7, <1>8 DEF WorkerNext

\* Every step keeps the references consistent.
LEMMA HandlesStep == IInv /\ [Next]_vars => HandlesConsistent'
<1>1. ASSUME IInv, UNCHANGED vars PROVE HandlesConsistent'
  BY <1>1, HandlesSame DEF IInv, vars, data
<1> QED BY <1>1, ClientHandles, ServerHandles, WorkerHandles DEF Next

-----------------------------------------------------------------------------
(* The reference counters.                                                 *)

\* Holders are finitely many.
LEMMA HoldersFinite ==
  /\ \A b : IsFiniteSet(BufHolders(b))
  /\ \A k : IsFiniteSet(TidHolders(k))
  /\ \A n : IsFiniteSet(NameHolders(n))
<1>1. IsFiniteSet(Users) /\ IsFiniteSet(Users \cup Servers)
  BY ConstantsAssumption, FS_Union DEF Users
<1>2. /\ \A b : BufHolders(b) \in SUBSET Users
      /\ \A k : TidHolders(k) \in SUBSET Users
      /\ \A n : NameHolders(n) \in SUBSET (Users \cup Servers)
  BY DEF BufHolders, TidHolders, NameHolders
<1> QED BY <1>1, <1>2, FS_Subset

\* A process that references nothing yet gets a reference to buffer b, and the
\* three counters go up.
LEMMA CountsTake ==
  ASSUME TypeOK, RefCountsExact, NEW p \in Users, NEW b \in BufIds, ref[p] = "none",
         ref' = [ref EXCEPT ![p] = "buffer"],
         h' = [h EXCEPT ![p] = b],
         buf_cnt' = [buf_cnt EXCEPT ![b] = @ + 1],
         tid_cnt' = [tid_cnt EXCEPT ![<<b[1], b[2]>>] = @ + 1],
         name_cnt' = [name_cnt EXCEPT ![b[1]] = @ + 1]
  PROVE  RefCountsExact'
<1>1. /\ b[1] \in Names /\ <<b[1], b[2]>> \in Names \X Tids
      /\ p \in Procs /\ p \notin Servers
      /\ \A q \in Users : q \in Procs
      /\ \A s \in Servers : s \in Procs
  BY ConstantsAssumption DEF BufIds, Users, Procs
<1>2. /\ ref \in [Procs -> {"none", "name", "thread", "buffer"}]
      /\ h \in [Users -> BufIds \cup {NoBuf}]
      /\ buf_cnt \in [BufIds -> Nat] /\ tid_cnt \in [Names \X Tids -> Nat]
      /\ name_cnt \in [Names -> Nat]
  BY DEF TypeOK, HandleTypes, KernelTypes
<1>3. ASSUME NEW x \in BufIds PROVE buf_cnt'[x] = Cardinality(BufHolders(x)')
  <2>1. CASE x = b
    <3>1. BufHolders(b)' = BufHolders(b) \cup {p} /\ p \notin BufHolders(b)
      BY <1>1, <1>2 DEF BufHolders
    <3>2. Cardinality(BufHolders(b)') = Cardinality(BufHolders(b)) + 1
      BY <3>1, HoldersFinite, FS_AddElement
    <3> QED BY <1>2, <2>1, <3>2 DEF RefCountsExact
  <2>2. CASE x # b
    <3>1. BufHolders(x)' = BufHolders(x)
      BY <1>1, <1>2, <2>2 DEF BufHolders
    <3> QED BY <1>2, <2>2, <3>1 DEF RefCountsExact
  <2> QED BY <2>1, <2>2
<1>4. ASSUME NEW k \in Names \X Tids PROVE tid_cnt'[k] = Cardinality(TidHolders(k)')
  <2>1. CASE k = <<b[1], b[2]>>
    <3>1. TidHolders(k)' = TidHolders(k) \cup {p} /\ p \notin TidHolders(k)
      BY <1>1, <1>2, <2>1 DEF TidHolders
    <3>2. Cardinality(TidHolders(k)') = Cardinality(TidHolders(k)) + 1
      BY <3>1, HoldersFinite, FS_AddElement
    <3> QED BY <1>2, <2>1, <3>2 DEF RefCountsExact
  <2>2. CASE k # <<b[1], b[2]>>
    <3>1. TidHolders(k)' = TidHolders(k)
      BY <1>1, <1>2, <2>2 DEF TidHolders
    <3> QED BY <1>2, <2>2, <3>1 DEF RefCountsExact
  <2> QED BY <2>1, <2>2
<1>5. ASSUME NEW n \in Names PROVE name_cnt'[n] = Cardinality(NameHolders(n)')
  <2>1. CASE n = b[1]
    <3>1. NameHolders(n)' = NameHolders(n) \cup {p} /\ p \notin NameHolders(n)
      BY <1>1, <1>2, <2>1 DEF NameHolders
    <3>2. Cardinality(NameHolders(n)') = Cardinality(NameHolders(n)) + 1
      BY <3>1, HoldersFinite, FS_AddElement
    <3> QED BY <1>2, <2>1, <3>2 DEF RefCountsExact
  <2>2. CASE n # b[1]
    <3>1. NameHolders(n)' = NameHolders(n)
      BY <1>1, <1>2, <2>2 DEF NameHolders
    <3> QED BY <1>2, <2>2, <3>1 DEF RefCountsExact
  <2> QED BY <2>1, <2>2
<1> QED BY <1>3, <1>4, <1>5 DEF RefCountsExact

\* An ATTACH that finds no slot leaves its counts on the name and the thread.
LEMMA CountsFailed ==
  ASSUME TypeOK, RefCountsExact, NEW p \in Users, NEW b \in BufIds, ref[p] = "none",
         ref' = [ref EXCEPT ![p] = "thread"],
         h' = [h EXCEPT ![p] = b],
         buf_cnt' = buf_cnt,
         tid_cnt' = [tid_cnt EXCEPT ![<<b[1], b[2]>>] = @ + 1],
         name_cnt' = [name_cnt EXCEPT ![b[1]] = @ + 1]
  PROVE  RefCountsExact'
<1>1. /\ b[1] \in Names /\ <<b[1], b[2]>> \in Names \X Tids
      /\ p \in Procs /\ p \notin Servers
      /\ \A q \in Users : q \in Procs
      /\ \A s \in Servers : s \in Procs
  BY ConstantsAssumption DEF BufIds, Users, Procs
<1>2. /\ ref \in [Procs -> {"none", "name", "thread", "buffer"}]
      /\ h \in [Users -> BufIds \cup {NoBuf}]
      /\ tid_cnt \in [Names \X Tids -> Nat] /\ name_cnt \in [Names -> Nat]
  BY DEF TypeOK, HandleTypes, KernelTypes
<1>3. \A x \in BufIds : BufHolders(x)' = BufHolders(x)
  BY <1>1, <1>2 DEF BufHolders
<1>4. ASSUME NEW k \in Names \X Tids PROVE tid_cnt'[k] = Cardinality(TidHolders(k)')
  <2>1. CASE k = <<b[1], b[2]>>
    <3>1. TidHolders(k)' = TidHolders(k) \cup {p} /\ p \notin TidHolders(k)
      BY <1>1, <1>2, <2>1 DEF TidHolders
    <3>2. Cardinality(TidHolders(k)') = Cardinality(TidHolders(k)) + 1
      BY <3>1, HoldersFinite, FS_AddElement
    <3> QED BY <1>2, <2>1, <3>2 DEF RefCountsExact
  <2>2. CASE k # <<b[1], b[2]>>
    <3>1. TidHolders(k)' = TidHolders(k)
      BY <1>1, <1>2, <2>2 DEF TidHolders
    <3> QED BY <1>2, <2>2, <3>1 DEF RefCountsExact
  <2> QED BY <2>1, <2>2
<1>5. ASSUME NEW n \in Names PROVE name_cnt'[n] = Cardinality(NameHolders(n)')
  <2>1. CASE n = b[1]
    <3>1. NameHolders(n)' = NameHolders(n) \cup {p} /\ p \notin NameHolders(n)
      BY <1>1, <1>2, <2>1 DEF NameHolders
    <3>2. Cardinality(NameHolders(n)') = Cardinality(NameHolders(n)) + 1
      BY <3>1, HoldersFinite, FS_AddElement
    <3> QED BY <1>2, <2>1, <3>2 DEF RefCountsExact
  <2>2. CASE n # b[1]
    <3>1. NameHolders(n)' = NameHolders(n)
      BY <1>1, <1>2, <2>2 DEF NameHolders
    <3> QED BY <1>2, <2>2, <3>1 DEF RefCountsExact
  <2> QED BY <2>1, <2>2
<1> QED BY <1>3, <1>4, <1>5 DEF RefCountsExact

\* DETACH of a handle takes one from each of the three counters.
LEMMA CountsDrop ==
  ASSUME TypeOK, RefCountsExact, NEW p \in Users, NEW b \in BufIds,
         ref[p] = "buffer", h[p] = b, Detach(p, b),
         \A q \in Users \ {p} : h'[q] = h[q]
  PROVE  RefCountsExact'
<1>1. /\ b[1] \in Names /\ <<b[1], b[2]>> \in Names \X Tids
      /\ p \in Procs /\ p \notin Servers
      /\ \A q \in Users : q \in Procs
      /\ \A s \in Servers : s \in Procs
  BY ConstantsAssumption DEF BufIds, Users, Procs
<1>2. /\ ref \in [Procs -> {"none", "name", "thread", "buffer"}]
      /\ buf_cnt \in [BufIds -> Nat] /\ tid_cnt \in [Names \X Tids -> Nat]
      /\ name_cnt \in [Names -> Nat]
  BY DEF TypeOK, HandleTypes, KernelTypes
<1>3. /\ ref' = [ref EXCEPT ![p] = "none"]
      /\ buf_cnt' = [buf_cnt EXCEPT ![b] = @ - 1]
      /\ tid_cnt' = [tid_cnt EXCEPT ![<<b[1], b[2]>>] = @ - 1]
      /\ name_cnt' = [name_cnt EXCEPT ![b[1]] = @ - 1]
  BY DEF Detach
<1>4. ASSUME NEW x \in BufIds PROVE buf_cnt'[x] = Cardinality(BufHolders(x)')
  <2>1. CASE x = b
    <3>1. BufHolders(b)' = BufHolders(b) \ {p} /\ p \in BufHolders(b)
      BY <1>1, <1>2, <1>3 DEF BufHolders
    <3>2. Cardinality(BufHolders(b)') = Cardinality(BufHolders(b)) - 1
      BY <3>1, HoldersFinite, FS_RemoveElement
    <3> QED BY <1>2, <1>3, <2>1, <3>2 DEF RefCountsExact
  <2>2. CASE x # b
    <3>1. BufHolders(x)' = BufHolders(x)
      BY <1>1, <1>2, <1>3, <2>2 DEF BufHolders
    <3> QED BY <1>2, <1>3, <2>2, <3>1 DEF RefCountsExact
  <2> QED BY <2>1, <2>2
<1>5. ASSUME NEW k \in Names \X Tids PROVE tid_cnt'[k] = Cardinality(TidHolders(k)')
  <2>1. CASE k = <<b[1], b[2]>>
    <3>1. TidHolders(k)' = TidHolders(k) \ {p} /\ p \in TidHolders(k)
      BY <1>1, <1>2, <1>3, <2>1 DEF TidHolders
    <3>2. Cardinality(TidHolders(k)') = Cardinality(TidHolders(k)) - 1
      BY <3>1, HoldersFinite, FS_RemoveElement
    <3> QED BY <1>2, <1>3, <2>1, <3>2 DEF RefCountsExact
  <2>2. CASE k # <<b[1], b[2]>>
    <3>1. TidHolders(k)' = TidHolders(k)
      BY <1>1, <1>2, <1>3, <2>2 DEF TidHolders
    <3> QED BY <1>2, <1>3, <2>2, <3>1 DEF RefCountsExact
  <2> QED BY <2>1, <2>2
<1>6. ASSUME NEW n \in Names PROVE name_cnt'[n] = Cardinality(NameHolders(n)')
  <2>1. CASE n = b[1]
    <3>1. NameHolders(n)' = NameHolders(n) \ {p} /\ p \in NameHolders(n)
      BY <1>1, <1>2, <1>3, <2>1 DEF NameHolders
    <3>2. Cardinality(NameHolders(n)') = Cardinality(NameHolders(n)) - 1
      BY <3>1, HoldersFinite, FS_RemoveElement
    <3> QED BY <1>2, <1>3, <2>1, <3>2 DEF RefCountsExact
  <2>2. CASE n # b[1]
    <3>1. NameHolders(n)' = NameHolders(n)
      BY <1>1, <1>2, <1>3, <2>2 DEF NameHolders
    <3> QED BY <1>2, <1>3, <2>2, <3>1 DEF RefCountsExact
  <2> QED BY <2>1, <2>2
<1> QED BY <1>4, <1>5, <1>6 DEF RefCountsExact

\* ATTACH and DETACH of a server count on its name only.
LEMMA CountsServer ==
  ASSUME TypeOK, RefCountsExact, NEW s \in Servers, h' = h,
         buf_cnt' = buf_cnt, tid_cnt' = tid_cnt,
         \/ /\ ref[s] = "none" /\ ref' = [ref EXCEPT ![s] = "name"]
            /\ name_cnt' = [name_cnt EXCEPT ![NameOf[s]] = @ + 1]
         \/ /\ ref[s] = "name" /\ ref' = [ref EXCEPT ![s] = "none"]
            /\ name_cnt' = [name_cnt EXCEPT ![NameOf[s]] = @ - 1]
  PROVE  RefCountsExact'
<1>1. /\ s \in Procs /\ s \notin Users /\ NameOf[s] \in Names
      /\ \A q \in Users : q \in Procs
      /\ \A q \in Servers : q \in Procs
  BY ConstantsAssumption DEF Users, Procs
<1>2. /\ ref \in [Procs -> {"none", "name", "thread", "buffer"}]
      /\ name_cnt \in [Names -> Nat]
  BY DEF TypeOK, HandleTypes, KernelTypes
<1>3. \A x \in BufIds : BufHolders(x)' = BufHolders(x)
  BY <1>1, <1>2 DEF BufHolders
<1>4. \A k \in Names \X Tids : TidHolders(k)' = TidHolders(k)
  BY <1>1, <1>2 DEF TidHolders
<1>5. ASSUME NEW n \in Names PROVE name_cnt'[n] = Cardinality(NameHolders(n)')
  <2>1. CASE n # NameOf[s]
    <3>1. NameHolders(n)' = NameHolders(n)
      BY <1>1, <1>2, <2>1 DEF NameHolders
    <3> QED BY <1>2, <2>1, <3>1 DEF RefCountsExact
  <2>2. CASE n = NameOf[s] /\ ref[s] = "none"
    <3>1. NameHolders(n)' = NameHolders(n) \cup {s} /\ s \notin NameHolders(n)
      BY <1>1, <1>2, <2>2 DEF NameHolders
    <3>2. Cardinality(NameHolders(n)') = Cardinality(NameHolders(n)) + 1
      BY <3>1, HoldersFinite, FS_AddElement
    <3> QED BY <1>2, <2>2, <3>2 DEF RefCountsExact
  <2>3. CASE n = NameOf[s] /\ ref[s] = "name"
    <3>1. NameHolders(n)' = NameHolders(n) \ {s} /\ s \in NameHolders(n)
      BY <1>1, <1>2, <2>3 DEF NameHolders
    <3>2. Cardinality(NameHolders(n)') = Cardinality(NameHolders(n)) - 1
      BY <3>1, HoldersFinite, FS_RemoveElement
    <3> QED BY <1>2, <2>3, <3>2 DEF RefCountsExact
  <2> QED BY <2>1, <2>2, <2>3
<1> QED BY <1>3, <1>4, <1>5 DEF RefCountsExact

\* A step that touches no counter and moves no handle that is still referenced.
LEMMA CountsSame ==
  ASSUME RefCountsExact, ref' = ref,
         buf_cnt' = buf_cnt, tid_cnt' = tid_cnt, name_cnt' = name_cnt,
         \A p \in Users : ref[p] # "none" => h'[p] = h[p]
  PROVE  RefCountsExact'
<1>1. \A x \in BufIds : BufHolders(x)' = BufHolders(x)
  BY DEF BufHolders
<1>2. \A k \in Names \X Tids : TidHolders(k)' = TidHolders(k)
  BY DEF TidHolders
<1>3. \A n \in Names : NameHolders(n)' = NameHolders(n)
  BY DEF NameHolders
<1> QED BY <1>1, <1>2, <1>3 DEF RefCountsExact

\* The last close leaves no counter and no reference; any other touches none.
LEMMA CountsRelease ==
  ASSUME RefCountsExact, ReleaseFile, h' = h
  PROVE  RefCountsExact'
<1>1. CASE ~LastFile
  BY <1>1, CountsSame DEF ReleaseFile
<1>2. CASE LastFile
  <2>1. \A p \in Procs : ref'[p] = "none"
    BY <1>2 DEF ReleaseFile
  <2>2. /\ \A x \in BufIds : BufHolders(x)' = {}
        /\ \A k \in Names \X Tids : TidHolders(k)' = {}
        /\ \A n \in Names : NameHolders(n)' = {}
    BY <2>1 DEF BufHolders, TidHolders, NameHolders, Procs, Users
  <2>3. /\ \A x \in BufIds : buf_cnt'[x] = 0
        /\ \A k \in Names \X Tids : tid_cnt'[k] = 0
        /\ \A n \in Names : name_cnt'[n] = 0
    BY <1>2 DEF ReleaseFile
  <2> QED BY <2>2, <2>3, FS_EmptySet DEF RefCountsExact
<1> QED BY <1>1, <1>2

\* Every step keeps the counters exact.
LEMMA CountsStep == IInv /\ [Next]_vars => RefCountsExact'
<1> SUFFICES ASSUME IInv, [Next]_vars PROVE RefCountsExact'
  OBVIOUS
<1> USE DEF IInv
<1>1. ASSUME ref' = ref, buf_cnt' = buf_cnt, tid_cnt' = tid_cnt, name_cnt' = name_cnt, h' = h
      PROVE  RefCountsExact'
  BY <1>1, CountsSame
<1>2. ASSUME NEW p \in Clients \cup Servers, OpenFile(p) \/ CloseFile(p) PROVE RefCountsExact'
  BY <1>1, <1>2, CountsRelease DEF OpenFile, CloseFile
<1>3. ASSUME NEW c \in Clients, ClientNext(c) PROVE RefCountsExact'
  <2>1. /\ c \in Users /\ ClientRef(c) /\ NameOf[c] \in Names /\ TidOf[c] \in Tids
        /\ h \in [Users -> BufIds \cup {NoBuf}]
    BY ConstantsAssumption DEF Users, HandlesConsistent, TypeOK, HandleTypes
  <2>2. CASE AttachClient(c)
    <3> DEFINE n == NameOf[c]
               t == TidOf[c]
    <3>1. /\ ref[c] = "none"
          /\ name_cnt' = [name_cnt EXCEPT ![n] = @ + 1]
          /\ tid_cnt' = [tid_cnt EXCEPT ![<<n, t>>] = @ + 1]
      BY <2>1, <2>2 DEF AttachClient, ClientRef
    <3>2. ASSUME NEW i \in FreeSlots(n, t),
                 h' = [h EXCEPT ![c] = <<n, t, i>>],
                 buf_cnt' = [buf_cnt EXCEPT ![<<n, t, i>>] = 1],
                 ref' = [ref EXCEPT ![c] = "buffer"]
          PROVE  RefCountsExact'
      <4> DEFINE b == <<n, t, i>>
      <4>1. b \in BufIds /\ buf_cnt[b] = 0 /\ b[1] = n /\ b[2] = t
        BY <2>1 DEF FreeSlots, BufIds
      <4>2. buf_cnt' = [buf_cnt EXCEPT ![b] = @ + 1]
        BY <3>2, <4>1
      <4> HIDE DEF b
      <4> QED BY <2>1, <3>1, <3>2, <4>1, <4>2, CountsTake DEF b
    <3>3. CASE /\ h' = [h EXCEPT ![c] = <<n, t, 0>>]
               /\ ref' = [ref EXCEPT ![c] = "thread"]
               /\ buf_cnt' = buf_cnt
      <4> DEFINE b == <<n, t, 0>>
      <4>1. b \in BufIds /\ b[1] = n /\ b[2] = t
        BY <2>1, ConstantsAssumption DEF BufIds, Slots
      <4> HIDE DEF b
      <4> QED BY <2>1, <3>1, <3>3, <4>1, CountsFailed DEF b
    <3> QED BY <2>2, <3>2, <3>3 DEF AttachClient
  <2>3. ASSUME NEW q \in Requests, Resize(c, q) PROVE RefCountsExact'
    BY <1>1, <2>3 DEF Resize, kernel
  <2>4. ASSUME NEW op \in Ops, Call(c, op) PROVE RefCountsExact'
    BY <1>1, <2>4 DEF Call, Post
  <2>5. CASE CallAgain(c)
    BY <1>1, <2>5 DEF CallAgain, Post
  <2>6. CASE CallDone(c) \/ CallTimeout(c) \/ CallInterrupted(c)
    BY <1>1, <2>6 DEF CallDone, CallTimeout, CallInterrupted, kernel
  <2>7. CASE CloseClient(c)
    <3>1. ref[c] = "buffer" /\ h[c] \in BufIds
      BY <2>1, <2>7 DEF CloseClient, ClientRef, InSession
    <3>2. Detach(c, h[c]) /\ \A q \in Users \ {c} : h'[q] = h[q]
      BY <2>1, <2>7 DEF CloseClient
    <3> QED BY <2>1, <3>1, <3>2, CountsDrop
  <2>8. CASE CrashClient(c)
    BY <2>8, CountsRelease DEF CrashClient
  <2> QED BY <1>2, <1>3, <2>2, <2>3, <2>4, <2>5, <2>6, <2>7, <2>8 DEF ClientNext
<1>4. ASSUME NEW s \in Servers, ServerNext(s) PROVE RefCountsExact'
  <2>1. ServerRef(s)
    BY DEF HandlesConsistent
  <2>2. CASE AttachServer(s)
    BY <2>1, <2>2, CountsServer DEF AttachServer, ServerRef
  <2>3. CASE Listen(s) \/ ListenInterrupted(s) \/ ListenWake(s)
    BY <1>1, <2>3 DEF Listen, ListenInterrupted, ListenWake, kernel
  <2>4. CASE ListenPick(s)
    <3>1. ASSUME NEW b \in Unconnected(NameOf[s]), NEW w \in IdleWorkers(s),
                 buf_cnt' = [buf_cnt EXCEPT ![b] = @ + 1],
                 tid_cnt' = [tid_cnt EXCEPT ![<<b[1], b[2]>>] = @ + 1],
                 name_cnt' = [name_cnt EXCEPT ![NameOf[s]] = @ + 1],
                 h' = [h EXCEPT ![w] = b],
                 ref' = [ref EXCEPT ![w] = "buffer"]
          PROVE  RefCountsExact'
      <4>1. b \in BufIds /\ b[1] = NameOf[s] /\ w \in Workers /\ w \in Users /\ ref[w] = "none"
        BY DEF Unconnected, IdleWorkers, Users, HandlesConsistent, WorkerRef
      <4> QED BY <3>1, <4>1, CountsTake
    <3> QED BY <1>1, <2>4, <3>1 DEF ListenPick
  <2>5. CASE CloseServer(s)
    BY <2>1, <2>5, CountsServer DEF CloseServer, ServerRef, Listening
  <2>6. CASE CrashServer(s)
    BY <2>6, CountsRelease DEF CrashServer
  <2> QED BY <1>2, <1>4, <2>2, <2>3, <2>4, <2>5, <2>6 DEF ServerNext
<1>5. ASSUME NEW w \in Workers, WorkerNext(w) PROVE RefCountsExact'
  <2>1. w \in Users /\ WorkerRef(w) /\ h \in [Users -> BufIds \cup {NoBuf}]
    BY DEF Users, HandlesConsistent, TypeOK, HandleTypes
  <2>2. CASE Accept(w) \/ AcceptInterrupted(w) \/ AcceptWake(w) \/ AcceptRead(w) \/ Serve(w)
    BY <1>1, <2>2 DEF Accept, AcceptInterrupted, AcceptWake, AcceptRead, Serve, kernel
  <2>3. \A l : Retire(w, l) => \A q \in Users \ {w} : h'[q] = h[q]
    BY <2>1 DEF Retire
  <2>4. CASE Done(w)
    <3>1. /\ ref' = ref /\ buf_cnt' = buf_cnt /\ tid_cnt' = tid_cnt /\ name_cnt' = name_cnt
          /\ pc[w] = "answer" /\ Retire(w, AfterDone(w))
      BY <2>4 DEF Done
    <3>2. ref[w] = "none" \/ h' = h
      BY <2>1, <3>1 DEF AfterDone, Retire, WorkerRef
    <3> QED BY <2>3, <3>1, <3>2, CountsSame
  <2>5. CASE CloseAccepted(w)
    <3>1. /\ Detach(w, h[w]) /\ Retire(w, AfterLeave(w)) /\ Attached(w)
      BY <2>5 DEF CloseAccepted, Attached
    <3>2. ref[w] = "buffer" /\ h[w] \in BufIds
      BY <2>1, <3>1 DEF WorkerRef
    <3> QED BY <2>1, <2>3, <3>1, <3>2, CountsDrop
  <2> QED BY <1>5, <2>2, <2>4, <2>5 DEF WorkerNext
<1>6. CASE UNCHANGED vars
  BY <1>1, <1>6 DEF vars, kernel
<1> QED BY <1>3, <1>4, <1>5, <1>6 DEF Next

-----------------------------------------------------------------------------
(* The theorems.                                                           *)

\* The initial state satisfies the invariant.
LEMMA InvariantInit == Init => IInv
<1> SUFFICES ASSUME Init PROVE IInv
  OBVIOUS
<1>1. FilesCounted
  <2>1. {p \in Clients \cup Servers : HasFile(p)} = {}
    BY ConstantsAssumption DEF Init, HasFile, Procs
  <2> QED BY <2>1, FS_EmptySet DEF Init, FilesCounted
<1>2. HandlesConsistent
  BY ConstantsAssumption
  DEF Init, HandlesConsistent, ClientRef, ServerRef, WorkerRef, Attached, InSession, Listening,
      Procs, Users
<1>3. RefCountsExact
  <2>1. \A p \in Procs : ref[p] = "none"
    BY DEF Init
  <2>2. /\ \A x \in BufIds : BufHolders(x) = {}
        /\ \A k \in Names \X Tids : TidHolders(k) = {}
        /\ \A n \in Names : NameHolders(n) = {}
    BY <2>1 DEF BufHolders, TidHolders, NameHolders, Procs, Users
  <2>3. /\ \A x \in BufIds : buf_cnt[x] = 0
        /\ \A k \in Names \X Tids : tid_cnt[k] = 0
        /\ \A n \in Names : name_cnt[n] = 0
    BY DEF Init
  <2> QED BY <2>2, <2>3, FS_EmptySet DEF RefCountsExact
<1> QED BY <1>1, <1>2, <1>3, TypeInit DEF IInv

\* The invariant is inductive: the types, the count of open files, what each
\* process references and the reference counters need one another.
THEOREM Invariance == Spec => []IInv
<1>1. IInv /\ [Next]_vars => IInv'
  BY TypeStep, FilesStep, HandlesStep, CountsStep DEF IInv
<1> QED BY <1>1, InvariantInit, PTL DEF Spec

\* Every variable keeps its type: no counter of the driver goes negative, the
\* `--open_cnt` of release and the `--buf_cnt`, `--tid_cnt` and `--name_cnt` of
\* DETACH included.
THEOREM TypeCorrect == Spec => []TypeOK
<1>1. IInv => TypeOK
  BY DEF IInv
<1> QED BY <1>1, Invariance, PTL

\* The driver's three reference counters count exactly the handles that have
\* not been detached, with any number of clients, servers, workers and slots,
\* whatever fails.
THEOREM RefCountsCorrect == Spec => []RefCountsExact
<1>1. IInv => RefCountsExact
  BY DEF IInv
<1> QED BY <1>1, Invariance, PTL

\* A handle that is still referenced is found by every lookup.
LEMMA ReferencedFound ==
  ASSUME IInv, NEW p \in Users, ref[p] = "buffer", h[p] \in BufIds
  PROVE  Found(h[p])
<1> DEFINE b == h[p]
<1>1. b[1] \in Names /\ <<b[1], b[2]>> \in Names \X Tids
  BY DEF BufIds
<1>2. p \in BufHolders(b) /\ p \in TidHolders(<<b[1], b[2]>>) /\ p \in NameHolders(b[1])
  BY DEF BufHolders, TidHolders, NameHolders
<1>3. /\ Cardinality(BufHolders(b)) # 0
      /\ Cardinality(TidHolders(<<b[1], b[2]>>)) # 0
      /\ Cardinality(NameHolders(b[1])) # 0
  BY <1>2, HoldersFinite, FS_EmptySet
<1>4. /\ buf_cnt[b] \in Nat /\ tid_cnt[<<b[1], b[2]>>] \in Nat /\ name_cnt[b[1]] \in Nat
  BY <1>1 DEF IInv, TypeOK, KernelTypes
<1>5. /\ buf_cnt[b] # 0 /\ tid_cnt[<<b[1], b[2]>>] # 0 /\ name_cnt[b[1]] # 0
  BY <1>1, <1>3 DEF IInv, RefCountsExact
<1> QED BY <1>4, <1>5 DEF Found

\* No ioctl works on an object the driver has freed: the buffer of a client in
\* a session, the buffer of an attached worker and the name of a listening
\* server exist, across the unlocked waits and the last close of the device.
THEOREM NoUseAfterFreeCorrect == Spec => []NoUseAfterFree
<1>1. IInv => NoUseAfterFree
  <2> SUFFICES ASSUME IInv PROVE NoUseAfterFree
    OBVIOUS
  <2>1. \A c \in Clients : pc[c] \in {"open", "calling", "again", "last"} => Found(h[c])
    BY ReferencedFound DEF IInv, HandlesConsistent, ClientRef, InSession, Users
  <2>2. \A w \in Workers : Attached(w) => Found(h[w])
    BY ReferencedFound DEF IInv, HandlesConsistent, WorkerRef, Users
  <2>3. ASSUME NEW s \in Servers, pc[s] \in {"ready", "waiting", "woken"}
        PROVE  name_cnt[NameOf[s]] > 0
    <3>1. NameOf[s] \in Names /\ s \in NameHolders(NameOf[s])
      BY <2>3, ConstantsAssumption
      DEF IInv, HandlesConsistent, ServerRef, Listening, NameHolders
    <3>2. Cardinality(NameHolders(NameOf[s])) # 0
      BY <3>1, HoldersFinite, FS_EmptySet
    <3>3. name_cnt[NameOf[s]] \in Nat
      BY <3>1 DEF IInv, TypeOK, KernelTypes
    <3> QED BY <3>1, <3>2, <3>3 DEF IInv, RefCountsExact
  <2> QED BY <2>1, <2>2, <2>3 DEF NoUseAfterFree
<1> QED BY <1>1, Invariance, PTL

=============================================================================
