------------------------------- MODULE LxcIpc -------------------------------
(***************************************************************************)
(* The LXC IPC channel: the character device driver                        *)
(* msp/drv/lxc_ipc/lxc_ipc.c (open, release, the seven ioctls) together    *)
(* with the user library msp/api/lxc_ipc/lxc_ipc.c that issues them, driven *)
(* by client threads, server listeners and the worker threads a listener   *)
(* starts for each accepted client.                                        *)
(*                                                                         *)
(* Kernel objects.  A name, a thread and a buffer are looked up by key and  *)
(* exist exactly while their counter is positive: each is created with its *)
(* counter at one and unlinked and freed by the decrement that takes the   *)
(* counter to zero.  Everything the driver does under its mutex is one     *)
(* step; the three waits on completions, made without the mutex, divide    *)
(* CALL, LISTEN and ACCEPT into several.                                   *)
(*                                                                         *)
(* Users.  A client opens, resizes, calls and closes as stress-client.c and *)
(* mt_unf_ipc_fs.c do: the last call of a session asks the worker to leave *)
(* ("once": answered, then detached; "close": detached, then answered).    *)
(* Faults that the environment may add are named in Faults.                *)
(***************************************************************************)
EXTENDS Integers, Sequences, FiniteSets

CONSTANTS
  Names,          \* channel names
  Clients,        \* client handles (a thread may own several, see TidOf)
  Servers,        \* server processes, each with one listening handle
  Workers,        \* threads started for accepted handles
  NameOf,         \* the name a client or server opens
  TidOf,          \* the kernel thread id a client handle is opened from
  BossOf,         \* the server process a worker belongs to
  Tids,
  BUFFERS_PER_THREAD, \* LXC_IPC_BUFFERS_PER_THREAD
  RESIZE_MAX,     \* LXC_IPC_BUFFER_RESIZE_MAX
  Ops,            \* operations clients ask for
  Requests,       \* [in, out] sizes clients ask RESIZE for
  PAGE,           \* PAGE_SIZE, in the unit of Requests
  Blocks,         \* blocks of the media memory zone
  Faults,         \* which faults happen
  MaxFaults,      \* bound: faults in a behaviour
  MaxResizes      \* bound: resizes of a client between two calls

Slots == 0 .. BUFFERS_PER_THREAD - 1
BufIds == Names \X Tids \X Slots
Procs == Clients \cup Servers \cup Workers
Users == Clients \cup Workers
Dirs == {"in", "out"}
AllFaults == {"timeout", "signal", "crash", "early_close", "server_close"}

NoBuf == <<>>
NoBlk == "none"

ASSUME ConstantsAssumption ==
  /\ IsFiniteSet(Clients) /\ IsFiniteSet(Servers) /\ IsFiniteSet(Workers)
  /\ Clients \cap Servers = {} /\ Clients \cap Workers = {}
  /\ Servers \cap Workers = {}
  /\ NameOf \in [Clients \cup Servers -> Names]
  /\ TidOf \in [Clients -> Tids]
  /\ BossOf \in [Workers -> Servers]
  /\ BUFFERS_PER_THREAD \in Nat \ {0}
  /\ Ops \subseteq {"work", "once", "close"}
  /\ Faults \subseteq AllFaults

ASSUME MemoryAssumption ==
  /\ RESIZE_MAX \in Nat \ {0} /\ PAGE \in Nat \ {0}
  /\ Requests \subseteq [Dirs -> Nat]
  /\ NoBlk \notin Blocks

VARIABLES
  open_cnt,     \* lxc_ipc_device.open_cnt
  name_cnt,     \* lxc_ipc_name.name_cnt, 0 when the name is not in list_name
  attach,       \* lxc_ipc_name.attach: posts not yet consumed
  list_thread,  \* lxc_ipc_name.list_thread, in list order
  tid_cnt,      \* lxc_ipc_thread.tid_cnt, 0 when not in list_thread
  buf_cnt,      \* lxc_ipc_buffer.buf_cnt, 0 when buffers[i] is NULL
  buf,          \* the buffer's completions, do_what, connected; the result in its memory
  mem,          \* the buffer's in_sMBuf, out_sMBuf and release_mem
  blocks,       \* size of each allocated block, 0 when free
  pc,           \* where each process is
  h,            \* name, tid and buf_id of struct lxc_ipc of each user
  map,          \* in_buf/in_size and out_buf/out_size of struct lxc_ipc
  tag,          \* the client's current request, alternating 0 and 1
  job,          \* do_what as the worker received it
  resizes,      \* resizes since the client's last call (bounded)
  faults,       \* faults so far (bounded)
  ref           \* history: the deepest object each process still references

kernel == <<open_cnt, name_cnt, attach, list_thread, tid_cnt, buf_cnt, buf>>
memory == <<mem, blocks, map>>
data == <<tag, job>>
bounds == <<resizes, faults>>
vars == <<kernel, memory, data, bounds, pc, h, ref>>

-----------------------------------------------------------------------------
(* Media memory: mt_drv_mmz_alloc and mt_drv_mmz_release.                  *)

NoMem == [blk |-> NoBlk, size |-> 0]
Mem0 == [sMBuf |-> [d \in Dirs |-> NoMem],
         need |-> [d \in Dirs |-> FALSE], release_mem |-> <<>>]

\* Sizes are rounded up to a power of two of pages.
AllocSize(s) ==
  LET pages == (s + PAGE - 1) \div PAGE
      powers == {2 ^ k : k \in 0 .. pages}
  IN  PAGE * (CHOOSE p \in powers :
                /\ p >= pages
                /\ \A q \in powers : q >= pages => p <= q)

\* Every request can be rounded up.
ASSUME SizesAssumption ==
  \A q \in Requests, d \in Dirs : AllocSize(q[d]) \in Nat /\ AllocSize(q[d]) >= q[d]

\* Freeing goes by address: whoever owns the block now loses it.
Freed(bl, used) == [x \in Blocks |-> IF x \in used THEN 0 ELSE bl[x]]

\* The outcomes of allocating a bytes: a free block, or failure.
Alloc(bl, a) ==
  LET free == {x \in Blocks : bl[x] = 0}
  IN  IF free = {} THEN {[m |-> NoMem, bl |-> bl]}
      ELSE {[m |-> [blk |-> x, size |-> a], bl |-> [bl EXCEPT ![x] = a]] : x \in free}

\* lxc_ipc_lazy_release: an entry of size 0 leaves its slot free.
LazyRelease(rel, m) == IF m.size = 0 THEN rel ELSE Append(rel, m)

\* One direction of RESIZE: the outcomes for buffer memory k and blocks bl.
ResizeDir(k, bl, d, s) ==
  LET m == k.sMBuf[d]
      full == k.need[d] /\ Len(k.release_mem) = RESIZE_MAX
      rel == IF k.need[d] THEN LazyRelease(k.release_mem, m) ELSE k.release_mem
      needed(v) == [k.need EXCEPT ![d] = v]
  IN  IF s > 0 /\ m.size = AllocSize(s)
        THEN {[ok |-> TRUE, bl |-> bl,
               k |-> [sMBuf |-> k.sMBuf, need |-> needed(TRUE),
                      release_mem |-> k.release_mem]]}
      ELSE IF full
        THEN {[ok |-> FALSE, bl |-> bl, k |-> k]}
      ELSE IF s = 0
        THEN {[ok |-> TRUE, bl |-> bl,
               k |-> [sMBuf |-> k.sMBuf, need |-> needed(FALSE), release_mem |-> rel]]}
      ELSE {[ok |-> TRUE, bl |-> a.bl,
             k |-> [sMBuf |-> [k.sMBuf EXCEPT ![d] = a.m], need |-> needed(TRUE),
                    release_mem |-> rel]] : a \in Alloc(bl, AllocSize(s))}

\* What RESIZE and ACCEPT report to the library for one direction.
Report(k, d) == IF k.need[d] THEN k.sMBuf[d] ELSE NoMem

\* Mutant: only the in buffer is given back.
HeldIn(k) == {Report(k, "in").blk} \ {NoBlk}

\* The blocks DETACH and the last close give back (release_mem is not among them).
Held(k) == {Report(k, d).blk : d \in Dirs} \ {NoBlk}

-----------------------------------------------------------------------------
(* The device: lookups, ATTACH, DETACH, open and release.                  *)

NoJob == [op |-> "none", tag |-> 0]
Buf0 == [call |-> 0, done |-> 0, do_what |-> NoJob, connected |-> 0, res |-> 0]

\* complete and wait_for_completion on a buffer's two completions, and the
\* other fields the users of a buffer set.
PostCall(r, what) == [r EXCEPT !.do_what = what, !.call = @ + 1]
TakeCall(r) == [r EXCEPT !.call = @ - 1]
PostDone(r) == [r EXCEPT !.done = @ + 1]

\* Mutant: the post is seen but not consumed.
TakeDoneNot(r) == r

TakeDone(r) == [r EXCEPT !.done = @ - 1]
SetConnected(r, v) == [r EXCEPT !.connected = v]
StoreResult(r, t) == [r EXCEPT !.res = t]
ClearReleased(k) == [k EXCEPT !.release_mem = <<>>]

Init ==
  /\ open_cnt = 0
  /\ name_cnt = [n \in Names |-> 0]
  /\ attach = [n \in Names |-> 0]
  /\ list_thread = [n \in Names |-> <<>>]
  /\ tid_cnt = [k \in Names \X Tids |-> 0]
  /\ buf_cnt = [b \in BufIds |-> 0]
  /\ buf = [b \in BufIds |-> Buf0]
  /\ mem = [b \in BufIds |-> Mem0]
  /\ blocks = [x \in Blocks |-> 0]
  /\ pc = [p \in Procs |-> IF p \in Workers THEN "idle" ELSE "closed"]
  /\ h = [p \in Users |-> NoBuf]
  /\ map = [p \in Users |-> [d \in Dirs |-> NoMem]]
  /\ tag = [c \in Clients |-> 0]
  /\ job = [w \in Workers |-> NoJob]
  /\ resizes = [c \in Clients |-> 0]
  /\ faults = 0
  /\ ref = [p \in Procs |-> "none"]

Goto(p, l) == pc' = [pc EXCEPT ![p] = l]

\* The lookup every ioctl on a handle makes: name, then thread, then buffer.
Found(b) == name_cnt[b[1]] > 0 /\ tid_cnt[<<b[1], b[2]>>] > 0 /\ buf_cnt[b] > 0

\* The fault f happens now, if the environment allows it.
Fault(f) == f \in Faults /\ faults < MaxFaults /\ faults' = faults + 1

\* list_del of the thread t from the list l.
Unlink(l, t) ==
  LET i == CHOOSE i \in 1 .. Len(l) : l[i] = t
  IN  [j \in 1 .. Len(l) - 1 |-> IF j < i THEN l[j] ELSE l[j + 1]]

\* DETACH of a client or accepted handle on b by process p.
Detach(p, b) ==
  LET k == <<b[1], b[2]>>
      lastBuf == buf_cnt[b] - 1 <= 0
      lastTid == tid_cnt[k] - 1 <= 0
      lastName == name_cnt[b[1]] - 1 <= 0
  IN  /\ buf_cnt' = [buf_cnt EXCEPT ![b] = @ - 1]
      /\ buf' = [buf EXCEPT ![b] = IF lastBuf THEN Buf0 ELSE SetConnected(@, -1)]
      /\ mem' = IF lastBuf THEN [mem EXCEPT ![b] = Mem0] ELSE mem
      /\ blocks' = IF lastBuf THEN Freed(blocks, Held(mem[b])) ELSE blocks
      /\ tid_cnt' = [tid_cnt EXCEPT ![k] = @ - 1]
      /\ list_thread' = IF lastTid
                          THEN [list_thread EXCEPT ![b[1]] =
                                  Unlink(@, b[2])]
                          ELSE list_thread
      /\ name_cnt' = [name_cnt EXCEPT ![b[1]] = @ - 1]
      /\ attach' = IF lastName THEN [attach EXCEPT ![b[1]] = 0] ELSE attach
      /\ ref' = [ref EXCEPT ![p] = "none"]
      /\ map' = [map EXCEPT ![p] = [d \in Dirs |-> NoMem]]

\* Mutant: off by one.
LastFileEarly == open_cnt - 1 <= 1

LastFile == open_cnt - 1 <= 0

\* lxc_ipc_release: the last close frees every object, whoever references it.
ReleaseFile ==
  /\ open_cnt' = open_cnt - 1
  /\ IF LastFile
       THEN /\ name_cnt' = [n \in Names |-> 0]
            /\ attach' = [n \in Names |-> 0]
            /\ list_thread' = [n \in Names |-> <<>>]
            /\ tid_cnt' = [k \in Names \X Tids |-> 0]
            /\ buf_cnt' = [b \in BufIds |-> 0]
            /\ buf' = [b \in BufIds |-> Buf0]
            /\ mem' = [b \in BufIds |-> Mem0]
            /\ blocks' = Freed(blocks, UNION {Held(mem[b]) : b \in BufIds})
            /\ ref' = [p \in Procs |-> "none"]
       ELSE /\ UNCHANGED <<name_cnt, attach, list_thread, tid_cnt, buf_cnt, buf>>
            /\ UNCHANGED <<mem, blocks, ref>>

\* lxc_ipc_open of the library, first half: open("/dev/lxc_ipc").
OpenFile(p) ==
  /\ p \in Clients \cup Servers
  /\ pc[p] = "closed"
  /\ open_cnt' = open_cnt + 1
  /\ Goto(p, "file")
  /\ UNCHANGED <<name_cnt, attach, list_thread, tid_cnt, buf_cnt, buf, memory,
                 data, bounds, h, ref>>

\* Mutant: the scan stops at the first slot, free or not.
FreeSlotsFirst(n, t) == {0}

\* Slots whose buffers[] entry is NULL.
FreeSlots(n, t) == {i \in Slots : buf_cnt[<<n, t, i>>] = 0}

\* Mutants: the completion as a flag; one post too many; a post only for a
\* thread that is new to the name.
PostAttachFlag(n) == [attach EXCEPT ![n] = 1]
PostAttachTwice(n) == [attach EXCEPT ![n] = @ + 2]
PostAttachNew(n) == IF list_thread[n] = <<>> THEN [attach EXCEPT ![n] = @ + 1]
                                             ELSE attach

\* complete(&name->attach)
PostAttach(n) == [attach EXCEPT ![n] = @ + 1]

\* ATTACH by a client: counted on its name and thread, then the first free
\* slot.  Without one the counts stay and the library closes the file.
AttachClient(c) ==
  LET n == NameOf[c]
      t == TidOf[c]
  IN  /\ c \in Clients
      /\ pc[c] = "file"
      /\ name_cnt' = [name_cnt EXCEPT ![n] = @ + 1]
      /\ tid_cnt' = [tid_cnt EXCEPT ![<<n, t>>] = @ + 1]
      /\ list_thread' = IF tid_cnt[<<n, t>>] = 0
                          THEN [list_thread EXCEPT ![n] = Append(@, t)]
                          ELSE list_thread
      /\ \/ \E i \in FreeSlots(n, t) :
              /\ \A j \in FreeSlots(n, t) : i <= j
              /\ h' = [h EXCEPT ![c] = <<n, t, i>>]
              /\ buf_cnt' = [buf_cnt EXCEPT ![<<n, t, i>>] = 1]
              /\ buf' = [buf EXCEPT ![<<n, t, i>>] = Buf0]
              /\ mem' = [mem EXCEPT ![<<n, t, i>>] = Mem0]
              /\ attach' = PostAttach(n)
              /\ ref' = [ref EXCEPT ![c] = "buffer"]
              /\ Goto(c, "open")
         \/ /\ FreeSlots(n, t) = {}
            /\ h' = [h EXCEPT ![c] = <<n, t, 0>>]
            /\ ref' = [ref EXCEPT ![c] = "thread"]
            /\ Goto(c, "failed")
            /\ UNCHANGED <<buf_cnt, buf, mem, attach>>
      /\ UNCHANGED <<open_cnt, blocks, map, data, bounds>>

\* ATTACH by a server counts on the name only.
AttachServer(s) ==
  /\ s \in Servers
  /\ pc[s] = "file"
  /\ name_cnt' = [name_cnt EXCEPT ![NameOf[s]] = @ + 1]
  /\ ref' = [ref EXCEPT ![s] = "name"]
  /\ Goto(s, "ready")
  /\ UNCHANGED <<open_cnt, attach, list_thread, tid_cnt, buf_cnt, buf, memory,
                 data, bounds, h>>

\* close(fd), after DETACH or a failed ATTACH.
CloseFile(p) ==
  /\ p \in Clients \cup Servers
  /\ pc[p] \in {"detached", "failed"}
  /\ ReleaseFile
  /\ Goto(p, IF pc[p] = "failed" THEN "gone" ELSE "closed")
  /\ UNCHANGED <<map, data, bounds, h>>

-----------------------------------------------------------------------------
(* A client's session.                                                     *)

\* Mutant: a mapping, once made, is kept.
RemapOnce(old, rep, s) == IF old.size = 0 THEN rep ELSE old

\* lxc_ipc_resize keeps a mapping only if neither the request nor the
\* kernel's answer differ from the size it has mapped.
Remap(old, rep, s) ==
  IF rep.size = 0 THEN NoMem
  ELSE IF old.size # rep.size \/ old.size # s THEN rep ELSE old

\* RESIZE: "in" first; when the table of blocks to release is full the
\* request fails where it stands and struct lxc_ipc stays as it was.  A buffer
\* asked for with another size is then no longer mapped, as lxc_ipc_resize
\* unmaps it before the ioctl, though the structure still names it.  With one
\* RESIZE between two answered calls and a table of two no request fails.
Resize(c, q) ==
  LET b == h[c]
  IN  /\ c \in Clients
      /\ pc[c] = "open"
      /\ resizes[c] < MaxResizes
      /\ Found(b)
      /\ \E i \in ResizeDir(mem[b], blocks, "in", q["in"]) :
           \/ /\ ~i.ok
              /\ mem' = [mem EXCEPT ![b] = i.k]
              /\ blocks' = i.bl
              /\ map' = map
           \/ /\ i.ok
              /\ \E o \in ResizeDir(i.k, i.bl, "out", q["out"]) :
                   /\ mem' = [mem EXCEPT ![b] = o.k]
                   /\ blocks' = o.bl
                   /\ map' = IF o.ok
                               THEN [map EXCEPT ![c] =
                                       [d \in Dirs |-> Remap(@[d], Report(o.k, d), q[d])]]
                               ELSE map
      /\ resizes' = [resizes EXCEPT ![c] = @ + 1]
      /\ UNCHANGED <<kernel, data, faults, pc, h, ref>>

\* CALL up to the wait: do_what is stored and call is posted.
Post(c, what) ==
  /\ Found(h[c])
  /\ buf' = [buf EXCEPT ![h[c]] = PostCall(@, what)]
  /\ Goto(c, "calling")
  /\ UNCHANGED <<open_cnt, name_cnt, attach, list_thread, tid_cnt, buf_cnt, memory,
                 job, faults, h, ref>>

Call(c, op) ==
  /\ c \in Clients
  /\ pc[c] = "open"
  /\ tag' = [tag EXCEPT ![c] = 1 - @]
  /\ resizes' = [resizes EXCEPT ![c] = 0]
  /\ Post(c, [op |-> op, tag |-> 1 - tag[c]])

\* lxc_ipc_call_timeout issues the ioctl again after EINTR.
CallAgain(c) ==
  /\ c \in Clients
  /\ pc[c] = "again"
  /\ Post(c, buf[h[c]].do_what)
  /\ UNCHANGED <<tag, resizes>>

\* Where the client goes after its call: a session ends with the call that
\* made the worker leave.
AfterCall(c) == IF buf[h[c]].do_what.op = "work" THEN "open" ELSE "last"

\* wait_for_completion(&buf->done) succeeds.
CallDone(c) ==
  /\ c \in Clients
  /\ pc[c] = "calling"
  /\ buf[h[c]].done > 0
  /\ buf' = [buf EXCEPT ![h[c]] = TakeDone(@)]
  /\ Goto(c, AfterCall(c))
  /\ UNCHANGED <<open_cnt, name_cnt, attach, list_thread, tid_cnt, buf_cnt, memory,
                 data, bounds, h, ref>>

\* The wait ends without the answer: -ETIME, or -EINTR and the library's retry.
CallTimeout(c) ==
  /\ c \in Clients
  /\ pc[c] = "calling"
  /\ Fault("timeout")
  /\ Goto(c, AfterCall(c))
  /\ UNCHANGED <<kernel, memory, data, resizes, h, ref>>

CallInterrupted(c) ==
  /\ c \in Clients
  /\ pc[c] = "calling"
  /\ Fault("signal")
  /\ Goto(c, "again")
  /\ UNCHANGED <<kernel, memory, data, resizes, h, ref>>

\* lxc_ipc_close by a client: unmap, DETACH; CloseFile follows.
CloseClient(c) ==
  /\ c \in Clients
  /\ \/ pc[c] = "last" /\ UNCHANGED faults
     \/ pc[c] = "open" /\ Fault("early_close")
  /\ Found(h[c])
  /\ Detach(c, h[c])
  /\ h' = [h EXCEPT ![c] = NoBuf]
  /\ resizes' = [resizes EXCEPT ![c] = 0]
  /\ tag' = [tag EXCEPT ![c] = 0]
  /\ Goto(c, "detached")
  /\ UNCHANGED <<open_cnt, job>>

-----------------------------------------------------------------------------
(* The listener of a server process.                                       *)

IdleWorkers(s) == {w \in Workers : BossOf[w] = s /\ pc[w] = "idle"}

\* LISTEN up to the wait.  Bound: only while a worker can still be started.
Listen(s) ==
  /\ s \in Servers
  /\ pc[s] = "ready"
  /\ name_cnt[NameOf[s]] > 0
  /\ IdleWorkers(s) # {}
  /\ Goto(s, "waiting")
  /\ UNCHANGED <<kernel, memory, data, bounds, h, ref>>

\* Mutants: an interrupted wait taken for a post; one post too many asked for.
AttachPostedAlways(n) == TRUE
AttachPostedTwice(n) == attach[n] > 1

\* name->attach can be waited for without blocking.
AttachPosted(n) == attach[n] > 0

ListenWake(s) ==
  /\ s \in Servers
  /\ pc[s] = "waiting"
  /\ AttachPosted(NameOf[s])
  /\ attach' = [attach EXCEPT ![NameOf[s]] = @ - 1]
  /\ Goto(s, "woken")
  /\ UNCHANGED <<open_cnt, name_cnt, list_thread, tid_cnt, buf_cnt, buf, memory,
                 data, bounds, h, ref>>

\* Mutants: connected tested for the wrong value.
UnconnectedOrBusy(n) == {b \in BufIds : b[1] = n /\ buf_cnt[b] > 0 /\ buf[b].connected >= 0}
UnconnectedOrClosed(n) == {b \in BufIds : b[1] = n /\ buf_cnt[b] > 0 /\ buf[b].connected # 1}

\* Buffers of name n that no server has taken yet.
Unconnected(n) == {b \in BufIds : b[1] = n /\ buf_cnt[b] > 0 /\ buf[b].connected = 0}

\* b comes before o in the scan of list_thread and buffers[].
Precedes(b, o) ==
  LET l == list_thread[b[1]]
  IN  \/ b[2] = o[2] /\ b[3] <= o[3]
      \/ b[2] # o[2] /\ \E i, j \in 1 .. Len(l) : i < j /\ l[i] = b[2] /\ l[j] = o[2]

\* LISTEN after the wait: take the first buffer not yet connected and start a
\* worker on it, or fail with -ENODEV.  The server modelled here then listens
\* again; ListenFinds says when the failure, which the servers of the tree do
\* not look at, cannot happen.
ListenPick(s) ==
  LET n == NameOf[s]
  IN  /\ s \in Servers
      /\ pc[s] = "woken"
      /\ \/ \E b \in Unconnected(n), w \in IdleWorkers(s) :
              /\ \A o \in Unconnected(n) : Precedes(b, o)
              /\ buf' = [buf EXCEPT ![b] = SetConnected(@, 1)]
              /\ buf_cnt' = [buf_cnt EXCEPT ![b] = @ + 1]
              /\ tid_cnt' = [tid_cnt EXCEPT ![<<b[1], b[2]>>] = @ + 1]
              /\ name_cnt' = [name_cnt EXCEPT ![n] = @ + 1]
              /\ h' = [h EXCEPT ![w] = b]
              /\ ref' = [ref EXCEPT ![w] = "buffer"]
              /\ pc' = [pc EXCEPT ![s] = "ready", ![w] = "start"]
         \/ /\ Unconnected(n) = {}
            /\ Goto(s, "ready")
            /\ UNCHANGED <<buf, buf_cnt, tid_cnt, name_cnt, h, ref>>
      /\ UNCHANGED <<open_cnt, attach, list_thread, memory, data, bounds>>

ListenInterrupted(s) ==
  /\ s \in Servers
  /\ pc[s] = "waiting"
  /\ Fault("signal")
  /\ Goto(s, "ready")
  /\ UNCHANGED <<kernel, memory, data, resizes, h, ref>>

\* lxc_ipc_close of the listening handle, once its workers have left.
CloseServer(s) ==
  LET n == NameOf[s]
  IN  /\ s \in Servers
      /\ pc[s] = "ready"
      /\ name_cnt[n] > 0
      /\ \A w \in Workers : BossOf[w] = s => pc[w] = "idle"
      /\ Fault("server_close")
      /\ name_cnt' = [name_cnt EXCEPT ![n] = @ - 1]
      /\ attach' = IF name_cnt[n] - 1 <= 0 THEN [attach EXCEPT ![n] = 0] ELSE attach
      /\ ref' = [ref EXCEPT ![s] = "none"]
      /\ Goto(s, "detached")
      /\ UNCHANGED <<open_cnt, list_thread, tid_cnt, buf_cnt, buf, memory, data, resizes, h>>

-----------------------------------------------------------------------------
(* A worker thread on its accepted handle.                                 *)

Accept(w) ==
  /\ w \in Workers
  /\ pc[w] = "start"
  /\ Found(h[w])
  /\ Goto(w, "accepting")
  /\ UNCHANGED <<kernel, memory, data, bounds, h, ref>>

AcceptWake(w) ==
  /\ w \in Workers
  /\ pc[w] = "accepting"
  /\ buf[h[w]].call > 0
  /\ buf' = [buf EXCEPT ![h[w]] = TakeCall(@)]
  /\ Goto(w, "woken")
  /\ UNCHANGED <<open_cnt, name_cnt, attach, list_thread, tid_cnt, buf_cnt, memory,
                 data, bounds, h, ref>>

\* ACCEPT after the wait; lxc_ipc_accept maps again only if a size changed.
AcceptRead(w) ==
  LET b == h[w]
  IN  /\ w \in Workers
      /\ pc[w] = "woken"
      /\ job' = [job EXCEPT ![w] = buf[b].do_what]
      /\ map' = [map EXCEPT ![w] =
                   [d \in Dirs |-> LET rep == Report(mem[b], d)
                                   IN  Remap(@[d], rep, rep.size)]]
      /\ Goto(w, "exec")
      /\ UNCHANGED <<kernel, mem, blocks, tag, bounds, h, ref>>

AcceptInterrupted(w) ==
  /\ w \in Workers
  /\ pc[w] = "accepting"
  /\ Fault("signal")
  /\ Goto(w, "start")
  /\ UNCHANGED <<kernel, memory, data, resizes, h, ref>>

\* The server's own work: the result appears in the shared buffer.
Serve(w) ==
  /\ w \in Workers
  /\ pc[w] = "exec"
  /\ buf' = [buf EXCEPT ![h[w]] = StoreResult(@, job[w].tag)]
  /\ Goto(w, IF job[w].op = "close" THEN "leave" ELSE "answer")
  /\ UNCHANGED <<open_cnt, name_cnt, attach, list_thread, tid_cnt, buf_cnt, memory,
                 data, bounds, h, ref>>

\* A worker thread that returns takes its handle with it.
Retire(w, next) ==
  /\ h' = IF next = "idle" THEN [h EXCEPT ![w] = NoBuf] ELSE h
  /\ job' = IF next = "idle" THEN [job EXCEPT ![w] = NoJob] ELSE job

\* A worker serves the next call, leaves, or has left before it answered.
AfterDone(w) ==
  IF job[w].op = "once" THEN "leave" ELSE IF job[w].op = "close" THEN "idle" ELSE "start"

\* DONE: release what RESIZE left behind, post done.  A "close" answer comes
\* after the detach, when the buffer may be gone (-ENODEV).
Done(w) ==
  LET b == h[w]
      next == AfterDone(w)
  IN  /\ w \in Workers
      /\ pc[w] = "answer"
      /\ \/ /\ Found(b)
            /\ LET rel == mem[b].release_mem
               IN  blocks' = Freed(blocks, {rel[i].blk : i \in 1 .. Len(rel)})
            /\ mem' = [mem EXCEPT ![b] = ClearReleased(@)]
            /\ buf' = [buf EXCEPT ![b] = PostDone(@)]
         \/ ~Found(b) /\ UNCHANGED <<blocks, mem, buf>>
      /\ Goto(w, next)
      /\ Retire(w, next)
      /\ UNCHANGED <<open_cnt, name_cnt, attach, list_thread, tid_cnt, buf_cnt, map,
                     tag, bounds, ref>>

\* Mutant: a worker told to close forgets the answer.
AfterLeaveSilent(w) == "idle"

\* A worker told to close answers after it has detached.
AfterLeave(w) == IF job[w].op = "close" THEN "answer" ELSE "idle"

\* lxc_ipc_close_accepted: unmap, DETACH; the file stays the listener's.
CloseAccepted(w) ==
  LET next == AfterLeave(w)
  IN  /\ w \in Workers
      /\ pc[w] = "leave"
      /\ Found(h[w])
      /\ Detach(w, h[w])
      /\ Goto(w, next)
      /\ Retire(w, next)
      /\ UNCHANGED <<open_cnt, tag, bounds>>

-----------------------------------------------------------------------------
(* A killed process: its files are closed, none of its handles is detached. *)

HasFile(p) == pc[p] \notin {"closed", "gone", "crashed"}

CrashClient(c) ==
  /\ c \in Clients
  /\ HasFile(c)
  /\ Fault("crash")
  /\ ReleaseFile
  /\ Goto(c, "crashed")
  /\ UNCHANGED <<map, data, resizes, h>>

\* A kill is taken on the way out of an ioctl: never between a wait that
\* succeeded and the rest of that ioctl.
CrashServer(s) ==
  LET threads == {s} \cup {w \in Workers : BossOf[w] = s}
  IN  /\ s \in Servers
      /\ HasFile(s)
      /\ \A p \in threads : pc[p] # "woken"
      /\ Fault("crash")
      /\ ReleaseFile
      /\ pc' = [p \in Procs |-> IF p \in threads THEN "crashed" ELSE pc[p]]
      /\ UNCHANGED <<map, data, resizes, h>>

ClientNext(c) ==
  \/ OpenFile(c) \/ AttachClient(c) \/ CloseFile(c)
  \/ \E q \in Requests : Resize(c, q)
  \/ \E op \in Ops : Call(c, op)
  \/ CallAgain(c) \/ CallDone(c) \/ CallTimeout(c) \/ CallInterrupted(c)
  \/ CloseClient(c) \/ CrashClient(c)

ServerNext(s) ==
  \/ OpenFile(s) \/ AttachServer(s) \/ CloseFile(s)
  \/ Listen(s) \/ ListenWake(s) \/ ListenPick(s) \/ ListenInterrupted(s)
  \/ CloseServer(s) \/ CrashServer(s)

WorkerNext(w) ==
  \/ Accept(w) \/ AcceptWake(w) \/ AcceptRead(w) \/ AcceptInterrupted(w)
  \/ Serve(w) \/ Done(w) \/ CloseAccepted(w)

Next ==
  \/ \E c \in Clients : ClientNext(c)
  \/ \E s \in Servers : ServerNext(s)
  \/ \E w \in Workers : WorkerNext(w)

Spec == Init /\ [][Next]_vars

-----------------------------------------------------------------------------
(* Fairness.  The kernel schedules every runnable thread, a server listens  *)
(* and answers for as long as it lives, and a client whose last call has    *)
(* returned closes; whether and when a client opens or calls is its own.    *)

Fairness ==
  /\ \A c \in Clients : /\ WF_vars(AttachClient(c)) /\ WF_vars(CallDone(c))
                        /\ WF_vars(CallAgain(c)) /\ WF_vars(CloseClient(c) /\ pc[c] = "last")
                        /\ WF_vars(CloseFile(c))
  /\ \A s \in Servers : /\ WF_vars(OpenFile(s)) /\ WF_vars(AttachServer(s))
                        /\ WF_vars(Listen(s)) /\ WF_vars(ListenWake(s))
                        /\ WF_vars(ListenPick(s)) /\ WF_vars(CloseFile(s))
  /\ \A w \in Workers : /\ WF_vars(Accept(w)) /\ WF_vars(AcceptWake(w))
                        /\ WF_vars(AcceptRead(w)) /\ WF_vars(Serve(w))
                        /\ WF_vars(Done(w)) /\ WF_vars(CloseAccepted(w))

FairSpec == Spec /\ Fairness

-----------------------------------------------------------------------------
(* Properties.                                                             *)

MmzBuffer == [blk : Blocks \cup {NoBlk}, size : Nat]
Job == [op : Ops \cup {"none"}, tag : {0, 1}]
ClientPcs == {"closed", "file", "failed", "gone", "open", "calling", "again",
              "last", "detached", "crashed"}
ServerPcs == {"closed", "file", "ready", "waiting", "woken", "detached", "crashed"}
WorkerPcs == {"idle", "start", "accepting", "woken", "exec", "answer", "leave", "crashed"}

BufRec == [call : Nat, done : Nat, do_what : Job, connected : {-1, 0, 1}, res : {0, 1}]
MemRec == [sMBuf : [Dirs -> MmzBuffer], need : [Dirs -> BOOLEAN],
           release_mem : Seq(MmzBuffer)]

KernelTypes ==
  /\ open_cnt \in Nat
  /\ name_cnt \in [Names -> Nat]
  /\ attach \in [Names -> Nat]
  /\ list_thread \in [Names -> Seq(Tids)]
  /\ tid_cnt \in [Names \X Tids -> Nat]
  /\ buf_cnt \in [BufIds -> Nat]
  /\ buf \in [BufIds -> BufRec]

MemoryTypes ==
  /\ mem \in [BufIds -> MemRec]
  /\ blocks \in [Blocks -> Nat]
  /\ map \in [Users -> [Dirs -> MmzBuffer]]

ControlTypes ==
  /\ pc \in [Procs -> ClientPcs \cup ServerPcs \cup WorkerPcs]
  /\ \A c \in Clients : pc[c] \in ClientPcs
  /\ \A s \in Servers : pc[s] \in ServerPcs
  /\ \A w \in Workers : pc[w] \in WorkerPcs

HandleTypes ==
  /\ h \in [Users -> BufIds \cup {NoBuf}]
  /\ ref \in [Procs -> {"none", "name", "thread", "buffer"}]

DataTypes ==
  /\ tag \in [Clients -> {0, 1}]
  /\ job \in [Workers -> Job]
  /\ resizes \in [Clients -> Nat]
  /\ faults \in Nat

\* Every variable has its type: counters never go negative, and `connected`
\* only takes the three values the driver gives it.
TypeOK == KernelTypes /\ MemoryTypes /\ ControlTypes /\ HandleTypes /\ DataTypes

\* Who still references an object (history variable ref).
BufHolders(b) == {p \in Users : ref[p] = "buffer" /\ h[p] = b}
TidHolders(k) == {p \in Users : ref[p] \in {"thread", "buffer"} /\ <<h[p][1], h[p][2]>> = k}
NameHolders(n) == {p \in Users : ref[p] \in {"thread", "buffer"} /\ h[p][1] = n}
                  \cup {s \in Servers : ref[s] = "name" /\ NameOf[s] = n}

\* The three reference counters count exactly the handles that have not been
\* detached, over every interleaving of ATTACH, LISTEN, DETACH, failed opens
\* (-ENOMEM leaves its counts), kills and the last close.
RefCountsExact ==
  /\ \A b \in BufIds : buf_cnt[b] = Cardinality(BufHolders(b))
  /\ \A k \in Names \X Tids : tid_cnt[k] = Cardinality(TidHolders(k))
  /\ \A n \in Names : name_cnt[n] = Cardinality(NameHolders(n))

\* Workers that may still use their handle's buffer.
Attached(w) ==
  \/ pc[w] \in {"start", "accepting", "woken", "exec", "leave"}
  \/ pc[w] = "answer" /\ job[w].op # "close"

\* No ioctl, and no wait inside one, ever works on a freed object: CALL,
\* LISTEN and ACCEPT keep the pointers they looked up across an unlocked wait,
\* and the last close frees objects without looking at their counters.
NoUseAfterFree ==
  /\ \A c \in Clients : pc[c] \in {"open", "calling", "again", "last"} => Found(h[c])
  /\ \A w \in Workers : Attached(w) => Found(h[w])
  /\ \A s \in Servers : pc[s] \in {"ready", "waiting", "woken"} => name_cnt[NameOf[s]] > 0

\* A client that attached is never overlooked: each buffer no server has taken
\* is covered by a post on the name's completion, or by a listener that has
\* consumed one and has yet to scan.
NoLostAttach ==
  \A n \in Names :
    Cardinality({b \in BufIds : b[1] = n /\ buf_cnt[b] > 0 /\ buf[b].connected = 0}) <=
      attach[n] + Cardinality({s \in Servers : NameOf[s] = n /\ pc[s] = "woken"})

\* As long as no client leaves before its session is over, a listener that has
\* consumed a post finds a buffer to connect to, also when several listeners
\* and sessions interleave: LISTEN's -ENODEV, which servers do not look at,
\* does not happen.
ListenFinds ==
  \A s \in Servers : pc[s] = "woken" => \E b \in BufIds :
    b[1] = NameOf[s] /\ buf_cnt[b] > 0 /\ buf[b].connected = 0

\* Two listeners never accept the same client.
OneWorkerPerBuffer ==
  \A v, w \in Workers : ref[v] = "buffer" /\ ref[w] = "buffer" /\ h[v] = h[w] => v = w

\* Workers that have taken a call of buffer b and not yet answered it.
Serving(b) == {w \in Workers : /\ h[w] = b
                               /\ \/ pc[w] \in {"woken", "exec", "answer"}
                                  \/ pc[w] = "leave" /\ job[w].op = "close"}

\* A waiting client is owed an answer: its call is posted, being served, or
\* already answered, whatever timeouts and signals came before (only a server
\* that is killed takes an answer with it).
NoLostCall ==
  \A c \in Clients :
    pc[c] = "calling" =>
      \/ buf[h[c]].call + buf[h[c]].done + Cardinality(Serving(h[c])) >= 1
      \/ \E w \in Workers : pc[w] = "crashed" /\ h[w] = h[c]

\* A connection that either side has closed is never offered to a listener
\* again, nor taken for a new one, while its buffer lives.
ConnectionNeverReopens ==
  [][\A b \in BufIds :
       buf_cnt[b] > 0 /\ buf_cnt'[b] > 0 /\ buf[b].connected = -1
         => buf'[b].connected = -1]_vars

\* With a client that keeps to one resize per call, what either side has in
\* struct lxc_ipc is the block the driver holds for the buffer: the client
\* between calls, the worker while it serves.
MappingsCurrent ==
  /\ \A c \in Clients, d \in Dirs :
       pc[c] \in {"open", "calling"} => map[c][d] = Report(mem[h[c]], d)
  /\ \A w \in Workers, d \in Dirs :
       pc[w] \in {"exec", "answer"} /\ Attached(w) => map[w][d] = Report(mem[h[w]], d)

\* The memory of live buffers: what they use and what waits for DONE.
OwnedBlocks(b) ==
  {mem[b].sMBuf[d].blk : d \in {e \in Dirs : mem[b].need[e]}}
    \cup {mem[b].release_mem[i].blk : i \in 1 .. Len(mem[b].release_mem)}

\* Every block is owned by one buffer or free: none is leaked by the delayed
\* release, and none is released while a buffer still uses it.
BlocksAccounted ==
  \A x \in Blocks : (blocks[x] > 0) <=> (\E b \in BufIds : x \in OwnedBlocks(b))

\* A block that was released is not in use: no live buffer reports it to its
\* client or worker (the allocator calls the opposite "released before, but
\* still used", drv_media_mem.c:781).
ReleasedNotUsed ==
  \A b \in BufIds, d \in Dirs :
    LET m == Report(mem[b], d)
    IN  buf_cnt[b] > 0 /\ m.size > 0 => blocks[m.blk] > 0

\* A client that calls a live server is answered.
CallReturns == \A c \in Clients : pc[c] = "calling" ~> pc[c] # "calling"
-----------------------------------------------------------------------------
(* Refinement: without faults the channel implements SyncCall.             *)

\* Calls of b that a worker has executed and not yet answered.
Executed(b) == \E w \in Workers :
                 h[w] = b /\ pc[w] \in (IF job[w].op = "close" THEN {"leave", "answer"}
                                                             ELSE {"answer"})

CallState(c) ==
  CASE pc[c] \in {"open", "last"} -> "ready"
    [] pc[c] = "calling" -> IF buf[h[c]].done > 0 \/ Executed(h[c]) THEN "served" ELSE "pending"
    [] OTHER -> "out"

Rpc == INSTANCE SyncCall WITH
         st <- [c \in Clients |-> CallState(c)],
         request <- tag,
         result <- [c \in Clients |-> IF CallState(c) = "out" THEN 0 ELSE buf[h[c]].res]

\* Each call executes once, for its own request, and returns that result: the
\* token left in `call` or `done` by an earlier call never answers a later one.
ExactlyOnce == Rpc!Spec
=============================================================================
