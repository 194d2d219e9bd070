# A verification project for the TNTSAT set-top-box platform

This directory holds TLA+ models of parts of the platform in `src/`, TLC
configurations that model-check them on small instances, and TLAPS proofs about
them. Four subsystems are modelled: the **LXC IPC channel**, by which a process
in one container calls a server in another through a kernel driver and shared
media memory; the **smart_http downloader**, whose threads share queues and jobs
without a lock; the **audio decoder's elementary-stream buffer**, two rings
shared with the audio firmware; and the **fast DVB player's command queue** with the
mtos message queue beneath it. The rest of the platform is inventoried below, with the
plan for what is modelled next.

All source paths are relative to the repository root. `D:n` means line n of
`msp/drv/lxc_ipc/lxc_ipc.c` (the driver), `L:n` line n of
`msp/api/lxc_ipc/lxc_ipc.c` (the user library).

| file | what it is |
|---|---|
| `LxcIpc.tla` | the channel: driver, library, clients, listeners, workers; its properties |
| `SyncCall.tla` | abstract specification: exactly-once synchronous calls |
| `MCLxcIpc.tla`, `LxcIpcRpc.cfg`, `LxcIpcFaults.cfg`, `LxcIpcListen.cfg`, `LxcIpcMemory.cfg`, `LxcIpcGiveBack.cfg` | its instances |
| `LxcIpcProofs.tla` | proofs: types, reference counters, no use after free |
| `LxcIpcChannelProofs.tla` | proofs: who is connected to whom, no call and no client lost |
| `LxcIpcSessionProofs.tla` | proofs: sessions kept to the end, LISTEN finds a buffer |
| `LxcIpcRpcProofs.tla` | proof: the channel implements `SyncCall` |
| `LxcIpcMemoryProofs.tla` | proofs: blocks in use once and not freed, none lost, both sides on the current one |
| `SmartHttp.tla` | the downloader: application, scheduler, executors, queues, jobs |
| `FileStream.tla` | abstract specification: a file read from a position |
| `SmartHttpProofs.tla` | proofs: queues owned, jobs counted and never lost, completion reported, nothing freed used, the refinement of `FileStream` |
| `MCSmartHttp.tla`, `SmartHttpStream.cfg`, `SmartHttpRaces.cfg`, `SmartHttpLive.cfg`, `SmartHttpBack.cfg` | its instances |
| `AdecEsBuf.tla` | the audio buffer: producers, space checks, firmware, control operations |
| `PacketQueue.tla` | abstract specification: a queue of packets in disjoint places |
| `AdecEsBufProofs.tla` | proofs: packets intact, space check, fill level, flags; it implements `PacketQueue` |
| `MCAdecEsBuf.tla`, `AdecEsBuf.cfg`, `AdecFlush.cfg` | its instances |
| `MtosMsgQ.tla` | the mtos message queue, as actions other modules conjoin |
| `FastPlayer.tla` | the fast player's calls and thread over that queue |
| `FastPlayerProofs.tla` | proofs: commands executed, tokens exact, queue bounded, nothing freed used |
| `MCFastPlayer.tla`, `FastPlayer.cfg` | its instance |
| `PROJECT.json` | components, runs, mutants, source map, findings, hazards, theorems |

To check: `tlc -workers 2 -config LxcIpcRpc.cfg MCLxcIpc` (likewise for the
other configurations, with the MC module of their component), `tlapm
LxcIpcProofs.tla` (likewise for the other `...Proofs` modules).

## 1. Inventory

The repository is a board-support and middleware tree for a satellite
set-top-box: kernel drivers (`msp/drv`, `common/drv`), the user libraries over
them (`msp/api`, `common/api`), middleware (`kware`), samples
(`Brief_Sample`), board files and prebuilt or vendored code. What makes it hard
is concentrated in a few places where several threads, processes or CPUs share
state; most of the volume is register programming, parsing and demonstration
code.

### LXC IPC (modelled)

* **State.** The driver keeps one device with `open_cnt` and a list of names;
  a name has a counter, the completion `attach` and a list of client threads; a
  thread has a counter and `LXC_IPC_BUFFERS_PER_THREAD` (1024) buffer slots; a
  buffer has a counter, the completions `call` and `done`, the request
  `do_what`, the flag `connected` (0 new, 1 taken by a server, -1 closed by
  either side), two media memory blocks and the table `release_mem` of at most
  `LXC_IPC_BUFFER_RESIZE_MAX` (16) blocks waiting to be released. The library
  keeps a `struct lxc_ipc` per handle: key, file, mappings.
* **Operations.** open, release and the ioctls ATTACH, DETACH, RESIZE, CALL,
  LISTEN, ACCEPT, DONE; in the library `lxc_ipc_open_client/_server`,
  `lxc_ipc_resize`, `lxc_ipc_call(_timeout)`, `lxc_ipc_listen`,
  `lxc_ipc_accept`, `lxc_ipc_done`, `lxc_ipc_close(_accepted)`.
* **Interaction.** A client's ATTACH posts `name->attach`; a listener wakes,
  picks an unconnected buffer and starts a worker thread with a handle on it;
  the client's CALL stores `do_what`, posts `call` and waits for `done`; the
  worker's ACCEPT waits for `call`, its DONE releases old memory and posts `done`.
* **Hard.** CALL, LISTEN and ACCEPT wait without the driver's mutex and then use
  pointers they looked up before; completions carry no identity; waits end early
  by timeout or signal and the library repeats CALL; a killed process never
  detaches; the last close frees everything without looking at the counters; memory
  is released by a table that only DONE empties.
* **Correct means.** Counters equal handles; no freed object is used; no client is
  overlooked or accepted twice; a call is answered, once, with its own result;
  both sides look at the same memory; no block is leaked or released early.

### smart_http downloader (modelled)

`kware/libdownload/smart_http` (`multiqueue.c`, `download_group.c`, `jobs.c`,
`smart_http_download.c`). A player thread (open, read, seek, close), a scheduler
thread and `MAX_DL_TASK_NUM` (4) executors share `MAX_QUEUE_NUM` (6) byte queues
and a job list with no lock; flags and counters are the only protocol.

* **Hard.** `mutiQueue_take_one_queue` sets `used_flag` (`multiqueue.c:620`)
  before it resets the positions and before the new job id is stored, so the
  reader, which picks the used queue with the smallest job id (`:340`), may see the
  queue under its old id; `complete_job_num++` (`jobs.c:784`) runs in several
  executors; the scheduler stores RUNNING at the end of a seek
  (`smart_http_download.c:607`), over a close or a second seek requested
  meanwhile; the player waits for status values that only the scheduler sets.
* **Correct means.** Bytes are delivered in file order and each once; a completed
  download is reported; seek and close return; nothing freed by close is used by the
  scheduler or an executor.

### Audio decoder elementary-stream buffer (modelled)

`msp/drv/adec/buf/adec_buf_k.c`, `msp/drv/adec/adec_k.c`. A ring of bytes and a
ring of packet descriptors between writers (main and associated audio) and the
audio firmware, which is not in the repository. Operations: space checks, write,
remaining data, clear; start, stop, pause, resume, flush.

* **Hard.** A packet is never split across the end of the ring; full and empty are
  told apart by one free byte; the result of `down_interruptible` is dropped
  (`adec_k.c:754`); stop and flush clear positions without the writer's mutex
  (`adec_k.c:464`).
* **Correct means.** A written packet never overlaps unread data; packets
  are consumed in order with the bytes they were written with; a writer that fits is
  eventually accepted.

### External decoder ring buffer

`msp/api/adec/ext_decoder/RingBuffer.c`: a byte ring with a copy area before its
start for contiguous peeks and a parallel ring of time stamps; a mutex per
operation, so check-then-act pairs (enough, validate, write, read, reset) interleave.
Correct means: what is read is what was written, with its time stamp.

### mtos operating-system layer and fast player (message queue modelled)

`kware/mtos/mtos_{msg,event,sem,timer,fifo,task}.c` over `drv_os.c`: message queues,
event flags, timers and tasks over POSIX threads. `kware/fastplayer`
sends its commands over such a queue: application threads switch, stop and destroy the
player and wait for an answer, conditional-access threads announce what they
captured and wait for nothing.

* **Hard.** A queue is a System V queue, a semaphore with a token per message, a
  mutex held during a `msgsnd` that may block, and one counting semaphore for the
  answers to all senders; objects are deleted while others may use them (eight
  FIXMEs in `drv_os.c` say so).
* **Correct means.** A command returns after it was executed and always does
  return; every token has its message; the queue never fills; destroy comes after all that was
  sent before it, and nothing is left in the queue when it is released.

### Media memory zones (MMZ)

`common/drv/mmz`: zones, blocks found by a first- or best-fit search, kernel and
user mappings with reference counts. Correct means: blocks of a zone never
overlap; a block is freed only when nothing maps it. The channel's model uses it
through two operations: allocate (a free block or failure) and release by
address.

### IPC between the CPUs

`msp/drv/ipc`, `msp/drv/rpc`, `msp/drv/vss`: mailbox messages from the
application CPU to the AV CPU with acknowledge, timeout and a shared reply area.
Hard: a late reply after a timeout, an interrupt between check and sleep.

### The others

| component | state and operations | why later or not |
|---|---|---|
| module and memory bookkeeping (`common/drv/module`, `common/drv/mem`) | id tables under one lock | little interleaves |
| PVR (`msp/api/pvr`, `msp/drv/pvr`) | index files, play control, a fifo | the fifo is a candidate; play control depends on files and the demultiplexer |
| AVPLAY and sync (`msp/api/avplay`, `msp/drv/sync`) | player states over all decoders, clock recovery | depends on hardware timing |
| demultiplexer (`msp/drv/demux`) | channels, filters, hardware buffers | mostly register programming |
| video decoder, display (`msp/drv/vdec`, `msp/api/vo`) | frame buffers shared with firmware | the other side is not in the repository |
| audio output (`msp/drv/snd`, `msp/api/ao`) | rings shared with hardware | same |
| smart card (`msp/drv/sci`, `msp/api/sci`) | ISO 7816 T=0 and T=1, timeouts, retransmission | candidate after the plan |
| front end, HDMI, I2C, GPIO, IR, keyboard | registers | the behaviour is the hardware's |
| security (`msp/drv/crypto_engine`, `otp`, `msp/api/mss`) | ciphers, keys | arithmetic and registers |
| graphics (`msp/api/tde`, `mtgo`) | command lists, fonts | rendering |
| media player (`kware/libmonplayer`) | demultiplexers, `fifo_kw.c` | adapted third-party code; the fifo is a candidate |
| subtitle, teletext, captions, VBI (`kware/subtitle`, `cc`, `vbi_inserte`) | stream parsers | single-threaded parsing |
| samples, board files, TEE, vendored libraries | | demonstration, generated or third-party |

`PROJECT.json` lists the hazards of this code, each at its line, with the
properties that cover it; where no property does, a note says why.

## 2. Plan

Done: **LxcIpc** (driver, library and users in one module, because each property
needs all three; abstract specification `SyncCall`; safety and refinement proved), **SmartHttp** (abstract specification `FileStream`;
safety and refinement proved),
**AdecEsBuf** (abstract specification `PacketQueue`; safety and refinement proved), **FastPlayer** over
**MtosMsgQ** (safety proved).

Next, in this order:

1. **MmzZone**: zone lists and the gap search; it replaces `Alloc` and `Freed` of
   LxcIpc by a component that is shown to implement them.
2. **ExtRing** (`RingBuffer.c`), the rest of mtos (events, timers), **CpuIpc**
   (mailbox with timeouts and late replies).

## 3. LxcIpc: state and actions

What the driver does under its mutex is one step. The waits on
completions are made without the mutex and divide CALL, LISTEN and ACCEPT. Names, threads
and buffers are found by key, and exist exactly while their counter is
positive: each is created with counter one, and unlinked and freed by the
decrement to zero.

| variable | code |
|---|---|
| `open_cnt`, `name_cnt`, `tid_cnt`, `buf_cnt` | the counters of device, name, thread, buffer (0: not in its list, or NULL) |
| `attach`, `list_thread` | pending posts and thread list of a name |
| `buf` | `call`, `done`, `do_what`, `connected`; `res` is the result the server leaves in the shared memory |
| `mem`, `blocks` | `in_sMBuf`, `out_sMBuf`, their "needed" flags, `release_mem`; allocated blocks of the zone |
| `pc`, `h`, `map` | place of each process, its handle's key, what it has mapped |
| `tag`, `job` | the request of a client (alternating, so that an old answer differs from a new one), the request a worker received |
| `resizes`, `faults` | bounds |
| `ref` | history: the deepest object a process has attached to and not detached |

| action | code |
|---|---|
| `OpenFile`, `CloseFile`, `ReleaseFile` | `lxc_ipc_open` D:77, `lxc_ipc_release` D:99, the library's `open`/`close` |
| `AttachClient`, `AttachServer` | ATTACH D:178–247, both branches, with the -ENOMEM exit that keeps its counts |
| `CloseClient`, `CloseServer`, `CloseAccepted` | DETACH D:249–303 through L:69–91 and L:300–318 |
| `Resize` | RESIZE D:305–405 and the remapping L:93–172: "in" first, then "out"; fails where it stands when `release_mem` is full |
| `Call`, `CallAgain`, `CallDone`, `CallTimeout`, `CallInterrupted` | CALL D:407–454, retried by the library after EINTR (L:187) |
| `Listen`, `ListenWake`, `ListenPick`, `ListenInterrupted` | LISTEN D:456–513; the listener starts a worker (`stress-server.c:92`) |
| `Accept`, `AcceptWake`, `AcceptRead`, `AcceptInterrupted` | ACCEPT D:515–566 and remapping L:224–298 |
| `Serve`, `Done` | the server's work; DONE D:568–599 |
| `CrashClient`, `CrashServer` | kill: files are closed, nothing is detached |

Two ways to end a session are modelled as the repository's servers have them:
operation `"once"` is answered and then the worker detaches
(`stress-server.c`); `"close"` detaches first and answers afterwards
(`listener_mpfs.c:684`), when the buffer may be gone or, after a timeout, its
key may belong to another session. Clients open, resize, call and close as
`stress-client.c` and `mt_unf_ipc_fs.c` do; a client whose open fails exits.

**Abstracted data.** Payloads are a one-bit tag; a block of memory is a model
value and a size; addresses are block names; sizes are kept (in quarter pages),
with the driver's rounding to a power of two of pages, because both the driver and the
library compare them.

## 4. LxcIpc: runs

Distinct states are what TLC reaches with the given constants. All properties but
`CallReturns` are also proved (section 9), `ReleasedNotUsed` for clients that do not do what the
finding below describes.

| run | instance | states | properties |
|---|---|---|---|
| `lxc_rpc` | two client threads, one server, two workers, no faults, fair | 33,030 | `ExactlyOnce`, `CallReturns`, `ConnectionNeverReopens` |
| `lxc_faults` | two handles of one thread, one slot, two servers on one name, two faults of any kind | 562,793 | `TypeOK`, `RefCountsExact`, `NoUseAfterFree`, `NoLostCall`, `NoLostAttach` |
| `lxc_listen` | two slots of one thread, two servers on one name, sessions kept to the end, two signals, kills or shutdowns | 464,756 | `ListenFinds`, `NoLostAttach`, `OneWorkerPerBuffer` |
| `lxc_memory` | one client and worker, one resize per call, a zone of three blocks | 3,187 | `MappingsCurrent`, `BlocksAccounted` |
| `lxc_give_back` | a client that resizes to zero and back | | `ReleasedNotUsed`, **violated** |

* **ExactlyOnce** is the refinement of `SyncCall`: `"calling"` maps to *pending*
  until a worker has executed the request and to *served* from then until the client
  returns. It shows that no token left in `call` or `done` answers the
  wrong call while nothing fails.
* **CallReturns**: a call to a living server returns. It needs every link: the
  post, the listener, the worker, the answer, for sessions that begin and end
  around it.
* **ConnectionNeverReopens**: once either side has closed a connection no
  listener takes its buffer again while it lives.
* **RefCountsExact**, **NoUseAfterFree**: the counters count the handles
  not yet detached, and no handle or pointer kept across a wait outlives
  its object.
* **NoLostCall**: a waiting client's call is posted, being served, or answered,
  after any timeouts and retries; the exception is the client of a
  killed server, which the driver leaves waiting.
* **NoLostAttach**: buffers no server has taken are covered by posts, or by
  listeners that consumed one and have yet to scan. **OneWorkerPerBuffer**: no buffer
  is accepted twice.
* **ListenFinds**: while no client leaves before its session is over, a listener that has
  consumed a post finds an unconnected buffer, so LISTEN's -ENODEV does not occur. This
  matters because no server in the tree looks at LISTEN's result (see below): `LxcIpc` models a server that listens again after the failure, and
  `ListenFinds` says when the difference cannot show.
* **MappingsCurrent**: client between calls and worker while serving have
  mapped the block the driver holds. Checked for clients that resize at most once per
  call: with more, a buffer that changes size twice and returns to its old
  size leaves the worker's comparison of sizes (L:245) unable to notice.
* **BlocksAccounted**: a block is allocated exactly if some live buffer uses it or has
  it in `release_mem`. Sessions end with a call (see section 10).

### Finding: a buffer given back and asked for again

RESIZE to 0 queues a *copy* of the block for release but leaves size and address
in `in_sMBuf`/`out_sMBuf` (D:331). A later RESIZE to the same size finds the size equal,
allocates nothing and hands out the block that DONE releases, or has
released. The sequence is in the tree: `usbevent_callback_task` resizes to 0 on
unregister (`mt_unf_ipc_fs.c:89`), `ipc_fs_deinit` resizes the same handle to its
old size (`:136`). The allocator has a message for the state:
"mtl_mmb_free: amazing, mmb<%s> is released before, but still used!"
(`drv_media_mem.c:781`). `lxc_give_back` shows the shortest trace.

### Observed: a failed LISTEN taken for a client

Every server loop calls `lxc_ipc_listen` without looking at its result
(`stress-server.c:93`, `listener_mp.c:101`, `listener_mpfs.c:895` and `:928`) and starts a
worker on the handle. When the client that posted `attach` has closed before the
listener scans, LISTEN returns -ENODEV and the handle is a copy of the listening one, with
thread 0; once the worker calls `lxc_ipc_close_accepted`, DETACH runs with tid 0 and takes
a reference from the name alone, where the driver expects that "client and accepted detach
should buf_cnt-- and tid_cnt--" (D:276). The reference was the listener's. The model's
server listens again instead, and the theorems of section 9 are about such servers;
`lxc_listen` shows that the clients in the tree, which call before they close and use no
timeout, never bring the difference about. A client that uses `lxc_ipc_call_timeout`, or
closes early, may.

### Bounds

Two clients, two servers and two workers are enough for each race in the code to have two
opponents: two handles competing for a slot, two listeners for a
buffer, a successor for a key that was freed. One slot per thread forces reuse of the key and
the -ENOMEM exit; two slots let one thread wait twice. Two faults allow a
fault during the recovery from another (a timeout followed by the kill of the
late worker). Three blocks can all be taken, so that allocation fails. A full `release_mem`
needs more resizes between two calls than the clients of the tree make and is not
exercised: RESIZE then fails between its two directions and the library does not map
the one that succeeded, so `MappingsCurrent` fails with a table of one entry. Constants that bound behaviours are named
(`MaxFaults`, `MaxResizes`); a server listens only while a worker is idle
(`IdleWorkers`), where the code would start another thread. Deadlock
checking is off because the system may stop: a client whose open failed exits,
and clients need not call.

### Fairness

`FairSpec` assumes weak fairness of each step a thread takes once it can
run: the driver's wake-ups (kernel scheduling), the server's loop of listen, accept,
serve, answer and detach (it has no exit in `stress-server.c`), and a
client's attach, return, and close after its last call. Opening, calling and resizing
are the client's choice and have no fairness. Faults have none. `CallReturns` is
checked with one slot per thread: LISTEN takes the first unconnected buffer in list order (D:485),
and with more slots a thread that keeps reopening the earlier one could
keep overtaking its own later handle.

### Mutual dependence of the three sides

The driver trusts its users for order: it never checks that a caller of DONE
holds the buffer, that LISTEN's name is still the one attached, or that CALL
is not repeated. The model therefore keeps driver, library and users together and
states what holds under the users' protocol. What a user may do beyond that
protocol is limited to the named faults: `timeout`, `signal`, `crash`,
`early_close` (a client that closes without the last call) and `server_close`.
Servers are taken to check the result of LISTEN.

## 5. SmartHttp

A file is cut into jobs of one queue length (`jobs.c`); the scheduler
(`download_job_queue_schedule`) pairs the next job with a free queue and an idle
executor; the executors (`download_task_entry`) fill their queues; the application
reads the queues in job order (`mutiQueue_read`) and seeks, closes, reopens.

| variable | code |
|---|---|
| `schedule_task_status`, `off`, `seek_off` | fields of `SmartHTTPGlobalContext` |
| `jobs` | `JOBS_DESCRIPTION`: `assigned`, `complete` per job, the two counters, `finish_flag`; `alive`: not freed |
| `mq`, `queue` | the multiqueue (current queue, pending seek) and its queues (used, job id, complete, positions, range, contents) |
| `expect_status`, `task` | the download group's and each executor's status, its queue and job |
| `app`, `sched`, `exe` | where each thread is, with its local variables; `sched.stale`: the job in hand is of a freed session |
| `ret` | what the last call returned |
| `seeks`, `opens` | bounds |

**Steps and windows.** An action is what a thread does between two places where
another thread may run. Sleeps, waits and network calls always are such places. A place
inside a straight run of statements is a *window* with a name, and the constant
`Races` says which windows are open:

| window | where | what fails when it is open |
|---|---|---|
| `take` | `multiqueue.c:620`, from `used_flag = 1` to the queue's job id | `StreamFaithful`, `ImplementsFileStream`: the reader takes the queue by its old job id and delivers a later segment early |
| `poll` | `download_group.c:531`, from the look at `expect_status` to `task_status = IDLE` | `AssignedHasExecutor`: an assignment made in between is overwritten |
| `count` | `jobs.c:784`, inside `complete_job_num++` | `CompletionReported`, `StreamEnds`: an increment is lost |
| `leave` | `download_group.c:564`, from the queue's complete flag to `task_status = IDLE` | `QueueOwned`, with backward seeks: a seek finds the previous user of a queue |
| `seek` | `smart_http_download.c:607`, from `seek_pending = 0` to `RUNNING` | `CallsReturn`: a close's request is overwritten |
| `idle` | `smart_http_download.c:584`, from `IDLE` to the second look at it | `FreedNotUsed`, with a second session: a job of the freed session is kept |

Each of these was found by opening the one window: the six places want a lock, and
with them closed the properties below hold. The passing runs open every window that leaves their properties
true. Updates of the counters by the scheduler are one step (its only rival is the
executors' increment, whose halves are the window `count`).

| run | instance | states | properties |
|---|---|---|---|
| `http_stream` | two executors, two queues, segments of 2, 2 and 1 units, two forward seeks, reconnecting after errors; `leave`, `idle` open | 167,446 | `TypeOK`, `QueueOwned`, `FreedNotUsed`, `CompletionReported`, `ImplementsFileStream` |
| `http_races` | two sessions, one queue for two executors, three segments, a seek to the first or the last of them, errors skipped (a segment given up early is the same step); all windows but `idle` open | 2,704,402 | `FreedNotUsed`, `AssignedCounted` |
| `http_live` | three segments, seeks both ways, reconnecting; `idle` open; fair threads and an application that keeps reading | 124,977 | `QueueOwned`, `AssignedHasExecutor`, `CompletionReported`, `CallsReturn`, `StreamEnds` |
| `http_back` | one seek back, no window open | | `StreamFaithful`, **violated** |

* **ImplementsFileStream**: whatever order the executors work in, the
  application reads the units of the file from its position on, and the end of the
  file is reported only there. Stated for one session and forward seeks: a
  second session starts with the old `off` (`Open` does not reset it, `:1054`), and a
  seek back runs into the finding below.
* **QueueOwned**: no queue is given to two executors or reset under one.
  **AssignedHasExecutor**: a job nobody else will take is somebody's.
  **CompletionReported**: all complete implies `finish_flag`. **AssignedCounted**:
  `assigned_job_num`, on which `Get_Next_Job` gives up, is exact through resets and
  reactivations. **FreedNotUsed**: no thread works on the jobs `Close` has freed.
* **CallsReturn**, **StreamEnds**: the handshakes end; reading on reaches the end.

**Finding: a seek back reported as the end of the file.** `Smart_Http_Download_Read`
looks at `finish_flag` and the last queue's positions (`:1165`) before a pending seek's
position is applied by `queue_read`, and a seek into a segment that is still in its
queue changes neither. After a seek back into the last segment, read to its end but not
yet retired, `Read` answers EOF at an offset before the end, although
`SMART_HTTP_DOWNLOAD_SEEK_ABS` is "absolute position"
(`smart_http_download.h:50`). `http_back` shows the trace; no race is needed.

**Bounds.** Two executors and two queues give each shared place two rivals and make the
queues scarcer than the jobs (three). `http_races` has one queue for its two executors:
the scheduler then often holds a job and waits for a queue, which is where a close can
leave it with a job of a freed session; `http_stream` checks the same `FreedNotUsed` with
two executors filling two queues. `SEG` 2 lets a read stop inside a segment; 1 is used where
positions inside a segment do not matter. `MaxSeeks`, `MaxOpens` bound a behaviour.
Deadlock is not checked in `http_races`, where a close may really wait for ever (`seek`).

**Fairness.** Weak fairness of the scheduler and of each executor: their loops sleep and
try again, and a network call ends by `DOWNLOAD_GROUP_TIMEOUT`. Of the
application only that a call it has made goes on (`FairSpec`); `ReadingSpec` adds that it
keeps calling read, for `StreamEnds`. `ReadTurn`, one round of `mutiQueue_read`, is
strongly fair: the reader polls with a sleep while data come and go with resets, and a
reader that looks again and again does see a queue that is ready again and again.

## 6. AdecEsBuf

`adec_es_buf_t` is a ring of bytes and a ring of packet descriptors in memory shared
with the audio firmware. A producer, fixed for a behaviour by `writer`, is the
demultiplexer's thread in the kernel (`MT_DRV_ADEC_Write`, `adec_es_write`) or a player
(`Get_ADEC_Buffer`, `Put_ADEC_Buffer`); the firmware (external) takes the
oldest packet; a control thread starts, stops, pauses, resumes and flushes.

| variable | code |
|---|---|
| `es_rd`, `es_wt`, `pkt_rd`, `pkt_wt`, `es_pkt` | the positions and descriptors; `at`, `head`, `old` in a descriptor are history: where its bytes were put, whether the writer went to the head for it, whether it was prepared before the last clear |
| `w` | the producer's call: place, size, address, slot |
| `status`, `ctl` | `adev->status`, the control operation in progress |
| `decoding` | whether the firmware takes packets |

The producer's steps are the accesses to the shared memory in the code's order: slot
check, space check (which may move `es_wt` to the head and writes the flag), copy,
`es_wt`, descriptor with `pkt_wt`, `es_ts`. The firmware and the control thread run between
any two. Nothing orders the control thread's clear with the kernel's producer: it writes
with `g_adec_es_mutex` held, which start, stop and `IO_ADEC_FLUSH` do not take. (The exported
`adec_flush_all`, `adec_k.c:691`, does, round the same flush; it has no caller in the tree.)
`ClearInside` says whether a clear may interrupt
a hand-over, `CmdFails` whether commands to the firmware may fail.

A control operation is a sequence of steps too: stop and pause store the status and then
command the firmware, start and resume command it and then store the status (`Run`), and a flush is
a pause, a clear and a resume. So there are states in which the decoder is paused and the firmware still
takes packets, or takes packets again before the status says so, with no command having failed.

| run | instance | states | properties |
|---|---|---|---|
| `adec_es_buf` | a ring of 6 bytes and 4 descriptors, packets of 1 and 3 bytes, both producers, failing commands, clears between hand-overs | 632,876 | `TypeOK`, `Intact`, `EmptyAccepts`, `RemainTold`, `FlagMarksHead`, `ImplementsPacketQueue`, `WriteCompletes` |
| `adec_flush` | the kernel's producer, clears at any time | | `FlushDrops`, **violated** |

* **Intact**: a packet still to be taken lies whole where its descriptor says and
  nothing is written into it. **ImplementsPacketQueue**: the rings are a queue;
  packets leave in order, and are dropped only by a clear of a decoder that is not started.
* **EmptyAccepts**: a drained ring takes any packet of up to half its length, although
  packets are never split. (Above half, an empty ring can refuse a packet for ever.)
  **WriteCompletes**: a packet on offer is taken in while the decoder stays started.
* **RemainTold**: the reported fill level is zero exactly when all is taken.
  **FlagMarksHead**: the flag marks the packets written at the head for lack of room.

**Finding: a flush that does not flush.** `IO_ADEC_FLUSH` clears the positions while
`MT_DRV_ADEC_Write` may be copying (`adec_k.c:674`); the packet is published into the
flushed ring and decoded after the resume, and lies in bytes the positions call free. The
documentation promises to "Flush audio all input and output buffers"
(`mt_unf_avplay.h:1302`).

Also seen, and outside the properties above: a player that discards what it was granted
leaves the flag of the next packet at 0 (hence `FlagMarksHead` for the kernel's
producer); `es_ts` is stored after `pkt_wt` has moved, so that a reader on the same cores can see a
packet with its slot's old type; a flush of a paused decoder resumes it, where the
documentation says that the play mode is not changed.

**Bounds.** With packets of one byte the positions reach every place of the ring of six, and
three bytes, half the ring, is the length at which `EmptyAccepts` could fail first; the two together reach
every branch of the space check; three usable descriptors let positions meet while a slot
is free, without which an overrun of the byte ring stays hidden. **Fairness**: the producer
goes on offering, the firmware goes on taking while it decodes, and a control operation once
begun ends. Nobody has to begin one.

## 7. FastPlayer and MtosMsgQ

`MtosMsgQ` is an mtos message queue: the kernel's queue (`msgs`, at most
`Capacity`), the semaphore `sem` with a token per message, `snd_rcv_mutex`, and
`sync_sem` for the answers. Its actions change the queue alone. `FastPlayer` conjoins
them with the program counters of its threads:

| thread | actions | code |
|---|---|---|
| controllers | `Create`, `Control`, `TakeGive`, the send, `Acknowledged`, `SetFlags`, `Release` | `MT_UNF_fast_dvbplayer_create`, `_switch`, `_stop`, `_destroy` (`fast_dvb_player.c:1605`–`1796`) |
| conditional-access threads | `Capture`, `CaTake`, the send, `CaClear` | `_start_capture_ecm`, `_finish_capture_ecm`, `_set_cw_done` (`:1651`–`1698`), under `p_priv->mutex` |
| both | `Find`, `Lock`, `Send`, `Post` | `mtos_messageq_send` over `SYS_MsgQSend` (`drv_os.c:1117`) |
| `fdp_thread` | `FdpToken`, `FdpLock`, `FdpReceive`, `FdpHandle`, `FdpAck` | `:1411`, `SYS_MsgQWait` (`drv_os.c:874`), `fdp_destroy` (`:1221`) |

| run | instance | states | properties |
|---|---|---|---|
| `fastplayer` | two controllers, two conditional-access threads, two flags, a queue of six | 235,958 | `TypeOK`, `CommandsExecuted`, `TokensMatch`, `QueueBounded`, `DestroyLast`, `CallsReturn` |

* **CommandsExecuted**: a command returns only after the thread has executed it: no
  answer is left over from another message.
* **TokensMatch**: tokens in the semaphore, in a sender's hand and in the
  receiver's hand are one for each message.
* **QueueBounded**: at most the announcements of two switches and one command are
  queued, 2 |`Flags`| + 1 messages. The bound is tight, and nothing but the player's own
  flags provides it: the depth of `mtos_messageq_create` is stored and never used. It
  matters because `msgsnd` blocks with `snd_rcv_mutex` held, which the receiver needs: with
  `Capacity` one less than the bound TLC finds the deadlock.
* **DestroyLast**: destroy is the last thing `fdp_thread` executes. What was announced
  before it, by calls that have returned, is executed before `p_priv` is freed; when destroy
  is answered the queue is empty, without token or answer, so that `mtos_messageq_clr` drops
  nothing, and the thread has made its last use of it. A left-over answer, or a destroy that does
  not wait, would release the queue under the thread.
* **CallsReturn**: switch, stop and destroy return.

Two assumptions about the application, both enforced by nothing in the player, are
constants: `Serial` (one control call at a time; without it two callers take each
other's answers and `CommandsExecuted` fails) and `Quiet` (destroy only an idle player
and call nothing meanwhile; without it `DestroyLast` fails: a capture call begun
before destroy sends after it, into a queue about to be deleted, and gives back the mutex of a
player that is freed). `Quiet` takes the worse half of that hazard out of the model: no property
here says anything of a call that is under way when the player is destroyed. Two flags stand for the
three, which differ in nothing but their names. **Fairness**: every thread runs on; the
application need not begin a call, but one begun continues.

## 8. Mutants

Each property of a passing run has a mutant in `PROJECT.json`: a definition of the model
changed the way a slip in the code would change it (a completion used as a flag,
a comparison that lets the ring fill up, an executor not waited for, an answer for a
message nobody waits on), under which TLC finds the property violated.

## 9. Proofs

### LxcIpcProofs

`LxcIpcProofs` proves, for every set of names, threads, clients, servers and
workers, every number of slots and every choice and number of faults, for servers that
listen again after a failed LISTEN:

| theorem | statement |
|---|---|
| `Invariance` | `Spec => []IInv` |
| `TypeCorrect` | `Spec => []TypeOK`: among others, no counter or completion goes negative |
| `RefCountsCorrect` | `Spec => []RefCountsExact` |
| `NoUseAfterFreeCorrect` | `Spec => []NoUseAfterFree` |

**Assumptions.** `ConstantsAssumption` (finite, disjoint sets of processes;
names, threads and bosses well typed; at least one slot),
`MemoryAssumption` (table and page sizes positive), `SizesAssumption`
(`AllocSize` of each request is a natural number, at least the request: it
amounts to 2^n >= n, an induction the provers cannot do; TLC evaluates it for
the requests of each run).

**Inductive invariant.**
`IInv == TypeOK /\ FilesCounted /\ HandlesConsistent /\ RefCountsExact`.
`RefCountsExact` alone is not inductive, for two reasons. The last close sets every
counter to zero: that is exact only if nobody else holds a reference, so
`open_cnt` must equal the number of processes with the file
(`FilesCounted`), and only such processes may be in a session. And DETACH subtracts from the
counters of the handle's key: that is exact only if the process really holds a
reference at that place in its protocol (`HandlesConsistent`, one clause per
kind of process; a worker's clause also says that its listener, whose file it uses, is
still listening).

**Argument.** For each conjunct one lemma per kind of process goes through its actions
(`ClientTypes`, `ServerTypes`, `WorkerTypes`, `FilesStep`, `ClientHandles`, ...).
Cardinalities change in five ways, each its own lemma: a handle is taken
(`CountsTake`), taken without a buffer (`CountsFailed`), dropped
(`CountsDrop`), a listener comes or goes (`CountsServer`), everything is
released (`CountsRelease`); the other actions leave the holders alone
(`CountsSame`). `LastFileAlone` is the core: if the last file closes, every
other process is outside a session. `NoUseAfterFree` follows from the invariant: whoever
may use an object is among its holders, so its counter is positive.

### LxcIpcChannelProofs

For the same systems, every choice and number of faults included:

| theorem | statement |
|---|---|
| `Connections` | `Spec => []ChannelInv` |
| `OneWorkerEach` | `Spec => []OneWorkerPerBuffer` |
| `AttachNeverLost` | `Spec => []NoLostAttach` |
| `ClosedStaysClosed` | `Spec => ConnectionNeverReopens`, an action property |
| `CallNeverLost` | `Spec => []NoLostCall` |

**Argument.** Where buffers, posts and listeners are concerned the many actions of the channel
do five things only, and `ChannelSteps` shows that every step is one of them: nothing moves
(`Stays`: at most a post is consumed, or a scan finds nothing), a client gets a free buffer and
posts (`Enters`), a listener takes a waiting buffer (`Takes`), somebody gives a buffer up
(`Quits`), the last close frees everything (`Empties`). The properties are then proved of five
steps instead of thirty actions.

**Inductive invariant.** `ChannelInv` adds to the reference counters that a worker's buffer has
`connected` other than 0 and that a buffer has one client. The first is why a second LISTEN
cannot pick the buffer (`OneWorkerPerBuffer`), the second why a buffer that gets free leaves no
post uncovered. `NoLostAttach` is an inequality and stays one: a client that leaves early takes
its buffer away and leaves its post. `NoLostCall` is a sum over workers; `CallersOwed` is
the same as a disjunction (`OwedMeansCounted`): a caller's buffer has a call, an answer, a
worker serving it, or a worker that was killed. It is kept by itself, from one client
per buffer: nobody else can use up the call or the answer.

### LxcIpcSessionProofs

| theorem | statement |
|---|---|
| `Sessions` | `ASSUME Orderly PROVE Spec => [](Places /\ SessionInv)` |
| `ListenAlwaysFinds` | `ASSUME Orderly PROVE Spec => []ListenFinds` |

**Assumption.** `Orderly`: no client times out or closes early, and if signals occur, every
session is a single call (a signal makes the library post a call again, and a client that then
makes another call could be served for the old one). Kills of clients and servers and
shutdowns of servers are allowed. These are the conditions of `lxc_listen`; section 4 tells what
happens without them.

**Inductive invariant.** With `NoLostAttach` an equality, `AttachExact` (waiting buffers =
posts + listeners that consumed one), `ListenFinds` is immediate. The equality breaks if a
client gives up a buffer that no listener has taken, so it needs `SessionInv`: at each place of a
client, which of call, service and answer exist for its buffer (`SessionOf`). A session that is
over has been answered, hence accepted, hence the buffer had been taken. In turn an answer
is never a left-over, because a worker that has a call or can take one has a client that waits
for it (`Service`), which needs `Places` (a server listens as long as it has workers).

### LxcIpcRpcProofs

| theorem | statement |
|---|---|
| `CallsExecuteExactlyOnce` | `ASSUME Undisturbed PROVE Spec => ExactlyOnce`, the refinement of `SyncCall` |

**Assumption.** `Undisturbed`: no fault but servers that close and open again. With a
signal a request may be executed twice (section 10), so the assumption is needed.

**Argument.** To `SessionInv` `DataInv` adds that the request posted and the request being served
carry the tag of the client that waits. Each step of the channel is then, for each client, one of
the abstract steps seen from outside (`Arrives`, `Starts`, `Executes`, `Returns`, `Leaves`) and
leaves the other clients alone (`Untouched`); `ClientRpc`, `ServerRpc`, `WorkerRpc` show it
for the actions of each kind of process, `RpcRefined` puts them together.

### LxcIpcMemoryProofs

For any set of blocks, page size, set of requests and number of clients, servers, workers and slots,
with allocations that may fail:

| theorem | statement |
|---|---|
| `BlocksApart` | `ASSUME Steady PROVE Spec => []MemoryInv`, every fault included |
| `ReleasedIsNotUsed` | `ASSUME Steady PROVE Spec => []ReleasedNotUsed`, every fault included |
| `BlocksAlwaysAccounted` | `ASSUME Steady, Orderly, "crash" \notin Faults PROVE Spec => []BlocksAccounted` |
| `MappingsStayCurrent` | `ASSUME Steady, Orderly, OneResize PROVE Spec => []MappingsCurrent` |

**Assumptions.** `Steady`: for each direction, either every request asks for something or none does. It
excludes the give-back of section 4, where `lxc_give_back` shows `ReleasedNotUsed` fail.
`Orderly` (above): a client that gives up on a call, or closes without one, may leave blocks in
`release_mem` that nobody releases any more (D:281), or go on while a worker is still serving its
old call. A kill does the same to the blocks, but not to the mappings of those who are left: hence no
crash in the third theorem only. `OneResize`: at most one resize between two calls, and a table of at
least two entries. With two resizes a buffer may return to the size the worker has mapped, with
another block; with one entry RESIZE may fail after its first direction, and the library keeps
its record of a block that was replaced.

**Inductive invariants.** `MemoryInv`: a buffer's blocks are allocated, those in use are not among those
waiting for DONE, the two directions and different buffers share none (`MemSound`), a buffer that
is not there has empty memory. With `Steady` nothing is remembered of a direction that has no memory
(`DirSound`), so what is reported is what is held. To it the third theorem adds `DoneClear` (an
answered call has had its table emptied), `DelayedHeld` (a buffer with blocks in its table has a client
that is yet to call or waits: the DONE to come will release them) and `NoLeak`; the table is
then empty when DETACH or the last close drop it (`Careful`). The fourth adds `MapInv`:
the client has mapped what is reported, the worker too while it serves (`ClientView`, `WorkerView`).
The worker is the harder one: while it waits it may have an old mapping, and what makes ACCEPT's comparison
of sizes right is that an equal size then means the same block. That is inductive only with
`Settled`: as long as the buffer has not been resized since the last call, the waiting worker has
mapped the current block or nothing, so the one resize that may follow is from a block it knows.

**Argument.** Every step of the channel does one of five things to the memory (`MemoryStep`: kept,
grown by RESIZE, emptied of delayed releases by DONE, freed with its buffer, freed altogether), shown
action by action (`ClientMemory`, `ServerMemory`, `WorkerMemory`); `MemoryInvKept` and `LeakFrame` are about those five.
For the mappings `MapFrame` says that only the users that move remain to be looked at, and
`ResizeSwaps` what RESIZE makes of a report.

**Only model-checked of LxcIpc**: `CallReturns`, which needs fairness.

### AdecEsBufProofs

For every length of the two rings, every set of packet lengths, both producers and
failing commands:

| theorem | statement |
|---|---|
| `TypeCorrect` | `Spec => []TypeOK`, clears at any time included |
| `PacketsIntact` | `Spec => []Intact` |
| `DrainedAccepts` | `Spec => []EmptyAccepts` |
| `RemainIsTold` | `Spec => []RemainTold` |
| `FlagIsTrue` | `Spec => []FlagMarksHead` |
| `QueueRefined` | `Spec => ImplementsPacketQueue`, the refinement of `PacketQueue` |

**Assumptions.** `RingAssumption` (positive lengths), and for all but the first
theorem `~ClearInside`: no clear interrupts a hand-over. The finding of
section 6 shows that the assumption is needed.

**Inductive invariant.** `Intact` says nothing about where the *next* packet goes.
`IInv` measures every place by its distance from `es_rd` going round (`Key`):
`Whole` and `Ordered` say that the unread packets follow one another in queue order and end
before the writer's front, `Room` that a granted packet ends strictly before `es_rd` comes round
again (the free byte), `SlotKept` that the slot checked is still free at the
publication, `Sized` that sizes are positive, and `Drained` where the last unread packet ends: at the
front, or, when the writer went to the head, in the second half of the ring.
`Drained` is what `EmptyAccepts` needs: with nothing unread the positions agree or stand so that
the head is longer than half. `Flagged` adds for the kernel's producer that the flag of the
slot being filled is the one its place calls for.

**Argument.** One lemma per action (`CheckBufStep`, `AdvanceStep`, `PublishStep`,
`ReadStep`, ...), on two lemmas about the descriptor ring (`ReadSlots`, `PublishSlots`: how
`Unread` and `Place` change when a position moves).

**Refinement.** The abstract queue is read off the descriptor ring (`QueuedIs`: the k-th packet
is in the slot k - 1 places after `pkt_rd`). `Publish` is the abstract `Put`, whose condition that the
new packet is apart from those queued is `Intact` for the copy in progress; the firmware's `Read`
is `Get`; a clear is `Clear`, because Stop and a flush have left the started state before
they clear (`CtlStatus`); all other steps change at most `started` or nothing (`QueuedSame`).

**Only model-checked**: `WriteCompletes` (fairness).

### FastPlayerProofs

For every number of controllers and conditional-access threads, every set of flags and
every capacity of the kernel's queue:

| theorem | statement |
|---|---|
| `Invariance` | `ASSUME Serial, Quiet PROVE Spec => []IInv` |
| `TypeCorrect` | ... `Spec => []TypeOK` |
| `CommandsAreExecuted` | ... `Spec => []CommandsExecuted` |
| `TokensAreExact` | ... `Spec => []TokensMatch` |
| `DestroyIsLast` | ... `Spec => []DestroyLast` |
| `QueueIsBounded` | ... `Spec => []QueueBounded` |

**Assumptions.** `ThreadsAssumption` (finite sets, threads and marks differ),
`CapacityAssumption`, and the two assumptions about the application of section 7.

**Inductive invariant.** The answer carries no name, so `CommandsExecuted` needs that a command
is in exactly one place: in the queue, in the hands of `fdp_thread`, or answered (`OnePlace`,
`Messages`, `Progress`), and that there is one control call at a time (`CallsAlone`).
`TokensMatch` is inductive with the holders of the mutexes (`MutexesHeld`). `Lifetime` ties
`p_priv`, the queue and the thread together: a freed player has its destroyer still in the
call and an empty queue; with the tokens counted (`TokensMatch`) and the one answer taken (`OnePlace`)
that is `DestroyLast`. `Announced` is what bounds the queue: a flag that may still be announced
(`Pending`) is in the queue at most once, and any flag at most twice, once before and once after the
command. `QueueIsBounded` counts from there: `OnePerFlag` turns two sets of indices without
repeated flags into 2 |`Flags`|, plus the command.

**Argument.** One lemma per action (`SendKeeps`, `FdpReceiveKeeps`, ...), on lemmas about how
tokens in hand are counted (`Counts`, `PostingGrows`, `PostingShrinks`). **Only model-checked**: `CallsReturn` (fairness).

### SmartHttpProofs

For every number of executors, queues, seeks and sessions, every size of file and segment, seeks
in both directions, errors skipped or reconnected:

| theorem | windows (section 5) | statement |
|---|---|---|
| `Invariance` | all open | `Spec => [](BaseInv /\ CountOK)` |
| `TypeCorrect` | all open | `Spec => []TypeOK` |
| `AssignedIsCounted` | all open | `Spec => []AssignedCounted` |
| `FreedIsNotUsed` | `idle` closed, or one session | `Spec => []FreedNotUsed` |
| `QueuesOwned` | `poll`, `count`, `leave` closed | `Spec => []QueueOwned` |
| `AssignedHasOne` | `poll`, `count`, `leave` closed | `Spec => []AssignedHasExecutor` |
| `CompletionIsReported` | `poll`, `count`, `leave` closed | `Spec => []CompletionReported` |
| `StreamImplemented` | `take`, `poll`, `count`, `leave` closed; one session, seeks forward, segments arrive in full | `Spec => ImplementsFileStream` |

**Assumptions.** `ConstantsAssumption` (positive sizes and numbers). A closed window
is an assumption about the threads that the code does not enforce: section 5 names, window by
window, a property that fails when it is open. `QueuesOwned`, `AssignedHasOne` and `CompletionIsReported` share one
invariant and therefore the three windows of the executors, though each of them alone fails for
one window only. The proofs go
further than the runs: they leave the scheduler's windows `take`, `seek` and `idle` open for
those theorems, and `seek` and `idle` for `StreamImplemented`, and cover any number of executors, where the runs have two. The one
place where a run goes further is `leave`, which `http_stream` opens with forward seeks only.

`StreamImplemented` has further hypotheses (`Smooth`), each a circumstance in which the
reader gets something other than the file: `take` open (a queue is found by its old job), a second session
(`off` of the first one is kept), a seek back (the finding of section 5), and segments
that do not arrive in full (`Delivered`: no answer is cut short, and after an error the
segment is asked for again; otherwise `download_done` completes a queue with a gap in it). `http_stream` runs
under them but for `leave`.

**Inductive invariants.** Six layers.

* `BaseInv` adds to `TypeOK` the scheduler's locals (`SchedOK`: a policy's jobs are jobs of the list),
  that an executor at work has a task with a queue and a job (`TasksOK`), that a used
  queue has a job unless the scheduler is about to give it one (`QueuesOK`), and what the
  application's place says of the scheduler and the executors (`SessionOK`).
* `CountOK`: `assigned_job_num` is exact and the job in the scheduler's hands is not assigned.
  The second is needed: assigning a job twice would count it twice.
* `NotStale`: the scheduler takes no job of a freed session over its second look at the status.
* `OwnInv`: running executors have different jobs, all assigned; the queue an executor fills is used, not
  complete, not being handed out, and has its job (`TaskOwn`, `QueueOwn`); a queue in the scheduler's hands is ready
  (`AssignOwn`); a seek brings no running job back, and stops the executor of a job
  it kills before it waits (`SeekOwn`).
* `DoneInv`: on top of it, `complete_job_num` is exact outside `Complete_Job` (`Counted`,
  `Finishing`), a job in the scheduler's hands is not complete (`HandWaits`), and every
  assigned job that is not complete has a running executor (`Covered`).
* `StreamInv`, under `Smooth`: while a session is read there are r <= k such that `Span(r, k)`. The jobs
  before k have been handed out or skipped (`JobsTo`); the jobs from r to k - 1 are in the
  queues, each in one, and the reader is at r (`QueuesOf`); a queue holds the first units of its job's
  range, all of them when it is complete (`Contents`, with `Fills` for the executor between two steps); the reader's
  offset is r's begin plus what is read of its queue, or, while a seek is pending, not beyond
  it (`Position`); the group is stopped by a seek only, and then the application waits for it (`Seeks`).

**Argument.** One lemma per action and layer, over lemmas about the operations on the job
list (`Assign_Job`, `Reactive_Job`, ... as edits of the sets of assigned and complete jobs, with the
counters following) and about the searches (`Min`, a `CHOOSE`, by well-foundedness of the naturals).
The heart of `OwnInv` is that running executors have distinct jobs, and a used queue is found by
its job: so they have distinct queues, and the executor a seek stops is the only one
on the killed job. When the executors' windows are closed a step of the application or the scheduler
never finds one between giving up its queue and saying so.

For the refinement, every step keeps `Span` for some r and k: a read turn moves r
on when it retires a queue (`TurnIs` says what a turn returns), an assignment moves k, a seek
that resets the queues makes both the job of the new offset, every other step moves neither. From
`Span`, what a turn returns is the file at `off`, and `Read` reports the end only with the
last job's queue read out, that is at `Size` (`EofAtEnd`); every other step is a stutter or a
`Return` of `FileStream`.

**Only model-checked**: the violated `StreamFaithful`, and `CallsReturn`, `StreamEnds` (fairness).

### What stays with TLC

Liveness (`CallReturns`, `WriteCompletes`, both `CallsReturn`, `StreamEnds`): the provers have no
rule for fairness and ENABLED. `SizesAssumption`, an induction over data.

## 10. Not modelled, and why

Of LxcIpc:

* Failures of `kzalloc`, `mmap` and `copy_from_user`, removal of the driver, the
  read-only sysfs attribute: exits that leave no state behind, or that cannot happen while files are
  open.
* Exhaustion of the zone *is* modelled (allocation fails and reports size 0).
* DONE walks `release_mem` to an entry of size 0 and would read past a table
  with all entries in use (D:591); the model's table is a sequence with its
  length, so what would be read is not represented.
* DETACH and the last close do not release `release_mem`
  (D:281). `BlocksAccounted` is checked and proved for sessions that end with a call, as the
  repository's clients do; a session that ends otherwise loses those blocks.
* Servers that ignore a failed LISTEN, which is all of those in the tree: section 4
  says what follows and when it cannot happen. What a wait on freed memory does
  afterwards is undefined and not represented.
* At most one execution of a request does not hold under signals: CALL is repeated
  (L:187) and posts again. `ExactlyOnce` is therefore stated without faults, and
  `NoLostCall` with them.
* The library's unmapping before a RESIZE that then fails (`lxc_ipc.c:107`): `map` is what `struct lxc_ipc`
  records, and the record stays. A RESIZE fails when the table of delayed releases is full, which
  takes two between two answered calls, or a call that was given up.
* The operations carried by calls (files, USB events).

Of SmartHttp: the single-job mode for servers without ranges (`RING_BUF_M`) and the reopening
of live streams, redirects and headers, the speed statistics, failures of allocation.
Sessions of more than 100 jobs, where the search for the least job id
(`multiqueue.c:335`) starts too low after queue 0 was reset, are out of TLC's reach. Where the
definitions are simpler than the code: offsets below 0, which `Smart_Http_Download_Seek` lets
through (`smart_http_download.c:1092`), are not among the positions a seek asks for; the scheduler forgets its job
at the second look at IDLE, the code after the sleep that follows (`:586`), when only the scheduler has
seen it; an executor appends at the queue's `write_pos`, the code at a position counted from there
(`download_group.c:390`), which is the same place unless another thread has the queue as well; a reactivation of
a job outside the list is refused as in `jobs.c:799`, though `seek` would have followed a null pointer before
(`smart_http_download.c:479`): the jobs a seek's policy names are in the list.

Of AdecEsBuf: contents and time stamps of packets, the associated audio's ring (a second
instance of the same functions), trick mode, the device's open and release, and the ignored result of
`down_interruptible` (`adec_k.c:754`): with one producer per decoder only `adec_flush_all`, which nobody
calls, would be let in. Three simplifications: there is one share buffer, while a start with another codec
clears the old codec's buffer (already cleared by the stop, `adec_k.c:464`) before it turns to the new one's
(`:545`); `pkt_wt++` and its modulo (`adec_buf_k.c:202`) are one store, which is what a build makes of two
statements on plain memory without a call between; `es_wt` and its modulo (`:174`, `:195`) are one step,
nobody else storing to `es_wt` but a clear, after which the modulo changes nothing.

Of mtos and the fast player: messages with an attached buffer (nobody sends one), the
receive with other time-outs than the player's, a second receiver of one queue (the tree
has none; `drv_os.c:907` clears the receive buffer outside its mutex), failure of
create, a second player at the same time, the steps inside one round of `mtos_messageq_clr` (`Drain`, which under
`Quiet` finds nothing to do), events, timers, fifos and tasks; what the player's commands do to tuner,
recorder and decoder.

Of the rest of the platform: see the table in section 1. Most of its volume is register
programming whose behaviour is the hardware's, tables, fonts, firmware images, parsers of
single-threaded streams, vendored code and samples.
