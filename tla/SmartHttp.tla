----------------------------- MODULE SmartHttp -----------------------------
(***************************************************************************)
(* The segmented HTTP downloader of kware/libdownload/smart_http.  A file  *)
(* is cut into jobs of one queue length each; a scheduler thread pairs the *)
(* next job with a free queue and an idle download executor; the executors *)
(* fill their queues; the application thread reads the queues in job order.*)
(* The threads share flags and counters and use no lock.                   *)
(*                                                                         *)
(* One action is what a thread does between two places where another       *)
(* thread may run.  A place inside a straight run of statements (no sleep, *)
(* no wait, no network call) is a WINDOW and has a name; the constant      *)
(* Races says which windows another thread may run in.  Races = Windows is *)
(* the code under preemption; a smaller set shows what the protocol        *)
(* guarantees when the other windows are closed, and so which window       *)
(* breaks a guarantee:                                                     *)
(*   take   from used_flag = 1 of a queue to its job id (scheduler)        *)
(*   poll   from the look at expect_status to task_status = IDLE (executor)*)
(*   count  inside complete_job_num++ (executor)                           *)
(*   leave  from the queue's complete flag to task_status = IDLE (executor)*)
(*   seek   from seek_pending = 0 to status = RUNNING (scheduler)          *)
(*   idle   from status = IDLE to the second look at it (scheduler)        *)
(***************************************************************************)
EXTENDS Integers, FiniteSets, FiniteSetsExt

CONSTANTS
  SEG,          \* MULTI_QUEUE_BUF_LEN, the length of a job and of a queue
  Size,         \* content_length of the file
  QueueNum,     \* MAX_QUEUE_NUM
  TaskNum,      \* MAX_DL_TASK_NUM
  Races,        \* the windows in which another thread may run
  Reconnect,    \* DOWNLOAD_MODE_ERROR_REDO instead of DOWNLOAD_MODE_ERROR_SKIP
  Faults,       \* what the network does: "error" (-2), "short" (-1 too early)
  SeekTo,       \* offsets the application seeks to
  SeekBack,     \* whether it also seeks backward
  MaxSeeks,     \* bound on the seeks of a behaviour
  MaxOpens      \* bound on the sessions of a behaviour

Windows == {"take", "poll", "count", "leave", "seek", "idle"}

ASSUME ConstantsAssumption ==
  /\ SEG \in Nat \ {0} /\ Size \in Nat \ {0}
  /\ QueueNum \in Nat \ {0} /\ TaskNum \in Nat \ {0}
  /\ Races \subseteq Windows
  /\ Reconnect \in BOOLEAN
  /\ Faults \subseteq {"error", "short"}
  /\ SeekTo \subseteq 0..Size /\ SeekBack \in BOOLEAN
  /\ MaxSeeks \in Nat /\ MaxOpens \in Nat

Queues == 1..QueueNum
Tasks == 1..TaskNum
JobTotal == (Size + SEG - 1) \div SEG
Jobs == 0..(JobTotal - 1)

NULL == 0                    \* no queue, no task
INVALID_JOB_ID == -1
INVALID_SEEK_POS == -9999
MAX_JOB_TOTAL == 100

JobOffset(j) == j * SEG
JobSize(j) == IF j = JobTotal - 1 THEN Size - JobOffset(j) ELSE SEG

VARIABLES
  schedule_task_status,      \* what the scheduler is asked to do
  off, seek_off,             \* the application's position, the seek's target
  jobs,                      \* JOBS_DESCRIPTION
  mq,                        \* MULTI_QUEUE_HANDLE without its queues
  queue,                     \* DATA_SEGMENT_QUEUE, by queue
  expect_status,             \* of the download group
  task,                      \* DOWNLOAD_CONTEXT, by executor
  app, sched, exe,           \* where each thread is, and its locals
  ret,                       \* what the last API call returned
  seeks, opens               \* bounded counters

vars == <<schedule_task_status, off, seek_off, jobs, mq, queue, expect_status,
          task, app, sched, exe, ret, seeks, opens>>

shared == <<jobs, mq, queue>>
handle == <<off, seek_off, ret, seeks, opens>>

F == INSTANCE FileStream WITH pos <- off

---------------------------------------------------------------------------
(* Windows: a thread inside a closed one runs alone.                       *)

SchedWindow ==
  CASE sched.pc \in {"taken", "assign"} -> "take"
    [] sched.pc = "setrun"              -> "seek"
    [] sched.pc = "idlechk"             -> "idle"
    [] OTHER                            -> "none"

ExeWindow(x) ==
  CASE exe[x].pc \in {"isrun", "setidle"} -> "poll"
    [] exe[x].pc = "count"                -> "count"
    [] exe[x].pc \in {"complete", "leave"} -> "leave"
    [] OTHER                              -> "none"

MayEnter(w) == w \in Races \cup {"none"}

AppMay == MayEnter(SchedWindow) /\ \A x \in Tasks : MayEnter(ExeWindow(x))
SchedMay == \A x \in Tasks : MayEnter(ExeWindow(x))
ExeMay(x) == MayEnter(SchedWindow) /\ \A y \in Tasks \ {x} : MayEnter(ExeWindow(y))

---------------------------------------------------------------------------
(* jobs.c: the bookkeeping of the jobs.                                    *)

NewJobs ==
  [alive |-> TRUE,
   assigned |-> [j \in Jobs |-> FALSE], complete |-> [j \in Jobs |-> FALSE],
   assigned_job_num |-> 0, complete_job_num |-> 0, finish_flag |-> FALSE]

\* Get_Next_Job: the first job neither assigned nor complete
Waiting(J) == {j \in Jobs : ~J.assigned[j] /\ ~J.complete[j]}

Get_Next_Job(J) ==
  IF \/ JobTotal \in {J.assigned_job_num, J.complete_job_num}
     \/ J.finish_flag
     \/ Waiting(J) = {}
  THEN INVALID_JOB_ID
  ELSE Min(Waiting(J))

Assign_Job(J, j) ==
  [J EXCEPT !.assigned[j] = TRUE, !.complete[j] = FALSE,
            !.assigned_job_num = @ + 1]

Assign_Job_Reset(J, j) ==
  [J EXCEPT !.assigned[j] = FALSE, !.complete[j] = FALSE,
            !.assigned_job_num = IF J.assigned[j] THEN @ - 1 ELSE @]

\* Mutant: the counters go down for jobs that were not counted
ReactivatedAlways(J, S) ==
  [J EXCEPT
     !.complete = [j \in Jobs |-> IF j \in S THEN FALSE ELSE @[j]],
     !.assigned = [j \in Jobs |-> IF j \in S THEN FALSE ELSE @[j]],
     !.complete_job_num = @ - Cardinality(S),
     !.assigned_job_num = @ - Cardinality(S),
     !.finish_flag = FALSE]

Reactivated(J, S) ==
  [J EXCEPT
     !.complete = [j \in Jobs |-> IF j \in S THEN FALSE ELSE @[j]],
     !.assigned = [j \in Jobs |-> IF j \in S THEN FALSE ELSE @[j]],
     !.complete_job_num = @ - Cardinality({j \in S : J.complete[j]}),
     !.assigned_job_num = @ - Cardinality({j \in S : J.assigned[j]}),
     !.finish_flag = FALSE]

\* Mutant: the job stays assigned
ReactiveKept(J, j) == [Reactivated(J, {j}) EXCEPT !.assigned[j] = J.assigned[j]]

\* A job outside the list is refused.  (seek looks the job up first and would
\* follow a null pointer; the jobs of a seek's policy are in the list.)
Reactive_Job(J, j) == IF j \in Jobs THEN Reactivated(J, {j}) ELSE J

\* an end of 0 or past the last job means the last job
Reactive_Jobs(J, first, last) ==
  Reactivated(J, first..(IF last >= JobTotal \/ last <= 0 THEN JobTotal - 1
                                                           ELSE last))

\* Mutant: off by one, the last job does not finish the jobs
CountedPast(n) == n > JobTotal

\* Complete_Job's test for finish_flag
AllCounted(n) == n = JobTotal

\* Complete_Job by the scheduler, for each of the jobs a seek skips
Complete_Skipped(J, S) ==
  LET new == {j \in S : ~J.complete[j]}
      num == J.complete_job_num + Cardinality(new)
  IN  [J EXCEPT !.complete = [j \in Jobs |-> @[j] \/ j \in S],
                !.complete_job_num = num,
                !.finish_flag = @ \/ (new # {} /\ AllCounted(num))]

---------------------------------------------------------------------------
(* multiqueue.c: the queues.                                               *)

NoRange == [start |-> INVALID_SEEK_POS, end |-> INVALID_SEEK_POS]

\* queue_reset; the data stays in the memory
queue_reset(q) ==
  [q EXCEPT !.used = FALSE, !.job_id = INVALID_JOB_ID, !.complete = FALSE,
            !.read_pos = 0, !.write_pos = 0, !.range = NoRange]

\* mutiQueue_take_one_queue, after used_flag is set
Taken(q) ==
  [q EXCEPT !.used = TRUE, !.write_pos = 0, !.read_pos = 0,
            !.complete = FALSE, !.range = NoRange]

\* mutiQueue_clear_queues, besides the reset of every queue
ClearCurrent(m) == [m EXCEPT !.cur_queue = NULL]

\* Mutant: seek_pending stays set
SeekStays(m) == m

\* mutiQueue_end_seek
EndSeek(m) == [m EXCEPT !.seek_pending = FALSE]

FirstUnused == LET S == {q \in Queues : ~queue[q].used}
               IN  IF S = {} THEN NULL ELSE Min(S)

\* mutiQueue_get_one_queue: by job id, whether the queue is used or not
get_one_queue(j) == LET S == {q \in Queues : queue[q].job_id = j}
                    IN  IF S = {} THEN NULL ELSE Min(S)

\* Mutant: the first queue in use, not the one with the least job id
FirstReady ==
  LET S == {q \in Queues : queue[q].used /\ queue[q].job_id # INVALID_JOB_ID}
  IN  IF S = {} THEN NULL ELSE Min(S)

\* mutiQueue_find_dataready in NORMAL_BUF_M (baseJobID is 0)
find_dataready ==
  LET S == {q \in Queues : /\ queue[q].used
                           /\ queue[q].job_id # INVALID_JOB_ID
                           /\ queue[q].job_id < queue[1].job_id + MAX_JOB_TOTAL}
      least == {q \in S : \A p \in S : queue[q].job_id <= queue[p].job_id}
  IN  IF S = {} THEN NULL ELSE Min(least)

check_queue_drained(q) == queue[q].complete /\ queue[q].read_pos = queue[q].write_pos

\* set_queue_job_id and set_queue_range for job j
ForJob(q, j) ==
  [q EXCEPT !.job_id = j,
            !.range = [start |-> JobOffset(j),
                       end |-> JobOffset(j) + JobSize(j) - 1]]

(***************************************************************************)
(* queue_read: what a read of at most size units leaves of queue q and of  *)
(* seek_pos, and the units it returns.  While a seek's position is looked  *)
(* for, a queue that does not hold it is skipped and one that does not     *)
(* hold it yet is waited for.                                              *)
(***************************************************************************)
queue_read(q, size) ==
  LET seeking == mq.seek_pos # INVALID_SEEK_POS
      here == q.range.start <= mq.seek_pos /\ mq.seek_pos <= q.range.end
      there == mq.seek_pos - q.range.start
      come == there < q.write_pos
      from == IF seeking THEN there ELSE q.read_pos
      n == Max({0, Min({size, q.write_pos - from})})
      copied == [queue |-> [q EXCEPT !.read_pos = from + n],
                 seek_pos |-> INVALID_SEEK_POS,
                 units |-> [i \in 1..n |-> q.data[from + i - 1]]]
      nothing(pos) == [queue |-> [q EXCEPT !.read_pos = pos],
                       seek_pos |-> mq.seek_pos, units |-> <<>>]
  IN  CASE seeking /\ ~here          -> nothing(q.write_pos)
        [] seeking /\ here /\ ~come  -> nothing(q.read_pos)
        [] OTHER                     -> copied

---------------------------------------------------------------------------
(* smart_http_download.c: what a seek to job dst does with the queues in   *)
(* use.  The queues hold total jobs numbered from min to max.              *)

gen_seek_policy(dst) ==
  LET U == {q \in Queues : queue[q].used}
      total == Cardinality(U)
      min == Min({queue[q].job_id : q \in U})
      max == Max({0} \cup {queue[q].job_id : q \in U})
      new == min - dst
      save == Min({TaskNum - new, total})
      none == [reset |-> FALSE, new |-> {}, save |-> {}, kill |-> {}]
  IN  CASE total = 0                -> [none EXCEPT !.reset = TRUE]
        [] total # 0 /\ dst > max   -> [none EXCEPT !.reset = TRUE]
        [] total # 0 /\ dst <= max /\ dst >= min -> none
        [] total # 0 /\ dst < min /\ dst >= min - (TaskNum - 1) ->
             [none EXCEPT !.new = dst..(min - 1),
                          !.save = min..(min + save - 1),
                          !.kill = (min + save)..(min + total - 1)]
        [] OTHER                    -> [none EXCEPT !.reset = TRUE]

\* the jobs after the reset branch of excute_seek_policy
ResetJobs(J, dst) ==
  LET next == Get_Next_Job(J)
      curr == IF next # INVALID_JOB_ID THEN next ELSE JobTotal - 1
  IN  CASE dst < curr -> Reactive_Jobs(J, dst, IF next # INVALID_JOB_ID
                                                THEN curr - 1 ELSE curr)
        [] dst > curr -> Reactive_Job(Complete_Skipped(J, curr..(dst - 1)), dst)
        [] OTHER      -> Reactive_Job(J, dst)

\* Mutant: the queue is reset without waiting for the executor
StoppedAtOnce(x) == TRUE

\* what Stop_Download_Task_In_Group waits for
Stopped(x) == x # NULL => task[x].status = "IDLE"

\* Find_Idle_Download_Task
FirstIdle == LET S == {x \in Tasks : task[x].status = "IDLE"}
             IN  IF S = {} THEN NULL ELSE Min(S)

\* Mutant: the caller does not wait for the executors
NotWaited == TRUE

\* what Stop_Download_Group waits for
AllIdle == \A x \in Tasks : task[x].status = "IDLE"

\* Assign_Download_Task
Assigned(q, j) == [status |-> "RUNNING", expect |-> "RUNNING", queue |-> q, job |-> j]

---------------------------------------------------------------------------
(* Smart_Http_Download_Init has run: the threads exist, nothing is open.   *)

Init ==
  /\ schedule_task_status = "IDLE"
  /\ off = 0 /\ seek_off = 0
  /\ jobs = [NewJobs EXCEPT !.alive = FALSE]
  /\ mq = [cur_queue |-> NULL, seek_pending |-> FALSE, seek_pos |-> INVALID_SEEK_POS]
  /\ queue = [q \in Queues |->
                [used |-> FALSE, job_id |-> INVALID_JOB_ID, complete |-> FALSE,
                 read_pos |-> 0, write_pos |-> 0, range |-> NoRange,
                 data |-> [i \in 0..(SEG - 1) |-> -1]]]
  /\ expect_status = "RUNNING"
  /\ task = [x \in Tasks |-> [status |-> "IDLE", expect |-> "IDLE",
                              queue |-> NULL, job |-> INVALID_JOB_ID]]
  /\ app = "idle"
  /\ sched = [pc |-> "top", job |-> INVALID_JOB_ID, stale |-> FALSE, queue |-> NULL,
              task |-> NULL, policy |-> [reset |-> FALSE, new |-> {}, save |-> {}, kill |-> {}]]
  /\ exe = [x \in Tasks |-> [pc |-> "poll", total |-> 0, job |-> INVALID_JOB_ID, num |-> 0]]
  /\ ret = F!None
  /\ seeks = 0 /\ opens = 0

---------------------------------------------------------------------------
(* The application thread: the Smart_Http_Download_* calls.                *)

\* Smart_Http_Download_Open up to Gen_Jobs, which talks to the server
OpenBegin ==
  /\ app = "idle" /\ ~jobs.alive /\ opens < MaxOpens /\ AppMay
  /\ schedule_task_status' = "IDLE"
  /\ app' = "gen" /\ opens' = opens + 1 /\ ret' = F!None
  /\ UNCHANGED <<off, seek_off, shared, expect_status, task, sched, exe, seeks>>

\* the server serves ranges: the group is started, the scheduler set running
OpenDone ==
  /\ app = "gen" /\ AppMay
  /\ jobs' = NewJobs
  /\ expect_status' = "RUNNING"
  /\ schedule_task_status' = "RUNNING"
  /\ app' = "idle"
  /\ UNCHANGED <<mq, queue, task, sched, exe, handle>>

\* Gen_Jobs failed: reset_multiqueue_and_download_group stops the group
OpenFailed ==
  /\ app = "gen" /\ AppMay
  /\ expect_status' = "IDLE"
  /\ app' = "openstop"
  /\ UNCHANGED <<schedule_task_status, shared, task, sched, exe, handle>>

ResetAll ==
  /\ queue' = [q \in Queues |-> queue_reset(queue[q])]
  /\ mq' = [cur_queue |-> NULL, seek_pending |-> FALSE, seek_pos |-> INVALID_SEEK_POS]

OpenReset ==
  /\ app = "openstop" /\ AllIdle /\ AppMay
  /\ ResetAll
  /\ app' = "idle"
  /\ UNCHANGED <<schedule_task_status, jobs, expect_status, task, sched, exe, handle>>

(***************************************************************************)
(* Smart_Http_Download_Read: the end of the file is reported when every    *)
(* job is complete and the last job's queue is drained.                    *)
(***************************************************************************)
AtEnd == LET q == get_one_queue(JobTotal - 1)
         IN  jobs.finish_flag /\ q # NULL /\ check_queue_drained(q)

ReadBegin ==
  /\ app = "idle" /\ jobs.alive /\ ~AtEnd /\ ~mq.seek_pending /\ AppMay
  /\ app' = "read"
  /\ UNCHANGED <<schedule_task_status, shared, expect_status, task, sched, exe, handle>>

ReadEof ==
  /\ app = "idle" /\ jobs.alive /\ AtEnd /\ AppMay
  /\ ret' = F!Eof
  /\ UNCHANGED <<schedule_task_status, shared, expect_status, task, app, sched, exe,
                 off, seek_off, seeks, opens>>

\* one turn of mutiQueue_read's loop with a queue to read
ReadTurn ==
  /\ app = "read" /\ AppMay
  /\ \E size \in 1..SEG :
       LET c == IF mq.cur_queue # NULL THEN mq.cur_queue ELSE find_dataready
           r == queue_read(queue[c], size)
           n == Cardinality(DOMAIN r.units)
           drained == r.queue.complete /\ r.queue.read_pos = r.queue.write_pos
       IN  /\ c # NULL
           /\ queue' = [queue EXCEPT ![c] = [r.queue EXCEPT !.used = @ /\ ~drained]]
           /\ mq' = [mq EXCEPT !.cur_queue = IF drained THEN NULL ELSE c,
                               !.seek_pos = r.seek_pos]
           /\ off' = off + n
           /\ ret' = IF n = 0 THEN F!None ELSE [kind |-> "data", units |-> r.units]
           /\ app' = IF n = 0 THEN "read" ELSE "idle"
  /\ UNCHANGED <<schedule_task_status, seek_off, jobs, expect_status, task, sched, exe,
                 seeks, opens>>

\* no queue is ready after MAX_REDO_CNT tries, or is_file_seq_exit: 0 is returned
ReadNothing ==
  /\ app = "read" /\ AppMay
  /\ ret' = F!None
  /\ app' = "idle"
  /\ UNCHANGED <<schedule_task_status, shared, expect_status, task, sched, exe,
                 off, seek_off, seeks, opens>>

\* Mutant: an offset equal to the file's length is let through
InFileOrEnd(p) == p <= Size

InFile(p) == p < Size

\* Smart_Http_Download_Seek: the scheduler is asked first, the queues then.
\* Offsets below 0, which the code lets through, are not in SeekTo.
SeekBegin ==
  /\ app = "idle" /\ jobs.alive /\ seeks < MaxSeeks /\ AppMay
  /\ \E p \in SeekTo \ {off} :
       /\ InFile(p)
       /\ p < off => SeekBack
       /\ off' = p /\ seek_off' = p
  /\ schedule_task_status' = "SEEK"
  /\ app' = "startseek" /\ seeks' = seeks + 1 /\ ret' = F!None
  /\ UNCHANGED <<shared, expect_status, task, sched, exe, opens>>

\* mutiQueue_start_seek, refused while another seek is pending
StartSeek ==
  /\ app = "startseek" /\ AppMay
  /\ \/ /\ ~mq.seek_pending
        /\ mq' = [mq EXCEPT !.seek_pending = TRUE, !.seek_pos = seek_off]
        /\ app' = "seekwait"
     \/ /\ mq.seek_pending
        /\ app' = "idle" /\ UNCHANGED mq
  /\ UNCHANGED <<schedule_task_status, jobs, queue, expect_status, task, sched, exe, handle>>

SeekDone ==
  /\ app = "seekwait" /\ ~mq.seek_pending /\ AppMay
  /\ app' = "idle"
  /\ UNCHANGED <<schedule_task_status, shared, expect_status, task, sched, exe, handle>>

\* Smart_Http_Download_Close: idle the scheduler, stop the group, free the jobs
CloseBegin ==
  /\ app = "idle" /\ jobs.alive /\ AppMay
  /\ schedule_task_status' = "PREPARE_IDLE"
  /\ app' = "closewait" /\ ret' = F!None
  /\ UNCHANGED <<off, seek_off, shared, expect_status, task, sched, exe, seeks, opens>>

CloseStop ==
  /\ app = "closewait" /\ schedule_task_status = "IDLE" /\ AppMay
  /\ expect_status' = "IDLE"
  /\ app' = "closestop"
  /\ UNCHANGED <<schedule_task_status, shared, task, sched, exe, handle>>

CloseDone ==
  /\ app = "closestop" /\ AllIdle /\ AppMay
  /\ jobs' = [jobs EXCEPT !.alive = FALSE]
  /\ sched' = [sched EXCEPT !.stale = sched.job # INVALID_JOB_ID]
  /\ ResetAll
  /\ app' = "idle"
  /\ UNCHANGED <<schedule_task_status, expect_status, task, exe, handle>>

\* Smart_Http_Download_Deinit: the scheduler exits, then the executors
DeinitBegin ==
  /\ app = "idle" /\ ~jobs.alive /\ AppMay
  /\ schedule_task_status' = "PREPARE_EXIT"
  /\ app' = "exitwait" /\ ret' = F!None
  /\ UNCHANGED <<off, seek_off, shared, expect_status, task, sched, exe, seeks, opens>>

DeinitStop ==
  /\ app = "exitwait" /\ schedule_task_status = "EXIT_DONE" /\ AppMay
  /\ expect_status' = "IDLE"
  /\ app' = "exitstop"
  /\ UNCHANGED <<schedule_task_status, shared, task, sched, exe, handle>>

DeinitDestroy ==
  /\ app = "exitstop" /\ AllIdle /\ AppMay
  /\ expect_status' = "EXIT"
  /\ app' = "destroy"
  /\ UNCHANGED <<schedule_task_status, shared, task, sched, exe, handle>>

DeinitDone ==
  /\ app = "destroy" /\ AppMay
  /\ \A x \in Tasks : task[x].status = "EXIT"
  /\ app' = "gone"
  /\ UNCHANGED <<schedule_task_status, shared, expect_status, task, sched, exe, handle>>

AppReturns ==
  \/ OpenDone \/ OpenFailed \/ OpenReset \/ ReadTurn \/ ReadNothing
  \/ StartSeek \/ SeekDone \/ CloseStop \/ CloseDone
  \/ DeinitStop \/ DeinitDestroy \/ DeinitDone

AppNext ==
  \/ OpenBegin \/ ReadBegin \/ ReadEof \/ SeekBegin \/ CloseBegin \/ DeinitBegin
  \/ AppReturns

---------------------------------------------------------------------------
(* The scheduler thread: download_job_queue_schedule.                      *)

SchedExit ==
  /\ sched.pc = "top" /\ schedule_task_status = "PREPARE_EXIT" /\ SchedMay
  /\ schedule_task_status' = "EXIT_DONE"
  /\ sched' = [sched EXCEPT !.pc = "exited"]
  /\ UNCHANGED <<shared, expect_status, task, app, exe, handle>>

SchedPrepareIdle ==
  /\ sched.pc = "top" /\ schedule_task_status = "PREPARE_IDLE" /\ SchedMay
  /\ schedule_task_status' = "IDLE"
  /\ sched' = [sched EXCEPT !.pc = "idlechk"]
  /\ UNCHANGED <<shared, expect_status, task, app, exe, handle>>

\* In idle passes the job in hand is forgotten.
Forget == [sched EXCEPT !.pc = "top", !.job = INVALID_JOB_ID, !.stale = FALSE]

\* Mutant: the job in hand is kept
IdleCheckKeeps ==
  /\ sched.pc = "idlechk" /\ SchedMay
  /\ sched' = [sched EXCEPT !.pc = "top"]
  /\ UNCHANGED <<schedule_task_status, shared, expect_status, task, app, exe, handle>>

\* The status is read again.  (The code forgets the job after the sleep that
\* follows, while only the scheduler knows of it.)
SchedIdleCheck ==
  /\ sched.pc = "idlechk" /\ SchedMay
  /\ sched' = IF schedule_task_status = "IDLE" THEN Forget
                                               ELSE [sched EXCEPT !.pc = "top"]
  /\ UNCHANGED <<schedule_task_status, shared, expect_status, task, app, exe, handle>>

\* look for a task, a job (unless one is in hand) and a queue
SchedPass ==
  /\ sched.pc = "top" /\ schedule_task_status = "RUNNING" /\ SchedMay
  /\ LET j == IF sched.job # INVALID_JOB_ID THEN sched.job ELSE Get_Next_Job(jobs)
         q == FirstUnused
     IN  /\ FirstIdle # NULL
         /\ j # INVALID_JOB_ID
         /\ \/ /\ q = NULL
               /\ sched.job # j
               /\ sched' = [sched EXCEPT !.job = j]
               /\ UNCHANGED queue
            \/ /\ q # NULL
               /\ queue' = [queue EXCEPT ![q].used = TRUE]
               /\ sched' = [sched EXCEPT !.pc = "taken", !.job = j,
                                         !.queue = q, !.task = FirstIdle]
  /\ UNCHANGED <<schedule_task_status, jobs, mq, expect_status, task, app, exe, handle>>

\* the rest of mutiQueue_take_one_queue
SchedTake ==
  /\ sched.pc = "taken" /\ SchedMay
  /\ queue' = [queue EXCEPT ![sched.queue] = Taken(@)]
  /\ sched' = [sched EXCEPT !.pc = "assign"]
  /\ UNCHANGED <<schedule_task_status, jobs, mq, expect_status, task, app, exe, handle>>

\* assign_job_and_download
SchedAssign ==
  /\ sched.pc = "assign" /\ SchedMay
  /\ queue' = [queue EXCEPT ![sched.queue] = ForJob(@, sched.job)]
  /\ jobs' = Assign_Job(jobs, sched.job)
  /\ task' = [task EXCEPT ![sched.task] = Assigned(sched.queue, sched.job)]
  /\ sched' = [Forget EXCEPT !.queue = NULL, !.task = NULL]
  /\ UNCHANGED <<schedule_task_status, mq, expect_status, app, exe, handle>>

SchedSeek ==
  /\ sched.pc = "top" /\ schedule_task_status = "SEEK" /\ SchedMay
  /\ jobs' = IF sched.job # INVALID_JOB_ID THEN Assign_Job_Reset(jobs, sched.job)
                                           ELSE jobs
  /\ sched' = [Forget EXCEPT !.pc = "seek"]
  /\ UNCHANGED <<schedule_task_status, mq, queue, expect_status, task, app, exe, handle>>

\* seek waits for seek_pending, then decides; a reset begins by stopping the group
SchedPolicy ==
  /\ sched.pc = "seek" /\ mq.seek_pending /\ SchedMay
  /\ LET p == gen_seek_policy(seek_off \div SEG)
     IN  /\ sched' = [sched EXCEPT !.policy = p,
                                   !.pc = IF p.reset THEN "seekstop" ELSE "policy"]
         /\ expect_status' = IF p.reset THEN "IDLE" ELSE expect_status
  /\ UNCHANGED <<schedule_task_status, shared, task, app, exe, handle>>

\* every executor is idle: clear the queues, renumber the work, start the group
SchedSeekReset ==
  /\ sched.pc = "seekstop" /\ AllIdle /\ SchedMay
  /\ queue' = [q \in Queues |-> queue_reset(queue[q])]
  /\ mq' = ClearCurrent(mq)
  /\ jobs' = ResetJobs(jobs, seek_off \div SEG)
  /\ expect_status' = "RUNNING"
  /\ sched' = [sched EXCEPT !.pc = "endseek"]
  /\ UNCHANGED <<schedule_task_status, task, app, exe, handle>>

\* a job to kill: look_for_task_in_schedule, Stop_Download_Task_In_Group
SchedKill ==
  /\ sched.pc = "policy" /\ sched.policy.kill # {} /\ SchedMay
  /\ LET j == Min(sched.policy.kill)
         S == {x \in Tasks : /\ task[x].queue # NULL
                             /\ queue[task[x].queue].job_id = j}
     IN  IF S = {}
         THEN /\ sched' = [sched EXCEPT !.pc = "killed", !.task = NULL]
              /\ UNCHANGED task
         ELSE /\ sched' = [sched EXCEPT !.pc = "killed", !.task = Min(S)]
              /\ task' = IF task[Min(S)].status = "RUNNING"
                         THEN [task EXCEPT ![Min(S)].expect = "IDLE"] ELSE task
  /\ UNCHANGED <<schedule_task_status, shared, expect_status, app, exe, handle>>

\* the executor has stopped: reset the job's queue and make the job waiting again
SchedKilled ==
  /\ sched.pc = "killed" /\ SchedMay
  /\ Stopped(sched.task)
  /\ LET j == Min(sched.policy.kill)
         q == get_one_queue(j)
     IN  /\ queue' = IF q = NULL THEN queue
                     ELSE [queue EXCEPT ![q] = queue_reset(@)]
         /\ jobs' = Reactive_Job(jobs, j)
         /\ sched' = [sched EXCEPT !.pc = "policy", !.task = NULL, !.policy.kill = @ \ {j}]
  /\ UNCHANGED <<schedule_task_status, mq, expect_status, task, app, exe, handle>>

\* mutiQueue_reuse_one_queue for every job to save
SchedSave ==
  /\ sched.pc = "policy" /\ sched.policy.kill = {} /\ sched.policy.save # {} /\ SchedMay
  /\ LET S == {get_one_queue(j) : j \in sched.policy.save}
     IN  queue' = [q \in Queues |-> IF q \in S
                                    THEN [queue[q] EXCEPT !.read_pos = 0, !.used = TRUE]
                                    ELSE queue[q]]
  /\ sched' = [sched EXCEPT !.policy.save = {}]
  /\ UNCHANGED <<schedule_task_status, jobs, mq, expect_status, task, app, exe, handle>>

\* a job to bring back: assigned at once if a task and a queue are free
SchedNew ==
  /\ sched.pc = "policy" /\ sched.policy.kill = {} /\ sched.policy.save = {}
  /\ sched.policy.new # {} /\ SchedMay
  /\ LET j == Min(sched.policy.new)
         q == FirstUnused
         J == Reactive_Job(jobs, j)
     IN  /\ IF FirstIdle # NULL /\ q # NULL
            THEN /\ queue' = [queue EXCEPT ![q] = ForJob(Taken(@), j)]
                 /\ jobs' = Assign_Job(J, j)
                 /\ task' = [task EXCEPT ![FirstIdle] = Assigned(q, j)]
            ELSE jobs' = J /\ UNCHANGED <<queue, task>>
         /\ sched' = [sched EXCEPT !.policy.new = @ \ {j}]
  /\ UNCHANGED <<schedule_task_status, mq, expect_status, app, exe, handle>>

SchedPolicyDone ==
  /\ sched.pc = "policy" /\ SchedMay
  /\ sched.policy.kill = {} /\ sched.policy.save = {} /\ sched.policy.new = {}
  /\ sched' = [sched EXCEPT !.pc = "endseek"]
  /\ UNCHANGED <<schedule_task_status, shared, expect_status, task, app, exe, handle>>

\* mutiQueue_end_seek lets the application go on ...
SchedEndSeek ==
  /\ sched.pc = "endseek" /\ SchedMay
  /\ mq' = EndSeek(mq)
  /\ sched' = [sched EXCEPT !.pc = "setrun"]
  /\ UNCHANGED <<schedule_task_status, jobs, queue, expect_status, task, app, exe, handle>>

\* ... before the scheduler's status is set
SchedSetRunning ==
  /\ sched.pc = "setrun" /\ SchedMay
  /\ schedule_task_status' = "RUNNING"
  /\ sched' = [sched EXCEPT !.pc = "top"]
  /\ UNCHANGED <<shared, expect_status, task, app, exe, handle>>

SchedNext ==
  \/ SchedExit \/ SchedPrepareIdle \/ SchedIdleCheck
  \/ SchedPass \/ SchedTake \/ SchedAssign
  \/ SchedSeek \/ SchedPolicy \/ SchedSeekReset \/ SchedKill \/ SchedKilled
  \/ SchedSave \/ SchedNew \/ SchedPolicyDone \/ SchedEndSeek \/ SchedSetRunning

---------------------------------------------------------------------------
(* A download executor: download_task_entry and download_file.             *)

ExeStep(x, pc) == exe' = [exe EXCEPT ![x].pc = pc]

\* something asks the executor to be idle: it will look at its own status
\* (with the window closed and no task in hand the round changes nothing)
ExePoll(x) ==
  /\ exe[x].pc = "poll" /\ ExeMay(x)
  /\ task[x].status = "RUNNING" \/ "poll" \in Races
  /\ expect_status # "EXIT"
  /\ expect_status = "IDLE" \/ task[x].expect = "IDLE"
  /\ ExeStep(x, "isrun")
  /\ UNCHANGED <<schedule_task_status, shared, expect_status, task, app, sched, handle>>

\* "has already get a task": the task is given up without a download
ExeIsRunning(x) ==
  /\ exe[x].pc = "isrun" /\ ExeMay(x)
  /\ ExeStep(x, IF task[x].status = "RUNNING" THEN "done" ELSE "setidle")
  /\ UNCHANGED <<schedule_task_status, shared, expect_status, task, app, sched, handle>>

ExeSetIdle(x) ==
  /\ exe[x].pc = "setidle" /\ ExeMay(x)
  /\ task' = [task EXCEPT ![x].status = "IDLE"]
  /\ ExeStep(x, "poll")
  /\ UNCHANGED <<schedule_task_status, shared, expect_status, app, sched, handle>>

ExeStart(x) ==
  /\ exe[x].pc = "poll" /\ ExeMay(x)
  /\ expect_status = "RUNNING" /\ task[x].expect = "RUNNING"
  /\ task[x].status = "RUNNING"
  /\ exe' = [exe EXCEPT ![x].pc = "recv", ![x].total = 0]
  /\ UNCHANGED <<schedule_task_status, shared, expect_status, task, app, sched, handle>>

Wanted(x) == expect_status = "RUNNING" /\ task[x].expect = "RUNNING"

\* download_file was asked to stop
ExeStopped(x) ==
  /\ exe[x].pc = "recv" /\ ~Wanted(x) /\ ExeMay(x)
  /\ ExeStep(x, "done")
  /\ UNCHANGED <<schedule_task_status, shared, expect_status, task, app, sched, handle>>

\* n units arrive and are appended to the queue (update_queue_writePosition).
\* The code writes at a position of its own, counted from write_pos when the
\* buffer was asked for: the same place while nobody else has the queue.
ExeRecv(x) ==
  /\ exe[x].pc = "recv" /\ Wanted(x) /\ ExeMay(x)
  /\ \E n \in 1..(JobSize(task[x].job) - exe[x].total) :
       LET q == queue[task[x].queue]
           total == exe[x].total + n
           from == JobOffset(task[x].job) + exe[x].total - q.write_pos
           cells == q.write_pos..(q.write_pos + n - 1)
       IN  /\ queue' = IF q.write_pos + n > SEG THEN queue
                       ELSE [queue EXCEPT ![task[x].queue] =
                              [q EXCEPT !.write_pos = @ + n,
                                        !.data = [i \in DOMAIN @ |->
                                          IF i \in cells THEN from + i ELSE @[i]]]]
           /\ exe' = [exe EXCEPT ![x].total = total,
                        ![x].pc = IF total = JobSize(task[x].job) THEN "done" ELSE "recv"]
  /\ UNCHANGED <<schedule_task_status, jobs, mq, expect_status, task, app, sched, handle>>

\* the connection fails (kept up and redone in DOWNLOAD_MODE_ERROR_REDO), or the
\* server ends the segment early, which counts as done in both modes
ExeFault(x) ==
  /\ exe[x].pc = "recv" /\ Wanted(x) /\ ExeMay(x)
  /\ "short" \in Faults \/ ("error" \in Faults /\ ~Reconnect)
  /\ ExeStep(x, "done")
  /\ UNCHANGED <<schedule_task_status, shared, expect_status, task, app, sched, handle>>

\* download_done: keep the queue's job id, mark the queue complete, find the job
ExeDone(x) ==
  /\ exe[x].pc = "done" /\ ExeMay(x)
  /\ LET q == task[x].queue
     IN  /\ queue' = [queue EXCEPT ![q].complete = TRUE]
         /\ exe' = [exe EXCEPT ![x].job = queue[q].job_id,
                      ![x].pc = IF queue[q].job_id \in Jobs THEN "complete" ELSE "leave"]
  /\ UNCHANGED <<schedule_task_status, jobs, mq, expect_status, task, app, sched, handle>>

\* Complete_Job up to the increment, which reads the counter ...
ExeComplete(x) ==
  /\ exe[x].pc = "complete" /\ ExeMay(x)
  /\ IF jobs.complete[exe[x].job]
     THEN ExeStep(x, "leave") /\ UNCHANGED jobs
     ELSE /\ jobs' = [jobs EXCEPT !.complete[exe[x].job] = TRUE]
          /\ exe' = [exe EXCEPT ![x].pc = "count", ![x].num = jobs.complete_job_num]
  /\ UNCHANGED <<schedule_task_status, mq, queue, expect_status, task, app, sched, handle>>

\* ... and writes it
ExeCount(x) ==
  /\ exe[x].pc = "count" /\ ExeMay(x)
  /\ jobs' = [jobs EXCEPT !.complete_job_num = exe[x].num + 1,
                          !.finish_flag = @ \/ AllCounted(exe[x].num + 1)]
  /\ ExeStep(x, "leave")
  /\ UNCHANGED <<schedule_task_status, mq, queue, expect_status, task, app, sched, handle>>

ExeLeave(x) ==
  /\ exe[x].pc = "leave" /\ ExeMay(x)
  /\ task' = [task EXCEPT ![x].queue = NULL, ![x].status = "IDLE"]
  /\ exe' = [exe EXCEPT ![x] = [pc |-> "poll", total |-> 0, job |-> INVALID_JOB_ID, num |-> 0]]
  /\ UNCHANGED <<schedule_task_status, shared, expect_status, app, sched, handle>>

ExeExit(x) ==
  /\ exe[x].pc = "poll" /\ expect_status = "EXIT" /\ ExeMay(x)
  /\ task' = [task EXCEPT ![x].status = "EXIT"]
  /\ ExeStep(x, "exited")
  /\ UNCHANGED <<schedule_task_status, shared, expect_status, app, sched, handle>>

ExeNext(x) ==
  \/ ExePoll(x) \/ ExeIsRunning(x) \/ ExeSetIdle(x) \/ ExeStart(x)
  \/ ExeStopped(x) \/ ExeRecv(x) \/ ExeFault(x)
  \/ ExeDone(x) \/ ExeComplete(x) \/ ExeCount(x) \/ ExeLeave(x) \/ ExeExit(x)

Gone == app = "gone" /\ UNCHANGED vars

Next == AppNext \/ SchedNext \/ (\E x \in Tasks : ExeNext(x)) \/ Gone

Spec == Init /\ [][Next]_vars

(***************************************************************************)
(* Every thread keeps running: the loops sleep and try again, and the      *)
(* network answers or times out (DOWNLOAD_GROUP_TIMEOUT).  Of the          *)
(* application nothing is assumed but that a call it has made goes on.     *)
(***************************************************************************)
Fairness ==
  /\ WF_vars(AppReturns)
  /\ WF_vars(SchedNext)
  /\ \A x \in Tasks : WF_vars(ExeNext(x))

FairSpec == Spec /\ Fairness

---------------------------------------------------------------------------
(* Type invariant of the records and program counters.                     *)
TypeOK ==
  /\ schedule_task_status \in
       {"IDLE", "RUNNING", "PREPARE_EXIT", "EXIT_DONE", "PREPARE_IDLE", "SEEK"}
  /\ off \in Int /\ seek_off \in 0..(Size - 1)
  /\ jobs \in [alive : BOOLEAN, assigned : [Jobs -> BOOLEAN],
               complete : [Jobs -> BOOLEAN], assigned_job_num : Int,
               complete_job_num : Int, finish_flag : BOOLEAN]
  /\ mq \in [cur_queue : 0..QueueNum, seek_pending : BOOLEAN, seek_pos : Int]
  /\ queue \in [Queues -> [used : BOOLEAN, job_id : Jobs \cup {INVALID_JOB_ID},
                           complete : BOOLEAN, read_pos : Int, write_pos : 0..SEG,
                           range : [start : Int, end : Int],
                           data : [0..(SEG - 1) -> Int]]]
  /\ expect_status \in {"IDLE", "RUNNING", "EXIT"}
  /\ task \in [Tasks -> [status : {"IDLE", "RUNNING", "EXIT"},
                         expect : {"IDLE", "RUNNING"}, queue : 0..QueueNum,
                         job : Jobs \cup {INVALID_JOB_ID}]]
  /\ exe \in [Tasks -> [pc : {"poll", "isrun", "setidle", "recv", "done", "complete",
                              "count", "leave", "exited"},
                        total : 0..SEG, job : Jobs \cup {INVALID_JOB_ID}, num : Int]]

(***************************************************************************)
(* What Smart_Http_Download_Read returns are the file's units from the     *)
(* application's position on (off counts them), and the end of the file is *)
(* reported only there: the queues, filled in any order by the executors,  *)
(* are read in the order of the file.                                      *)
(***************************************************************************)
StreamFaithful ==
  /\ ret.kind = "data" =>
       LET n == Cardinality(DOMAIN ret.units)
       IN  off <= Size /\ ret = F!Data(off - n, n)
  /\ ret.kind = "eof" => off = Size

(***************************************************************************)
(* The same as a refinement: the downloader, its threads and its queues    *)
(* implement a file read from a position.                                  *)
(***************************************************************************)
ImplementsFileStream == F!Spec

(***************************************************************************)
(* Nothing uses the jobs after Smart_Http_Download_Close has freed them:   *)
(* neither an executor in a download or in download_done, nor the          *)
(* scheduler in a pass or a seek, nor a job the scheduler still holds from *)
(* the closed session.                                                     *)
(***************************************************************************)
FreedNotUsed ==
  /\ ~jobs.alive =>
       /\ \A x \in Tasks : exe[x].pc \in {"poll", "isrun", "setidle", "exited"}
       /\ sched.pc \in {"top", "idlechk", "exited"}
  /\ sched.stale => /\ sched.pc \in {"top", "idlechk", "exited"}
                    /\ schedule_task_status # "RUNNING"

(***************************************************************************)
(* assigned_job_num, on which Get_Next_Job gives up looking for work, is   *)
(* the number of assigned jobs, whatever seeks have reset and reactivated. *)
(***************************************************************************)
AssignedCounted ==
  jobs.assigned_job_num = Cardinality({j \in Jobs : jobs.assigned[j]})

(***************************************************************************)
(* A job marked assigned and not complete is in the hands of an executor   *)
(* that will run: is_assigned says that the job has been assigned to a     *)
(* downloader, so that nobody else will take it.                           *)
(***************************************************************************)
AssignedHasExecutor ==
  jobs.alive => \A j \in Jobs : jobs.assigned[j] /\ ~jobs.complete[j] =>
    \E x \in Tasks : task[x].status = "RUNNING" /\ task[x].job = j

(***************************************************************************)
(* finish_flag is set when all jobs are complete and nobody is still       *)
(* counting: the reader reports the end of the file by it.                 *)
(***************************************************************************)
CompletionReported ==
  /\ jobs.alive /\ \A j \in Jobs : jobs.complete[j]
  /\ \A x \in Tasks : exe[x].pc # "count"
  => jobs.finish_flag

(***************************************************************************)
(* Two executors never fill the same queue, and a queue being filled is    *)
(* the queue of its executor's job: mutiQueue_take_one_queue hands out a   *)
(* queue nobody uses, and a queue is reset only after its executor stopped.*)
(***************************************************************************)
Filling(x) == /\ task[x].status = "RUNNING"
              /\ exe[x].pc \notin {"complete", "count", "leave"}

QueueOwned ==
  \A x \in Tasks : Filling(x) =>
    /\ queue[task[x].queue].used /\ queue[task[x].queue].job_id = task[x].job
    /\ \A y \in Tasks \ {x} : Filling(y) => task[x].queue # task[y].queue

(***************************************************************************)
(* Open, Seek, Close and Deinit return: the scheduler and the executors    *)
(* always come to the state the call waits for.                            *)
(***************************************************************************)
CallsReturn == app \notin {"idle", "read", "gone"} ~> app \in {"idle", "gone"}

(***************************************************************************)
(* A session that is only read from reaches the end of the file, if the    *)
(* application keeps reading.                                              *)
(***************************************************************************)
KeepsReading == WF_vars(ReadBegin \/ ReadEof) /\ SF_vars(ReadTurn)

ReadingSpec == FairSpec /\ KeepsReading

StreamEnds ==
  <>[](jobs.alive /\ app \in {"idle", "read"}) => <>(ret.kind = "eof")
===========================================================================
