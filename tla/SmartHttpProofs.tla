--------------------------- MODULE SmartHttpProofs ---------------------------
(***************************************************************************)
(* Safety of the smart_http downloader, for every number of executors,     *)
(* queues, sessions and seeks and every size of file and segment.          *)
(*                                                                         *)
(* In whatever windows (Races) the threads are preempted: types, and the   *)
(* counter of assigned jobs.  With the scheduler's window "idle" closed,   *)
(* or one session: nothing freed by close is used.  With the executors'    *)
(* windows "poll", "count" and "leave" closed and the scheduler's open: no *)
(* queue has two executors, no assigned job is without one, and completion *)
(* is reported.  With "take" closed as well, in one session with seeks     *)
(* forward over a network that delivers every segment: the downloader      *)
(* implements FileStream.                                                  *)
(***************************************************************************)
EXTENDS SmartHttp, FiniteSetTheorems, WellFoundedInduction,
        NaturalsInduction, TLAPS

LEMMA Division ==
  ASSUME NEW n \in Nat, NEW d \in Nat \ {0}
  PROVE  /\ n \div d \in Nat
         /\ (n \div d) * d <= n
         /\ n < (n \div d) * d + d
  OBVIOUS

LEMMA Multiples ==
  ASSUME NEW a \in Nat, NEW b \in Nat, NEW d \in Nat \ {0}, a * d < b * d + d
  PROVE  a <= b
<1>1. SUFFICES ASSUME a >= b + 1 PROVE FALSE
  OBVIOUS
<1>2. PICK k \in Nat : a = b + 1 + k
  <2>1. a - b - 1 \in Nat /\ a = b + 1 + (a - b - 1)
    BY <1>1
  <2> QED BY <2>1
<1>3. a * d = b * d + d + k * d
  BY <1>2
<1>4. k * d \in Nat
  OBVIOUS
<1> QED BY <1>3, <1>4

LEMMA JobTotalFacts == JobTotal \in Nat \ {0} /\ (JobTotal - 1) * SEG < Size /\ Size <= (JobTotal - 1) * SEG + SEG
<1> DEFINE n == Size + SEG - 1
<1>1. n \in Nat /\ n >= SEG /\ SEG \in Nat \ {0} /\ Size \in Nat \ {0}
  BY ConstantsAssumption
<1> HIDE DEF n
<1>2. JobTotal = n \div SEG
  BY DEF JobTotal, n
<1>3. JobTotal \in Nat /\ JobTotal * SEG <= n /\ n < JobTotal * SEG + SEG
  BY <1>1, <1>2, Division
<1>4. JobTotal # 0
  BY <1>1, <1>3
<1>5. (JobTotal - 1) * SEG = JobTotal * SEG - SEG
  BY <1>1, <1>3
<1>6. JobTotal * SEG \in Nat
  BY <1>1, <1>3
<1> QED BY <1>1, <1>3, <1>4, <1>5, <1>6 DEF n

LEMMA JobSizes == \A j \in Jobs : JobSize(j) \in 1 .. SEG /\ j \in Nat
<1> SUFFICES ASSUME NEW j \in Jobs PROVE JobSize(j) \in 1 .. SEG /\ j \in Nat
  OBVIOUS
<1>1. SEG \in Nat \ {0} /\ Size \in Nat \ {0} /\ JobTotal \in Nat \ {0}
  BY ConstantsAssumption, JobTotalFacts
<1>2. (JobTotal - 1) * SEG \in Nat
  BY <1>1
<1> QED BY <1>1, <1>2, JobTotalFacts DEF JobSize, JobOffset, Jobs

LEMMA SeekJob == \A o \in 0 .. (Size - 1) : o \div SEG \in Jobs
<1> SUFFICES ASSUME NEW o \in 0 .. (Size - 1) PROVE o \div SEG \in Jobs
  OBVIOUS
<1>1. SEG \in Nat \ {0} /\ Size \in Nat \ {0} /\ JobTotal \in Nat \ {0} /\ o \in Nat /\ JobTotal - 1 \in Nat
  BY ConstantsAssumption, JobTotalFacts
<1>2. o \div SEG \in Nat /\ (o \div SEG) * SEG <= o
  BY <1>1, Division
<1>3. (o \div SEG) * SEG < (JobTotal - 1) * SEG + SEG
  <2>1. (JobTotal - 1) * SEG \in Nat /\ (o \div SEG) * SEG \in Nat
    BY <1>1, <1>2
  <2> QED BY <1>1, <1>2, <2>1, JobTotalFacts
<1>4. o \div SEG <= JobTotal - 1
  BY <1>1, <1>2, <1>3, Multiples
<1> QED BY <1>1, <1>2, <1>4 DEF Jobs

\* Min, a CHOOSE, picks an element
LEMMA MinIn ==
  ASSUME NEW S, S \subseteq Nat, S # {}
  PROVE  Min(S) \in S /\ \A n \in S : Min(S) <= n
<1> DEFINE R == {ss \in Nat \X Nat : ss[1] < ss[2]}
<1>1. IsWellFoundedOn(R, Nat)
  BY NatLessThanWellFounded, Zenon DEF OpToRel
<1>2. PICK n \in S : \A m \in S : ~(<<m, n>> \in R)
  <2> HIDE DEF R
  <2> QED BY <1>1, WFMin
<1>3. \A m \in S : n <= m
  <2> SUFFICES ASSUME NEW m \in S, m < n PROVE FALSE
    BY SMT
  <2>1. <<m, n>> \in Nat \X Nat /\ <<m, n>>[1] = m /\ <<m, n>>[2] = n
    OBVIOUS
  <2>2. <<m, n>>[1] < <<m, n>>[2]
    BY <2>1
  <2>3. <<m, n>> \in R
    BY <2>1, <2>2, Zenon
  <2> QED BY <1>2, <2>3, Zenon
<1> QED BY <1>3 DEF Min

-----------------------------------------------------------------------------
(* Types of everything the threads hold.                                   *)

AppPcs == {"idle", "gen", "openstop", "read", "startseek", "seekwait", "closewait",
           "closestop", "exitwait", "exitstop", "destroy", "gone"}
SeekPcs == {"seek", "seekstop", "policy", "killed", "endseek", "setrun"}
SchedPcs == {"top", "idlechk", "taken", "assign", "exited"} \cup SeekPcs

Policy == [reset : BOOLEAN, new : SUBSET Jobs, save : SUBSET Nat, kill : SUBSET Int]

\* The scheduler's locals, which TypeOK leaves out.
SchedOK ==
  /\ app \in AppPcs /\ seeks \in Nat /\ opens \in Nat
  /\ sched \in [pc : SchedPcs, job : Jobs \cup {INVALID_JOB_ID}, stale : BOOLEAN,
                queue : 0..QueueNum, task : 0..TaskNum, policy : Policy]
  /\ sched.pc \in {"taken", "assign"} =>
       /\ sched.job \in Jobs /\ sched.queue \in Queues
       /\ sched.task \in Tasks /\ task[sched.task].status = "IDLE"
  /\ sched.pc \in SeekPcs => sched.job = INVALID_JOB_ID

Running(x) == task[x].status = "RUNNING"
Busy(x) == exe[x].pc \in {"recv", "done", "complete", "count", "leave"}

\* An executor at work has a task, and a task names a queue and a job.
TasksOK ==
  \A x \in Tasks :
    /\ Busy(x) => Running(x)
    /\ Running(x) => task[x].queue \in Queues /\ task[x].job \in Jobs
    /\ exe[x].pc \in {"complete", "count"} => exe[x].job \in Jobs
    /\ exe[x].pc = "recv" => exe[x].total <= JobSize(task[x].job)
    /\ exe[x].pc = "exited" => task[x].status = "EXIT"

\* The scheduler is giving queue q to a job.
Handing(q) == sched.pc \in {"taken", "assign"} /\ sched.queue = q

QueuesOK == \A q \in Queues : queue[q].used /\ ~Handing(q) => queue[q].job_id \in Jobs

\* The session: what the application waits for and what the scheduler is asked.
Leaving == {"exitwait", "exitstop", "destroy", "gone"}

SessionOK ==
  /\ app \in {"read", "startseek", "seekwait", "closewait", "closestop"} => jobs.alive
  /\ app \in {"gen", "openstop"} \cup Leaving => ~jobs.alive
  /\ schedule_task_status \in {"PREPARE_EXIT", "EXIT_DONE"} <=> app \in Leaving
  /\ ~jobs.alive => schedule_task_status \in {"IDLE", "PREPARE_EXIT", "EXIT_DONE"}
  /\ schedule_task_status \in {"IDLE", "PREPARE_EXIT"} => sched.pc \in {"top", "idlechk"}
  /\ schedule_task_status = "EXIT_DONE" <=> sched.pc = "exited"
  /\ app = "closestop" => schedule_task_status = "IDLE"
  /\ ~jobs.alive => \A x \in Tasks : ~Running(x)
  /\ expect_status = "EXIT" => app \in {"destroy", "gone"}


BaseInv == TypeOK /\ SchedOK /\ TasksOK /\ QueuesOK /\ SessionOK

QueueRec == [used : BOOLEAN, job_id : Jobs \cup {INVALID_JOB_ID}, complete : BOOLEAN,
             read_pos : Int, write_pos : 0..SEG, range : [start : Int, end : Int],
             data : [0..(SEG - 1) -> Int]]

JobsRec == [alive : BOOLEAN, assigned : [Jobs -> BOOLEAN], complete : [Jobs -> BOOLEAN],
            assigned_job_num : Int, complete_job_num : Int, finish_flag : BOOLEAN]

-----------------------------------------------------------------------------
(* Searches.                                                               *)

LEMMA FirstUnusedFacts ==
  FirstUnused = NULL \/ (FirstUnused \in Queues /\ ~queue[FirstUnused].used)
<1> DEFINE S == {q \in Queues : ~queue[q].used}
<1>1. S \subseteq Nat
  BY DEF Queues
<1> HIDE DEF S
<1>2. S # {} => Min(S) \in S
  BY <1>1, MinIn
<1> QED BY <1>2 DEF S, FirstUnused

LEMMA FirstIdleFacts ==
  FirstIdle = NULL \/ (FirstIdle \in Tasks /\ task[FirstIdle].status = "IDLE")
<1> DEFINE S == {x \in Tasks : task[x].status = "IDLE"}
<1>1. S \subseteq Nat
  BY DEF Tasks
<1> HIDE DEF S
<1>2. S # {} => Min(S) \in S
  BY <1>1, MinIn
<1> QED BY <1>2 DEF S, FirstIdle

LEMMA OneQueueFacts ==
  ASSUME NEW j
  PROVE  get_one_queue(j) = NULL
           \/ (get_one_queue(j) \in Queues /\ queue[get_one_queue(j)].job_id = j)
<1> DEFINE S == {q \in Queues : queue[q].job_id = j}
<1>1. S \subseteq Nat
  BY DEF Queues
<1> HIDE DEF S
<1>2. S # {} => Min(S) \in S
  BY <1>1, MinIn
<1> QED BY <1>2 DEF S, get_one_queue

LEMMA NextJobFacts ==
  ASSUME NEW J
  PROVE  Get_Next_Job(J) = INVALID_JOB_ID
           \/ (Get_Next_Job(J) \in Jobs /\ ~J.assigned[Get_Next_Job(J)]
                                        /\ ~J.complete[Get_Next_Job(J)])
<1>1. Waiting(J) \subseteq Nat
  BY JobSizes DEF Waiting
<1>2. Waiting(J) # {} => Min(Waiting(J)) \in Waiting(J)
  BY <1>1, MinIn
<1> QED BY <1>2 DEF Waiting, Get_Next_Job

\* The reader finds a queue in use, or none.
LEMMA DataReadyFacts ==
  ASSUME TypeOK
  PROVE  find_dataready = NULL \/ (find_dataready \in Queues /\ queue[find_dataready].used)
<1> DEFINE S == {q \in Queues : /\ queue[q].used
                               /\ queue[q].job_id # INVALID_JOB_ID
                               /\ queue[q].job_id < queue[1].job_id + MAX_JOB_TOTAL}
           I == {queue[q].job_id : q \in S}
           least == {q \in S : \A p \in S : queue[q].job_id <= queue[p].job_id}
<1>1. S # {} => least # {}
  <2> SUFFICES ASSUME S # {} PROVE least # {}
    OBVIOUS
  <2>1. \A q \in S : queue[q].job_id \in Nat
    BY JobSizes DEF TypeOK
  <2>2. I \subseteq Nat /\ I # {}
    <3> HIDE DEF S
    <3> QED BY <2>1
  <2>3. Min(I) \in I /\ \A n \in I : Min(I) <= n
    <3> HIDE DEF I
    <3> QED BY <2>2, MinIn
  <2> HIDE DEF S
  <2>4. PICK q \in S : queue[q].job_id = Min(I)
    BY <2>3
  <2>5. \A p \in S : queue[p].job_id \in I
    OBVIOUS
  <2>6. \A p \in S : queue[q].job_id <= queue[p].job_id
    BY <2>3, <2>4, <2>5
  <2> QED BY <2>6
<1>2. least \subseteq Nat /\ least \subseteq S
  BY DEF Queues
<1>3. least # {} => Min(least) \in least
  <2> HIDE DEF least
  <2> QED BY <1>2, MinIn
<1>4. find_dataready = IF S = {} THEN NULL ELSE Min(least)
  BY DEF find_dataready
<1>5. \A q \in S : q \in Queues /\ queue[q].used
  OBVIOUS
<1> HIDE DEF S, least
<1> QED BY <1>1, <1>2, <1>3, <1>4, <1>5

LEMMA Smaller == \A a, b \in Int : Min({a, b}) \in {a, b} /\ Min({a, b}) <= a /\ Min({a, b}) <= b
<1> SUFFICES ASSUME NEW a \in Int, NEW b \in Int
             PROVE  Min({a, b}) \in {a, b} /\ Min({a, b}) <= a /\ Min({a, b}) <= b
  OBVIOUS
<1>1. \E x \in {a, b} : \A y \in {a, b} : x <= y
  <2>1. CASE a <= b
    BY <2>1
  <2>2. CASE b <= a
    BY <2>2
  <2> QED BY <2>1, <2>2
<1> QED BY <1>1 DEF Min

LEMMA Larger == \A a, b \in Int : Max({a, b}) \in {a, b} /\ Max({a, b}) >= a /\ Max({a, b}) >= b
<1> SUFFICES ASSUME NEW a \in Int, NEW b \in Int
             PROVE  Max({a, b}) \in {a, b} /\ Max({a, b}) >= a /\ Max({a, b}) >= b
  OBVIOUS
<1>1. \E x \in {a, b} : \A y \in {a, b} : x >= y
  <2>1. CASE a >= b
    BY <2>1
  <2>2. CASE b >= a
    BY <2>2
  <2> QED BY <2>1, <2>2
<1> QED BY <1>1 DEF Max

LEMMA Clipped == ASSUME NEW a \in Int, NEW b \in Int PROVE Max({0, Min({a, b})}) \in Nat
<1>1. Min({a, b}) \in Int
  BY Smaller
<1>2. ASSUME NEW m \in Int PROVE Max({0, m}) \in Nat
  <2>1. 0 \in Int
    OBVIOUS
  <2> QED BY <2>1, Larger
<1> QED BY <1>1, <1>2

LEMMA UpTo == ASSUME NEW n \in Nat PROVE Cardinality(1 .. n) \in Nat
<1>1. 1 \in Int /\ n \in Int
  OBVIOUS
<1>2. Cardinality(1 .. n) = IF 1 > n THEN 0 ELSE n - 1 + 1
  BY <1>1, FS_Interval
<1> QED BY <1>1, <1>2

\* A read moves positions and nothing else.
LEMMA ReadFacts ==
  ASSUME TypeOK, NEW c \in Queues, NEW size \in 1..SEG
  PROVE  LET r == queue_read(queue[c], size)
         IN  /\ r.queue \in QueueRec
             /\ r.queue.used = queue[c].used /\ r.queue.job_id = queue[c].job_id
             /\ r.queue.complete = queue[c].complete
             /\ r.seek_pos \in Int
             /\ Cardinality(DOMAIN r.units) \in Nat
<1> DEFINE q == queue[c]
           seeking == mq.seek_pos # INVALID_SEEK_POS
           here == q.range.start <= mq.seek_pos /\ mq.seek_pos <= q.range.end
           there == mq.seek_pos - q.range.start
           come == there < q.write_pos
           from == IF seeking THEN there ELSE q.read_pos
           n == Max({0, Min({size, q.write_pos - from})})
           copied == [queue |-> [q EXCEPT !.read_pos = from + n],
                      seek_pos |-> INVALID_SEEK_POS,
                      units |-> [i \in 1..n |-> q.data[from + i - 1]]]
           nothing(pos) == [queue |-> [q EXCEPT !.read_pos = pos],
                            seek_pos |-> mq.seek_pos, units |-> <<>>]
           Fine(r) == /\ r.queue \in QueueRec
                      /\ r.queue.used = q.used /\ r.queue.job_id = q.job_id
                      /\ r.queue.complete = q.complete
                      /\ r.seek_pos \in Int
                      /\ Cardinality(DOMAIN r.units) \in Nat
<1>1. q \in QueueRec /\ mq.seek_pos \in Int /\ size \in Nat
  BY ConstantsAssumption DEF TypeOK, QueueRec
<1>2. from \in Int /\ q.write_pos \in Int
  BY <1>1, ConstantsAssumption DEF QueueRec
<1>3. n \in Nat
  <2>1. q.write_pos - from \in Int /\ size \in Int
    BY <1>1, <1>2
  <2> HIDE DEF q, from
  <2> QED BY <2>1, Clipped
<1>4. Fine(copied)
  <2>1. from + n \in Int
    BY <1>2, <1>3
  <2>2. Cardinality(1 .. n) \in Nat
    <3> HIDE DEF n
    <3> QED BY <1>3, UpTo
  <2> HIDE DEF q, from, n
  <2> QED BY <1>1, <2>1, <2>2 DEF QueueRec, INVALID_SEEK_POS
<1>5. ASSUME NEW pos \in Int PROVE Fine(nothing(pos))
  <2>1. DOMAIN <<>> = {} /\ Cardinality({}) = 0
    BY FS_EmptySet
  <2> HIDE DEF q
  <2> QED BY <1>1, <2>1 DEF QueueRec
<1>6. queue_read(q, size) = copied \/ \E pos \in Int : queue_read(q, size) = nothing(pos)
  <2>1. q.write_pos \in Int /\ q.read_pos \in Int
    BY <1>1, <1>2 DEF QueueRec
  <2>2. CASE seeking /\ ~here
    <3>1. queue_read(q, size) = nothing(q.write_pos)
      BY <2>2 DEF queue_read
    <3> QED BY <2>1, <3>1
  <2>3. CASE seeking /\ here /\ ~come
    <3>1. queue_read(q, size) = nothing(q.read_pos)
      BY <2>3 DEF queue_read
    <3> QED BY <2>1, <3>1
  <2>4. CASE ~(seeking /\ ~here) /\ ~(seeking /\ here /\ ~come)
    BY <2>4 DEF queue_read
  <2> QED BY <2>2, <2>3, <2>4
<1>7. Fine(queue_read(q, size))
  <2> HIDE DEF Fine, copied, nothing, q
  <2> QED BY <1>4, <1>5, <1>6
<1> QED BY <1>7

-----------------------------------------------------------------------------
(* The application's steps.                                                *)

LEMMA AppQuiet ==
  ASSUME BaseInv, OpenBegin \/ OpenFailed \/ ReadBegin \/ ReadEof \/ ReadNothing \/ SeekDone
                    \/ CloseBegin \/ CloseStop \/ DeinitBegin \/ DeinitStop
                    \/ DeinitDestroy \/ DeinitDone
  PROVE  BaseInv'
<1> USE DEF BaseInv, TypeOK, SchedOK, TasksOK, QueuesOK, SessionOK, AppPcs, Leaving, Busy, Running,
            Handing, shared, handle
<1>1. CASE OpenBegin
  BY <1>1 DEF OpenBegin
<1>2. CASE OpenFailed
  BY <1>2 DEF OpenFailed
<1>3. CASE ReadBegin
  BY <1>3 DEF ReadBegin
<1>4. CASE ReadEof
  BY <1>4 DEF ReadEof
<1>5. CASE ReadNothing
  BY <1>5 DEF ReadNothing
<1>6. CASE SeekDone
  BY <1>6 DEF SeekDone
<1>7. CASE CloseBegin
  BY <1>7 DEF CloseBegin
<1>8. CASE CloseStop
  BY <1>8 DEF CloseStop
<1>9. CASE DeinitBegin
  BY <1>9 DEF DeinitBegin
<1>10. CASE DeinitStop
  BY <1>10 DEF DeinitStop
<1>11. CASE DeinitDestroy
  BY <1>11 DEF DeinitDestroy
<1>12. CASE DeinitDone
  BY <1>12 DEF DeinitDone
<1> QED BY <1>1, <1>2, <1>3, <1>4, <1>5, <1>6, <1>7, <1>8, <1>9, <1>10, <1>11, <1>12

LEMMA OpenDoneKeeps == ASSUME BaseInv, OpenDone PROVE BaseInv'
  BY DEF OpenDone, NewJobs, BaseInv, TypeOK, SchedOK, TasksOK, QueuesOK, SessionOK, AppPcs, Leaving,
         Busy, Running, Handing, shared, handle

MqRec == [cur_queue : 0..QueueNum, seek_pending : BOOLEAN, seek_pos : Int]

LEMMA MqUpdate ==
  ASSUME TypeOK, NEW c \in 0..QueueNum, NEW pos \in Int
  PROVE  [mq EXCEPT !.cur_queue = c, !.seek_pos = pos] \in MqRec
<1>1. mq \in MqRec
  BY DEF TypeOK, MqRec
<1> QED BY <1>1 DEF MqRec

LEMMA SeekKeeps == ASSUME BaseInv, SeekBegin \/ StartSeek PROVE BaseInv'
<1> USE DEF BaseInv, TypeOK, SchedOK, TasksOK, QueuesOK, SessionOK, AppPcs, Leaving, Busy, Running,
            Handing, shared, handle
<1>1. CASE SeekBegin
  <2>1. PICK p \in SeekTo \ {off} : InFile(p) /\ off' = p /\ seek_off' = p
    BY <1>1 DEF SeekBegin
  <2>2. p \in 0..(Size - 1)
    BY <2>1, ConstantsAssumption DEF InFile
  <2> QED BY <1>1, <2>1, <2>2 DEF SeekBegin
<1>2. CASE StartSeek
  <2>1. mq' \in MqRec
    <3>1. seek_off \in Int /\ mq.cur_queue \in 0..QueueNum
      BY ConstantsAssumption
    <3>2. mq' = mq \/ mq' = [mq EXCEPT !.seek_pending = TRUE, !.seek_pos = seek_off]
      BY <1>2 DEF StartSeek
    <3>3. mq \in MqRec
      BY DEF MqRec
    <3>4. [mq EXCEPT !.seek_pending = TRUE, !.seek_pos = seek_off] \in MqRec
      BY <3>1, <3>3 DEF MqRec
    <3> QED BY <3>2, <3>3, <3>4
  <2>2. jobs.alive /\ app' \in {"seekwait", "idle"} /\ app = "startseek"
    BY <1>2 DEF StartSeek
  <2> QED BY <1>2, <2>1, <2>2 DEF StartSeek, MqRec
<1> QED BY <1>1, <1>2

\* A reset queue is free, and so are all after ResetAll.
LEMMA ResetTypes ==
  ASSUME TypeOK, NEW q \in Queues
  PROVE  queue_reset(queue[q]) \in QueueRec /\ ~queue_reset(queue[q]).used
<1>1. PICK r : r = queue[q]
  OBVIOUS
<1>2. r \in QueueRec
  BY <1>1 DEF TypeOK, QueueRec
<1>3. NoRange \in [start : Int, end : Int] /\ 0 \in 0..SEG /\ 0 \in Int
  BY ConstantsAssumption DEF NoRange, INVALID_SEEK_POS
<1>4. queue_reset(r) \in QueueRec /\ ~queue_reset(r).used
  BY <1>2, <1>3 DEF queue_reset, QueueRec
<1> QED BY <1>1, <1>4

LEMMA QueueTypes == TypeOK => queue \in [Queues -> QueueRec]
  BY DEF TypeOK, QueueRec

LEMMA ResetKeeps == ASSUME BaseInv, OpenReset \/ CloseDone PROVE BaseInv'
<1>1. TypeOK
  BY DEF BaseInv
<1>2. ResetAll
  BY DEF OpenReset, CloseDone
<1>3. queue' \in [Queues -> QueueRec] /\ \A q \in Queues : ~queue'[q].used
  BY <1>1, <1>2, ResetTypes DEF ResetAll
<1>4. mq' \in MqRec
  BY <1>2, ConstantsAssumption DEF ResetAll, NULL, INVALID_SEEK_POS, MqRec
<1>5. task' = task /\ exe' = exe
  BY DEF OpenReset, CloseDone
<1>6. TypeOK'
  <2>1. CASE OpenReset
    BY <2>1, <1>1, <1>3, <1>4 DEF OpenReset, TypeOK, QueueRec, MqRec, handle
  <2>2. CASE CloseDone
    BY <2>2, <1>1, <1>3, <1>4 DEF CloseDone, TypeOK, QueueRec, MqRec, handle
  <2> QED BY <2>1, <2>2
<1>7. QueuesOK'
  BY <1>3 DEF QueuesOK
<1>8. TasksOK'
  BY <1>5 DEF BaseInv, TasksOK, Busy, Running
<1>9. SchedOK' /\ SessionOK'
  <2>1. CASE OpenReset
    BY <2>1 DEF OpenReset, BaseInv, SchedOK, SessionOK, AppPcs, Leaving, Running, handle
  <2>2. CASE CloseDone
    BY <2>2 DEF CloseDone, AllIdle, BaseInv, TypeOK, SchedOK, SessionOK, AppPcs, Leaving, Running, handle
  <2> QED BY <2>1, <2>2
<1> QED BY <1>6, <1>7, <1>8, <1>9 DEF BaseInv

\* What a turn of the reader does: a queue's positions move, and the queue is
\* retired if it is complete.
ReadsFrom(c) ==
  /\ c \in Queues
  /\ queue' = [queue EXCEPT ![c] = queue'[c]]
  /\ queue'[c] \in QueueRec
  /\ queue'[c].job_id = queue[c].job_id /\ queue'[c].complete = queue[c].complete
  /\ queue'[c].used => queue[c].used
  /\ queue'[c].used = queue[c].used \/ queue[c].complete

LEMMA ReadTurnReads ==
  ASSUME TypeOK, ReadTurn
  PROVE  /\ \E c \in Queues : ReadsFrom(c)
         /\ mq' \in MqRec
         /\ off' \in Int
         /\ app' \in {"read", "idle"}
<1> DEFINE c == IF mq.cur_queue # NULL THEN mq.cur_queue ELSE find_dataready
           r(size) == queue_read(queue[c], size)
           n(size) == Cardinality(DOMAIN r(size).units)
           drained(size) == r(size).queue.complete /\ r(size).queue.read_pos = r(size).queue.write_pos
<1>1. PICK size \in 1..SEG :
        /\ c # NULL
        /\ queue' = [queue EXCEPT ![c] = [r(size).queue EXCEPT !.used = @ /\ ~drained(size)]]
        /\ mq' = [mq EXCEPT !.cur_queue = IF drained(size) THEN NULL ELSE c,
                            !.seek_pos = r(size).seek_pos]
        /\ off' = off + n(size)
        /\ app' = IF n(size) = 0 THEN "read" ELSE "idle"
  BY DEF ReadTurn
<1>2. c \in Queues
  BY <1>1, DataReadyFacts DEF TypeOK, Queues, NULL
<1>3. PICK b : b = c
  OBVIOUS
<1>4. b \in Queues
  BY <1>2, <1>3
<1>5. PICK rr : rr = r(size)
  OBVIOUS
<1>6. /\ rr.queue \in QueueRec
      /\ rr.queue.used = queue[b].used /\ rr.queue.job_id = queue[b].job_id
      /\ rr.queue.complete = queue[b].complete
      /\ rr.seek_pos \in Int
      /\ Cardinality(DOMAIN rr.units) \in Nat
  <2>1. rr = queue_read(queue[b], size)
    BY <1>3, <1>5
  <2> QED BY <1>4, <2>1, ReadFacts
<1> DEFINE d == rr.queue.complete /\ rr.queue.read_pos = rr.queue.write_pos
<1>7. /\ queue' = [queue EXCEPT ![b] = [rr.queue EXCEPT !.used = @ /\ ~d]]
      /\ mq' = [mq EXCEPT !.cur_queue = IF d THEN NULL ELSE b, !.seek_pos = rr.seek_pos]
      /\ off' = off + Cardinality(DOMAIN rr.units)
      /\ app' \in {"read", "idle"}
  BY <1>1, <1>3, <1>5
<1>8. queue \in [Queues -> QueueRec]
  BY QueueTypes
<1>9. queue'[b] = [rr.queue EXCEPT !.used = @ /\ ~d]
  BY <1>4, <1>7, <1>8
<1>10. ReadsFrom(b)
  BY <1>4, <1>6, <1>7, <1>8, <1>9 DEF ReadsFrom, QueueRec
<1>11. mq' \in MqRec
  <2>1. PICK e : e = IF d THEN NULL ELSE b
    OBVIOUS
  <2>2. e \in 0..QueueNum
    BY <2>1, <1>4, ConstantsAssumption DEF Queues, NULL
  <2>3. mq' = [mq EXCEPT !.cur_queue = e, !.seek_pos = rr.seek_pos]
    BY <1>7, <2>1
  <2> QED BY <1>6, <2>2, <2>3, MqUpdate
<1>12. off' \in Int
  BY <1>6, <1>7 DEF TypeOK
<1> QED BY <1>4, <1>7, <1>10, <1>11, <1>12

LEMMA ReadTurnKeeps == ASSUME BaseInv, ReadTurn PROVE BaseInv'
<1>1. TypeOK /\ queue \in [Queues -> QueueRec]
  BY QueueTypes DEF BaseInv
<1>2. PICK c \in Queues : ReadsFrom(c)
  BY <1>1, ReadTurnReads
<1>3. queue' \in [Queues -> QueueRec]
  BY <1>1, <1>2 DEF ReadsFrom
<1>4. TypeOK'
  BY <1>1, <1>3, ReadTurnReads DEF TypeOK, QueueRec, MqRec, ReadTurn
<1>5. QueuesOK'
  <2>1. sched' = sched
    BY DEF ReadTurn
  <2> QED BY <1>1, <1>2, <2>1 DEF ReadsFrom, BaseInv, QueuesOK, Handing
<1>6. TasksOK'
  BY DEF ReadTurn, BaseInv, TasksOK, Busy, Running
<1>7. SchedOK' /\ SessionOK'
  <2>1. app' \in {"read", "idle"} /\ app = "read"
    BY <1>1, ReadTurnReads DEF ReadTurn
  <2> QED BY <2>1 DEF ReadTurn, BaseInv, SchedOK, SessionOK, AppPcs, Leaving, Running
<1> QED BY <1>4, <1>5, <1>6, <1>7 DEF BaseInv

LEMMA AppBase == ASSUME BaseInv, AppNext PROVE BaseInv'
  BY AppQuiet, OpenDoneKeeps, SeekKeeps, ResetKeeps, ReadTurnKeeps DEF AppNext, AppReturns

-----------------------------------------------------------------------------
(* The job list: which jobs are assigned, which complete, and the counters. *)

TakenOf(J) == {j \in Jobs : J.assigned[j]}
DoneOf(J) == {j \in Jobs : J.complete[j]}

AssignedExact(J) == J.assigned_job_num = Cardinality(TakenOf(J))

CompleteExact(J) ==
  /\ J.complete_job_num = Cardinality(DoneOf(J))
  /\ J.complete_job_num = JobTotal => J.finish_flag

LEMMA JobsFinite ==
  /\ IsFiniteSet(Jobs) /\ Cardinality(Jobs) = JobTotal
  /\ \A S \in SUBSET Jobs : /\ IsFiniteSet(S) /\ Cardinality(S) \in Nat
                            /\ Cardinality(S) <= JobTotal
                            /\ Cardinality(S) = JobTotal => S = Jobs
<1>1. 0 \in Int /\ JobTotal - 1 \in Int /\ JobTotal - 1 >= 0 /\ JobTotal \in Int
  BY JobTotalFacts
<1>2. IsFiniteSet(Jobs) /\ Cardinality(Jobs) = JobTotal
  <2>1. IsFiniteSet(Jobs) /\ Cardinality(Jobs) = IF 0 > JobTotal - 1 THEN 0 ELSE JobTotal - 1 - 0 + 1
    BY <1>1, FS_Interval DEF Jobs
  <2> QED BY <1>1, <2>1
<1>3. ASSUME NEW S \in SUBSET Jobs
      PROVE  /\ IsFiniteSet(S) /\ Cardinality(S) \in Nat /\ Cardinality(S) <= JobTotal
             /\ Cardinality(S) = JobTotal => S = Jobs
  <2>1. IsFiniteSet(S) /\ Cardinality(S) <= Cardinality(Jobs)
           /\ (Cardinality(S) = Cardinality(Jobs) => S = Jobs)
    BY <1>2, FS_Subset
  <2> QED BY <1>2, <2>1, FS_CardinalityType
<1> QED BY <1>2, <1>3

\* What becomes of the job list when jobs A are added to and jobs R removed from
\* the assigned ones, C added to and U removed from the complete ones.
Edited(J, K, A, R, C, U) ==
  /\ K \in JobsRec /\ K.alive = J.alive
  /\ TakenOf(K) = (TakenOf(J) \ R) \cup A
  /\ DoneOf(K) = (DoneOf(J) \ U) \cup C

LEMMA AssignJob ==
  ASSUME NEW J \in JobsRec, NEW j \in Jobs
  PROVE  /\ Edited(J, Assign_Job(J, j), {j}, {}, {}, {j})
         /\ AssignedExact(J) /\ j \notin TakenOf(J) => AssignedExact(Assign_Job(J, j))
         /\ CompleteExact(J) /\ j \notin DoneOf(J) => CompleteExact(Assign_Job(J, j))
<1> DEFINE K == Assign_Job(J, j)
<1>1. /\ K \in JobsRec /\ K.alive = J.alive
      /\ K.assigned = [J.assigned EXCEPT ![j] = TRUE]
      /\ K.complete = [J.complete EXCEPT ![j] = FALSE]
      /\ K.assigned_job_num = J.assigned_job_num + 1
      /\ K.complete_job_num = J.complete_job_num /\ K.finish_flag = J.finish_flag
  <2>1. J.assigned \in [Jobs -> BOOLEAN] /\ J.complete \in [Jobs -> BOOLEAN]
    BY DEF JobsRec
  <2>2. /\ K.alive = J.alive
        /\ K.assigned = [J.assigned EXCEPT ![j] = TRUE]
        /\ K.complete = [J.complete EXCEPT ![j] = FALSE]
        /\ K.assigned_job_num = J.assigned_job_num + 1
        /\ K.complete_job_num = J.complete_job_num /\ K.finish_flag = J.finish_flag
    BY <2>1 DEF Assign_Job, JobsRec
  <2>3. K \in JobsRec
    <3>1. PICK ka : ka = [J.assigned EXCEPT ![j] = TRUE]
      OBVIOUS
    <3>2. PICK kc : kc = [J.complete EXCEPT ![j] = FALSE]
      OBVIOUS
    <3>3. ka \in [Jobs -> BOOLEAN] /\ kc \in [Jobs -> BOOLEAN] /\ J.assigned_job_num + 1 \in Int
      BY <2>1, <3>1, <3>2 DEF JobsRec
    <3>4. K = [J EXCEPT !.assigned = ka, !.complete = kc, !.assigned_job_num = J.assigned_job_num + 1]
      BY <3>1, <3>2 DEF Assign_Job, JobsRec
    <3> HIDE DEF K
    <3> QED BY <3>3, <3>4 DEF JobsRec
  <2> QED BY <2>2, <2>3
<1>2. J.assigned \in [Jobs -> BOOLEAN] /\ J.complete \in [Jobs -> BOOLEAN]
  BY DEF JobsRec
<1> HIDE DEF K
<1>3. TakenOf(K) = TakenOf(J) \cup {j} /\ DoneOf(K) = DoneOf(J) \ {j}
  BY <1>1, <1>2 DEF TakenOf, DoneOf
<1>4. TakenOf(J) \in SUBSET Jobs
  BY DEF TakenOf
<1>5. IsFiniteSet(TakenOf(J)) /\ Cardinality(TakenOf(J)) \in Nat
  BY <1>4, JobsFinite
<1>6. j \notin TakenOf(J) => Cardinality(TakenOf(J) \cup {j}) = Cardinality(TakenOf(J)) + 1
  BY <1>5, FS_AddElement
<1>7. j \notin DoneOf(J) => DoneOf(K) = DoneOf(J)
  BY <1>3
<1>8. Edited(J, K, {j}, {}, {}, {j})
  BY <1>1, <1>3 DEF Edited
<1>9. AssignedExact(J) /\ j \notin TakenOf(J) => AssignedExact(K)
  BY <1>1, <1>3, <1>6 DEF AssignedExact
<1>10. CompleteExact(J) /\ j \notin DoneOf(J) => CompleteExact(K)
  BY <1>1, <1>7 DEF CompleteExact
<1> QED BY <1>8, <1>9, <1>10 DEF K

LEMMA AssignJobReset ==
  ASSUME NEW J \in JobsRec, NEW j \in Jobs, j \notin TakenOf(J)
  PROVE  /\ Edited(J, Assign_Job_Reset(J, j), {}, {}, {}, {j})
         /\ AssignedExact(J) => AssignedExact(Assign_Job_Reset(J, j))
         /\ CompleteExact(J) /\ j \notin DoneOf(J) => CompleteExact(Assign_Job_Reset(J, j))
<1> DEFINE K == Assign_Job_Reset(J, j)
<1>1. J.assigned \in [Jobs -> BOOLEAN] /\ J.complete \in [Jobs -> BOOLEAN] /\ ~J.assigned[j]
  BY DEF JobsRec, TakenOf
<1>2. /\ K \in JobsRec /\ K.alive = J.alive
      /\ K.assigned = [J.assigned EXCEPT ![j] = FALSE]
      /\ K.complete = [J.complete EXCEPT ![j] = FALSE]
      /\ K.assigned_job_num = J.assigned_job_num
      /\ K.complete_job_num = J.complete_job_num /\ K.finish_flag = J.finish_flag
  BY <1>1 DEF Assign_Job_Reset, JobsRec
<1> HIDE DEF K
<1>3. TakenOf(K) = TakenOf(J) /\ DoneOf(K) = DoneOf(J) \ {j}
  BY <1>1, <1>2 DEF TakenOf, DoneOf
<1>4. j \notin DoneOf(J) => DoneOf(K) = DoneOf(J)
  BY <1>3
<1>5. Edited(J, K, {}, {}, {}, {j})
  BY <1>2, <1>3 DEF Edited
<1>6. AssignedExact(J) => AssignedExact(K)
  BY <1>2, <1>3 DEF AssignedExact
<1>7. CompleteExact(J) /\ j \notin DoneOf(J) => CompleteExact(K)
  BY <1>2, <1>4 DEF CompleteExact
<1> QED BY <1>5, <1>6, <1>7 DEF K

LEMMA ReactivatedJobs ==
  ASSUME NEW J \in JobsRec, NEW S \in SUBSET Jobs, S # {}
  PROVE  /\ Edited(J, Reactivated(J, S), {}, S, {}, S)
         /\ AssignedExact(J) => AssignedExact(Reactivated(J, S))
         /\ CompleteExact(J) => CompleteExact(Reactivated(J, S))
<1> DEFINE K == Reactivated(J, S)
           SC == {j \in S : J.complete[j]}
           SA == {j \in S : J.assigned[j]}
<1>1. J.assigned \in [Jobs -> BOOLEAN] /\ J.complete \in [Jobs -> BOOLEAN]
  BY DEF JobsRec
<1>2. SC = DoneOf(J) \cap S /\ SA = TakenOf(J) \cap S
  BY DEF DoneOf, TakenOf
<1>3. DoneOf(J) \in SUBSET Jobs /\ TakenOf(J) \in SUBSET Jobs /\ SC \in SUBSET Jobs /\ SA \in SUBSET Jobs
  BY DEF DoneOf, TakenOf
<1>4. /\ IsFiniteSet(S) /\ IsFiniteSet(DoneOf(J)) /\ IsFiniteSet(TakenOf(J))
      /\ Cardinality(DoneOf(J)) \in Nat /\ Cardinality(TakenOf(J)) \in Nat
  BY <1>3, JobsFinite
<1>5. Cardinality(SC) \in Int /\ Cardinality(SA) \in Int
  <2> HIDE DEF SC, SA
  <2> QED BY <1>3, JobsFinite
<1>6. PICK nc : nc = Cardinality(SC)
  OBVIOUS
<1>7. PICK na : na = Cardinality(SA)
  OBVIOUS
<1>8. /\ K \in JobsRec /\ K.alive = J.alive
      /\ K.assigned = [j \in Jobs |-> IF j \in S THEN FALSE ELSE J.assigned[j]]
      /\ K.complete = [j \in Jobs |-> IF j \in S THEN FALSE ELSE J.complete[j]]
      /\ K.assigned_job_num = J.assigned_job_num - na
      /\ K.complete_job_num = J.complete_job_num - nc
  <2>1. K = [J EXCEPT
               !.complete = [j \in Jobs |-> IF j \in S THEN FALSE ELSE @[j]],
               !.assigned = [j \in Jobs |-> IF j \in S THEN FALSE ELSE @[j]],
               !.complete_job_num = @ - nc,
               !.assigned_job_num = @ - na,
               !.finish_flag = FALSE]
    BY <1>6, <1>7 DEF Reactivated
  <2>2. nc \in Int /\ na \in Int
    BY <1>5, <1>6, <1>7
  <2> HIDE DEF K, SC, SA
  <2>3. PICK kc : kc = [j \in Jobs |-> IF j \in S THEN FALSE ELSE J.complete[j]]
    OBVIOUS
  <2>4. PICK ka : ka = [j \in Jobs |-> IF j \in S THEN FALSE ELSE J.assigned[j]]
    OBVIOUS
  <2>5. kc \in [Jobs -> BOOLEAN] /\ ka \in [Jobs -> BOOLEAN]
    BY <1>1, <2>3, <2>4
  <2>6. K = [J EXCEPT !.complete = kc, !.assigned = ka, !.complete_job_num = J.complete_job_num - nc,
                      !.assigned_job_num = J.assigned_job_num - na, !.finish_flag = FALSE]
    BY <2>1, <2>3, <2>4
  <2>7. K = [alive |-> J.alive, assigned |-> ka, complete |-> kc,
             assigned_job_num |-> J.assigned_job_num - na,
             complete_job_num |-> J.complete_job_num - nc, finish_flag |-> FALSE]
    BY <2>6 DEF JobsRec
  <2>8. J.assigned_job_num \in Int /\ J.complete_job_num \in Int /\ J.alive \in BOOLEAN
    BY DEF JobsRec
  <2>9. K \in JobsRec
    BY <2>2, <2>5, <2>7, <2>8 DEF JobsRec
  <2> QED BY <2>3, <2>4, <2>7, <2>9
<1> HIDE DEF K, SC, SA
<1>9. TakenOf(K) = TakenOf(J) \ S /\ DoneOf(K) = DoneOf(J) \ S
  BY <1>1, <1>8 DEF TakenOf, DoneOf
<1>10. /\ Cardinality(TakenOf(K)) = Cardinality(TakenOf(J)) - na
       /\ Cardinality(DoneOf(K)) = Cardinality(DoneOf(J)) - nc
  BY <1>2, <1>4, <1>6, <1>7, <1>9, FS_Difference
<1>11. Edited(J, K, {}, S, {}, S)
  BY <1>8, <1>9 DEF Edited
<1>12. AssignedExact(J) => AssignedExact(K)
  BY <1>8, <1>10 DEF AssignedExact
<1>13. Cardinality(DoneOf(K)) # JobTotal
  <2>1. DoneOf(K) \in SUBSET Jobs /\ DoneOf(K) # Jobs
    BY <1>3, <1>9
  <2> QED BY <2>1, JobsFinite
<1>14. CompleteExact(J) => CompleteExact(K)
  BY <1>8, <1>10, <1>13 DEF CompleteExact
<1> QED BY <1>11, <1>12, <1>14 DEF K

LEMMA ReactiveJob ==
  ASSUME NEW J \in JobsRec, NEW j
  PROVE  /\ Edited(J, Reactive_Job(J, j), {}, {j}, {}, {j})
         /\ AssignedExact(J) => AssignedExact(Reactive_Job(J, j))
         /\ CompleteExact(J) => CompleteExact(Reactive_Job(J, j))
<1>1. CASE j \in Jobs
  <2>1. {j} \in SUBSET Jobs /\ {j} # {}
    BY <1>1
  <2>2. Reactive_Job(J, j) = Reactivated(J, {j})
    BY <1>1 DEF Reactive_Job
  <2> QED BY <2>1, <2>2, ReactivatedJobs
<1>2. CASE j \notin Jobs
  <2>1. Reactive_Job(J, j) = J
    BY <1>2 DEF Reactive_Job
  <2>2. TakenOf(J) = (TakenOf(J) \ {j}) \cup {} /\ DoneOf(J) = (DoneOf(J) \ {j}) \cup {}
    BY <1>2 DEF TakenOf, DoneOf
  <2> QED BY <2>1, <2>2 DEF Edited
<1> QED BY <1>1, <1>2

LEMMA CompleteSkipped ==
  ASSUME NEW J \in JobsRec, NEW S \in SUBSET Jobs
  PROVE  /\ Edited(J, Complete_Skipped(J, S), {}, {}, S, {})
         /\ AssignedExact(J) => AssignedExact(Complete_Skipped(J, S))
         /\ CompleteExact(J) => CompleteExact(Complete_Skipped(J, S))
<1> DEFINE K == Complete_Skipped(J, S)
           N == {j \in S : ~J.complete[j]}
<1>1. J.assigned \in [Jobs -> BOOLEAN] /\ J.complete \in [Jobs -> BOOLEAN]
  BY DEF JobsRec
<1>2. N \in SUBSET Jobs /\ DoneOf(J) \in SUBSET Jobs /\ N \cap DoneOf(J) = {}
        /\ DoneOf(J) \cup S = DoneOf(J) \cup N
  BY <1>1 DEF DoneOf
<1>3. PICK n : n = Cardinality(N)
  OBVIOUS
<1>4. /\ IsFiniteSet(N) /\ IsFiniteSet(DoneOf(J)) /\ n \in Nat /\ Cardinality(DoneOf(J)) \in Nat
      /\ n = 0 => N = {}
  <2>1. /\ IsFiniteSet(N) /\ IsFiniteSet(DoneOf(J)) /\ n \in Nat /\ Cardinality(DoneOf(J)) \in Nat
    <3> HIDE DEF N
    <3> QED BY <1>2, <1>3, JobsFinite
  <2> HIDE DEF N
  <2> QED BY <2>1, <1>3, FS_EmptySet
<1>5. Cardinality(DoneOf(J) \cup N) = Cardinality(DoneOf(J)) + n
  <2> HIDE DEF N
  <2>1. Cardinality(DoneOf(J) \cup N)
          = Cardinality(DoneOf(J)) + Cardinality(N) - Cardinality(DoneOf(J) \cap N)
    BY <1>4, FS_Union
  <2>2. Cardinality(DoneOf(J) \cap N) = 0
    BY <1>2, FS_EmptySet
  <2> QED BY <1>3, <1>4, <2>1, <2>2
<1>6. /\ K \in JobsRec /\ K.alive = J.alive
      /\ K.assigned = J.assigned
      /\ K.complete = [j \in Jobs |-> J.complete[j] \/ j \in S]
      /\ K.assigned_job_num = J.assigned_job_num
      /\ K.complete_job_num = J.complete_job_num + n
      /\ K.finish_flag = (J.finish_flag \/ (N # {} /\ J.complete_job_num + n = JobTotal))
  <2>1. K = [J EXCEPT !.complete = [j \in Jobs |-> @[j] \/ j \in S],
                      !.complete_job_num = J.complete_job_num + n,
                      !.finish_flag = @ \/ (N # {} /\ J.complete_job_num + n = JobTotal)]
    BY <1>3 DEF Complete_Skipped, AllCounted
  <2> HIDE DEF K, N
  <2>2. PICK kc : kc = [j \in Jobs |-> J.complete[j] \/ j \in S]
    OBVIOUS
  <2>3. kc \in [Jobs -> BOOLEAN]
    BY <2>2
  <2>4. PICK f \in BOOLEAN : f = (J.finish_flag \/ (N # {} /\ J.complete_job_num + n = JobTotal))
    OBVIOUS
  <2>5. K = [J EXCEPT !.complete = kc, !.complete_job_num = J.complete_job_num + n, !.finish_flag = f]
    BY <2>1, <2>2, <2>4
  <2>6. K = [alive |-> J.alive, assigned |-> J.assigned, complete |-> kc,
             assigned_job_num |-> J.assigned_job_num,
             complete_job_num |-> J.complete_job_num + n, finish_flag |-> f]
    BY <2>5 DEF JobsRec
  <2>7. J.assigned_job_num \in Int /\ J.complete_job_num \in Int /\ J.alive \in BOOLEAN
    BY DEF JobsRec
  <2>8. K \in JobsRec
    BY <1>1, <1>4, <2>3, <2>6, <2>7 DEF JobsRec
  <2> QED BY <2>2, <2>4, <2>6, <2>8
<1> HIDE DEF K, N
<1>7. TakenOf(K) = TakenOf(J) /\ DoneOf(K) = DoneOf(J) \cup S
  BY <1>1, <1>6 DEF TakenOf, DoneOf
<1>8. Edited(J, K, {}, {}, S, {})
  BY <1>6, <1>7 DEF Edited
<1>9. AssignedExact(J) => AssignedExact(K)
  BY <1>6, <1>7 DEF AssignedExact
<1>10. CompleteExact(J) => CompleteExact(K)
  <2> SUFFICES ASSUME CompleteExact(J) PROVE CompleteExact(K)
    OBVIOUS
  <2>1. K.complete_job_num = Cardinality(DoneOf(K))
    BY <1>2, <1>5, <1>6, <1>7 DEF CompleteExact
  <2>2. CASE N = {}
    <3>1. n = 0
      BY <1>3, <2>2, FS_EmptySet
    <3>2. K.complete_job_num = J.complete_job_num
      BY <1>6, <3>1 DEF JobsRec
    <3> QED BY <1>6, <2>1, <3>2 DEF CompleteExact
  <2>3. CASE N # {}
    BY <1>6, <2>1, <2>3 DEF CompleteExact
  <2> QED BY <2>2, <2>3
<1> QED BY <1>8, <1>9, <1>10 DEF K

\* A reset leaves no job assigned that was complete or not assigned before, and
\* keeps the counters exact.
LEMMA ResetJobsFacts ==
  ASSUME NEW J \in JobsRec, NEW dst \in Jobs
  PROVE  LET K == ResetJobs(J, dst)
         IN  /\ K \in JobsRec /\ K.alive = J.alive
             /\ TakenOf(K) \ DoneOf(K) \subseteq TakenOf(J) \ DoneOf(J)
             /\ AssignedExact(J) => AssignedExact(K)
             /\ CompleteExact(J) => CompleteExact(K)
<1> DEFINE next == Get_Next_Job(J)
           curr == IF next # INVALID_JOB_ID THEN next ELSE JobTotal - 1
           last == IF next # INVALID_JOB_ID THEN curr - 1 ELSE curr
           Fine(K) == /\ K \in JobsRec /\ K.alive = J.alive
                      /\ TakenOf(K) \ DoneOf(K) \subseteq TakenOf(J) \ DoneOf(J)
                      /\ AssignedExact(J) => AssignedExact(K)
                      /\ CompleteExact(J) => CompleteExact(K)
<1>1. next = INVALID_JOB_ID \/ next \in Jobs
  BY NextJobFacts
<1>2. curr \in Jobs
  BY <1>1, JobTotalFacts DEF Jobs
<1>3. last \in Int /\ last <= JobTotal - 1 /\ (dst < curr => dst <= last) /\ curr \in Int /\ dst \in Nat
  <2> HIDE DEF next
  <2> QED BY <1>2, JobTotalFacts DEF Jobs
<1>4. CASE dst < curr
  <2> DEFINE S == dst..(IF last >= JobTotal \/ last <= 0 THEN JobTotal - 1 ELSE last)
  <2>1. ResetJobs(J, dst) = Reactivated(J, S)
    <3>1. ResetJobs(J, dst) = Reactive_Jobs(J, dst, last)
      BY <1>3, <1>4 DEF ResetJobs
    <3> HIDE DEF last
    <3> QED BY <3>1 DEF Reactive_Jobs
  <2>2. S \in SUBSET Jobs /\ dst \in S
    <3> HIDE DEF last, curr
    <3> QED BY <1>3, <1>4, JobTotalFacts DEF Jobs
  <2> HIDE DEF S
  <2>3. Fine(Reactivated(J, S))
    BY <2>2, ReactivatedJobs DEF Edited
  <2> QED BY <2>1, <2>3
<1>5. CASE dst > curr
  <2> DEFINE S == curr..(dst - 1)
             K == Complete_Skipped(J, S)
  <2>1. ResetJobs(J, dst) = Reactive_Job(K, dst)
    BY <1>3, <1>5 DEF ResetJobs
  <2>2. S \in SUBSET Jobs
    <3>1. PICK a : a = curr
      OBVIOUS
    <3>2. a \in Jobs /\ a \in Nat /\ dst \in Nat
      BY <1>2, <3>1, JobSizes
    <3>3. a..(dst - 1) \subseteq Jobs
      BY <3>2, JobTotalFacts DEF Jobs
    <3> QED BY <3>1, <3>3
  <2> HIDE DEF S
  <2>3. Edited(J, K, {}, {}, S, {}) /\ (AssignedExact(J) => AssignedExact(K))
          /\ (CompleteExact(J) => CompleteExact(K))
    BY <2>2, CompleteSkipped
  <2> HIDE DEF K
  <2>4. K \in JobsRec
    BY <2>3 DEF Edited
  <2>5. Fine(Reactive_Job(K, dst))
    BY <2>3, <2>4, ReactiveJob DEF Edited
  <2> QED BY <2>1, <2>5
<1>6. CASE dst = curr
  <2>1. ResetJobs(J, dst) = Reactive_Job(J, dst)
    BY <1>3, <1>6 DEF ResetJobs
  <2>2. Fine(Reactive_Job(J, dst))
    BY ReactiveJob DEF Edited
  <2> QED BY <2>1, <2>2
<1> QED BY <1>3, <1>4, <1>5, <1>6

-----------------------------------------------------------------------------
(* The scheduler's steps.                                                  *)

\* The jobs a seek brings back come before every job that has a queue.
LEMMA PolicyFacts ==
  ASSUME TypeOK, \A q \in Queues : queue[q].used => queue[q].job_id \in Jobs, NEW dst \in Jobs
  PROVE  LET p == gen_seek_policy(dst)
         IN  /\ p \in Policy
             /\ \A q \in Queues : queue[q].used => queue[q].job_id \notin p.new
<1> DEFINE U == {q \in Queues : queue[q].used}
           I == {queue[q].job_id : q \in U}
           total == Cardinality(U)
           min == Min(I)
           max == Max({0} \cup I)
           new == min - dst
           save == Min({TaskNum - new, total})
           none == [reset |-> FALSE, new |-> {}, save |-> {}, kill |-> {}]
           Fine(p) == /\ p \in Policy
                      /\ \A q \in Queues : queue[q].used => queue[q].job_id \notin p.new
<1>1. dst \in Nat /\ TaskNum \in Nat
  BY JobSizes, ConstantsAssumption
<1>2. total \in Nat
  <2>1. 1 \in Int /\ QueueNum \in Int
    BY ConstantsAssumption
  <2>2. IsFiniteSet(Queues)
    BY <2>1, FS_Interval DEF Queues
  <2>3. IsFiniteSet(U)
    BY <2>2, FS_Subset
  <2> HIDE DEF U
  <2> QED BY <2>3, FS_CardinalityType
<1>3. Fine(none) /\ Fine([none EXCEPT !.reset = TRUE])
  BY DEF Policy
<1>4. ASSUME total # 0
      PROVE  min \in Jobs /\ min \in Nat /\ \A q \in Queues : queue[q].used => min <= queue[q].job_id
  <2>1. U # {}
    <3> HIDE DEF U
    <3> QED BY <1>4, FS_EmptySet
  <2>2. I \subseteq Jobs /\ I # {} /\ \A q \in Queues : queue[q].used => queue[q].job_id \in I
    BY <2>1
  <2>3. I \subseteq Nat
    BY <2>2, JobSizes
  <2> HIDE DEF I
  <2>4. Min(I) \in I /\ \A n \in I : Min(I) <= n
    BY <2>2, <2>3, MinIn
  <2> QED BY <2>2, <2>3, <2>4
<1>5. ASSUME total # 0, dst < min
      PROVE  Fine([none EXCEPT !.new = dst..(min - 1), !.save = min..(min + save - 1),
                               !.kill = (min + save)..(min + total - 1)])
  <2>1. PICK m : m = min
    OBVIOUS
  <2>2. m \in Jobs /\ m \in Nat /\ \A q \in Queues : queue[q].used => m <= queue[q].job_id
    BY <1>4, <1>5, <2>1
  <2>3. PICK t \in Nat : t = total
    BY <1>2
  <2>4. PICK s : s = Min({TaskNum - (m - dst), t})
    OBVIOUS
  <2>5. s \in Int
    <3>1. TaskNum - (m - dst) \in Int /\ t \in Int
      BY <1>1, <2>2
    <3> QED BY <2>4, <3>1, Smaller
  <2>6. s = save
    BY <2>1, <2>3, <2>4
  <2>7. dst..(m - 1) \in SUBSET Jobs
    BY <1>1, <2>2, JobTotalFacts DEF Jobs
  <2>8. m..(m + s - 1) \in SUBSET Nat /\ (m + s)..(m + t - 1) \in SUBSET Int
    BY <2>2, <2>5
  <2>9. \A q \in Queues : queue[q].used => queue[q].job_id \notin dst..(m - 1)
    <3> SUFFICES ASSUME NEW q \in Queues, queue[q].used PROVE queue[q].job_id \notin dst..(m - 1)
      OBVIOUS
    <3>1. queue[q].job_id \in Nat /\ m <= queue[q].job_id
      BY <2>2, JobSizes
    <3> QED BY <2>2, <3>1
  <2>10. Fine([none EXCEPT !.new = dst..(m - 1), !.save = m..(m + s - 1),
                           !.kill = (m + s)..(m + t - 1)])
    BY <2>7, <2>8, <2>9 DEF Policy
  <2> QED BY <2>1, <2>3, <2>6, <2>10
<1>6. \/ gen_seek_policy(dst) \in {none, [none EXCEPT !.reset = TRUE]}
      \/ /\ total # 0 /\ dst < min
         /\ gen_seek_policy(dst) = [none EXCEPT !.new = dst..(min - 1), !.save = min..(min + save - 1),
                                                !.kill = (min + save)..(min + total - 1)]
  <2>1. gen_seek_policy(dst) =
          CASE total = 0                -> [none EXCEPT !.reset = TRUE]
            [] total # 0 /\ dst > max   -> [none EXCEPT !.reset = TRUE]
            [] total # 0 /\ dst <= max /\ dst >= min -> none
            [] total # 0 /\ dst < min /\ dst >= min - (TaskNum - 1) ->
                 [none EXCEPT !.new = dst..(min - 1),
                              !.save = min..(min + save - 1),
                              !.kill = (min + save)..(min + total - 1)]
            [] OTHER                    -> [none EXCEPT !.reset = TRUE]
    BY DEF gen_seek_policy
  <2>2. PICK a : a = [none EXCEPT !.reset = TRUE]
    OBVIOUS
  <2>3. PICK b : b = [none EXCEPT !.new = dst..(min - 1),
                              !.save = min..(min + save - 1),
                              !.kill = (min + save)..(min + total - 1)]
    OBVIOUS
  <2>4. gen_seek_policy(dst) =
          CASE total = 0                -> a
            [] total # 0 /\ dst > max   -> a
            [] total # 0 /\ dst <= max /\ dst >= min -> none
            [] total # 0 /\ dst < min /\ dst >= min - (TaskNum - 1) -> b
            [] OTHER                    -> a
    BY <2>1, <2>2, <2>3
  <2> HIDE DEF none, total, max, min, save
  <2>5. gen_seek_policy(dst) \in {none, a} \/ (total # 0 /\ dst < min /\ gen_seek_policy(dst) = b)
    BY <2>4
  <2> QED BY <2>2, <2>3, <2>5
<1> QED BY <1>3, <1>5, <1>6

SchedRec == [pc : SchedPcs, job : Jobs \cup {INVALID_JOB_ID}, stale : BOOLEAN,
             queue : 0..QueueNum, task : 0..TaskNum, policy : Policy]

\* The scheduler's record after the assignments of a step.
LEMMA SchedUpdate ==
  ASSUME NEW s \in SchedRec, NEW pc \in SchedPcs, NEW j \in Jobs \cup {INVALID_JOB_ID},
         NEW st \in BOOLEAN, NEW q \in 0..QueueNum, NEW x \in 0..TaskNum, NEW p \in Policy
  PROVE  /\ [s EXCEPT !.pc = pc, !.job = j, !.stale = st] \in SchedRec
         /\ [s EXCEPT !.pc = pc, !.job = j, !.queue = q, !.task = x] \in SchedRec
         /\ [s EXCEPT !.queue = q, !.task = x] \in SchedRec
         /\ [s EXCEPT !.policy = p, !.pc = pc] \in SchedRec
         /\ [s EXCEPT !.pc = pc, !.task = x] \in SchedRec
         /\ [s EXCEPT !.pc = pc, !.task = x, !.policy = p] \in SchedRec
         /\ [s EXCEPT !.policy = p] \in SchedRec
         /\ [s EXCEPT !.pc = pc] \in SchedRec
<1>1. [s EXCEPT !.pc = pc, !.job = j, !.stale = st] \in SchedRec
  BY DEF SchedRec
<1>2. [s EXCEPT !.pc = pc, !.job = j, !.queue = q, !.task = x] \in SchedRec
  BY DEF SchedRec
<1>3. [s EXCEPT !.queue = q, !.task = x] \in SchedRec
  BY DEF SchedRec
<1>4. [s EXCEPT !.policy = p, !.pc = pc] \in SchedRec
  BY DEF SchedRec
<1>5. [s EXCEPT !.pc = pc, !.task = x] \in SchedRec /\ [s EXCEPT !.pc = pc, !.task = x, !.policy = p] \in SchedRec
  BY DEF SchedRec
<1>6. [s EXCEPT !.policy = p] \in SchedRec /\ [s EXCEPT !.pc = pc] \in SchedRec
  BY DEF SchedRec
<1> QED BY <1>1, <1>2, <1>3, <1>4, <1>5, <1>6

LEMMA SchedTypes ==
  SchedOK => /\ sched \in SchedRec
             /\ sched.job \in Jobs \cup {INVALID_JOB_ID} /\ sched.stale \in BOOLEAN
             /\ sched.queue \in 0..QueueNum /\ sched.task \in 0..TaskNum /\ sched.policy \in Policy
  BY DEF SchedOK, SchedRec

LEMMA SchedSets ==
  /\ \A pc \in {"top", "idlechk", "taken", "assign", "exited"} : pc \in SchedPcs /\ pc \notin SeekPcs
  /\ SeekPcs = {"seek", "seekstop", "policy", "killed", "endseek", "setrun"} /\ SeekPcs \subseteq SchedPcs
  /\ NULL \in 0..QueueNum /\ NULL \in 0..TaskNum /\ Queues \subseteq 0..QueueNum /\ Tasks \subseteq 0..TaskNum
  BY ConstantsAssumption DEF SchedPcs, SeekPcs, NULL, Queues, Tasks

\* A step of the scheduler alone, with its status as it was.
LEMMA SchedAlone ==
  ASSUME BaseInv, sched' \in SchedRec, mq' \in MqRec,
         sched.pc \in {"idlechk", "policy", "endseek"}, sched'.pc \in {"top", "endseek", "setrun"},
         sched.pc # "idlechk" => sched'.job = sched.job,
         sched.pc = "idlechk" => sched'.pc = "top",
         UNCHANGED <<schedule_task_status, jobs, queue, expect_status, task, app, exe, handle>>
  PROVE  BaseInv'
<1>1. TypeOK'
  BY DEF BaseInv, TypeOK, MqRec, handle
<1>2. sched.pc # "idlechk" => sched'.job = INVALID_JOB_ID
  BY SchedSets DEF BaseInv, SchedOK
<1>3. SchedOK'
  <2>1. sched'.pc \notin {"taken", "assign"} /\ (sched'.pc \in SeekPcs => sched'.job = INVALID_JOB_ID)
    BY <1>2, SchedSets
  <2> QED BY <2>1 DEF BaseInv, SchedOK, SchedRec, handle
<1>4. TasksOK'
  BY DEF BaseInv, TasksOK, Busy, Running
<1>5. QueuesOK'
  <2>1. ~(sched.pc \in {"taken", "assign"})
    OBVIOUS
  <2> QED BY <2>1 DEF BaseInv, QueuesOK, Handing
<1>6. SessionOK'
  BY DEF BaseInv, SessionOK, Running, Leaving
<1> QED BY <1>1, <1>3, <1>4, <1>5, <1>6 DEF BaseInv

LEMMA SchedQuiet ==
  ASSUME BaseInv, SchedExit \/ SchedPrepareIdle \/ SchedIdleCheck \/ SchedPolicyDone
                    \/ SchedEndSeek \/ SchedSetRunning
  PROVE  BaseInv'
<1>0. sched \in SchedRec /\ mq \in MqRec
  BY SchedTypes DEF BaseInv, TypeOK, MqRec
<1>3. CASE SchedIdleCheck
  <2>1. PICK j \in Jobs \cup {INVALID_JOB_ID}, st \in BOOLEAN :
          sched' = [sched EXCEPT !.pc = "top", !.job = j, !.stale = st]
    <3>1. CASE schedule_task_status = "IDLE"
      BY <1>3, <3>1 DEF SchedIdleCheck, Forget
    <3>2. CASE schedule_task_status # "IDLE"
      <4>1. sched' = [sched EXCEPT !.pc = "top", !.job = sched.job, !.stale = sched.stale]
        BY <1>3, <3>2 DEF SchedIdleCheck
      <4> QED BY <1>0, <4>1 DEF SchedRec
    <3> QED BY <3>1, <3>2
  <2>2. sched' \in SchedRec /\ sched'.pc = "top"
    <3>1. sched' \in SchedRec
      BY <1>0, <2>1, SchedSets DEF SchedRec
    <3>2. sched'.pc = "top"
      BY <1>0, <2>1 DEF SchedRec
    <3> QED BY <3>1, <3>2
  <2> QED BY <1>0, <1>3, <2>2, SchedAlone DEF SchedIdleCheck, shared
<1>4. CASE SchedPolicyDone
  <2>1. sched' = [sched EXCEPT !.pc = "endseek"] /\ sched.pc = "policy"
    BY <1>4 DEF SchedPolicyDone
  <2>2. sched' \in SchedRec /\ sched'.pc = "endseek" /\ sched'.job = sched.job
    BY <1>0, <2>1, SchedSets DEF SchedRec
  <2> QED BY <1>0, <1>4, <2>1, <2>2, SchedAlone DEF SchedPolicyDone, shared
<1>5. CASE SchedEndSeek
  <2>1. sched' = [sched EXCEPT !.pc = "setrun"] /\ sched.pc = "endseek" /\ mq' = EndSeek(mq)
    BY <1>5 DEF SchedEndSeek
  <2>2. sched' \in SchedRec /\ sched'.pc = "setrun" /\ sched'.job = sched.job
    BY <1>0, <2>1, SchedSets DEF SchedRec
  <2>3. mq' \in MqRec
    BY <1>0, <2>1 DEF EndSeek, MqRec
  <2> QED BY <1>5, <2>1, <2>2, <2>3, SchedAlone DEF SchedEndSeek
<1> USE DEF BaseInv, TypeOK, SchedOK, TasksOK, QueuesOK, SessionOK, AppPcs, Leaving, Busy, Running,
            SchedPcs, SeekPcs, Handing, shared, handle
<1>1. CASE SchedExit
  BY <1>1 DEF SchedExit
<1>2. CASE SchedPrepareIdle
  BY <1>2 DEF SchedPrepareIdle
<1>6. CASE SchedSetRunning
  BY <1>6 DEF SchedSetRunning
<1> QED BY <1>1, <1>2, <1>3, <1>4, <1>5, <1>6


LEMMA JobsTypes == TypeOK => jobs \in JobsRec
  BY DEF TypeOK, JobsRec

\* The scheduler takes a job into its hands, and perhaps a queue for it.
PassWaits(j) == sched' = [sched EXCEPT !.job = j] /\ queue' = queue
PassTakes(j, q, x) ==
  /\ q \in Queues /\ ~queue[q].used /\ x \in Tasks /\ task[x].status = "IDLE"
  /\ queue' = [queue EXCEPT ![q].used = TRUE]
  /\ sched' = [sched EXCEPT !.pc = "taken", !.job = j, !.queue = q, !.task = x]

LEMMA PassSteps ==
  ASSUME SchedPass, SchedOK
  PROVE  \E j \in Jobs :
           /\ j = sched.job \/ (~jobs.assigned[j] /\ ~jobs.complete[j])
           /\ PassWaits(j) \/ \E q \in Queues, x \in Tasks : PassTakes(j, q, x)
<1> DEFINE j == IF sched.job # INVALID_JOB_ID THEN sched.job ELSE Get_Next_Job(jobs)
<1>1. /\ FirstIdle # NULL /\ j # INVALID_JOB_ID
      /\ \/ sched' = [sched EXCEPT !.job = j] /\ queue' = queue
         \/ /\ FirstUnused # NULL
            /\ queue' = [queue EXCEPT ![FirstUnused].used = TRUE]
            /\ sched' = [sched EXCEPT !.pc = "taken", !.job = j, !.queue = FirstUnused,
                                      !.task = FirstIdle]
  BY DEF SchedPass
<1>2. j \in Jobs /\ (j = sched.job \/ (~jobs.assigned[j] /\ ~jobs.complete[j]))
  BY <1>1, NextJobFacts DEF SchedOK
<1> HIDE DEF j
<1>3. FirstIdle \in Tasks /\ task[FirstIdle].status = "IDLE"
  BY <1>1, FirstIdleFacts
<1>4. PassWaits(j) \/ (FirstUnused \in Queues /\ PassTakes(j, FirstUnused, FirstIdle))
  BY <1>1, <1>3, FirstUnusedFacts DEF PassWaits, PassTakes
<1> QED BY <1>2, <1>3, <1>4

LEMMA PassKeeps == ASSUME BaseInv, SchedPass PROVE BaseInv'
<1>1. PICK j \in Jobs : PassWaits(j) \/ \E q \in Queues, x \in Tasks : PassTakes(j, q, x)
  BY PassSteps DEF BaseInv
<1>2. /\ sched.pc = "top" /\ schedule_task_status = "RUNNING"
      /\ UNCHANGED <<schedule_task_status, jobs, mq, expect_status, task, app, exe,
                     off, seek_off, ret, seeks, opens>>
  BY DEF SchedPass, handle
<1>3. TypeOK /\ queue \in [Queues -> QueueRec] /\ SchedOK
  BY QueueTypes DEF BaseInv
<1>4. CASE PassWaits(j)
  BY <1>2, <1>4 DEF PassWaits, BaseInv, TypeOK, SchedOK, TasksOK, QueuesOK, SessionOK, Leaving,
            Busy, Running, Handing, SchedPcs, SeekPcs
<1>5. ASSUME NEW q \in Queues, NEW x \in Tasks, PassTakes(j, q, x) PROVE BaseInv'
  <2>1. queue' \in [Queues -> QueueRec]
    BY <1>3, <1>5 DEF PassTakes, QueueRec
  <2>2. TypeOK'
    BY <1>2, <1>3, <2>1 DEF TypeOK, QueueRec
  <2>3. /\ sched'.pc = "taken" /\ sched'.job = j /\ sched'.queue = q /\ sched'.task = x
        /\ SchedOK'
    <3>1. sched' \in SchedRec
      BY <1>3, <1>5, SchedTypes, SchedUpdate, SchedSets DEF PassTakes
    <3>2. sched'.pc = "taken" /\ sched'.job = j /\ sched'.queue = q /\ sched'.task = x
      BY <1>3, <1>5, SchedTypes DEF PassTakes, SchedRec
    <3>3. task'[x].status = "IDLE"
      BY <1>2, <1>5 DEF PassTakes
    <3> QED BY <1>2, <1>3, <3>1, <3>2, <3>3, SchedSets DEF SchedOK, SchedRec
  <2>4. TasksOK' /\ SessionOK'
    BY <1>2, <2>3 DEF BaseInv, TasksOK, SessionOK, Leaving, Busy, Running
  <2>5. QueuesOK'
    BY <1>2, <1>3, <1>5, <2>3 DEF PassTakes, BaseInv, QueuesOK, Handing
  <2> QED BY <2>2, <2>3, <2>4, <2>5 DEF BaseInv
<1> QED BY <1>1, <1>4, <1>5

LEMMA TakenTypes ==
  ASSUME NEW r \in QueueRec
  PROVE  /\ Taken(r) \in QueueRec /\ Taken(r).used /\ ~Taken(r).complete /\ Taken(r).job_id = r.job_id
         /\ \A j \in Jobs : /\ ForJob(r, j) \in QueueRec /\ ForJob(r, j).job_id = j
                            /\ ForJob(r, j).used = r.used /\ ForJob(r, j).complete = r.complete
<1>1. NoRange \in [start : Int, end : Int] /\ 0 \in 0..SEG /\ 0 \in Int
  BY ConstantsAssumption DEF NoRange, INVALID_SEEK_POS
<1>2. /\ Taken(r) \in QueueRec /\ Taken(r).used /\ ~Taken(r).complete /\ Taken(r).job_id = r.job_id
  BY <1>1 DEF Taken, QueueRec
<1>3. ASSUME NEW j \in Jobs
      PROVE  /\ ForJob(r, j) \in QueueRec /\ ForJob(r, j).job_id = j
             /\ ForJob(r, j).used = r.used /\ ForJob(r, j).complete = r.complete
  <2>1. PICK a \in Int : a = JobOffset(j)
    BY JobSizes, ConstantsAssumption DEF JobOffset
  <2>2. PICK b \in Int : b = JobOffset(j) + JobSize(j) - 1
    BY <2>1, JobSizes, ConstantsAssumption
  <2>3. PICK g \in [start : Int, end : Int] : g = [start |-> a, end |-> b]
    OBVIOUS
  <2>4. ForJob(r, j) = [r EXCEPT !.job_id = j, !.range = g]
    BY <2>1, <2>2, <2>3 DEF ForJob
  <2>5. j \in Jobs \cup {INVALID_JOB_ID}
    OBVIOUS
  <2> QED BY <2>3, <2>4, <2>5 DEF QueueRec
<1> QED BY <1>2, <1>3

LEMMA TakeKeeps == ASSUME BaseInv, SchedTake PROVE BaseInv'
<1>1. TypeOK /\ queue \in [Queues -> QueueRec] /\ SchedOK /\ sched.queue \in Queues
  BY QueueTypes DEF BaseInv, SchedOK, SchedTake
<1>2. /\ queue' = [queue EXCEPT ![sched.queue] = Taken(queue[sched.queue])]
      /\ sched' = [sched EXCEPT !.pc = "assign"] /\ sched.pc = "taken"
      /\ UNCHANGED <<schedule_task_status, jobs, mq, expect_status, task, app, exe,
                     off, seek_off, ret, seeks, opens>>
  BY DEF SchedTake, handle
<1>3. queue' \in [Queues -> QueueRec]
  BY <1>1, <1>2, TakenTypes
<1>4. TypeOK'
  BY <1>1, <1>2, <1>3 DEF TypeOK, QueueRec
<1>5. SchedOK' /\ sched'.queue = sched.queue /\ sched'.pc = "assign"
  BY <1>1, <1>2 DEF SchedOK, SchedPcs, SeekPcs
<1>6. TasksOK' /\ SessionOK'
  BY <1>2, <1>5 DEF BaseInv, TasksOK, SessionOK, Leaving, Busy, Running
<1>7. QueuesOK'
  BY <1>1, <1>2, <1>5 DEF BaseInv, QueuesOK, Handing
<1> QED BY <1>4, <1>5, <1>6, <1>7 DEF BaseInv

\* A task is given to an idle executor: which tasks run then.
LEMMA GivenTask ==
  ASSUME BaseInv, NEW x \in Tasks, NEW q \in Queues, NEW j \in Jobs, task[x].status = "IDLE",
         task' = [task EXCEPT ![x] = Assigned(q, j)], exe' = exe
  PROVE  /\ TasksOK'
         /\ task' \in [Tasks -> [status : {"IDLE", "RUNNING", "EXIT"}, expect : {"IDLE", "RUNNING"},
                                 queue : 0..QueueNum, job : Jobs \cup {INVALID_JOB_ID}]]
         /\ task'[x] = Assigned(q, j) /\ \A y \in Tasks \ {x} : task'[y] = task[y]
<1>1. /\ task'[x] = Assigned(q, j) /\ \A y \in Tasks \ {x} : task'[y] = task[y]
      /\ task' \in [Tasks -> [status : {"IDLE", "RUNNING", "EXIT"}, expect : {"IDLE", "RUNNING"},
                              queue : 0..QueueNum, job : Jobs \cup {INVALID_JOB_ID}]]
  BY ConstantsAssumption DEF BaseInv, TypeOK, Assigned, Queues
<1>2. ~Busy(x) /\ exe[x].pc # "exited"
  BY DEF BaseInv, TasksOK, Running
<1>3. TasksOK'
  BY <1>1, <1>2 DEF BaseInv, TasksOK, Busy, Running, Assigned
<1> QED BY <1>1, <1>3

\* outside a window the scheduler hands no queue out
LEMMA AssignKeeps == ASSUME BaseInv, SchedAssign PROVE BaseInv'
<1>1. TypeOK /\ queue \in [Queues -> QueueRec] /\ jobs \in JobsRec /\ SchedOK
        /\ sched.queue \in Queues /\ sched.task \in Tasks /\ sched.job \in Jobs
        /\ task[sched.task].status = "IDLE"
  BY QueueTypes, JobsTypes DEF BaseInv, SchedOK, SchedAssign
<1>2. /\ queue' = [queue EXCEPT ![sched.queue] = ForJob(queue[sched.queue], sched.job)]
      /\ jobs' = Assign_Job(jobs, sched.job)
      /\ task' = [task EXCEPT ![sched.task] = Assigned(sched.queue, sched.job)]
      /\ sched' = [[sched EXCEPT !.pc = "top", !.job = INVALID_JOB_ID, !.stale = FALSE]
                     EXCEPT !.queue = NULL, !.task = NULL]
      /\ sched.pc = "assign"
      /\ UNCHANGED <<schedule_task_status, mq, expect_status, app, exe,
                     off, seek_off, ret, seeks, opens>>
  BY DEF SchedAssign, handle, Forget
<1>3. queue' \in [Queues -> QueueRec]
        /\ queue'[sched.queue].job_id = sched.job
        /\ \A q \in Queues \ {sched.queue} : queue'[q] = queue[q]
  BY <1>1, <1>2, TakenTypes
<1>4. jobs' \in JobsRec /\ jobs'.alive = jobs.alive
  BY <1>1, <1>2, AssignJob DEF Edited
<1>5. /\ TasksOK'
      /\ task' \in [Tasks -> [status : {"IDLE", "RUNNING", "EXIT"}, expect : {"IDLE", "RUNNING"},
                              queue : 0..QueueNum, job : Jobs \cup {INVALID_JOB_ID}]]
  BY <1>1, <1>2, GivenTask
<1>6. TypeOK'
  BY <1>1, <1>2, <1>3, <1>4, <1>5 DEF TypeOK, QueueRec, JobsRec
<1>7. SchedOK' /\ sched'.pc = "top"
  <2>1. PICK t : t = [sched EXCEPT !.pc = "top", !.job = INVALID_JOB_ID, !.stale = FALSE]
    OBVIOUS
  <2>a. "top" \in SchedPcs /\ INVALID_JOB_ID \in Jobs \cup {INVALID_JOB_ID} /\ FALSE \in BOOLEAN
          /\ sched.policy \in Policy /\ sched \in SchedRec /\ NULL \in 0..QueueNum /\ NULL \in 0..TaskNum
    BY <1>1, SchedTypes, SchedSets
  <2>2. t \in SchedRec /\ t.pc = "top"
    <3>1. t \in SchedRec
      BY <2>1, <2>a, SchedUpdate
    <3> QED BY <2>1, <2>a, <3>1 DEF SchedRec
  <2>3. sched' \in SchedRec
    BY <1>2, <2>1, <2>2, <2>a, SchedUpdate
  <2>4. sched'.pc = "top"
    BY <1>2, <2>1, <2>2 DEF SchedRec
  <2> QED BY <1>1, <1>2, <2>3, <2>4, SchedSets DEF SchedOK, SchedRec
<1>8. SessionOK'
  <2>1. jobs.alive
    BY <1>2 DEF BaseInv, SessionOK
  <2> QED BY <1>2, <1>4, <1>7, <2>1 DEF BaseInv, SessionOK, Leaving
<1>9. QueuesOK'
  BY <1>1, <1>2, <1>3 DEF BaseInv, QueuesOK, Handing
<1> QED BY <1>5, <1>6, <1>7, <1>8, <1>9 DEF BaseInv


\* The job the scheduler holds is nobody's, and the assigned jobs are counted.
HandFree == sched.job \in Jobs => ~jobs.assigned[sched.job]
CountOK == AssignedExact(jobs) /\ HandFree

\* While the scheduler executes a seek the session is open.
LEMMA SeekFrame ==
  ASSUME BaseInv, schedule_task_status \notin {"IDLE", "PREPARE_EXIT", "EXIT_DONE"},
         UNCHANGED <<schedule_task_status, app, seeks, opens>>,
         jobs'.alive = jobs.alive, expect_status' = expect_status \/ expect_status' # "EXIT",
         sched' \in SchedRec, sched'.pc \in SeekPcs, sched'.job = INVALID_JOB_ID
  PROVE  SchedOK' /\ SessionOK' /\ \A q \in Queues : ~Handing(q)'
<1>1. sched'.pc \notin {"taken", "assign", "exited", "top", "idlechk"}
  BY SchedSets
<1>2. SchedOK'
  BY <1>1 DEF BaseInv, SchedOK, SchedRec
<1>3. jobs.alive
  BY DEF BaseInv, SessionOK
<1>4. SessionOK'
  BY <1>1, <1>3 DEF BaseInv, SessionOK, Leaving
<1> QED BY <1>1, <1>2, <1>4 DEF Handing

LEMMA Seeking ==
  ASSUME BaseInv, sched.pc \in SeekPcs
  PROVE  /\ schedule_task_status \notin {"IDLE", "PREPARE_EXIT", "EXIT_DONE"}
         /\ \A q \in Queues : ~Handing(q)
         /\ sched.job = INVALID_JOB_ID /\ jobs.alive
         /\ TypeOK /\ sched \in SchedRec /\ sched.policy \in Policy
         /\ queue \in [Queues -> QueueRec] /\ jobs \in JobsRec
         /\ \A q \in Queues : queue[q].used => queue[q].job_id \in Jobs
<1>1. sched.pc \notin {"taken", "assign", "exited", "top", "idlechk"}
  BY SchedSets
<1>2. /\ schedule_task_status \notin {"IDLE", "PREPARE_EXIT", "EXIT_DONE"}
      /\ \A q \in Queues : ~Handing(q)
      /\ sched.job = INVALID_JOB_ID
  BY <1>1 DEF BaseInv, SessionOK, Handing, SchedOK
<1>3. jobs.alive
  BY <1>2 DEF BaseInv, SessionOK
<1>4. \A q \in Queues : queue[q].used => queue[q].job_id \in Jobs
  BY <1>2 DEF BaseInv, QueuesOK
<1> QED BY <1>2, <1>3, <1>4, SchedTypes, QueueTypes, JobsTypes DEF BaseInv

\* A seek's steps that leave the executors and their tasks alone.
LEMMA TasksFrame ==
  ASSUME BaseInv, task' = task, exe' = exe
  PROVE  TasksOK'
  BY DEF BaseInv, TasksOK, Busy, Running

LEMMA BeginSeekKeeps == ASSUME BaseInv, CountOK, SchedSeek PROVE BaseInv'
<1>1. TypeOK /\ jobs \in JobsRec /\ sched \in SchedRec /\ SchedOK
  BY JobsTypes, SchedTypes DEF BaseInv
<1>2. /\ jobs' = IF sched.job # INVALID_JOB_ID THEN Assign_Job_Reset(jobs, sched.job) ELSE jobs
      /\ sched.pc = "top" /\ schedule_task_status = "SEEK"
      /\ UNCHANGED <<schedule_task_status, mq, queue, expect_status, task, app, exe,
                     off, seek_off, ret, seeks, opens>>
  BY DEF SchedSeek, handle
<1>3. PICK t : t = [sched EXCEPT !.pc = "top", !.job = INVALID_JOB_ID, !.stale = FALSE]
  OBVIOUS
<1>4. sched' = [t EXCEPT !.pc = "seek"]
  BY <1>3 DEF SchedSeek, Forget
<1>5. /\ "top" \in SchedPcs /\ INVALID_JOB_ID \in Jobs \cup {INVALID_JOB_ID} /\ FALSE \in BOOLEAN
      /\ sched.policy \in Policy /\ NULL \in 0..QueueNum /\ NULL \in 0..TaskNum
      /\ "seek" \in SchedPcs /\ "seek" \in SeekPcs
  BY <1>1, SchedTypes, SchedSets
<1>6. t \in SchedRec
  BY <1>1, <1>3, <1>5, SchedUpdate
<1>7. sched' \in SchedRec
  BY <1>4, <1>5, <1>6, SchedUpdate
<1>8. sched'.pc = "seek" /\ sched'.job = INVALID_JOB_ID
  BY <1>1, <1>3, <1>4, <1>6 DEF SchedRec
<1>9. jobs' \in JobsRec /\ jobs'.alive = jobs.alive
  <2>1. CASE sched.job = INVALID_JOB_ID
    BY <1>1, <1>2, <2>1
  <2>2. CASE sched.job # INVALID_JOB_ID
    <3>1. sched.job \in Jobs /\ sched.job \notin TakenOf(jobs)
      BY <1>1, <2>2, SchedTypes DEF CountOK, HandFree, TakenOf
    <3> QED BY <1>1, <1>2, <2>2, <3>1, AssignJobReset DEF Edited
  <2> QED BY <2>1, <2>2
<1>10. SchedOK' /\ SessionOK' /\ \A q \in Queues : ~Handing(q)'
  BY <1>2, <1>5, <1>7, <1>8, <1>9, SeekFrame
<1>11. TasksOK'
  BY <1>2, TasksFrame
<1>12. QueuesOK'
  BY <1>2 DEF BaseInv, QueuesOK, Handing
<1>13. TypeOK'
  BY <1>1, <1>2, <1>9 DEF TypeOK, JobsRec
<1> QED BY <1>10, <1>11, <1>12, <1>13 DEF BaseInv

LEMMA PolicyKeeps == ASSUME BaseInv, SchedPolicy PROVE BaseInv'
<1> DEFINE p == gen_seek_policy(seek_off \div SEG)
<1>1. sched.pc \in SeekPcs /\ sched.pc = "seek"
  BY SchedSets DEF SchedPolicy
<1>2. TypeOK /\ \A q \in Queues : queue[q].used => queue[q].job_id \in Jobs
  BY <1>1, Seeking
<1>3. seek_off \div SEG \in Jobs
  BY <1>2, SeekJob DEF TypeOK
<1>4. p \in Policy
  BY <1>2, <1>3, PolicyFacts
<1>5. PICK pc \in {"seekstop", "policy"} : sched' = [sched EXCEPT !.policy = p, !.pc = pc]
  BY DEF SchedPolicy
<1>6. expect_status' \in {"IDLE", expect_status}
  BY DEF SchedPolicy
<1>7. UNCHANGED <<schedule_task_status, jobs, mq, queue, task, app, exe,
                     off, seek_off, ret, seeks, opens>>
  BY DEF SchedPolicy, shared, handle
<1> HIDE DEF p
<1>8. sched \in SchedRec /\ sched.job = INVALID_JOB_ID
  BY <1>1, Seeking
<1>9. sched' \in SchedRec
  <2>1. /\ pc \in SchedPcs /\ sched.job \in Jobs \cup {INVALID_JOB_ID} /\ FALSE \in BOOLEAN
        /\ NULL \in 0..QueueNum /\ NULL \in 0..TaskNum
    BY <1>8, SchedSets
  <2> QED BY <1>4, <1>5, <1>8, <2>1, SchedUpdate
<1>10. sched'.pc \in SeekPcs /\ sched'.job = INVALID_JOB_ID
  BY <1>5, <1>8, SchedSets DEF SchedRec
<1>11. SchedOK' /\ SessionOK' /\ \A q \in Queues : ~Handing(q)'
  BY <1>1, <1>6, <1>7, <1>9, <1>10, Seeking, SeekFrame
<1>12. TasksOK'
  BY <1>7, TasksFrame
<1>13. QueuesOK'
  BY <1>2, <1>7 DEF QueuesOK
<1>14. TypeOK'
  BY <1>2, <1>6, <1>7 DEF TypeOK
<1> QED BY <1>11, <1>12, <1>13, <1>14 DEF BaseInv

LEMMA SeekResetKeeps == ASSUME BaseInv, SchedSeekReset PROVE BaseInv'
<1>1. sched.pc \in SeekPcs /\ sched.pc = "seekstop"
  BY SchedSets DEF SchedSeekReset
<1>2. TypeOK /\ sched \in SchedRec /\ sched.job = INVALID_JOB_ID /\ jobs \in JobsRec /\ sched.policy \in Policy
  BY <1>1, Seeking
<1>3. seek_off \div SEG \in Jobs
  BY <1>2, SeekJob DEF TypeOK
<1>4. /\ queue' = [q \in Queues |-> queue_reset(queue[q])]
      /\ mq' = [mq EXCEPT !.cur_queue = NULL]
      /\ jobs' = ResetJobs(jobs, seek_off \div SEG)
      /\ expect_status' = "RUNNING"
      /\ sched' = [sched EXCEPT !.pc = "endseek"]
      /\ UNCHANGED <<schedule_task_status, task, app, exe, off, seek_off, ret, seeks, opens>>
  BY DEF SchedSeekReset, ClearCurrent, handle
<1>5. queue' \in [Queues -> QueueRec] /\ \A q \in Queues : ~queue'[q].used
  BY <1>2, <1>4, ResetTypes
<1>6. mq' \in MqRec
  <2>1. mq \in MqRec
    BY <1>2 DEF TypeOK, MqRec
  <2>2. NULL \in 0..QueueNum
    BY SchedSets
  <2> QED BY <1>4, <2>1, <2>2 DEF MqRec
<1>7. jobs' \in JobsRec /\ jobs'.alive = jobs.alive
  BY <1>2, <1>3, <1>4, ResetJobsFacts
<1>8. sched' \in SchedRec /\ sched'.pc \in SeekPcs /\ sched'.job = INVALID_JOB_ID
  BY <1>2, <1>4, SchedSets DEF SchedRec
<1>9. SchedOK' /\ SessionOK' /\ \A q \in Queues : ~Handing(q)'
  BY <1>1, <1>4, <1>7, <1>8, Seeking, SeekFrame
<1>10. TasksOK'
  BY <1>4, TasksFrame
<1>11. QueuesOK'
  BY <1>5 DEF QueuesOK
<1>12. TypeOK'
  BY <1>2, <1>4, <1>5, <1>6, <1>7 DEF TypeOK, QueueRec, JobsRec, MqRec
<1> QED BY <1>9, <1>10, <1>11, <1>12 DEF BaseInv


TaskRec == [status : {"IDLE", "RUNNING", "EXIT"}, expect : {"IDLE", "RUNNING"},
            queue : 0..QueueNum, job : Jobs \cup {INVALID_JOB_ID}]

LEMMA TaskTypes == TypeOK => task \in [Tasks -> TaskRec]
  BY DEF TypeOK, TaskRec

\* Stopping an executor only asks it: its task stays what it is.
KillAsks ==
  \E x \in 0..TaskNum :
    /\ sched' = [sched EXCEPT !.pc = "killed", !.task = x]
    /\ \/ task' = task
       \/ x \in Tasks /\ Running(x) /\ task' = [task EXCEPT ![x].expect = "IDLE"]
    /\ \A y \in Tasks : task[y].queue # NULL /\ queue[task[y].queue].job_id = Min(sched.policy.kill)
                          => x \in Tasks /\ task[x].queue # NULL
                                         /\ queue[task[x].queue].job_id = Min(sched.policy.kill)

LEMMA KillFacts == ASSUME SchedKill PROVE KillAsks
<1> DEFINE S == {x \in Tasks : /\ task[x].queue # NULL
                              /\ queue[task[x].queue].job_id = Min(sched.policy.kill)}
<1>1. CASE S = {}
  <2>1. sched' = [sched EXCEPT !.pc = "killed", !.task = NULL] /\ task' = task
    BY <1>1 DEF SchedKill
  <2>2. \A y \in Tasks : ~(task[y].queue # NULL /\ queue[task[y].queue].job_id = Min(sched.policy.kill))
    BY <1>1
  <2>3. NULL \in 0..TaskNum
    BY SchedSets
  <2> QED BY <2>1, <2>2, <2>3 DEF KillAsks
<1>2. CASE S # {}
  <2>1. PICK x : x = Min(S)
    OBVIOUS
  <2>2. S \subseteq Nat
    BY DEF Tasks
  <2>3. x \in S
    <3> HIDE DEF S
    <3> QED BY <1>2, <2>1, <2>2, MinIn
  <2>4. /\ sched' = [sched EXCEPT !.pc = "killed", !.task = x]
        /\ task' = IF task[x].status = "RUNNING" THEN [task EXCEPT ![x].expect = "IDLE"] ELSE task
    BY <1>2, <2>1 DEF SchedKill
  <2>5. x \in 0..TaskNum
    BY <2>3, SchedSets
  <2> QED BY <2>3, <2>4, <2>5 DEF KillAsks, Running
<1> QED BY <1>1, <1>2

\* The tasks after a kill differ in what is expected of one executor only.
LEMMA AskedTask ==
  ASSUME TypeOK, task' = task \/ \E x \in Tasks : task' = [task EXCEPT ![x].expect = "IDLE"]
  PROVE  /\ task' \in [Tasks -> TaskRec]
         /\ \A y \in Tasks : /\ task'[y].status = task[y].status /\ task'[y].queue = task[y].queue
                             /\ task'[y].job = task[y].job
<1>1. task \in [Tasks -> TaskRec]
  BY TaskTypes
<1> QED BY <1>1 DEF TaskRec

LEMMA KillKeeps == ASSUME BaseInv, SchedKill PROVE BaseInv'
<1>1. sched.pc \in SeekPcs /\ sched.pc = "policy"
  BY SchedSets DEF SchedKill
<1>2. TypeOK /\ sched \in SchedRec /\ sched.job = INVALID_JOB_ID
        /\ \A q \in Queues : queue[q].used => queue[q].job_id \in Jobs
  BY <1>1, Seeking
<1>3. PICK x \in 0..TaskNum :
        /\ sched' = [sched EXCEPT !.pc = "killed", !.task = x]
        /\ task' = task \/ (x \in Tasks /\ task' = [task EXCEPT ![x].expect = "IDLE"])
  BY KillFacts DEF KillAsks
<1>4. UNCHANGED <<schedule_task_status, jobs, mq, queue, expect_status, app, exe,
                     off, seek_off, ret, seeks, opens>>
  BY DEF SchedKill, shared, handle
<1>5. /\ task' \in [Tasks -> TaskRec]
      /\ \A y \in Tasks : /\ task'[y].status = task[y].status /\ task'[y].queue = task[y].queue
                          /\ task'[y].job = task[y].job
  BY <1>2, <1>3, AskedTask
<1>6. "killed" \in SchedPcs /\ "killed" \in SeekPcs
  BY SchedSets
<1>7. sched' \in SchedRec /\ sched'.pc \in SeekPcs /\ sched'.job = INVALID_JOB_ID
  BY <1>2, <1>3, <1>6 DEF SchedRec
<1>8. SchedOK' /\ SessionOK' /\ \A q \in Queues : ~Handing(q)'
  BY <1>1, <1>4, <1>7, Seeking, SeekFrame
<1>9. TasksOK'
  BY <1>4, <1>5 DEF BaseInv, TasksOK, Busy, Running
<1>10. QueuesOK'
  BY <1>2, <1>4 DEF QueuesOK
<1>11. TypeOK'
  BY <1>2, <1>4, <1>5 DEF TypeOK, TaskRec
<1> QED BY <1>8, <1>9, <1>10, <1>11 DEF BaseInv

LEMMA PolicyUpdate ==
  ASSUME NEW p \in Policy, NEW S
  PROVE  /\ [p EXCEPT !.kill = @ \ S] \in Policy /\ [p EXCEPT !.save = {}] \in Policy
         /\ [p EXCEPT !.new = @ \ S] \in Policy
<1>1. p.kill \ S \in SUBSET Int /\ p.new \ S \in SUBSET Jobs /\ {} \in SUBSET Nat
  BY DEF Policy
<1> QED BY <1>1 DEF Policy

LEMMA KilledKeeps == ASSUME BaseInv, SchedKilled PROVE BaseInv'
<1>1. sched.pc \in SeekPcs /\ sched.pc = "killed"
  BY SchedSets DEF SchedKilled
<1>2. TypeOK /\ sched \in SchedRec /\ sched.job = INVALID_JOB_ID /\ jobs \in JobsRec
        /\ sched.policy \in Policy /\ queue \in [Queues -> QueueRec]
        /\ \A q \in Queues : queue[q].used => queue[q].job_id \in Jobs
  BY <1>1, Seeking
<1>3. PICK j : j = Min(sched.policy.kill)
  OBVIOUS
<1>4. PICK q : q = get_one_queue(j)
  OBVIOUS
<1>5. /\ queue' = IF q = NULL THEN queue ELSE [queue EXCEPT ![q] = queue_reset(queue[q])]
      /\ jobs' = Reactive_Job(jobs, j)
      /\ sched' = [sched EXCEPT !.pc = "policy", !.task = NULL, !.policy.kill = @ \ {j}]
      /\ UNCHANGED <<schedule_task_status, mq, expect_status, task, app, exe,
                     off, seek_off, ret, seeks, opens>>
  BY <1>3, <1>4 DEF SchedKilled, handle
<1>6. PICK p : p = [sched.policy EXCEPT !.kill = @ \ {j}]
  OBVIOUS
<1>7. p \in Policy
  BY <1>2, <1>6, PolicyUpdate
<1>8. sched' = [sched EXCEPT !.pc = "policy", !.task = NULL, !.policy = p]
  BY <1>2, <1>5, <1>6 DEF SchedRec
<1>9. /\ "policy" \in SchedPcs /\ "policy" \in SeekPcs /\ INVALID_JOB_ID \in Jobs \cup {INVALID_JOB_ID}
      /\ NULL \in 0..QueueNum /\ NULL \in 0..TaskNum /\ FALSE \in BOOLEAN
  BY SchedSets
<1>10. sched' \in SchedRec
  BY <1>2, <1>7, <1>8, <1>9, SchedUpdate
<1>11. sched'.pc = "policy" /\ sched'.job = INVALID_JOB_ID
  BY <1>2, <1>8 DEF SchedRec
<1>12. jobs' \in JobsRec /\ jobs'.alive = jobs.alive
  BY <1>2, <1>5, ReactiveJob DEF Edited
<1>13. SchedOK' /\ SessionOK' /\ \A r \in Queues : ~Handing(r)'
  BY <1>1, <1>5, <1>9, <1>10, <1>11, <1>12, Seeking, SeekFrame
<1>14. q = NULL \/ q \in Queues
  BY <1>4, OneQueueFacts
<1>15. queue' \in [Queues -> QueueRec] /\ \A r \in Queues : queue'[r].used => queue'[r].job_id \in Jobs
  BY <1>2, <1>5, <1>14, ResetTypes
<1>16. TasksOK'
  BY <1>5, TasksFrame
<1>17. QueuesOK'
  BY <1>15 DEF QueuesOK
<1>18. TypeOK'
  BY <1>2, <1>5, <1>12, <1>15 DEF TypeOK, QueueRec, JobsRec
<1> QED BY <1>13, <1>16, <1>17, <1>18 DEF BaseInv

\* The queues of the jobs to save are read again from their start.
LEMMA SaveFacts ==
  ASSUME TypeOK, sched.policy \in Policy, SchedSave
  PROVE  /\ queue' \in [Queues -> QueueRec]
         /\ \A q \in Queues :
              \/ queue'[q] = queue[q]
              \/ /\ queue[q].job_id \in Jobs /\ queue[q].job_id \in sched.policy.save
                 /\ queue'[q] = [queue[q] EXCEPT !.read_pos = 0, !.used = TRUE]
<1> DEFINE S == {get_one_queue(j) : j \in sched.policy.save}
<1>1. queue' = [q \in Queues |-> IF q \in S THEN [queue[q] EXCEPT !.read_pos = 0, !.used = TRUE]
                                           ELSE queue[q]]
  BY DEF SchedSave
<1>2. queue \in [Queues -> QueueRec]
  BY QueueTypes
<1>3. ASSUME NEW q \in Queues, q \in S
      PROVE  queue[q].job_id \in Jobs /\ queue[q].job_id \in sched.policy.save
  <2>1. PICK j \in sched.policy.save : q = get_one_queue(j)
    BY <1>3
  <2>2. q # NULL
    BY DEF NULL, Queues
  <2>3. queue[q].job_id = j
    BY <2>1, <2>2, OneQueueFacts
  <2>4. j \in Nat
    BY DEF Policy
  <2>5. queue[q].job_id \in Jobs \cup {INVALID_JOB_ID}
    BY <1>2 DEF QueueRec
  <2>6. INVALID_JOB_ID \notin Nat
    BY DEF INVALID_JOB_ID
  <2> QED BY <2>1, <2>3, <2>4, <2>5, <2>6
<1>4. ASSUME NEW q \in Queues PROVE [queue[q] EXCEPT !.read_pos = 0, !.used = TRUE] \in QueueRec
  <2>1. PICK r : r = queue[q]
    OBVIOUS
  <2>2. r \in QueueRec /\ 0 \in Int
    BY <1>2, <2>1
  <2>3. [r EXCEPT !.read_pos = 0, !.used = TRUE] \in QueueRec
    BY <2>2 DEF QueueRec
  <2> QED BY <2>1, <2>3
<1> HIDE DEF S
<1> QED BY <1>1, <1>2, <1>3, <1>4

LEMMA SaveKeeps == ASSUME BaseInv, SchedSave PROVE BaseInv'
<1>1. sched.pc \in SeekPcs /\ sched.pc = "policy"
  BY SchedSets DEF SchedSave
<1>2. TypeOK /\ sched \in SchedRec /\ sched.job = INVALID_JOB_ID
        /\ sched.policy \in Policy /\ queue \in [Queues -> QueueRec]
        /\ \A q \in Queues : queue[q].used => queue[q].job_id \in Jobs
  BY <1>1, Seeking
<1>3. /\ sched' = [sched EXCEPT !.policy.save = {}]
      /\ UNCHANGED <<schedule_task_status, jobs, mq, expect_status, task, app, exe,
                     off, seek_off, ret, seeks, opens>>
  BY DEF SchedSave, handle
<1>4. PICK p : p = [sched.policy EXCEPT !.save = {}]
  OBVIOUS
<1>5. p \in Policy
  BY <1>2, <1>4, PolicyUpdate
<1>6. sched' = [sched EXCEPT !.policy = p]
  BY <1>2, <1>3, <1>4 DEF SchedRec
<1>7. sched' \in SchedRec
  BY <1>2, <1>5, <1>6 DEF SchedRec
<1>8. sched'.pc = "policy" /\ sched'.job = INVALID_JOB_ID
  BY <1>1, <1>2, <1>6 DEF SchedRec
<1>9. SchedOK' /\ SessionOK' /\ \A r \in Queues : ~Handing(r)'
  BY <1>1, <1>3, <1>7, <1>8, SchedSets, Seeking, SeekFrame
<1>10. queue' \in [Queues -> QueueRec] /\ \A r \in Queues : queue'[r].used => queue'[r].job_id \in Jobs
  BY <1>2, SaveFacts DEF QueueRec
<1>11. TasksOK'
  BY <1>3, TasksFrame
<1>12. QueuesOK'
  BY <1>10 DEF QueuesOK
<1>13. TypeOK'
  BY <1>2, <1>3, <1>10 DEF TypeOK, QueueRec
<1> QED BY <1>9, <1>11, <1>12, <1>13 DEF BaseInv


\* A job that a seek brings back: given out at once, or waiting.
NewGives(j, q, x) ==
  /\ q \in Queues /\ ~queue[q].used /\ x \in Tasks /\ task[x].status = "IDLE"
  /\ queue' = [queue EXCEPT ![q] = ForJob(Taken(queue[q]), j)]
  /\ jobs' = Assign_Job(Reactive_Job(jobs, j), j)
  /\ task' = [task EXCEPT ![x] = Assigned(q, j)]
NewWaits(j) == jobs' = Reactive_Job(jobs, j) /\ queue' = queue /\ task' = task

LEMMA NewFacts ==
  ASSUME SchedNew, sched.policy \in Policy, sched \in SchedRec
  PROVE  \E j \in Jobs :
           /\ j \in sched.policy.new
           /\ sched' = [sched EXCEPT !.policy = [sched.policy EXCEPT !.new = @ \ {j}]]
           /\ NewWaits(j) \/ \E q \in Queues, x \in Tasks : NewGives(j, q, x)
<1>1. PICK j : j = Min(sched.policy.new)
  OBVIOUS
<1>2. sched.policy.new \subseteq Jobs /\ sched.policy.new # {}
  BY DEF Policy, SchedNew
<1>3. j \in sched.policy.new /\ j \in Jobs
  <2>1. PICK N : N = sched.policy.new
    OBVIOUS
  <2>2. N \subseteq Nat /\ N # {}
    BY <1>2, <2>1, JobSizes
  <2>3. Min(N) \in N
    BY <2>2, MinIn
  <2> QED BY <1>1, <1>2, <2>1, <2>3
<1>4. sched' = [sched EXCEPT !.policy = [sched.policy EXCEPT !.new = @ \ {j}]]
  BY <1>1 DEF SchedNew, SchedRec
<1>5. CASE FirstIdle # NULL /\ FirstUnused # NULL
  <2>1. NewGives(j, FirstUnused, FirstIdle)
    BY <1>1, <1>5, FirstIdleFacts, FirstUnusedFacts DEF SchedNew, NewGives
  <2>2. FirstUnused \in Queues /\ FirstIdle \in Tasks
    BY <2>1 DEF NewGives
  <2> QED BY <1>3, <1>4, <2>1, <2>2
<1>6. CASE ~(FirstIdle # NULL /\ FirstUnused # NULL)
  <2>1. NewWaits(j)
    BY <1>1, <1>6 DEF SchedNew, NewWaits
  <2> QED BY <1>3, <1>4, <2>1
<1> QED BY <1>5, <1>6

LEMMA NewKeeps == ASSUME BaseInv, SchedNew PROVE BaseInv'
<1>1. sched.pc \in SeekPcs /\ sched.pc = "policy"
  BY SchedSets DEF SchedNew
<1>2. TypeOK /\ sched \in SchedRec /\ sched.job = INVALID_JOB_ID /\ jobs \in JobsRec
        /\ sched.policy \in Policy /\ queue \in [Queues -> QueueRec]
        /\ \A q \in Queues : queue[q].used => queue[q].job_id \in Jobs
  BY <1>1, Seeking
<1>3. PICK j \in Jobs :
        /\ sched' = [sched EXCEPT !.policy = [sched.policy EXCEPT !.new = @ \ {j}]]
        /\ NewWaits(j) \/ \E q \in Queues, x \in Tasks : NewGives(j, q, x)
  BY <1>2, NewFacts
<1>4. UNCHANGED <<schedule_task_status, mq, expect_status, app, exe,
                     off, seek_off, ret, seeks, opens>>
  BY DEF SchedNew, handle
<1>5. PICK p : p = [sched.policy EXCEPT !.new = @ \ {j}]
  OBVIOUS
<1>6. p \in Policy
  BY <1>2, <1>5, PolicyUpdate
<1>7. sched' \in SchedRec
  BY <1>2, <1>3, <1>5, <1>6 DEF SchedRec
<1>8. sched'.pc = "policy" /\ sched'.job = INVALID_JOB_ID
  BY <1>1, <1>2, <1>3, <1>5 DEF SchedRec
<1>9. /\ Reactive_Job(jobs, j) \in JobsRec /\ Reactive_Job(jobs, j).alive = jobs.alive
  BY <1>2, ReactiveJob DEF Edited
<1>10. ASSUME jobs' \in JobsRec, jobs'.alive = jobs.alive
       PROVE  SchedOK' /\ SessionOK'
  BY <1>1, <1>4, <1>7, <1>8, <1>10, SchedSets, Seeking, SeekFrame
<1>11. CASE NewWaits(j)
  <2>1. jobs' \in JobsRec /\ jobs'.alive = jobs.alive /\ queue' = queue /\ task' = task
    BY <1>9, <1>11 DEF NewWaits
  <2>2. TypeOK'
    BY <1>2, <1>4, <2>1 DEF TypeOK, JobsRec
  <2>3. TasksOK' /\ QueuesOK'
    BY <1>2, <1>4, <2>1, TasksFrame DEF QueuesOK
  <2> QED BY <1>10, <2>1, <2>2, <2>3 DEF BaseInv
<1>12. ASSUME NEW q \in Queues, NEW x \in Tasks, NewGives(j, q, x) PROVE BaseInv'
  <2>1. jobs' \in JobsRec /\ jobs'.alive = jobs.alive
    BY <1>9, <1>12, AssignJob DEF NewGives, Edited
  <2>2. Taken(queue[q]) \in QueueRec
    BY <1>2, TakenTypes
  <2>3. ForJob(Taken(queue[q]), j) \in QueueRec /\ ForJob(Taken(queue[q]), j).job_id = j
    <3>1. PICK r : r = Taken(queue[q])
      OBVIOUS
    <3>2. ForJob(r, j) \in QueueRec /\ ForJob(r, j).job_id = j
      BY <2>2, <3>1, TakenTypes
    <3> QED BY <3>1, <3>2
  <2>4. queue' \in [Queues -> QueueRec] /\ \A r \in Queues : queue'[r].used => queue'[r].job_id \in Jobs
    BY <1>2, <1>12, <2>3 DEF NewGives
  <2>5. TasksOK' /\ task' \in [Tasks -> TaskRec]
    BY <1>4, <1>12, GivenTask DEF NewGives, TaskRec
  <2>6. QueuesOK'
    BY <2>4 DEF QueuesOK
  <2>7. TypeOK'
    BY <1>2, <1>4, <2>1, <2>4, <2>5 DEF TypeOK, JobsRec, QueueRec, TaskRec
  <2> QED BY <1>10, <2>1, <2>5, <2>6, <2>7 DEF BaseInv
<1> QED BY <1>3, <1>11, <1>12

LEMMA SchedBase == ASSUME BaseInv, CountOK, SchedNext PROVE BaseInv'
  BY SchedQuiet, PassKeeps, TakeKeeps, AssignKeeps, BeginSeekKeeps, PolicyKeeps, SeekResetKeeps,
     KillKeeps, KilledKeeps, SaveKeeps, NewKeeps DEF SchedNext

-----------------------------------------------------------------------------
(* The executors' steps.                                                   *)

ExeRec == [pc : {"poll", "isrun", "setidle", "recv", "done", "complete", "count", "leave", "exited"},
           total : 0..SEG, job : Jobs \cup {INVALID_JOB_ID}, num : Int]

LEMMA ExeTypes == TypeOK => exe \in [Tasks -> ExeRec]
  BY DEF TypeOK, ExeRec

\* What a step of an executor leaves alone.
LEMMA ExeFrame ==
  ASSUME BaseInv, UNCHANGED <<schedule_task_status, app, sched, seeks, opens>>,
         jobs'.alive = jobs.alive, expect_status' = expect_status,
         \A y \in Tasks : Running(y)' => Running(y),
         \A y \in Tasks : task[y].status = "IDLE" => task'[y].status = "IDLE"
  PROVE  SchedOK' /\ SessionOK'
<1>1. SchedOK'
  BY DEF BaseInv, SchedOK
<1>2. SessionOK'
  BY DEF BaseInv, SessionOK, Leaving
<1> QED BY <1>1, <1>2


\* An executor's locals after a step.
LEMMA ExeMoves ==
  ASSUME TypeOK, NEW x \in Tasks, NEW r \in ExeRec, exe' = [exe EXCEPT ![x] = r]
  PROVE  /\ exe' \in [Tasks -> ExeRec] /\ exe'[x] = r
         /\ \A y \in Tasks \ {x} : exe'[y] = exe[y]
  BY ExeTypes

LEMMA ExeSteps ==
  ASSUME TypeOK, NEW x \in Tasks,
         NEW pc \in {"poll", "isrun", "setidle", "recv", "done", "complete", "count", "leave", "exited"},
         ExeStep(x, pc)
  PROVE  /\ exe' \in [Tasks -> ExeRec] /\ exe'[x].pc = pc
         /\ exe'[x].total = exe[x].total /\ exe'[x].job = exe[x].job /\ exe'[x].num = exe[x].num
         /\ \A y \in Tasks \ {x} : exe'[y] = exe[y]
<1>1. PICK r : r = [exe[x] EXCEPT !.pc = pc]
  OBVIOUS
<1>2. exe[x] \in ExeRec
  BY ExeTypes
<1>3. r \in ExeRec /\ r.pc = pc /\ r.total = exe[x].total /\ r.job = exe[x].job /\ r.num = exe[x].num
  BY <1>1, <1>2 DEF ExeRec
<1>4. exe' = [exe EXCEPT ![x] = r]
  BY <1>1, ExeTypes DEF ExeStep
<1> QED BY <1>3, <1>4, ExeMoves

LEMMA ExeQuiet ==
  ASSUME BaseInv, NEW x \in Tasks,
         ExePoll(x) \/ ExeIsRunning(x) \/ ExeStopped(x) \/ ExeFault(x)
  PROVE  BaseInv'
<1>1. TypeOK /\ task \in [Tasks -> TaskRec]
  BY TaskTypes DEF BaseInv
<1>2. /\ UNCHANGED <<schedule_task_status, jobs, mq, queue, expect_status, task, app, sched,
                     off, seek_off, ret, seeks, opens>>
      /\ exe[x].pc \in {"poll", "isrun", "recv"}
  BY DEF ExePoll, ExeIsRunning, ExeStopped, ExeFault, shared, handle
<1>3. PICK pc \in {"isrun", "setidle", "done"} : ExeStep(x, pc) /\ (pc = "done" => Running(x))
  <2>1. CASE ExePoll(x)
    BY <2>1 DEF ExePoll
  <2>2. CASE ExeIsRunning(x)
    BY <2>2 DEF ExeIsRunning, Running
  <2>3. CASE ExeStopped(x) \/ ExeFault(x)
    <3>1. exe[x].pc = "recv" /\ ExeStep(x, "done")
      BY <2>3 DEF ExeStopped, ExeFault
    <3> QED BY <3>1 DEF BaseInv, TasksOK, Busy
  <2> QED BY <2>1, <2>2, <2>3
<1>4. /\ exe' \in [Tasks -> ExeRec] /\ exe'[x].pc = pc
      /\ \A y \in Tasks \ {x} : exe'[y] = exe[y]
  BY <1>1, <1>3, ExeSteps
<1>5. SchedOK' /\ SessionOK'
  BY <1>1, <1>2, ExeFrame DEF Running
<1>6. TasksOK'
  BY <1>2, <1>3, <1>4 DEF BaseInv, TasksOK, Busy, Running
<1>7. QueuesOK'
  BY <1>2 DEF BaseInv, QueuesOK, Handing
<1>8. TypeOK'
  BY <1>1, <1>2, <1>4 DEF TypeOK, ExeRec
<1> QED BY <1>5, <1>6, <1>7, <1>8 DEF BaseInv

LEMMA StartKeeps == ASSUME BaseInv, NEW x \in Tasks, ExeStart(x) PROVE BaseInv'
<1>1. TypeOK /\ task \in [Tasks -> TaskRec] /\ exe[x] \in ExeRec
  BY TaskTypes, ExeTypes DEF BaseInv
<1>2. /\ UNCHANGED <<schedule_task_status, jobs, mq, queue, expect_status, task, app, sched,
                     off, seek_off, ret, seeks, opens>>
      /\ Running(x)
  BY DEF ExeStart, Running, shared, handle
<1>3. PICK r : r = [exe[x] EXCEPT !.pc = "recv", !.total = 0]
  OBVIOUS
<1>4. 0 \in 0..SEG
  BY ConstantsAssumption
<1>5. r \in ExeRec /\ r.pc = "recv" /\ r.total = 0
  BY <1>1, <1>3, <1>4 DEF ExeRec
<1>6. exe' = [exe EXCEPT ![x] = r]
  BY <1>1, <1>3, ExeTypes DEF ExeStart
<1>7. /\ exe' \in [Tasks -> ExeRec] /\ exe'[x] = r /\ \A y \in Tasks \ {x} : exe'[y] = exe[y]
  BY <1>1, <1>5, <1>6, ExeMoves
<1>8. SchedOK' /\ SessionOK'
  BY <1>1, <1>2, ExeFrame DEF Running
<1>9. 0 <= JobSize(task[x].job)
  BY <1>2, JobSizes DEF BaseInv, TasksOK
<1>10. TasksOK'
  BY <1>2, <1>5, <1>7, <1>9 DEF BaseInv, TasksOK, Busy, Running
<1>11. QueuesOK'
  BY <1>2 DEF BaseInv, QueuesOK, Handing
<1>12. TypeOK'
  BY <1>1, <1>2, <1>7 DEF TypeOK, ExeRec
<1> QED BY <1>8, <1>10, <1>11, <1>12 DEF BaseInv

\* Giving up a task, done or not wanted.
LEMMA IdleKeeps == ASSUME BaseInv, NEW x \in Tasks, ExeSetIdle(x) \/ ExeLeave(x) PROVE BaseInv'
<1>1. TypeOK /\ task \in [Tasks -> TaskRec] /\ exe[x] \in ExeRec
  BY TaskTypes, ExeTypes DEF BaseInv
<1>2. UNCHANGED <<schedule_task_status, jobs, mq, queue, expect_status, app, sched,
                     off, seek_off, ret, seeks, opens>>
  BY DEF ExeSetIdle, ExeLeave, shared, handle
<1>3. /\ task' \in [Tasks -> TaskRec] /\ task'[x].status = "IDLE"
      /\ \A y \in Tasks \ {x} : task'[y] = task[y]
  <2>1. NULL \in 0..QueueNum
    BY SchedSets
  <2>2. CASE ExeSetIdle(x)
    BY <1>1, <2>2 DEF ExeSetIdle, TaskRec
  <2>3. CASE ExeLeave(x)
    <3>1. PICK t : t = [task[x] EXCEPT !.queue = NULL, !.status = "IDLE"]
      OBVIOUS
    <3>2. t \in TaskRec /\ t.status = "IDLE"
      BY <1>1, <2>1, <3>1 DEF TaskRec
    <3>3. task' = [task EXCEPT ![x] = t]
      BY <1>1, <2>3, <3>1 DEF ExeLeave
    <3> QED BY <1>1, <3>2, <3>3
  <2> QED BY <2>2, <2>3
<1>4. /\ exe' \in [Tasks -> ExeRec] /\ exe'[x].pc = "poll"
      /\ \A y \in Tasks \ {x} : exe'[y] = exe[y]
  <2>1. CASE ExeSetIdle(x)
    BY <1>1, <2>1, ExeSteps DEF ExeSetIdle
  <2>2. CASE ExeLeave(x)
    <3>1. PICK r : r = [pc |-> "poll", total |-> 0, job |-> INVALID_JOB_ID, num |-> 0]
      OBVIOUS
    <3>2. r \in ExeRec /\ r.pc = "poll"
      BY <3>1, ConstantsAssumption DEF ExeRec
    <3> QED BY <1>1, <2>2, <3>1, <3>2, ExeMoves DEF ExeLeave
  <2> QED BY <2>1, <2>2
<1>5. SchedOK' /\ SessionOK'
  BY <1>1, <1>2, <1>3, ExeFrame DEF Running
<1>6. TasksOK'
  BY <1>3, <1>4 DEF BaseInv, TasksOK, Busy, Running
<1>7. QueuesOK'
  BY <1>2 DEF BaseInv, QueuesOK, Handing
<1>8. TypeOK'
  BY <1>1, <1>2, <1>3, <1>4 DEF TypeOK, ExeRec, TaskRec
<1> QED BY <1>5, <1>6, <1>7, <1>8 DEF BaseInv

LEMMA ExitKeeps == ASSUME BaseInv, NEW x \in Tasks, ExeExit(x) PROVE BaseInv'
<1>1. TypeOK /\ task \in [Tasks -> TaskRec]
  BY TaskTypes DEF BaseInv
<1>2. UNCHANGED <<schedule_task_status, jobs, mq, queue, expect_status, app, sched,
                     off, seek_off, ret, seeks, opens>> /\ expect_status = "EXIT"
  BY DEF ExeExit, shared, handle
<1>3. /\ task' \in [Tasks -> TaskRec] /\ task'[x].status = "EXIT"
      /\ \A y \in Tasks \ {x} : task'[y] = task[y]
  BY <1>1 DEF ExeExit, TaskRec
<1>4. /\ exe' \in [Tasks -> ExeRec] /\ exe'[x].pc = "exited"
      /\ \A y \in Tasks \ {x} : exe'[y] = exe[y]
  BY <1>1, ExeSteps DEF ExeExit
<1>5. sched.pc \notin {"taken", "assign"}
  BY <1>2 DEF BaseInv, SessionOK, Leaving
<1>6. SchedOK' /\ SessionOK'
  <2>1. SchedOK'
    BY <1>2, <1>5 DEF BaseInv, SchedOK
  <2>2. \A y \in Tasks : Running(y)' => Running(y)
    BY <1>3 DEF Running
  <2> QED BY <1>2, <2>1, <2>2 DEF BaseInv, SessionOK, Leaving
<1>7. TasksOK'
  BY <1>3, <1>4 DEF BaseInv, TasksOK, Busy, Running
<1>8. QueuesOK'
  BY <1>2 DEF BaseInv, QueuesOK, Handing
<1>9. TypeOK'
  BY <1>1, <1>2, <1>3, <1>4 DEF TypeOK, ExeRec, TaskRec
<1> QED BY <1>6, <1>7, <1>8, <1>9 DEF BaseInv


\* Data arrives: the write position and the data of the task's queue change.
LEMMA RecvFacts ==
  ASSUME BaseInv, NEW x \in Tasks, ExeRecv(x)
  PROVE  /\ Running(x)
         /\ queue' \in [Queues -> QueueRec]
         /\ \A q \in Queues : /\ queue'[q].used = queue[q].used /\ queue'[q].job_id = queue[q].job_id
                              /\ queue'[q].complete = queue[q].complete
         /\ exe' \in [Tasks -> ExeRec] /\ exe'[x].pc \in {"recv", "done"}
         /\ exe'[x].total <= JobSize(task[x].job) /\ exe'[x].job = exe[x].job /\ exe'[x].num = exe[x].num
         /\ \A y \in Tasks \ {x} : exe'[y] = exe[y]
<1>1. TypeOK /\ queue \in [Queues -> QueueRec] /\ exe[x] \in ExeRec
  BY QueueTypes, ExeTypes DEF BaseInv
<1>2. Running(x) /\ task[x].queue \in Queues /\ task[x].job \in Jobs
        /\ exe[x].total <= JobSize(task[x].job)
  BY DEF BaseInv, TasksOK, Busy, ExeRecv
<1> DEFINE b == task[x].queue
           q == queue[b]
           size == JobSize(task[x].job)
           off0 == JobOffset(task[x].job)
<1>6. size \in 1..SEG /\ exe[x].total \in Nat /\ q \in QueueRec /\ b \in Queues /\ SEG \in Nat
  BY <1>1, <1>2, JobSizes, ConstantsAssumption DEF ExeRec
<1>8. off0 \in Int
  BY <1>2, JobSizes, ConstantsAssumption DEF JobOffset
<1>9. PICK n \in 1..(size - exe[x].total) :
        /\ queue' = IF q.write_pos + n > SEG THEN queue
                    ELSE [queue EXCEPT ![b] =
                           [q EXCEPT !.write_pos = @ + n,
                                     !.data = [i \in DOMAIN @ |->
                                       IF i \in q.write_pos..(q.write_pos + n - 1)
                                       THEN off0 + exe[x].total - q.write_pos + i ELSE @[i]]]]
        /\ exe' = [exe EXCEPT ![x].total = exe[x].total + n,
                     ![x].pc = IF exe[x].total + n = size THEN "done" ELSE "recv"]
  BY DEF ExeRecv
<1>a. exe[x].total <= size /\ queue[b] = q
  BY <1>2
<1> HIDE DEF b, q, size, off0
<1>10. n \in Nat /\ exe[x].total + n \in 0..SEG /\ exe[x].total + n <= size
  BY <1>6, <1>9
<1>11. PICK pc \in {"done", "recv"} : exe' = [exe EXCEPT ![x].total = exe[x].total + n, ![x].pc = pc]
  BY <1>9
<1>12. PICK r : r = [exe[x] EXCEPT !.total = exe[x].total + n, !.pc = pc]
  OBVIOUS
<1>13. r \in ExeRec /\ r.total = exe[x].total + n /\ r.pc = pc /\ r.job = exe[x].job /\ r.num = exe[x].num
  BY <1>1, <1>10, <1>12 DEF ExeRec
<1>14. exe' = [exe EXCEPT ![x] = r]
  BY <1>1, <1>11, <1>12, ExeTypes
<1>15. /\ exe' \in [Tasks -> ExeRec] /\ exe'[x] = r /\ \A y \in Tasks \ {x} : exe'[y] = exe[y]
  BY <1>1, <1>13, <1>14, ExeMoves
<1>16. CASE q.write_pos + n > SEG
  <2>1. queue' = queue
    BY <1>9, <1>16
  <2> QED BY <1>1, <1>2, <1>10, <1>13, <1>15, <2>1 DEF size
<1>17. CASE ~(q.write_pos + n > SEG)
  <2>1. PICK w : w = q.write_pos + n
    OBVIOUS
  <2>2. w \in 0..SEG /\ q.write_pos \in Int /\ q.data \in [0..(SEG - 1) -> Int]
    BY <1>6, <1>10, <1>17, <2>1 DEF QueueRec
  <2>3. PICK d : d = [i \in DOMAIN q.data |-> IF i \in q.write_pos..(q.write_pos + n - 1)
                                             THEN off0 + exe[x].total - q.write_pos + i ELSE q.data[i]]
    OBVIOUS
  <2>4. d \in [0..(SEG - 1) -> Int]
    <3>1. \A i \in 0..(SEG - 1) : off0 + exe[x].total - q.write_pos + i \in Int /\ q.data[i] \in Int
      <4>1. \A i \in 0..(SEG - 1) : q.data[i] \in Int
        BY <2>2
      <4>2. PICK z \in Int : z = off0 + exe[x].total - q.write_pos
        BY <1>6, <1>8, <2>2
      <4>3. \A i \in 0..(SEG - 1) : z + i \in Int
        BY <1>6
      <4> QED BY <4>1, <4>2, <4>3
    <3>2. DOMAIN q.data = 0..(SEG - 1)
      BY <2>2
    <3>3. \A i \in 0..(SEG - 1) : d[i] \in Int
      BY <2>3, <3>1, <3>2
    <3>4. d = [i \in 0..(SEG - 1) |-> d[i]]
      BY <2>3, <3>2
    <3> QED BY <3>3, <3>4
  <2>5. PICK s : s = [q EXCEPT !.write_pos = w, !.data = d]
    OBVIOUS
  <2>6. s \in QueueRec /\ s.used = q.used /\ s.job_id = q.job_id /\ s.complete = q.complete
    BY <1>6, <2>2, <2>4, <2>5 DEF QueueRec
  <2>7. queue' = [queue EXCEPT ![b] = s]
    BY <1>9, <1>17, <2>1, <2>3, <2>5
  <2>8. /\ queue' \in [Queues -> QueueRec]
        /\ \A c \in Queues : /\ queue'[c].used = queue[c].used /\ queue'[c].job_id = queue[c].job_id
                             /\ queue'[c].complete = queue[c].complete
    BY <1>1, <1>a, <1>6, <2>6, <2>7
  <2> QED BY <1>2, <1>10, <1>13, <1>15, <2>8 DEF size
<1> QED BY <1>16, <1>17

LEMMA RecvKeeps == ASSUME BaseInv, NEW x \in Tasks, ExeRecv(x) PROVE BaseInv'
<1>1. TypeOK
  BY DEF BaseInv
<1>2. UNCHANGED <<schedule_task_status, jobs, mq, expect_status, task, app, sched,
                     off, seek_off, ret, seeks, opens>>
  BY DEF ExeRecv, handle
<1>3. SchedOK' /\ SessionOK'
  BY <1>2, ExeFrame DEF Running
<1>4. TasksOK'
  BY <1>2, RecvFacts DEF BaseInv, TasksOK, Busy, Running
<1>5. QueuesOK'
  BY <1>2, RecvFacts DEF BaseInv, QueuesOK, Handing
<1>6. TypeOK'
  BY <1>1, <1>2, RecvFacts DEF TypeOK, ExeRec, QueueRec
<1> QED BY <1>3, <1>4, <1>5, <1>6 DEF BaseInv

\* download_done finds the job of its queue, if there is one.
LEMMA DoneFacts ==
  ASSUME BaseInv, NEW x \in Tasks, ExeDone(x)
  PROVE  /\ Running(x) /\ task[x].queue \in Queues
         /\ queue' \in [Queues -> QueueRec]
         /\ \A q \in Queues : queue'[q].used = queue[q].used /\ queue'[q].job_id = queue[q].job_id
         /\ \A q \in Queues \ {task[x].queue} : queue'[q] = queue[q]
         /\ exe' \in [Tasks -> ExeRec] /\ exe'[x].job = queue[task[x].queue].job_id
         /\ exe'[x].pc = IF queue[task[x].queue].job_id \in Jobs THEN "complete" ELSE "leave"
         /\ \A y \in Tasks \ {x} : exe'[y] = exe[y]
<1>1. TypeOK /\ queue \in [Queues -> QueueRec] /\ exe[x] \in ExeRec
  BY QueueTypes, ExeTypes DEF BaseInv
<1>2. Running(x) /\ task[x].queue \in Queues
  BY DEF BaseInv, TasksOK, Busy, ExeDone
<1>3. PICK b : b = task[x].queue
  OBVIOUS
<1>4. PICK j : j = queue[b].job_id
  OBVIOUS
<1>5. PICK pc : pc = IF j \in Jobs THEN "complete" ELSE "leave"
  OBVIOUS
<1>6. queue' = [queue EXCEPT ![b].complete = TRUE]
  BY <1>3 DEF ExeDone
<1>7. exe' = [exe EXCEPT ![x].job = j, ![x].pc = pc]
  BY <1>3, <1>4, <1>5 DEF ExeDone
<1>8. PICK r : r = [exe[x] EXCEPT !.job = j, !.pc = pc]
  OBVIOUS
<1>9. j \in Jobs \cup {INVALID_JOB_ID} /\ pc \in {"complete", "leave"}
  BY <1>1, <1>2, <1>3, <1>4, <1>5 DEF QueueRec
<1>10. r \in ExeRec /\ r.job = j /\ r.pc = pc
  BY <1>1, <1>8, <1>9 DEF ExeRec
<1>11. exe' = [exe EXCEPT ![x] = r]
  BY <1>1, <1>7, <1>8, ExeTypes
<1>12. /\ exe' \in [Tasks -> ExeRec] /\ exe'[x] = r /\ \A y \in Tasks \ {x} : exe'[y] = exe[y]
  BY <1>1, <1>10, <1>11, ExeMoves
<1>13. /\ queue' \in [Queues -> QueueRec]
       /\ \A q \in Queues : queue'[q].used = queue[q].used /\ queue'[q].job_id = queue[q].job_id
       /\ \A q \in Queues \ {b} : queue'[q] = queue[q]
  <2>1. PICK s : s = [queue[b] EXCEPT !.complete = TRUE]
    OBVIOUS
  <2>2. s \in QueueRec /\ s.used = queue[b].used /\ s.job_id = queue[b].job_id
    <3>1. PICK r0 : r0 = queue[b]
      OBVIOUS
    <3>2. r0 \in QueueRec /\ s = [r0 EXCEPT !.complete = TRUE]
      BY <1>1, <1>2, <1>3, <2>1, <3>1
    <3>3. s \in QueueRec /\ s.used = r0.used /\ s.job_id = r0.job_id
      BY <3>2 DEF QueueRec
    <3> QED BY <3>1, <3>3
  <2>3. queue' = [queue EXCEPT ![b] = s]
    BY <1>6, <2>1
  <2> QED BY <1>1, <1>2, <1>3, <2>2, <2>3
<1> QED BY <1>2, <1>3, <1>4, <1>5, <1>10, <1>12, <1>13

LEMMA DoneKeeps == ASSUME BaseInv, NEW x \in Tasks, ExeDone(x) PROVE BaseInv'
<1>1. TypeOK
  BY DEF BaseInv
<1>2. UNCHANGED <<schedule_task_status, jobs, mq, expect_status, task, app, sched,
                     off, seek_off, ret, seeks, opens>>
  BY DEF ExeDone, handle
<1>3. SchedOK' /\ SessionOK'
  BY <1>2, ExeFrame DEF Running
<1>4. TasksOK'
  BY <1>2, DoneFacts DEF BaseInv, TasksOK, Busy, Running
<1>5. QueuesOK'
  BY <1>2, DoneFacts DEF BaseInv, QueuesOK, Handing
<1>6. TypeOK'
  BY <1>1, <1>2, DoneFacts DEF TypeOK, ExeRec, QueueRec
<1> QED BY <1>3, <1>4, <1>5, <1>6 DEF BaseInv

\* Complete_Job in its two halves.
LEMMA CompleteFacts ==
  ASSUME BaseInv, NEW x \in Tasks, ExeComplete(x)
  PROVE  /\ Running(x) /\ exe[x].job \in Jobs
         /\ exe' \in [Tasks -> ExeRec] /\ exe'[x].job = exe[x].job
         /\ \A y \in Tasks \ {x} : exe'[y] = exe[y]
         /\ \/ jobs.complete[exe[x].job] /\ jobs' = jobs /\ exe'[x].pc = "leave"
            \/ /\ ~jobs.complete[exe[x].job]
               /\ exe'[x].pc = "count" /\ exe'[x].num = jobs.complete_job_num
               /\ jobs' \in JobsRec /\ jobs'.alive = jobs.alive
               /\ jobs'.assigned = jobs.assigned /\ jobs'.assigned_job_num = jobs.assigned_job_num
               /\ jobs'.complete = [jobs.complete EXCEPT ![exe[x].job] = TRUE]
               /\ jobs'.complete_job_num = jobs.complete_job_num /\ jobs'.finish_flag = jobs.finish_flag
<1>1. TypeOK /\ jobs \in JobsRec /\ exe[x] \in ExeRec
  BY JobsTypes, ExeTypes DEF BaseInv
<1>2. Running(x) /\ exe[x].job \in Jobs
  BY DEF BaseInv, TasksOK, Busy, ExeComplete
<1>3. CASE jobs.complete[exe[x].job]
  <2>1. ExeStep(x, "leave") /\ jobs' = jobs
    BY <1>3 DEF ExeComplete
  <2> QED BY <1>1, <1>2, <1>3, <2>1, ExeSteps
<1>4. CASE ~jobs.complete[exe[x].job]
  <2>1. PICK j : j = exe[x].job
    OBVIOUS
  <2>2. PICK n : n = jobs.complete_job_num
    OBVIOUS
  <2>3. /\ jobs' = [jobs EXCEPT !.complete[j] = TRUE]
        /\ exe' = [exe EXCEPT ![x].pc = "count", ![x].num = n]
    BY <1>4, <2>1, <2>2 DEF ExeComplete
  <2>4. PICK r : r = [exe[x] EXCEPT !.pc = "count", !.num = n]
    OBVIOUS
  <2>5. r \in ExeRec /\ r.pc = "count" /\ r.num = n /\ r.job = exe[x].job
    BY <1>1, <2>2, <2>4 DEF ExeRec, JobsRec
  <2>6. exe' = [exe EXCEPT ![x] = r]
    BY <1>1, <2>3, <2>4, ExeTypes
  <2>7. /\ exe' \in [Tasks -> ExeRec] /\ exe'[x] = r /\ \A y \in Tasks \ {x} : exe'[y] = exe[y]
    BY <1>1, <2>5, <2>6, ExeMoves
  <2>8. PICK c : c = [jobs.complete EXCEPT ![j] = TRUE]
    OBVIOUS
  <2>9. c \in [Jobs -> BOOLEAN] /\ jobs' = [jobs EXCEPT !.complete = c]
    BY <1>1, <1>2, <2>1, <2>3, <2>8 DEF JobsRec
  <2>10. /\ jobs' \in JobsRec /\ jobs'.alive = jobs.alive
         /\ jobs'.assigned = jobs.assigned /\ jobs'.assigned_job_num = jobs.assigned_job_num
         /\ jobs'.complete = c
         /\ jobs'.complete_job_num = jobs.complete_job_num /\ jobs'.finish_flag = jobs.finish_flag
    BY <1>1, <2>9 DEF JobsRec
  <2> QED BY <1>2, <1>4, <2>1, <2>2, <2>5, <2>7, <2>8, <2>10
<1> QED BY <1>3, <1>4

LEMMA CountFacts ==
  ASSUME BaseInv, NEW x \in Tasks, ExeCount(x)
  PROVE  /\ Running(x)
         /\ exe' \in [Tasks -> ExeRec] /\ exe'[x].pc = "leave"
         /\ \A y \in Tasks \ {x} : exe'[y] = exe[y]
         /\ jobs' \in JobsRec /\ jobs'.alive = jobs.alive
         /\ jobs'.assigned = jobs.assigned /\ jobs'.assigned_job_num = jobs.assigned_job_num
         /\ jobs'.complete = jobs.complete
         /\ jobs'.complete_job_num = exe[x].num + 1
         /\ jobs'.finish_flag = (jobs.finish_flag \/ exe[x].num + 1 = JobTotal)
<1>1. TypeOK /\ jobs \in JobsRec /\ exe[x] \in ExeRec
  BY JobsTypes, ExeTypes DEF BaseInv
<1>2. Running(x)
  BY DEF BaseInv, TasksOK, Busy, ExeCount
<1>3. PICK n : n = exe[x].num + 1
  OBVIOUS
<1>4. n \in Int
  BY <1>1, <1>3 DEF ExeRec
<1>5. PICK f \in BOOLEAN : f = (jobs.finish_flag \/ n = JobTotal)
  OBVIOUS
<1>6. jobs' = [jobs EXCEPT !.complete_job_num = n, !.finish_flag = f]
  BY <1>1, <1>3, <1>5 DEF ExeCount, AllCounted, JobsRec
<1>7. /\ jobs' \in JobsRec /\ jobs'.alive = jobs.alive
      /\ jobs'.assigned = jobs.assigned /\ jobs'.assigned_job_num = jobs.assigned_job_num
      /\ jobs'.complete = jobs.complete
      /\ jobs'.complete_job_num = n /\ jobs'.finish_flag = f
  BY <1>1, <1>4, <1>6 DEF JobsRec
<1>8. /\ exe' \in [Tasks -> ExeRec] /\ exe'[x].pc = "leave"
      /\ \A y \in Tasks \ {x} : exe'[y] = exe[y]
  BY <1>1, ExeSteps DEF ExeCount
<1> QED BY <1>2, <1>3, <1>5, <1>7, <1>8

LEMMA CompleteKeeps ==
  ASSUME BaseInv, NEW x \in Tasks, ExeComplete(x) \/ ExeCount(x) PROVE BaseInv'
<1>1. TypeOK /\ jobs \in JobsRec
  BY JobsTypes DEF BaseInv
<1>2. UNCHANGED <<schedule_task_status, mq, queue, expect_status, task, app, sched,
                     off, seek_off, ret, seeks, opens>>
  BY DEF ExeComplete, ExeCount, handle
<1>3. /\ Running(x)
      /\ jobs' \in JobsRec /\ jobs'.alive = jobs.alive
      /\ exe' \in [Tasks -> ExeRec]
      /\ exe'[x].pc = "leave" \/ (exe'[x].pc = "count" /\ exe'[x].job \in Jobs)
      /\ \A y \in Tasks \ {x} : exe'[y] = exe[y]
  BY <1>1, CompleteFacts, CountFacts
<1>4. SchedOK' /\ SessionOK'
  BY <1>2, <1>3, ExeFrame DEF Running
<1>5. TasksOK'
  BY <1>2, <1>3 DEF BaseInv, TasksOK, Busy, Running
<1>6. QueuesOK'
  BY <1>2 DEF BaseInv, QueuesOK, Handing
<1>7. TypeOK'
  BY <1>1, <1>2, <1>3 DEF TypeOK, ExeRec, JobsRec
<1> QED BY <1>4, <1>5, <1>6, <1>7 DEF BaseInv

LEMMA ExeBase == ASSUME BaseInv, NEW x \in Tasks, ExeNext(x) PROVE BaseInv'
  BY ExeQuiet, StartKeeps, IdleKeeps, ExitKeeps, RecvKeeps, DoneKeeps, CompleteKeeps DEF ExeNext


-----------------------------------------------------------------------------
(* The job in the scheduler's hands, and the counter of assigned jobs.     *)

LEMMA NoJob == INVALID_JOB_ID \notin Jobs
  BY JobSizes DEF INVALID_JOB_ID

LEMMA CountFrame ==
  ASSUME CountOK, jobs'.assigned = jobs.assigned, jobs'.assigned_job_num = jobs.assigned_job_num,
         sched'.job = sched.job \/ sched'.job \notin Jobs
  PROVE  CountOK'
  BY DEF CountOK, HandFree, AssignedExact, TakenOf

LEMMA AppCounts == ASSUME BaseInv, CountOK, AppNext PROVE CountOK'
<1>1. jobs \in JobsRec /\ sched \in SchedRec
  BY JobsTypes, SchedTypes DEF BaseInv
<1>2. CASE OpenDone
  <2>1. jobs' = NewJobs
    BY <1>2 DEF OpenDone
  <2>2. TakenOf(jobs') = {} /\ jobs'.assigned_job_num = 0
    BY <2>1 DEF NewJobs, TakenOf
  <2>3. AssignedExact(jobs')
    BY <2>2, FS_EmptySet DEF AssignedExact
  <2>4. AssignedExact(jobs)'
    BY <2>3 DEF AssignedExact, TakenOf
  <2> QED BY <2>2, <2>4 DEF CountOK, HandFree, TakenOf
<1>3. CASE CloseDone
  <2>1. jobs' = [jobs EXCEPT !.alive = FALSE] /\ sched' = [sched EXCEPT !.stale = sched.job # INVALID_JOB_ID]
    BY <1>3 DEF CloseDone
  <2>2. jobs'.assigned = jobs.assigned /\ jobs'.assigned_job_num = jobs.assigned_job_num
    BY <1>1, <2>1 DEF JobsRec
  <2>3. sched'.job = sched.job
    BY <1>1, <2>1 DEF SchedRec
  <2> QED BY <2>2, <2>3, CountFrame
<1>4. CASE UNCHANGED <<jobs, sched>>
  BY <1>4, CountFrame
<1>5. AppNext => UNCHANGED <<jobs, sched>> \/ OpenDone \/ CloseDone
  BY DEF AppNext, AppReturns, OpenBegin, OpenFailed, OpenReset, ReadBegin, ReadEof, ReadTurn, ReadNothing,
         SeekBegin, StartSeek, SeekDone, CloseBegin, CloseStop, DeinitBegin, DeinitStop,
         DeinitDestroy, DeinitDone, shared
<1> QED BY <1>2, <1>3, <1>4, <1>5

LEMMA EditedCount ==
  ASSUME NEW K \in JobsRec, jobs' = K, AssignedExact(K), sched'.job \notin Jobs
  PROVE  CountOK'
  BY DEF CountOK, HandFree, AssignedExact, TakenOf

LEMMA SchedCounts == ASSUME BaseInv, CountOK, SchedNext PROVE CountOK'
<1>1. jobs \in JobsRec /\ sched \in SchedRec /\ SchedOK /\ AssignedExact(jobs) /\ TypeOK
  BY JobsTypes, SchedTypes DEF BaseInv, CountOK
<1>2. CASE SchedExit \/ SchedPrepareIdle \/ SchedIdleCheck \/ SchedTake \/ SchedPolicy \/ SchedKill
             \/ SchedSave \/ SchedPolicyDone \/ SchedEndSeek \/ SchedSetRunning
  <2>1. jobs' = jobs
    BY <1>2 DEF SchedExit, SchedPrepareIdle, SchedIdleCheck, SchedTake, SchedPolicy, SchedKill,
                SchedSave, SchedPolicyDone, SchedEndSeek, SchedSetRunning, shared
  <2>2. sched'.job \in {sched.job, INVALID_JOB_ID}
    <3>1. CASE SchedExit \/ SchedPrepareIdle \/ SchedTake \/ SchedPolicyDone \/ SchedEndSeek
                 \/ SchedSetRunning
      BY <1>1, <3>1 DEF SchedExit, SchedPrepareIdle, SchedTake, SchedPolicyDone, SchedEndSeek,
                        SchedSetRunning, SchedRec
    <3>2. CASE SchedIdleCheck
      BY <1>1, <3>2 DEF SchedIdleCheck, Forget, SchedRec
    <3>3. CASE SchedPolicy
      <4>1. \E p, pc : sched' = [sched EXCEPT !.policy = p, !.pc = pc]
        BY <3>3 DEF SchedPolicy
      <4> QED BY <1>1, <4>1 DEF SchedRec
    <3>4. CASE SchedKill
      <4>1. \E x : sched' = [sched EXCEPT !.pc = "killed", !.task = x]
        BY <3>4, KillFacts DEF KillAsks
      <4> QED BY <1>1, <4>1 DEF SchedRec
    <3>5. CASE SchedSave
      <4>1. sched' = [sched EXCEPT !.policy.save = {}]
        BY <3>5 DEF SchedSave
      <4> QED BY <1>1, <4>1 DEF SchedRec
    <3> QED BY <1>2, <3>1, <3>2, <3>3, <3>4, <3>5
  <2> QED BY <2>1, <2>2, NoJob, CountFrame
<1>3. CASE SchedPass
  <2>1. PICK j \in Jobs :
          /\ j = sched.job \/ ~jobs.assigned[j]
          /\ PassWaits(j) \/ \E q \in Queues, x \in Tasks : PassTakes(j, q, x)
    BY <1>1, <1>3, PassSteps
  <2>2. sched'.job = j
    <3>1. CASE PassWaits(j)
      BY <1>1, <3>1 DEF PassWaits, SchedRec
    <3>2. CASE \E q \in Queues, x \in Tasks : PassTakes(j, q, x)
      BY <1>1, <3>2 DEF PassTakes, SchedRec
    <3> QED BY <2>1, <3>1, <3>2
  <2>3. jobs' = jobs
    BY <1>3 DEF SchedPass
  <2> QED BY <2>1, <2>2, <2>3 DEF CountOK, HandFree, AssignedExact, TakenOf
<1>4. CASE SchedAssign
  <2>1. sched.job \in Jobs /\ sched.job \notin TakenOf(jobs)
    BY <1>4 DEF BaseInv, SchedOK, CountOK, HandFree, TakenOf, SchedAssign
  <2>2. jobs' = Assign_Job(jobs, sched.job) /\ jobs' \in JobsRec /\ AssignedExact(Assign_Job(jobs, sched.job))
    BY <1>1, <1>4, <2>1, AssignJob DEF SchedAssign, Edited
  <2>3. sched'.job = INVALID_JOB_ID
    BY <1>1, <1>4 DEF SchedAssign, Forget, SchedRec
  <2> QED BY <2>2, <2>3, NoJob, EditedCount
<1>5. CASE SchedSeek
  <2>1. sched'.job = INVALID_JOB_ID
    BY <1>1, <1>5 DEF SchedSeek, Forget, SchedRec
  <2>2. CASE sched.job = INVALID_JOB_ID
    BY <1>5, <2>1, <2>2, NoJob, CountFrame DEF SchedSeek
  <2>3. CASE sched.job # INVALID_JOB_ID
    <3>1. sched.job \in Jobs /\ sched.job \notin TakenOf(jobs)
      BY <1>1, <2>3, SchedTypes DEF CountOK, HandFree, TakenOf
    <3>2. jobs' = Assign_Job_Reset(jobs, sched.job) /\ jobs' \in JobsRec
            /\ AssignedExact(Assign_Job_Reset(jobs, sched.job))
      BY <1>1, <1>5, <2>3, <3>1, AssignJobReset DEF SchedSeek, Edited
    <3> QED BY <2>1, <3>2, NoJob, EditedCount
  <2> QED BY <2>2, <2>3
<1>6. CASE SchedSeekReset \/ SchedKilled \/ SchedNew
  <2>1. sched.pc \in SeekPcs
    BY <1>6, SchedSets DEF SchedSeekReset, SchedKilled, SchedNew
  <2>2. sched.job = INVALID_JOB_ID /\ sched.policy \in Policy
    BY <2>1, Seeking
  <2>3. CASE SchedSeekReset
    <3>1. seek_off \div SEG \in Jobs
      BY <1>1, SeekJob DEF TypeOK
    <3>2. /\ jobs' = ResetJobs(jobs, seek_off \div SEG) /\ jobs' \in JobsRec
          /\ AssignedExact(ResetJobs(jobs, seek_off \div SEG))
      BY <1>1, <2>3, <3>1, ResetJobsFacts DEF SchedSeekReset
    <3>3. sched'.job = INVALID_JOB_ID
      BY <1>1, <2>2, <2>3 DEF SchedSeekReset, SchedRec
    <3> QED BY <3>2, <3>3, NoJob, EditedCount
  <2>4. CASE SchedKilled
    <3>1. PICK j : j = Min(sched.policy.kill)
      OBVIOUS
    <3>2. jobs' = Reactive_Job(jobs, j)
            /\ sched' = [sched EXCEPT !.pc = "policy", !.task = NULL, !.policy.kill = @ \ {j}]
      BY <2>4, <3>1 DEF SchedKilled
    <3>3. jobs' \in JobsRec /\ AssignedExact(Reactive_Job(jobs, j))
      BY <1>1, <3>2, ReactiveJob DEF Edited
    <3>4. sched'.job = INVALID_JOB_ID
      BY <1>1, <2>2, <3>2 DEF SchedRec
    <3> QED BY <3>2, <3>3, <3>4, NoJob, EditedCount
  <2>5. CASE SchedNew
    <3>1. PICK j \in Jobs :
            /\ sched' = [sched EXCEPT !.policy = [sched.policy EXCEPT !.new = @ \ {j}]]
            /\ NewWaits(j) \/ \E q \in Queues, x \in Tasks : NewGives(j, q, x)
      BY <1>1, <2>2, <2>5, NewFacts
    <3>2. PICK J : J = Reactive_Job(jobs, j)
      OBVIOUS
    <3>3. J \in JobsRec /\ AssignedExact(J) /\ j \notin TakenOf(J)
      BY <1>1, <3>2, ReactiveJob DEF Edited
    <3>4. AssignedExact(Assign_Job(J, j)) /\ Assign_Job(J, j) \in JobsRec
      BY <3>3, AssignJob DEF Edited
    <3>5. jobs' = J \/ jobs' = Assign_Job(J, j)
      BY <3>1, <3>2 DEF NewWaits, NewGives
    <3>6. sched'.job = INVALID_JOB_ID
      BY <1>1, <2>2, <3>1 DEF SchedRec
    <3> QED BY <3>3, <3>4, <3>5, <3>6, NoJob, EditedCount
  <2> QED BY <1>6, <2>3, <2>4, <2>5
<1> QED BY <1>2, <1>3, <1>4, <1>5, <1>6 DEF SchedNext

LEMMA ExeCounts == ASSUME BaseInv, CountOK, NEW x \in Tasks, ExeNext(x) PROVE CountOK'
<1>1. sched' = sched
  BY DEF ExeNext, ExePoll, ExeIsRunning, ExeSetIdle, ExeStart, ExeStopped, ExeRecv, ExeFault, ExeDone,
         ExeComplete, ExeCount, ExeLeave, ExeExit
<1>2. CASE ExeComplete(x) \/ ExeCount(x)
  BY <1>1, <1>2, CompleteFacts, CountFacts, CountFrame
<1>3. CASE jobs' = jobs
  BY <1>1, <1>3, CountFrame
<1>4. jobs' = jobs \/ ExeComplete(x) \/ ExeCount(x)
  BY DEF ExeNext, ExePoll, ExeIsRunning, ExeSetIdle, ExeStart, ExeStopped, ExeRecv, ExeFault, ExeDone,
         ExeLeave, ExeExit, shared
<1> QED BY <1>2, <1>3, <1>4

-----------------------------------------------------------------------------
(* The invariant of every behaviour, whatever windows are open.            *)

LEMMA InitBase == Init => BaseInv /\ CountOK
<1> SUFFICES ASSUME Init PROVE BaseInv /\ CountOK
  OBVIOUS
<1>1. /\ SEG \in Nat \ {0} /\ Size \in Nat \ {0} /\ QueueNum \in Nat \ {0} /\ TaskNum \in Nat \ {0}
      /\ NULL = 0 /\ 0 \in 0..(Size - 1)
  BY ConstantsAssumption DEF NULL
<1>2. TypeOK
  <2>1. jobs \in JobsRec
    <3>1. PICK e \in [Jobs -> BOOLEAN] : e = [j \in Jobs |-> FALSE]
      OBVIOUS
    <3>2. jobs = [alive |-> FALSE, assigned |-> e, complete |-> e,
                  assigned_job_num |-> 0, complete_job_num |-> 0, finish_flag |-> FALSE]
      BY <3>1 DEF Init, NewJobs
    <3> QED BY <3>2 DEF JobsRec
  <2>2. mq \in MqRec
    BY <1>1 DEF Init, MqRec, INVALID_SEEK_POS
  <2>3. queue \in [Queues -> QueueRec]
    <3>1. PICK d : d = [i \in 0..(SEG - 1) |-> -1]
      OBVIOUS
    <3>2. d \in [0..(SEG - 1) -> Int]
      BY <3>1
    <3>3. PICK r : r = [used |-> FALSE, job_id |-> INVALID_JOB_ID, complete |-> FALSE,
                        read_pos |-> 0, write_pos |-> 0, range |-> NoRange, data |-> d]
      OBVIOUS
    <3>4. NoRange \in [start : Int, end : Int] /\ 0 \in 0..SEG
      BY <1>1 DEF NoRange, INVALID_SEEK_POS
    <3>5. r \in QueueRec
      BY <3>2, <3>3, <3>4 DEF QueueRec
    <3>6. queue = [q \in Queues |-> r]
      BY <3>1, <3>3 DEF Init
    <3> QED BY <3>5, <3>6
  <2>4. task \in [Tasks -> TaskRec]
    BY <1>1 DEF Init, TaskRec
  <2>5. exe \in [Tasks -> ExeRec]
    BY <1>1 DEF Init, ExeRec
  <2>6. schedule_task_status = "IDLE" /\ off \in Int /\ seek_off \in 0..(Size - 1) /\ expect_status = "RUNNING"
    BY <1>1 DEF Init
  <2> QED BY <2>1, <2>2, <2>3, <2>4, <2>5, <2>6
          DEF TypeOK, JobsRec, MqRec, QueueRec, TaskRec, ExeRec
<1>3. SchedOK
  <2>1. sched.policy \in Policy /\ sched.pc = "top" /\ sched.job = INVALID_JOB_ID
    BY DEF Init, Policy
  <2>2. sched \in SchedRec
    BY <1>1, SchedSets DEF Init, SchedRec, Policy
  <2> QED BY <2>1, <2>2, SchedSets DEF Init, SchedOK, SchedRec, AppPcs
<1>4. TasksOK
  BY DEF Init, TasksOK, Busy, Running
<1>5. QueuesOK
  BY DEF Init, QueuesOK
<1>6. SessionOK
  BY DEF Init, NewJobs, SessionOK, Leaving, Running
<1>7. CountOK
  <2>1. TakenOf(jobs) = {} /\ jobs.assigned_job_num = 0 /\ sched.job = INVALID_JOB_ID
    BY DEF Init, NewJobs, TakenOf
  <2>2. AssignedExact(jobs)
    BY <2>1, FS_EmptySet DEF AssignedExact
  <2> QED BY <2>1, <2>2, NoJob DEF CountOK, HandFree
<1> QED BY <1>2, <1>3, <1>4, <1>5, <1>6, <1>7 DEF BaseInv

LEMMA Stutters ==
  ASSUME BaseInv, CountOK, UNCHANGED vars
  PROVE  BaseInv' /\ CountOK'
<1>1. UNCHANGED <<schedule_task_status, off, seek_off, jobs, mq, queue, expect_status,
                  task, app, sched, exe, ret, seeks, opens>>
  BY DEF vars
<1>2. TypeOK'
  BY <1>1 DEF BaseInv, TypeOK
<1>3. SchedOK' /\ TasksOK' /\ QueuesOK' /\ SessionOK'
  BY <1>1 DEF BaseInv, SchedOK, TasksOK, QueuesOK, SessionOK, Running, Busy, Handing
<1>4. CountOK'
  BY <1>1, CountFrame
<1> QED BY <1>2, <1>3, <1>4 DEF BaseInv

LEMMA NextBase == ASSUME BaseInv, CountOK, [Next]_vars PROVE BaseInv' /\ CountOK'
<1>1. CASE UNCHANGED vars
  BY <1>1, Stutters
<1>2. CASE AppNext
  BY <1>2, AppBase, AppCounts
<1>3. CASE SchedNext
  BY <1>3, SchedBase, SchedCounts
<1>4. CASE \E x \in Tasks : ExeNext(x)
  BY <1>4, ExeBase, ExeCounts
<1>5. CASE Gone
  BY <1>5, Stutters DEF Gone
<1> QED BY <1>1, <1>2, <1>3, <1>4, <1>5 DEF Next

\* The threads' records, counters and locals have their types, an executor at
\* work has a task with a queue and a job, a used queue has a job unless the
\* scheduler is about to give it one, and the scheduler and the executors are
\* where the call the application is in needs them, in every window.
THEOREM Invariance == Spec => [](BaseInv /\ CountOK)
<1>1. Init => BaseInv /\ CountOK
  BY InitBase
<1>2. BaseInv /\ CountOK /\ [Next]_vars => (BaseInv /\ CountOK)'
  BY NextBase
<1> QED BY <1>1, <1>2, PTL DEF Spec

\* Every value the threads compute has its type: in particular no write position
\* passes the end of its queue and no job outside the list is ever handed out.
THEOREM TypeCorrect == Spec => []TypeOK
<1>1. BaseInv /\ CountOK => TypeOK
  BY DEF BaseInv
<1> QED BY <1>1, Invariance, PTL

\* assigned_job_num is the number of assigned jobs, whatever windows are open.
THEOREM AssignedIsCounted == Spec => []AssignedCounted
<1>1. BaseInv /\ CountOK => AssignedCounted
  BY DEF CountOK, AssignedExact, TakenOf, AssignedCounted
<1> QED BY <1>1, Invariance, PTL


-----------------------------------------------------------------------------
(* The jobs are not used after they are freed.                             *)

\* The scheduler keeps no job from a closed session: either nobody sees it
\* between its status and its second look at it, or there is no later session.
NotStale ==
  /\ jobs.alive \/ app = "gen" => opens > 0
  /\ sched.stale => ~jobs.alive /\ opens > 0 /\ app # "gen"
  /\ "idle" \notin Races =>
       /\ sched.pc = "idlechk" => schedule_task_status = "IDLE"
       /\ schedule_task_status = "IDLE" /\ sched.pc = "top" => sched.job = INVALID_JOB_ID
       /\ ~sched.stale

LEMMA AppWindow == AppNext => AppMay
  BY DEF AppNext, AppReturns, OpenBegin, OpenDone, OpenFailed, OpenReset, ReadBegin, ReadEof, ReadTurn,
         ReadNothing, SeekBegin, StartSeek, SeekDone, CloseBegin, CloseStop, CloseDone, DeinitBegin,
         DeinitStop, DeinitDestroy, DeinitDone

LEMMA IdleWindow == ASSUME AppMay, "idle" \notin Races PROVE sched.pc # "idlechk"
  BY DEF AppMay, MayEnter, SchedWindow

LEMMA AppStale ==
  ASSUME BaseInv, NotStale, AppNext, "idle" \notin Races \/ MaxOpens <= 1
  PROVE  NotStale'
<1>1. "idle" \notin Races => sched.pc # "idlechk"
  BY AppWindow, IdleWindow
<1>2. opens \in Nat /\ MaxOpens \in Nat /\ sched \in SchedRec /\ jobs \in JobsRec
  BY ConstantsAssumption, SchedTypes, JobsTypes DEF BaseInv, SchedOK
<1>3. CASE OpenBegin
  <2>1. /\ app' = "gen" /\ opens' = opens + 1 /\ sched' = sched /\ jobs' = jobs
        /\ schedule_task_status' = "IDLE" /\ opens < MaxOpens /\ app = "idle" /\ ~jobs.alive
    BY <1>3 DEF OpenBegin, shared
  <2>2. ~sched.stale
    BY <1>2, <2>1 DEF NotStale
  <2>3. schedule_task_status = "IDLE"
    BY <2>1 DEF BaseInv, SessionOK, Leaving
  <2> QED BY <1>1, <1>2, <2>1, <2>2, <2>3 DEF NotStale
<1>4. CASE OpenDone
  <2>1. /\ app = "gen" /\ app' = "idle" /\ opens' = opens /\ sched' = sched /\ ~sched.stale
        /\ schedule_task_status' = "RUNNING"
    BY <1>4 DEF OpenDone, handle, NotStale
  <2> QED BY <1>1, <2>1 DEF NotStale
<1>5. CASE CloseDone
  <2>1. /\ app = "closestop" /\ app' = "idle" /\ opens' = opens
        /\ jobs' = [jobs EXCEPT !.alive = FALSE] /\ sched' = [sched EXCEPT !.stale = sched.job # INVALID_JOB_ID]
        /\ schedule_task_status' = schedule_task_status
    BY <1>5 DEF CloseDone, handle
  <2>2. ~jobs'.alive /\ sched'.pc = sched.pc /\ sched'.job = sched.job
          /\ sched'.stale = (sched.job # INVALID_JOB_ID)
    BY <1>2, <2>1 DEF JobsRec, SchedRec
  <2>3. schedule_task_status = "IDLE" /\ sched.pc \in {"top", "idlechk"} /\ opens > 0
    BY <2>1 DEF BaseInv, SessionOK, NotStale
  <2> QED BY <1>1, <2>1, <2>2, <2>3 DEF NotStale
<1>6. CASE SeekBegin \/ CloseBegin \/ DeinitBegin
  <2>1. /\ app' # "gen" /\ opens' = opens /\ sched' = sched /\ jobs' = jobs
        /\ schedule_task_status' # "IDLE"
    BY <1>6 DEF SeekBegin, CloseBegin, DeinitBegin, shared
  <2> QED BY <1>1, <2>1 DEF NotStale
<1>7. CASE OpenFailed \/ OpenReset \/ ReadBegin \/ ReadEof \/ ReadTurn \/ ReadNothing \/ StartSeek
             \/ SeekDone \/ CloseStop \/ DeinitStop \/ DeinitDestroy \/ DeinitDone
  <2>1. /\ opens' = opens /\ sched' = sched /\ jobs' = jobs
        /\ schedule_task_status' = schedule_task_status
    BY <1>7 DEF OpenFailed, OpenReset, ReadBegin, ReadEof, ReadTurn, ReadNothing, StartSeek, SeekDone,
                CloseStop, DeinitStop, DeinitDestroy, DeinitDone, shared, handle
  <2>2. app' = "gen" => app = "gen"
    <3>1. CASE ReadTurn
      BY <3>1, ReadTurnReads DEF BaseInv
    <3>2. CASE ~ReadTurn
      BY <1>7, <3>2 DEF OpenFailed, OpenReset, ReadBegin, ReadEof, ReadNothing, StartSeek, SeekDone,
                CloseStop, DeinitStop, DeinitDestroy, DeinitDone
    <3> QED BY <3>1, <3>2
  <2> QED BY <2>1, <2>2 DEF NotStale
<1> QED BY <1>3, <1>4, <1>5, <1>6, <1>7 DEF AppNext, AppReturns

\* What the scheduler does with its place, its job and the status.
LEMMA SchedStale == ASSUME BaseInv, CountOK, NotStale, SchedNext PROVE NotStale'
<1>1. sched \in SchedRec /\ SchedOK /\ jobs \in JobsRec
  BY SchedTypes, JobsTypes DEF BaseInv
<1>2. app' = app /\ opens' = opens
  BY DEF SchedNext, SchedExit, SchedPrepareIdle, SchedIdleCheck, SchedPass, SchedTake, SchedAssign,
         SchedSeek, SchedPolicy, SchedSeekReset, SchedKill, SchedKilled, SchedSave, SchedNew,
         SchedPolicyDone, SchedEndSeek, SchedSetRunning, handle
<1>3. jobs'.alive = jobs.alive
  <2>1. BaseInv'
    BY SchedBase
  <2>2. CASE jobs' = jobs
    BY <2>2
  <2>3. CASE SchedAssign
    <3>1. sched.job \in Jobs
      BY <2>3 DEF BaseInv, SchedOK, SchedAssign
    <3> QED BY <1>1, <2>3, <3>1, AssignJob DEF SchedAssign, Edited
  <2>4. CASE SchedSeek
    <3>1. sched.job # INVALID_JOB_ID => sched.job \in Jobs /\ sched.job \notin TakenOf(jobs)
      BY <1>1, SchedTypes DEF CountOK, HandFree, TakenOf
    <3> QED BY <1>1, <2>4, <3>1, AssignJobReset DEF SchedSeek, Edited
  <2>5. CASE SchedSeekReset
    <3>1. seek_off \div SEG \in Jobs
      BY SeekJob DEF BaseInv, TypeOK
    <3> QED BY <1>1, <2>5, <3>1, ResetJobsFacts DEF SchedSeekReset
  <2>6. CASE SchedKilled
    <3>1. \E j : jobs' = Reactive_Job(jobs, j)
      BY <2>6 DEF SchedKilled
    <3> QED BY <1>1, <3>1, ReactiveJob DEF Edited
  <2>7. CASE SchedNew
    <3>1. PICK j \in Jobs : NewWaits(j) \/ \E q \in Queues, x \in Tasks : NewGives(j, q, x)
      BY <1>1, <2>7, NewFacts, SchedTypes
    <3>2. PICK J : J = Reactive_Job(jobs, j)
      OBVIOUS
    <3>3. J \in JobsRec /\ J.alive = jobs.alive
      BY <1>1, <3>2, ReactiveJob DEF Edited
    <3>4. Assign_Job(J, j).alive = J.alive
      BY <3>3, AssignJob DEF Edited
    <3> QED BY <3>1, <3>2, <3>3, <3>4 DEF NewWaits, NewGives
  <2> QED BY <2>2, <2>3, <2>4, <2>5, <2>6, <2>7
          DEF SchedNext, SchedExit, SchedPrepareIdle, SchedIdleCheck, SchedPass, SchedTake, SchedPolicy,
              SchedKill, SchedSave, SchedPolicyDone, SchedEndSeek, SchedSetRunning, shared
<1>4. CASE SchedPrepareIdle
  BY <1>1, <1>2, <1>3, <1>4 DEF SchedPrepareIdle, NotStale, SchedRec
<1>5. CASE SchedIdleCheck
  <2>1. /\ sched'.pc = "top" /\ schedule_task_status' = schedule_task_status
        /\ schedule_task_status = "IDLE" => sched'.job = INVALID_JOB_ID /\ ~sched'.stale
        /\ schedule_task_status # "IDLE" => sched'.stale = sched.stale
    BY <1>1, <1>5 DEF SchedIdleCheck, Forget, SchedRec
  <2>2. sched.pc = "idlechk"
    BY <1>5 DEF SchedIdleCheck
  <2> QED BY <1>2, <1>3, <2>1, <2>2 DEF NotStale
<1>6. CASE SchedExit \/ SchedSetRunning
  <2>1. sched'.stale = sched.stale /\ sched'.pc # "idlechk" /\ schedule_task_status' # "IDLE"
    BY <1>1, <1>6 DEF SchedExit, SchedSetRunning, SchedRec
  <2> QED BY <1>2, <1>3, <2>1 DEF NotStale
<1>7. CASE SchedNext /\ ~SchedPrepareIdle /\ ~SchedIdleCheck /\ ~SchedExit /\ ~SchedSetRunning
  <2>1. schedule_task_status' = schedule_task_status
    BY <1>7 DEF SchedNext, SchedPass, SchedTake, SchedAssign, SchedSeek, SchedPolicy, SchedSeekReset,
         SchedKill, SchedKilled, SchedSave, SchedNew, SchedPolicyDone, SchedEndSeek
  <2>2. schedule_task_status # "IDLE"
    BY <1>7, SchedSets DEF SchedNext, SchedPass, SchedTake, SchedAssign, SchedSeek, SchedPolicy, SchedSeekReset,
         SchedKill, SchedKilled, SchedSave, SchedNew, SchedPolicyDone, SchedEndSeek, BaseInv, SessionOK
  <2>3. (sched'.stale => sched.stale) /\ (sched'.pc # "idlechk")
    <3>1. CASE SchedPass
      <4>1. PICK j : PassWaits(j) \/ \E q \in Queues, x \in Tasks : PassTakes(j, q, x)
        BY <1>1, <3>1, PassSteps
      <4>2. sched.pc = "top"
        BY <3>1 DEF SchedPass
      <4>3. CASE PassWaits(j)
        BY <1>1, <4>2, <4>3 DEF PassWaits, SchedRec
      <4>4. CASE \E q \in Queues, x \in Tasks : PassTakes(j, q, x)
        BY <1>1, <4>4 DEF PassTakes, SchedRec
      <4> QED BY <4>1, <4>3, <4>4
    <3>2. CASE SchedAssign \/ SchedSeek
      BY <1>1, <3>2 DEF SchedAssign, SchedSeek, Forget, SchedRec
    <3>3. CASE SchedTake \/ SchedSeekReset \/ SchedPolicyDone \/ SchedEndSeek
      BY <1>1, <3>3 DEF SchedTake, SchedSeekReset, SchedPolicyDone, SchedEndSeek, SchedRec
    <3>4. CASE SchedPolicy
      <4>1. \E p : \E pc \in {"seekstop", "policy"} : sched' = [sched EXCEPT !.policy = p, !.pc = pc]
        BY <3>4 DEF SchedPolicy
      <4> QED BY <1>1, <4>1 DEF SchedRec
    <3>5. CASE SchedKill
      <4>1. \E x : sched' = [sched EXCEPT !.pc = "killed", !.task = x]
        BY <3>5, KillFacts DEF KillAsks
      <4> QED BY <1>1, <4>1 DEF SchedRec
    <3>6. CASE SchedKilled
      <4>1. PICK j : sched' = [sched EXCEPT !.pc = "policy", !.task = NULL, !.policy.kill = @ \ {j}]
        BY <3>6 DEF SchedKilled
      <4> QED BY <1>1, <4>1 DEF SchedRec
    <3>7. CASE SchedSave
      <4>1. sched' = [sched EXCEPT !.policy.save = {}] /\ sched.pc = "policy"
        BY <3>7 DEF SchedSave
      <4> QED BY <1>1, <4>1 DEF SchedRec
    <3>8. CASE SchedNew
      <4>1. PICK j : sched' = [sched EXCEPT !.policy.new = @ \ {j}] /\ sched.pc = "policy"
        BY <3>8 DEF SchedNew
      <4> QED BY <1>1, <4>1 DEF SchedRec
    <3> QED BY <1>7, <3>1, <3>2, <3>3, <3>4, <3>5, <3>6, <3>7, <3>8 DEF SchedNext
  <2> QED BY <1>2, <1>3, <2>1, <2>2, <2>3 DEF NotStale
<1> QED BY <1>4, <1>5, <1>6, <1>7

LEMMA ExeStale == ASSUME BaseInv, NotStale, NEW x \in Tasks, ExeNext(x) PROVE NotStale'
<1>1. UNCHANGED <<schedule_task_status, app, sched, opens>>
  BY DEF ExeNext, ExePoll, ExeIsRunning, ExeSetIdle, ExeStart, ExeStopped, ExeRecv, ExeFault, ExeDone,
         ExeComplete, ExeCount, ExeLeave, ExeExit, handle
<1>2. jobs'.alive = jobs.alive
  <2>1. jobs' = jobs \/ ExeComplete(x) \/ ExeCount(x)
    BY DEF ExeNext, ExePoll, ExeIsRunning, ExeSetIdle, ExeStart, ExeStopped, ExeRecv, ExeFault, ExeDone,
           ExeLeave, ExeExit, shared
  <2> QED BY <2>1, CompleteFacts, CountFacts
<1> QED BY <1>1, <1>2 DEF NotStale

LEMMA StaleInv ==
  ASSUME "idle" \notin Races \/ MaxOpens <= 1
  PROVE  Spec => []NotStale
<1>1. Init => NotStale
  BY DEF Init, NewJobs, NotStale
<1>2. BaseInv /\ CountOK /\ NotStale /\ [Next]_vars => NotStale'
  <2> SUFFICES ASSUME BaseInv, CountOK, NotStale, [Next]_vars PROVE NotStale'
    OBVIOUS
  <2>1. CASE UNCHANGED vars
    BY <2>1 DEF vars, NotStale
  <2>2. CASE Gone
    BY <2>2 DEF Gone, vars, NotStale
  <2> QED BY <2>1, <2>2, AppStale, SchedStale, ExeStale DEF Next
<1> QED BY <1>1, <1>2, Invariance, PTL DEF Spec

\* After Smart_Http_Download_Close has freed the jobs nobody uses them, and a job
\* the scheduler holds from the closed session is never downloaded, if nobody runs
\* between the scheduler's IDLE and its second look at the status, or if the
\* downloader is opened once.  All other windows are open.
THEOREM FreedIsNotUsed ==
  ASSUME "idle" \notin Races \/ MaxOpens <= 1
  PROVE  Spec => []FreedNotUsed
<1>1. BaseInv /\ CountOK /\ NotStale => FreedNotUsed
  <2> SUFFICES ASSUME BaseInv, NotStale PROVE FreedNotUsed
    OBVIOUS
  <2>1. ASSUME ~jobs.alive
        PROVE  /\ \A x \in Tasks : exe[x].pc \in {"poll", "isrun", "setidle", "exited"}
               /\ sched.pc \in {"top", "idlechk", "exited"}
               /\ schedule_task_status # "RUNNING"
    <3>1. \A x \in Tasks : ~Busy(x)
      BY <2>1 DEF BaseInv, SessionOK, TasksOK
    <3>2. \A x \in Tasks : exe[x] \in ExeRec
      BY ExeTypes DEF BaseInv
    <3>3. \A x \in Tasks : exe[x].pc \in {"poll", "isrun", "setidle", "exited"}
      BY <3>1, <3>2 DEF Busy, ExeRec
    <3> QED BY <2>1, <3>3 DEF BaseInv, SessionOK
  <2> QED BY <2>1 DEF FreedNotUsed, NotStale
<1> QED BY <1>1, StaleInv, Invariance, PTL


-----------------------------------------------------------------------------
(* With the executors' windows closed: an executor owns its queue and its  *)
(* job from the assignment to the end of download_done.                    *)

Locked == Races \cap {"poll", "count", "leave"} = {}

InWindow(x) == exe[x].pc \in {"isrun", "setidle", "complete", "count", "leave"}

TaskOwn ==
  /\ \A x, y \in Tasks : InWindow(x) /\ InWindow(y) => x = y
  /\ \A x \in Tasks : /\ exe[x].pc = "isrun" => Running(x)
                      /\ exe[x].pc # "setidle"
                      /\ task[x].queue # NULL => Running(x)
                      /\ Running(x) => task[x].job \in TakenOf(jobs)
  /\ \A x, y \in Tasks : Running(x) /\ Running(y) /\ task[x].job = task[y].job => x = y

QueueOwn ==
  \A x \in Tasks : Filling(x) =>
    /\ queue[task[x].queue].used /\ queue[task[x].queue].job_id = task[x].job
    /\ ~queue[task[x].queue].complete
    /\ ~Handing(task[x].queue)

\* The queue in the scheduler's hands is ready for a job.
AssignOwn == sched.pc = "assign" => queue[sched.queue].used /\ ~queue[sched.queue].complete

\* A seek brings no running job back, and stops the executor of a job it kills.
SeekOwn ==
  /\ sched.pc \in {"policy", "killed"} =>
       \A x \in Tasks : Running(x) => task[x].job \notin sched.policy.new
  /\ sched.pc = "killed" =>
       \A x \in Tasks : Running(x) /\ task[x].job = Min(sched.policy.kill) => sched.task = x

OwnInv == TaskOwn /\ QueueOwn /\ AssignOwn /\ SeekOwn

LEMMA Closed == ASSUME Locked, NEW x, MayEnter(ExeWindow(x)) PROVE ~InWindow(x)
  BY DEF Locked, MayEnter, ExeWindow, InWindow

\* Outside the windows a running executor is filling its queue.
LEMMA Outside ==
  ASSUME BaseInv, OwnInv, Locked, AppMay \/ SchedMay
  PROVE  \A x \in Tasks : ~InWindow(x) /\ (Running(x) => Filling(x))
<1>1. \A x \in Tasks : ~InWindow(x)
  BY Closed DEF AppMay, SchedMay
<1> QED BY <1>1 DEF InWindow, Filling, Running

LEMMA SchedWindowClosed == SchedNext => SchedMay
  BY DEF SchedNext, SchedExit, SchedPrepareIdle, SchedIdleCheck, SchedPass, SchedTake, SchedAssign,
         SchedSeek, SchedPolicy, SchedSeekReset, SchedKill, SchedKilled, SchedSave, SchedNew,
         SchedPolicyDone, SchedEndSeek, SchedSetRunning

\* A step outside the windows that keeps the tasks: what is left to show.
LEMMA OwnFrame ==
  ASSUME BaseInv, OwnInv, exe' = exe, \A x \in Tasks : ~InWindow(x) /\ (Running(x) => Filling(x)),
         \A x \in Tasks : /\ task'[x].status = task[x].status /\ task'[x].queue = task[x].queue
                          /\ task'[x].job = task[x].job,
         \A x \in Tasks : Running(x) =>
           /\ task[x].job \in TakenOf(jobs')
           /\ queue'[task[x].queue].used /\ queue'[task[x].queue].job_id = queue[task[x].queue].job_id
           /\ ~queue'[task[x].queue].complete
           /\ ~Handing(task[x].queue)',
         AssignOwn', SeekOwn'
  PROVE  OwnInv'
<1>1. \A x \in Tasks : /\ Running(x)' <=> Running(x)
                       /\ InWindow(x)' <=> InWindow(x)
                       /\ Filling(x)' => Running(x)
  BY DEF Running, InWindow, Filling
<1>2. TaskOwn'
  <2>1. \A x \in Tasks : Running(x) => (task[x].job \in TakenOf(jobs))'
    BY DEF TakenOf
  <2> QED BY <1>1, <2>1 DEF OwnInv, TaskOwn, InWindow
<1>3. QueueOwn'
  <2> SUFFICES ASSUME NEW x \in Tasks, Filling(x)'
               PROVE  (/\ queue[task[x].queue].used /\ queue[task[x].queue].job_id = task[x].job
                       /\ ~queue[task[x].queue].complete
                       /\ ~Handing(task[x].queue))'
    BY DEF QueueOwn
  <2>1. Running(x) /\ Filling(x)
    BY <1>1
  <2>2. queue[task[x].queue].job_id = task[x].job
    BY <2>1 DEF OwnInv, QueueOwn
  <2> QED BY <2>1, <2>2 DEF Handing
<1> QED BY <1>2, <1>3 DEF OwnInv

LEMMA QueueDistinct ==
  ASSUME OwnInv, NEW x \in Tasks, NEW y \in Tasks, Filling(x), Filling(y), task[x].queue = task[y].queue
  PROVE  x = y
  BY DEF OwnInv, TaskOwn, QueueOwn, Filling, Running

\* Nobody runs: nothing is owned.
LEMMA NobodyRuns ==
  ASSUME TaskOwn, exe' = exe, task' = task, \A x \in Tasks : ~Running(x), AssignOwn'
  PROVE  OwnInv'
<1>1. \A x \in Tasks : ~Running(x)' /\ ~Filling(x)'
  BY DEF Running, Filling
<1>2. TaskOwn'
  BY <1>1 DEF TaskOwn, InWindow, Running
<1> QED BY <1>1, <1>2 DEF OwnInv, QueueOwn, SeekOwn

LEMMA IdleNotRunning == AllIdle => \A x \in Tasks : ~Running(x)
  BY DEF AllIdle, Running

LEMMA AppOwns == ASSUME BaseInv, OwnInv, Locked, AppNext PROVE OwnInv'
<1>1. \A x \in Tasks : ~InWindow(x) /\ (Running(x) => Filling(x))
  BY AppWindow, Outside
<1>2. exe' = exe /\ task' = task
  BY DEF AppNext, AppReturns, OpenBegin, OpenDone, OpenFailed, OpenReset, ReadBegin, ReadEof, ReadTurn,
         ReadNothing, SeekBegin, StartSeek, SeekDone, CloseBegin, CloseStop, CloseDone, DeinitBegin,
         DeinitStop, DeinitDestroy, DeinitDone
<1>3. TaskOwn /\ QueueOwn /\ AssignOwn /\ SeekOwn
  BY DEF OwnInv
<1>4. CASE OpenDone
  <2>1. ~jobs.alive /\ sched' = sched /\ queue' = queue
    BY <1>4 DEF OpenDone, BaseInv, SessionOK
  <2>2. \A x \in Tasks : ~Running(x)
    BY <2>1 DEF BaseInv, SessionOK
  <2>3. AssignOwn'
    BY <1>3, <2>1 DEF AssignOwn
  <2> QED BY <1>2, <1>3, <2>2, <2>3, NobodyRuns
<1>5. CASE OpenReset \/ CloseDone
  <2>1. \A x \in Tasks : ~Running(x)
    BY <1>5, IdleNotRunning DEF OpenReset, CloseDone
  <2>2. sched.pc \in {"top", "idlechk", "exited"}
    BY <1>5 DEF OpenReset, CloseDone, BaseInv, SessionOK
  <2>3. sched'.pc = sched.pc
    <3>1. sched \in SchedRec
      BY SchedTypes DEF BaseInv
    <3> QED BY <1>5, <3>1 DEF OpenReset, CloseDone, SchedRec
  <2>4. AssignOwn'
    BY <2>2, <2>3 DEF AssignOwn
  <2> QED BY <1>2, <1>3, <2>1, <2>4, NobodyRuns
<1>6. CASE ReadTurn
  <2>1. TypeOK /\ queue \in [Queues -> QueueRec]
    BY QueueTypes DEF BaseInv
  <2>2. PICK c \in Queues : ReadsFrom(c)
    BY <1>6, <2>1, ReadTurnReads
  <2>3. sched' = sched /\ jobs' = jobs
    BY <1>6 DEF ReadTurn
  <2>4. \A q \in Queues : queue[q].used /\ ~queue[q].complete =>
          queue'[q].used /\ ~queue'[q].complete /\ queue'[q].job_id = queue[q].job_id
    BY <2>1, <2>2 DEF ReadsFrom
  <2>5. AssignOwn'
    <3>1. sched.pc = "assign" => sched.queue \in Queues
      BY DEF BaseInv, SchedOK
    <3> QED BY <1>3, <2>3, <2>4, <3>1 DEF AssignOwn
  <2>6. SeekOwn'
    BY <1>2, <1>3, <2>3 DEF SeekOwn, Running
  <2>7. \A x \in Tasks : Running(x) => task[x].queue \in Queues
    BY DEF BaseInv, TasksOK
  <2>8. \A x \in Tasks : Running(x) =>
           /\ task[x].job \in TakenOf(jobs')
           /\ queue'[task[x].queue].used /\ queue'[task[x].queue].job_id = queue[task[x].queue].job_id
           /\ ~queue'[task[x].queue].complete
           /\ ~Handing(task[x].queue)'
    BY <1>1, <1>2, <1>3, <2>3, <2>4, <2>7 DEF TaskOwn, QueueOwn, Handing
  <2> QED BY <1>1, <1>2, <2>5, <2>6, <2>8, OwnFrame
<1>7. CASE UNCHANGED <<jobs, queue, sched>>
  BY <1>2, <1>3, <1>7 DEF OwnInv, TaskOwn, QueueOwn, AssignOwn, SeekOwn, Running, Filling, InWindow,
                          Handing, TakenOf
<1>8. UNCHANGED <<jobs, queue, sched>> \/ OpenDone \/ OpenReset \/ CloseDone \/ ReadTurn
  BY DEF AppNext, AppReturns, OpenBegin, OpenFailed, ReadBegin, ReadEof, ReadNothing,
         SeekBegin, StartSeek, SeekDone, CloseBegin, CloseStop, DeinitBegin,
         DeinitStop, DeinitDestroy, DeinitDone, shared
<1> QED BY <1>4, <1>5, <1>6, <1>7, <1>8


\* A task is given with a queue and a job nobody has.
LEMMA GivesOwn ==
  ASSUME BaseInv, OwnInv, exe' = exe, \A x \in Tasks : ~InWindow(x) /\ (Running(x) => Filling(x)),
         NEW t \in Tasks, NEW q \in Queues, NEW j \in Jobs, task[t].status = "IDLE",
         task' = [task EXCEPT ![t] = Assigned(q, j)],
         \A x \in Tasks : Running(x) => task[x].job # j /\ task[x].queue # q,
         TakenOf(jobs) \cup {j} \subseteq TakenOf(jobs'),
         \A r \in Queues \ {q} : queue'[r] = queue[r],
         queue'[q].used, ~queue'[q].complete, queue'[q].job_id = j,
         sched'.pc \notin {"taken", "assign", "killed"},
         sched'.pc = "policy" => j \notin sched'.policy.new,
         sched'.pc = "policy" => \A x \in Tasks : Running(x) => task[x].job \notin sched'.policy.new
  PROVE  OwnInv'
<1>1. /\ task'[t] = Assigned(q, j) /\ \A y \in Tasks \ {t} : task'[y] = task[y]
  BY GivenTask
<1>2. ~Running(t) /\ ~Filling(t) /\ task[t].queue = NULL
  BY DEF Running, Filling, OwnInv, TaskOwn
<1>3. Running(t)' /\ task'[t].job = j /\ task'[t].queue = q /\ q # NULL
  BY <1>1 DEF Assigned, Running, NULL, Queues
<1>4. \A x \in Tasks \ {t} : (Running(x)' <=> Running(x)) /\ (Filling(x)' <=> Filling(x))
  BY <1>1 DEF Running, Filling
<1>5. \A x \in Tasks : ~InWindow(x)'
  BY DEF InWindow
<1>6. TaskOwn'
  <2>1. \A x \in Tasks : Running(x)' => (task[x].job \in TakenOf(jobs))'
    <3>1. \A x \in Tasks \ {t} : Running(x) => task[x].job \in TakenOf(jobs')
      BY DEF OwnInv, TaskOwn
    <3>2. \A x \in Tasks : Running(x)' => task'[x].job \in TakenOf(jobs')
      BY <1>1, <1>3, <1>4, <3>1
    <3> QED BY <3>2 DEF TakenOf
  <2>2. \A x, y \in Tasks : Running(x)' /\ Running(y)' /\ task'[x].job = task'[y].job => x = y
    BY <1>1, <1>3, <1>4 DEF OwnInv, TaskOwn
  <2>3. \A x \in Tasks : task'[x].queue # NULL => Running(x)'
    BY <1>1, <1>3, <1>4 DEF OwnInv, TaskOwn
  <2>4. \A x \in Tasks : exe'[x].pc \notin {"isrun", "setidle"}
    BY DEF InWindow
  <2> QED BY <1>5, <2>1, <2>2, <2>3, <2>4 DEF TaskOwn
<1>7. QueueOwn'
  <2>1. \A x \in Tasks \ {t} : Filling(x)' =>
          /\ queue'[task'[x].queue].used /\ queue'[task'[x].queue].job_id = task'[x].job
          /\ ~queue'[task'[x].queue].complete
    <3> SUFFICES ASSUME NEW x \in Tasks \ {t}, Filling(x)'
                 PROVE  /\ queue'[task'[x].queue].used /\ queue'[task'[x].queue].job_id = task'[x].job
                        /\ ~queue'[task'[x].queue].complete
      OBVIOUS
    <3>1. Filling(x) /\ Running(x) /\ task'[x] = task[x]
      BY <1>1, <1>4 DEF Filling, Running
    <3>2. task[x].queue \in Queues \ {q}
      BY <3>1 DEF BaseInv, TasksOK
    <3>3. queue'[task[x].queue] = queue[task[x].queue]
      BY <3>2
    <3> QED BY <3>1, <3>3 DEF OwnInv, QueueOwn
  <2>2. \A x \in Tasks : Filling(x)' => task'[x].queue \in Queues
    <3>1. \A x \in Tasks \ {t} : Filling(x)' => Running(x) /\ task'[x] = task[x]
      BY <1>1, <1>4 DEF Filling, Running
    <3> QED BY <1>3, <3>1 DEF BaseInv, TasksOK
  <2>3. \A x \in Tasks : Filling(x)' => ~Handing(task[x].queue)'
    BY <2>2 DEF Handing
  <2> QED BY <1>3, <2>1, <2>3 DEF QueueOwn
<1>8. SeekOwn'
  BY <1>1, <1>3, <1>4 DEF SeekOwn
<1>9. AssignOwn'
  BY DEF AssignOwn
<1> QED BY <1>6, <1>7, <1>8, <1>9 DEF OwnInv

LEMMA QuietOwns ==
  ASSUME BaseInv, OwnInv, Locked, SchedExit \/ SchedPrepareIdle \/ SchedIdleCheck \/ SchedPolicyDone
                    \/ SchedEndSeek \/ SchedSetRunning
  PROVE  OwnInv'
<1>1. sched \in SchedRec
  BY SchedTypes DEF BaseInv
<1>2. UNCHANGED <<jobs, queue, task, exe>>
  BY DEF SchedExit, SchedPrepareIdle, SchedIdleCheck, SchedPolicyDone, SchedEndSeek, SchedSetRunning, shared
<1>3. sched'.pc \in {"exited", "idlechk", "top", "endseek", "setrun"}
  <2>1. CASE SchedIdleCheck
    BY <1>1, <2>1 DEF SchedIdleCheck, Forget, SchedRec
  <2>2. CASE ~SchedIdleCheck
    BY <1>1, <2>2 DEF SchedExit, SchedPrepareIdle, SchedPolicyDone, SchedEndSeek, SchedSetRunning, SchedRec
  <2> QED BY <2>1, <2>2
<1> QED BY <1>2, <1>3 DEF OwnInv, TaskOwn, QueueOwn, AssignOwn, SeekOwn, Running, Filling, InWindow,
                          Handing, TakenOf

LEMMA PassOwns == ASSUME BaseInv, OwnInv, Locked, SchedPass PROVE OwnInv'
<1>1. sched \in SchedRec /\ SchedOK /\ queue \in [Queues -> QueueRec]
  BY SchedTypes, QueueTypes DEF BaseInv
<1>2. UNCHANGED <<jobs, task, exe>> /\ sched.pc = "top"
  BY DEF SchedPass
<1>3. \A x \in Tasks : ~InWindow(x) /\ (Running(x) => Filling(x))
  BY Outside DEF SchedPass
<1>4. PICK j \in Jobs : PassWaits(j) \/ \E q \in Queues, x \in Tasks : PassTakes(j, q, x)
  BY <1>1, PassSteps
<1>5. CASE PassWaits(j)
  <2>1. sched'.pc = "top" /\ queue' = queue
    BY <1>1, <1>2, <1>5 DEF PassWaits, SchedRec
  <2> QED BY <1>2, <2>1 DEF OwnInv, TaskOwn, QueueOwn, AssignOwn, SeekOwn, Running, Filling, InWindow,
                          Handing, TakenOf
<1>6. ASSUME NEW q \in Queues, NEW t \in Tasks, PassTakes(j, q, t) PROVE OwnInv'
  <2>1. sched'.pc = "taken" /\ sched'.queue = q
    BY <1>1, <1>6 DEF PassTakes, SchedRec
  <2>2. \A r \in Queues \ {q} : queue'[r] = queue[r]
    BY <1>1, <1>6 DEF PassTakes
  <2>3. \A x \in Tasks : Running(x) => task[x].queue \in Queues \ {q}
    BY <1>3, <1>6 DEF PassTakes, BaseInv, TasksOK, OwnInv, QueueOwn
  <2>4. \A x \in Tasks : Running(x) =>
           /\ task[x].job \in TakenOf(jobs')
           /\ queue'[task[x].queue].used /\ queue'[task[x].queue].job_id = queue[task[x].queue].job_id
           /\ ~queue'[task[x].queue].complete
           /\ ~Handing(task[x].queue)'
    BY <1>2, <1>3, <2>1, <2>2, <2>3 DEF OwnInv, TaskOwn, QueueOwn, Handing
  <2>5. AssignOwn' /\ SeekOwn'
    BY <2>1 DEF AssignOwn, SeekOwn
  <2> QED BY <1>2, <1>3, <2>4, <2>5, OwnFrame
<1> QED BY <1>4, <1>5, <1>6

LEMMA TakeOwns == ASSUME BaseInv, OwnInv, Locked, SchedTake PROVE OwnInv'
<1>1. sched \in SchedRec /\ sched.queue \in Queues /\ queue \in [Queues -> QueueRec] /\ sched.pc = "taken"
  BY SchedTypes, QueueTypes DEF BaseInv, SchedOK, SchedTake
<1>2. /\ UNCHANGED <<jobs, task, exe>> /\ sched' = [sched EXCEPT !.pc = "assign"]
      /\ queue' = [queue EXCEPT ![sched.queue] = Taken(queue[sched.queue])]
  BY DEF SchedTake
<1>3. \A x \in Tasks : ~InWindow(x) /\ (Running(x) => Filling(x))
  BY Outside DEF SchedTake
<1>4. sched'.pc = "assign" /\ sched'.queue = sched.queue
  BY <1>1, <1>2 DEF SchedRec
<1>5. \A r \in Queues \ {sched.queue} : queue'[r] = queue[r]
  BY <1>1, <1>2
<1>6. queue'[sched.queue].used /\ ~queue'[sched.queue].complete
  BY <1>1, <1>2, TakenTypes
<1>7. \A x \in Tasks : Running(x) => task[x].queue \in Queues \ {sched.queue}
  BY <1>1, <1>3 DEF BaseInv, TasksOK, OwnInv, QueueOwn, Handing
<1>8. \A x \in Tasks : Running(x) =>
         /\ task[x].job \in TakenOf(jobs')
         /\ queue'[task[x].queue].used /\ queue'[task[x].queue].job_id = queue[task[x].queue].job_id
         /\ ~queue'[task[x].queue].complete
         /\ ~Handing(task[x].queue)'
  BY <1>2, <1>3, <1>4, <1>5, <1>7 DEF OwnInv, TaskOwn, QueueOwn, Handing
<1>9. AssignOwn' /\ SeekOwn'
  BY <1>4, <1>6 DEF AssignOwn, SeekOwn
<1> QED BY <1>2, <1>3, <1>8, <1>9, OwnFrame

LEMMA AssignOwns == ASSUME BaseInv, CountOK, OwnInv, Locked, SchedAssign PROVE OwnInv'
<1>1. /\ sched \in SchedRec /\ sched.queue \in Queues /\ queue \in [Queues -> QueueRec]
      /\ sched.pc = "assign" /\ sched.job \in Jobs /\ sched.task \in Tasks
      /\ task[sched.task].status = "IDLE" /\ jobs \in JobsRec
  BY SchedTypes, QueueTypes, JobsTypes DEF BaseInv, SchedOK, SchedAssign
<1>2. /\ exe' = exe
      /\ queue' = [queue EXCEPT ![sched.queue] = ForJob(queue[sched.queue], sched.job)]
      /\ jobs' = Assign_Job(jobs, sched.job)
      /\ task' = [task EXCEPT ![sched.task] = Assigned(sched.queue, sched.job)]
  BY DEF SchedAssign
<1>3. \A x \in Tasks : ~InWindow(x) /\ (Running(x) => Filling(x))
  BY Outside DEF SchedAssign
<1>4. sched'.pc = "top"
  BY <1>1 DEF SchedAssign, Forget, SchedRec
<1>5. \A x \in Tasks : Running(x) => task[x].queue # sched.queue /\ task[x].job # sched.job
  BY <1>1, <1>3 DEF OwnInv, TaskOwn, QueueOwn, Handing, CountOK, HandFree, TakenOf
<1>6. TakenOf(jobs) \cup {sched.job} \subseteq TakenOf(jobs')
  BY <1>1, <1>2, AssignJob DEF Edited
<1>7. /\ \A r \in Queues \ {sched.queue} : queue'[r] = queue[r]
      /\ queue'[sched.queue].used /\ ~queue'[sched.queue].complete
      /\ queue'[sched.queue].job_id = sched.job
  <2>1. PICK r : r = queue[sched.queue]
    OBVIOUS
  <2>2. r \in QueueRec /\ r.used /\ ~r.complete
    BY <1>1, <2>1 DEF OwnInv, AssignOwn
  <2>3. ForJob(r, sched.job).used /\ ~ForJob(r, sched.job).complete /\ ForJob(r, sched.job).job_id = sched.job
    BY <1>1, <2>2, TakenTypes
  <2>4. queue' = [queue EXCEPT ![sched.queue] = ForJob(r, sched.job)]
    BY <1>2, <2>1
  <2> QED BY <1>1, <2>3, <2>4
<1>9. PICK t \in Tasks, q \in Queues, j \in Jobs : t = sched.task /\ q = sched.queue /\ j = sched.job
  BY <1>1
<1>10. /\ task[t].status = "IDLE" /\ task' = [task EXCEPT ![t] = Assigned(q, j)]
       /\ \A x \in Tasks : Running(x) => task[x].job # j /\ task[x].queue # q
       /\ TakenOf(jobs) \cup {j} \subseteq TakenOf(jobs')
       /\ \A r \in Queues \ {q} : queue'[r] = queue[r]
       /\ queue'[q].used /\ ~queue'[q].complete /\ queue'[q].job_id = j
  BY <1>1, <1>2, <1>5, <1>6, <1>7, <1>9
<1>11. sched'.pc \notin {"taken", "assign", "killed"} /\ sched'.pc # "policy"
  BY <1>4
<1>12. exe' = exe
  BY <1>2
<1> QED BY <1>3, <1>10, <1>11, <1>12, GivesOwn, ZenonT(60)


\* A seek's steps that keep what the running executors own.
LEMMA SeekOwns ==
  ASSUME BaseInv, OwnInv, Locked, SchedMay, exe' = exe,
         \A x \in Tasks : /\ task'[x].status = task[x].status /\ task'[x].queue = task[x].queue
                          /\ task'[x].job = task[x].job,
         \A x \in Tasks : Running(x) =>
           /\ task[x].job \in TakenOf(jobs')
           /\ queue'[task[x].queue].used /\ queue'[task[x].queue].job_id = queue[task[x].queue].job_id
           /\ ~queue'[task[x].queue].complete,
         sched'.pc \in SeekPcs, SeekOwn'
  PROVE  OwnInv'
<1>1. \A x \in Tasks : ~InWindow(x) /\ (Running(x) => Filling(x))
  BY Outside
<1>2. sched'.pc \notin {"taken", "assign"}
  BY SchedSets
<1>3. AssignOwn'
  BY <1>2 DEF AssignOwn
<1>4. \A x \in Tasks : Running(x) =>
         /\ task[x].job \in TakenOf(jobs')
         /\ queue'[task[x].queue].used /\ queue'[task[x].queue].job_id = queue[task[x].queue].job_id
         /\ ~queue'[task[x].queue].complete
         /\ ~Handing(task[x].queue)'
  BY <1>2 DEF Handing
<1> QED BY <1>1, <1>3, <1>4, OwnFrame

\* What a running executor has before a step outside the windows.
LEMMA RunningOwns ==
  ASSUME BaseInv, OwnInv, Locked, SchedMay, NEW x \in Tasks, Running(x)
  PROVE  /\ task[x].queue \in Queues /\ task[x].job \in Jobs /\ task[x].job \in TakenOf(jobs)
         /\ queue[task[x].queue].used /\ queue[task[x].queue].job_id = task[x].job
         /\ ~queue[task[x].queue].complete
<1>1. Filling(x)
  BY Outside
<1> QED BY <1>1 DEF BaseInv, TasksOK, OwnInv, TaskOwn, QueueOwn

LEMMA BeginSeekOwns == ASSUME BaseInv, CountOK, OwnInv, Locked, SchedSeek PROVE OwnInv'
<1>1. sched \in SchedRec /\ SchedOK /\ jobs \in JobsRec /\ SchedMay
  BY SchedTypes, JobsTypes DEF BaseInv, SchedSeek
<1>2. UNCHANGED <<queue, task, exe>>
  BY DEF SchedSeek
<1>3. sched'.pc = "seek"
  BY <1>1 DEF SchedSeek, Forget, SchedRec
<1>4. TakenOf(jobs') = TakenOf(jobs)
  <2>1. sched.job # INVALID_JOB_ID => sched.job \in Jobs /\ sched.job \notin TakenOf(jobs)
    BY <1>1, SchedTypes DEF CountOK, HandFree, TakenOf
  <2> QED BY <1>1, <2>1, AssignJobReset DEF SchedSeek, Edited
<1>5. SeekOwn'
  BY <1>3 DEF SeekOwn
<1>6. \A x \in Tasks : Running(x) =>
         /\ task[x].job \in TakenOf(jobs')
         /\ queue'[task[x].queue].used /\ queue'[task[x].queue].job_id = queue[task[x].queue].job_id
         /\ ~queue'[task[x].queue].complete
  BY <1>1, <1>2, <1>4, RunningOwns
<1> QED BY <1>1, <1>2, <1>3, <1>5, <1>6, SeekOwns, SchedSets

LEMMA PolicyOwns == ASSUME BaseInv, OwnInv, Locked, SchedPolicy PROVE OwnInv'
<1> DEFINE p == gen_seek_policy(seek_off \div SEG)
<1>1. sched.pc \in SeekPcs /\ sched.pc = "seek" /\ SchedMay
  BY SchedSets DEF SchedPolicy
<1>2. TypeOK /\ \A q \in Queues : queue[q].used => queue[q].job_id \in Jobs
  BY <1>1, Seeking
<1>3. seek_off \div SEG \in Jobs
  BY <1>2, SeekJob DEF TypeOK
<1>4. \A q \in Queues : queue[q].used => queue[q].job_id \notin p.new
  BY <1>2, <1>3, PolicyFacts
<1>5. PICK pc \in {"seekstop", "policy"} : sched' = [sched EXCEPT !.policy = p, !.pc = pc]
  BY DEF SchedPolicy
<1>6. UNCHANGED <<jobs, queue, task, exe>>
  BY DEF SchedPolicy, shared
<1> HIDE DEF p
<1>7. sched \in SchedRec
  BY <1>1, Seeking
<1>8. sched'.pc \in {"seekstop", "policy"} /\ sched'.policy = p
  BY <1>5, <1>7 DEF SchedRec
<1>9. \A x \in Tasks : Running(x) => task[x].job \notin p.new
  BY <1>1, <1>4, RunningOwns
<1>10. SeekOwn'
  BY <1>6, <1>8, <1>9 DEF SeekOwn, Running
<1>11. \A x \in Tasks : Running(x) =>
         /\ task[x].job \in TakenOf(jobs')
         /\ queue'[task[x].queue].used /\ queue'[task[x].queue].job_id = queue[task[x].queue].job_id
         /\ ~queue'[task[x].queue].complete
  BY <1>1, <1>6, RunningOwns
<1>12. sched'.pc \in SeekPcs
  BY <1>8, SchedSets
<1> QED BY <1>1, <1>6, <1>10, <1>11, <1>12, SeekOwns

LEMMA SeekResetOwns == ASSUME BaseInv, OwnInv, Locked, SchedSeekReset PROVE OwnInv'
<1>1. sched \in SchedRec /\ task' = task /\ exe' = exe
  BY SchedTypes DEF BaseInv, SchedSeekReset
<1>2. \A x \in Tasks : ~Running(x)
  BY IdleNotRunning DEF SchedSeekReset
<1>3. sched'.pc = "endseek"
  BY <1>1 DEF SchedSeekReset, SchedRec
<1>4. AssignOwn'
  BY <1>3 DEF AssignOwn
<1> QED BY <1>1, <1>2, <1>4, NobodyRuns DEF OwnInv

LEMMA KillOwns == ASSUME BaseInv, OwnInv, Locked, SchedKill PROVE OwnInv'
<1>1. sched \in SchedRec /\ SchedMay /\ sched.pc = "policy" /\ TypeOK
  BY SchedTypes DEF BaseInv, SchedKill
<1>2. UNCHANGED <<jobs, queue, exe>>
  BY DEF SchedKill, shared
<1>3. PICK t \in 0..TaskNum :
        /\ sched' = [sched EXCEPT !.pc = "killed", !.task = t]
        /\ task' = task \/ (t \in Tasks /\ task' = [task EXCEPT ![t].expect = "IDLE"])
        /\ \A y \in Tasks : task[y].queue # NULL /\ queue[task[y].queue].job_id = Min(sched.policy.kill)
                              => t \in Tasks /\ task[t].queue # NULL
                                             /\ queue[task[t].queue].job_id = Min(sched.policy.kill)
  BY KillFacts DEF KillAsks
<1>4. \A y \in Tasks : /\ task'[y].status = task[y].status /\ task'[y].queue = task[y].queue
                       /\ task'[y].job = task[y].job
  BY <1>1, <1>3, AskedTask
<1>5. sched'.pc = "killed" /\ sched'.task = t /\ sched'.policy = sched.policy
  BY <1>1, <1>3 DEF SchedRec
<1>6. ASSUME NEW x \in Tasks, Running(x), task[x].job = Min(sched.policy.kill) PROVE t = x
  <2>1. task[x].queue # NULL /\ queue[task[x].queue].job_id = Min(sched.policy.kill)
    <3>1. NULL \notin Queues
      BY DEF Queues, NULL
    <3> QED BY <1>1, <1>6, <3>1, RunningOwns
  <2>2. t \in Tasks /\ task[t].queue # NULL /\ queue[task[t].queue].job_id = Min(sched.policy.kill)
    BY <1>3, <2>1
  <2>3. Running(t)
    BY <2>2 DEF OwnInv, TaskOwn
  <2>4. task[t].job = task[x].job
    BY <1>1, <1>6, <2>2, <2>3, RunningOwns
  <2> QED BY <1>6, <2>2, <2>3, <2>4 DEF OwnInv, TaskOwn
<1>7. SeekOwn'
  <2>1. \A x \in Tasks : Running(x) => task[x].job \notin sched.policy.new
    BY <1>1 DEF OwnInv, SeekOwn
  <2> QED BY <1>4, <1>5, <1>6, <2>1 DEF SeekOwn, Running
<1>8. \A x \in Tasks : Running(x) =>
         /\ task[x].job \in TakenOf(jobs')
         /\ queue'[task[x].queue].used /\ queue'[task[x].queue].job_id = queue[task[x].queue].job_id
         /\ ~queue'[task[x].queue].complete
  BY <1>1, <1>2, RunningOwns
<1>9. sched'.pc \in SeekPcs
  BY <1>5, SchedSets
<1> QED BY <1>1, <1>2, <1>4, <1>7, <1>8, <1>9, SeekOwns

\* The job that is killed has no executor any more.
LEMMA KilledStopped ==
  ASSUME BaseInv, OwnInv, SchedKilled, NEW x \in Tasks, Running(x)
  PROVE  task[x].job # Min(sched.policy.kill)
<1> SUFFICES ASSUME task[x].job = Min(sched.policy.kill) PROVE FALSE
  OBVIOUS
<1>1. sched.task = x
  BY DEF OwnInv, SeekOwn, SchedKilled
<1>2. x # NULL
  BY DEF Tasks, NULL
<1> QED BY <1>1, <1>2 DEF SchedKilled, Stopped, Running

LEMMA KilledOwns == ASSUME BaseInv, OwnInv, Locked, SchedKilled PROVE OwnInv'
<1>1. sched \in SchedRec /\ SchedMay /\ sched.pc = "killed" /\ jobs \in JobsRec
        /\ queue \in [Queues -> QueueRec]
  BY SchedTypes, JobsTypes, QueueTypes DEF BaseInv, SchedKilled
<1>2. PICK j : j = Min(sched.policy.kill)
  OBVIOUS
<1>3. PICK q : q = get_one_queue(j)
  OBVIOUS
<1>4. /\ queue' = IF q = NULL THEN queue ELSE [queue EXCEPT ![q] = queue_reset(queue[q])]
      /\ jobs' = Reactive_Job(jobs, j)
      /\ sched' = [sched EXCEPT !.pc = "policy", !.task = NULL, !.policy.kill = @ \ {j}]
      /\ UNCHANGED <<task, exe>>
  BY <1>2, <1>3 DEF SchedKilled
<1>5. sched'.pc = "policy" /\ sched'.policy.new = sched.policy.new
  <2>1. sched.policy \in Policy
    BY SchedTypes DEF BaseInv
  <2> QED BY <1>1, <1>4, <2>1 DEF SchedRec, Policy
<1>6. \A x \in Tasks : Running(x) => task[x].job # j
  BY <1>2, KilledStopped
<1>7. TakenOf(jobs') = TakenOf(jobs) \ {j}
  BY <1>1, <1>4, ReactiveJob DEF Edited
<1>8. q = NULL \/ (q \in Queues /\ queue[q].job_id = j)
  BY <1>3, OneQueueFacts
<1>9. \A x \in Tasks : Running(x) => queue'[task[x].queue] = queue[task[x].queue]
  BY <1>1, <1>4, <1>6, <1>8, RunningOwns
<1>10. \A x \in Tasks : Running(x) =>
         /\ task[x].job \in TakenOf(jobs')
         /\ queue'[task[x].queue].used /\ queue'[task[x].queue].job_id = queue[task[x].queue].job_id
         /\ ~queue'[task[x].queue].complete
  BY <1>1, <1>6, <1>7, <1>9, RunningOwns
<1>11. SeekOwn'
  BY <1>1, <1>4, <1>5 DEF OwnInv, SeekOwn, Running
<1>12. sched'.pc \in SeekPcs
  BY <1>5, SchedSets
<1> QED BY <1>1, <1>4, <1>10, <1>11, <1>12, SeekOwns

LEMMA SaveOwns == ASSUME BaseInv, OwnInv, Locked, SchedSave PROVE OwnInv'
<1>1. sched \in SchedRec /\ SchedMay /\ sched.pc = "policy" /\ sched.policy \in Policy /\ TypeOK
        /\ queue \in [Queues -> QueueRec]
  BY SchedTypes, QueueTypes DEF BaseInv, SchedSave
<1>2. /\ sched' = [sched EXCEPT !.policy.save = {}]
      /\ UNCHANGED <<jobs, task, exe>>
  BY DEF SchedSave
<1>3. sched'.pc = "policy" /\ sched'.policy.new = sched.policy.new
  BY <1>1, <1>2 DEF SchedRec, Policy
<1>4. \A q \in Queues : /\ queue[q].used => queue'[q].used
                        /\ queue'[q].job_id = queue[q].job_id /\ queue'[q].complete = queue[q].complete
  <2> SUFFICES ASSUME NEW q \in Queues
               PROVE  /\ queue[q].used => queue'[q].used
                      /\ queue'[q].job_id = queue[q].job_id /\ queue'[q].complete = queue[q].complete
    OBVIOUS
  <2>1. PICK r : r = queue[q]
    OBVIOUS
  <2>2. r \in QueueRec /\ (queue'[q] = r \/ queue'[q] = [r EXCEPT !.read_pos = 0, !.used = TRUE])
    BY <1>1, <2>1, SaveFacts
  <2>3. /\ r.used => queue'[q].used
        /\ queue'[q].job_id = r.job_id /\ queue'[q].complete = r.complete
    BY <2>2 DEF QueueRec
  <2> QED BY <2>1, <2>3
<1>5. \A x \in Tasks : Running(x) =>
         /\ task[x].job \in TakenOf(jobs')
         /\ queue'[task[x].queue].used /\ queue'[task[x].queue].job_id = queue[task[x].queue].job_id
         /\ ~queue'[task[x].queue].complete
  BY <1>1, <1>2, <1>4, RunningOwns
<1>6. SeekOwn'
  BY <1>1, <1>2, <1>3 DEF OwnInv, SeekOwn, Running
<1>7. sched'.pc \in SeekPcs
  BY <1>3, SchedSets
<1> QED BY <1>1, <1>2, <1>5, <1>6, <1>7, SeekOwns

LEMMA NewOwns == ASSUME BaseInv, OwnInv, Locked, SchedNew PROVE OwnInv'
<1>1. sched \in SchedRec /\ SchedMay /\ sched.pc = "policy" /\ sched.policy \in Policy /\ jobs \in JobsRec
        /\ queue \in [Queues -> QueueRec] /\ exe' = exe
  BY SchedTypes, QueueTypes, JobsTypes DEF BaseInv, SchedNew
<1>2. PICK j \in Jobs :
        /\ j \in sched.policy.new
        /\ sched' = [sched EXCEPT !.policy = [sched.policy EXCEPT !.new = @ \ {j}]]
        /\ NewWaits(j) \/ \E q \in Queues, x \in Tasks : NewGives(j, q, x)
  BY <1>1, NewFacts
<1>3. sched'.pc = "policy" /\ sched'.policy.new = sched.policy.new \ {j}
  BY <1>1, <1>2 DEF SchedRec, Policy
<1>4. \A x \in Tasks : Running(x) => task[x].job # j /\ task[x].job \notin sched'.policy.new
  BY <1>1, <1>2, <1>3 DEF OwnInv, SeekOwn
<1>5. PICK J : J = Reactive_Job(jobs, j)
  OBVIOUS
<1>6. J \in JobsRec /\ TakenOf(J) = TakenOf(jobs) \ {j}
  BY <1>1, <1>5, ReactiveJob DEF Edited
<1>7. CASE NewWaits(j)
  <2>1. UNCHANGED <<queue, task>> /\ jobs' = J
    BY <1>5, <1>7 DEF NewWaits
  <2>2. \A x \in Tasks : Running(x) =>
           /\ task[x].job \in TakenOf(jobs')
           /\ queue'[task[x].queue].used /\ queue'[task[x].queue].job_id = queue[task[x].queue].job_id
           /\ ~queue'[task[x].queue].complete
    BY <1>1, <1>4, <1>6, <2>1, RunningOwns
  <2>3. SeekOwn'
    BY <1>3, <1>4, <2>1 DEF SeekOwn, Running
  <2>4. sched'.pc \in SeekPcs
    BY <1>3, SchedSets
  <2> QED BY <1>1, <2>1, <2>2, <2>3, <2>4, SeekOwns
<1>8. ASSUME NEW q \in Queues, NEW t \in Tasks, NewGives(j, q, t) PROVE OwnInv'
  <2>1. TakenOf(jobs) \cup {j} \subseteq TakenOf(jobs')
    <3>1. jobs' = Assign_Job(J, j)
      BY <1>5, <1>8 DEF NewGives
    <3>2. TakenOf(Assign_Job(J, j)) = TakenOf(J) \cup {j}
      BY <1>6, AssignJob DEF Edited
    <3> QED BY <1>6, <3>1, <3>2
  <2>2. /\ \A r \in Queues \ {q} : queue'[r] = queue[r]
        /\ queue'[q].used /\ ~queue'[q].complete /\ queue'[q].job_id = j
    <3>1. PICK r : r = Taken(queue[q])
      OBVIOUS
    <3>2. r \in QueueRec /\ r.used /\ ~r.complete
      BY <1>1, <3>1, TakenTypes
    <3>3. ForJob(r, j).used /\ ~ForJob(r, j).complete /\ ForJob(r, j).job_id = j
      BY <3>2, TakenTypes
    <3>4. queue' = [queue EXCEPT ![q] = ForJob(r, j)]
      BY <1>8, <3>1 DEF NewGives
    <3> QED BY <1>1, <3>3, <3>4
  <2>3. \A x \in Tasks : Running(x) => task[x].job # j /\ task[x].queue # q
    BY <1>1, <1>4, <1>8, RunningOwns DEF NewGives
  <2>4. task[t].status = "IDLE" /\ task' = [task EXCEPT ![t] = Assigned(q, j)]
    BY <1>8 DEF NewGives
  <2>5. /\ sched'.pc \notin {"taken", "assign", "killed"} /\ j \notin sched'.policy.new
        /\ \A x \in Tasks : Running(x) => task[x].job \notin sched'.policy.new
    BY <1>3, <1>4
  <2>6. \A x \in Tasks : ~InWindow(x) /\ (Running(x) => Filling(x))
    BY <1>1, Outside
  <2>7. exe' = exe
    BY <1>1
  <2> QED BY <2>1, <2>2, <2>3, <2>4, <2>5, <2>6, <2>7, GivesOwn, ZenonT(60)
<1> QED BY <1>2, <1>7, <1>8

LEMMA SchedOwns == ASSUME BaseInv, CountOK, OwnInv, Locked, SchedNext PROVE OwnInv'
  BY QuietOwns, PassOwns, TakeOwns, AssignOwns, BeginSeekOwns, PolicyOwns, SeekResetOwns,
     KillOwns, KilledOwns, SaveOwns, NewOwns DEF SchedNext


\* A step of executor x: nobody else is in a window.
LEMMA OthersOutside ==
  ASSUME Locked, NEW x \in Tasks, ExeMay(x)
  PROVE  \A y \in Tasks \ {x} : ~InWindow(y)
  BY Closed DEF ExeMay

\* A step of executor x that keeps the tasks and the queues' owners.
LEMMA ExeOwnFrame ==
  ASSUME BaseInv, OwnInv, Locked, NEW x \in Tasks, ExeMay(x), sched' = sched, task' = task, Running(x),
         \A y \in Tasks \ {x} : exe'[y] = exe[y],
         jobs'.assigned = jobs.assigned, exe'[x].pc # "setidle",
         \A y \in Tasks \ {x} : Filling(y) => ~queue'[task[y].queue].complete,
         Filling(x)' => Filling(x) /\ ~queue'[task[x].queue].complete,
         \A q \in Queues : queue'[q].used = queue[q].used /\ queue'[q].job_id = queue[q].job_id,
         AssignOwn'
  PROVE  OwnInv'
<1>1. \A y \in Tasks : /\ Running(y)' <=> Running(y)
                       /\ y # x => ~InWindow(y)' /\ (Filling(y)' <=> Filling(y))
  BY OthersOutside DEF Running, InWindow, Filling
<1>2. TaskOwn'
  <2>1. \A y, z \in Tasks : InWindow(y)' /\ InWindow(z)' => y = z
    BY <1>1
  <2>2. \A y \in Tasks : exe'[y].pc # "setidle" /\ (exe'[y].pc = "isrun" => Running(y))
    BY DEF OwnInv, TaskOwn
  <2> QED BY <1>1, <2>1, <2>2 DEF OwnInv, TaskOwn, TakenOf
<1>3. QueueOwn'
  <2> SUFFICES ASSUME NEW y \in Tasks, Filling(y)'
               PROVE  (/\ queue[task[y].queue].used /\ queue[task[y].queue].job_id = task[y].job
                       /\ ~queue[task[y].queue].complete
                       /\ ~Handing(task[y].queue))'
    BY DEF QueueOwn
  <2>1. Filling(y) /\ Running(y) /\ ~queue'[task[y].queue].complete
    BY <1>1 DEF Filling, Running
  <2>2. task[y].queue \in Queues
    BY <2>1 DEF BaseInv, TasksOK
  <2> QED BY <2>1, <2>2 DEF OwnInv, QueueOwn, Handing
<1>4. SeekOwn'
  BY <1>1 DEF OwnInv, SeekOwn
<1> QED BY <1>2, <1>3, <1>4 DEF OwnInv

LEMMA ExeQuietOwns ==
  ASSUME BaseInv, OwnInv, Locked, NEW x \in Tasks,
         ExePoll(x) \/ ExeIsRunning(x) \/ ExeStart(x) \/ ExeStopped(x) \/ ExeFault(x) \/ ExeRecv(x)
           \/ ExeComplete(x) \/ ExeCount(x)
  PROVE  OwnInv'
<1>1. TypeOK /\ ExeMay(x)
  BY DEF BaseInv, ExePoll, ExeIsRunning, ExeStart, ExeStopped, ExeFault, ExeRecv, ExeComplete, ExeCount
<1>2. sched' = sched /\ task' = task
  BY DEF ExePoll, ExeIsRunning, ExeStart, ExeStopped, ExeFault, ExeRecv, ExeComplete, ExeCount
<1>3. Running(x)
  <2>1. CASE ExePoll(x)
    BY <2>1 DEF ExePoll, Locked, Running
  <2>2. CASE ExeIsRunning(x)
    BY <2>2 DEF ExeIsRunning, OwnInv, TaskOwn
  <2>3. CASE ExeStart(x)
    BY <2>3 DEF ExeStart, Running
  <2>4. CASE ExeStopped(x) \/ ExeFault(x) \/ ExeRecv(x) \/ ExeComplete(x) \/ ExeCount(x)
    <3>1. Busy(x)
      BY <2>4 DEF ExeStopped, ExeFault, ExeRecv, ExeComplete, ExeCount, Busy
    <3> QED BY <3>1 DEF BaseInv, TasksOK
  <2> QED BY <2>1, <2>2, <2>3, <2>4
<1>4. /\ \A y \in Tasks \ {x} : exe'[y] = exe[y]
      /\ exe'[x].pc \in {"isrun", "recv", "done", "count", "leave"}
      /\ exe[x].pc \in {"complete", "count"} => exe'[x].pc \in {"count", "leave"}
  <2>1. CASE ExePoll(x)
    BY <1>1, <2>1, ExeSteps DEF ExePoll
  <2>2. CASE ExeIsRunning(x)
    <3>1. ExeStep(x, "done") /\ exe[x].pc = "isrun"
      BY <1>3, <2>2 DEF ExeIsRunning, Running
    <3> QED BY <1>1, <3>1, ExeSteps
  <2>3. CASE ExeStart(x)
    <3>1. exe[x] \in ExeRec
      BY <1>1, ExeTypes
    <3> QED BY <1>1, <2>3, <3>1, ExeTypes DEF ExeStart, ExeRec
  <2>4. CASE ExeStopped(x) \/ ExeFault(x)
    <3>1. ExeStep(x, "done") /\ exe[x].pc = "recv"
      BY <2>4 DEF ExeStopped, ExeFault
    <3> QED BY <1>1, <3>1, ExeSteps
  <2>5. CASE ExeRecv(x)
    BY <2>5, RecvFacts DEF ExeRecv
  <2>6. CASE ExeComplete(x)
    BY <2>6, CompleteFacts
  <2>7. CASE ExeCount(x)
    BY <2>7, CountFacts
  <2> QED BY <2>1, <2>2, <2>3, <2>4, <2>5, <2>6, <2>7
<1>5. jobs'.assigned = jobs.assigned
  <2>1. jobs' = jobs \/ ExeComplete(x) \/ ExeCount(x)
    BY DEF ExePoll, ExeIsRunning, ExeStart, ExeStopped, ExeFault, ExeRecv, shared
  <2> QED BY <2>1, CompleteFacts, CountFacts
<1>6. \A q \in Queues : /\ queue'[q].used = queue[q].used /\ queue'[q].job_id = queue[q].job_id
                        /\ queue'[q].complete = queue[q].complete
  <2>1. queue' = queue \/ ExeRecv(x)
    BY DEF ExePoll, ExeIsRunning, ExeStart, ExeStopped, ExeFault, ExeComplete, ExeCount, shared
  <2> QED BY <2>1, RecvFacts
<1>7. Filling(x)' => Filling(x)
  <2>1. exe[x].pc = "leave" => FALSE
    BY DEF ExePoll, ExeIsRunning, ExeStart, ExeStopped, ExeFault, ExeRecv, ExeComplete, ExeCount
  <2> QED BY <1>3, <1>4, <2>1 DEF Filling, Running
<1>8. \A y \in Tasks : Filling(y) => ~queue'[task[y].queue].complete
  <2>1. \A y \in Tasks : Filling(y) => task[y].queue \in Queues
    BY DEF BaseInv, TasksOK, Filling, Running
  <2> QED BY <1>6, <2>1 DEF OwnInv, QueueOwn
<1>9. AssignOwn'
  <2>1. sched.pc = "assign" => sched.queue \in Queues
    BY DEF BaseInv, SchedOK
  <2> QED BY <1>2, <1>6, <2>1 DEF OwnInv, AssignOwn
<1>10. exe'[x].pc # "setidle"
  BY <1>4
<1> QED BY <1>1, <1>2, <1>3, <1>4, <1>5, <1>6, <1>7, <1>8, <1>9, <1>10, ExeOwnFrame

\* download_done ends the ownership of the queue: it may be read to its end.
LEMMA DoneOwns == ASSUME BaseInv, OwnInv, Locked, NEW x \in Tasks, ExeDone(x) PROVE OwnInv'
<1>1. ExeMay(x) /\ sched' = sched /\ task' = task /\ jobs' = jobs /\ exe[x].pc = "done"
  BY DEF ExeDone
<1>2. Running(x) /\ Filling(x) /\ ~Handing(task[x].queue)
  BY <1>1, DoneFacts DEF Filling, Running, OwnInv, QueueOwn
<1>3. /\ \A y \in Tasks \ {x} : exe'[y] = exe[y]
      /\ exe'[x].pc \in {"complete", "leave"}
      /\ \A q \in Queues : queue'[q].used = queue[q].used /\ queue'[q].job_id = queue[q].job_id
      /\ \A q \in Queues \ {task[x].queue} : queue'[q] = queue[q]
  BY DoneFacts
<1>4. ~Filling(x)' /\ exe'[x].pc # "setidle"
  BY <1>3 DEF Filling
<1>5. \A y \in Tasks \ {x} : Filling(y) => ~queue'[task[y].queue].complete
  <2>1. \A y \in Tasks \ {x} : Filling(y) => task[y].queue \in Queues \ {task[x].queue}
    BY <1>2, QueueDistinct DEF BaseInv, TasksOK, Filling, Running
  <2> QED BY <1>3, <2>1 DEF OwnInv, QueueOwn
<1>6. AssignOwn'
  <2>1. sched.pc = "assign" => sched.queue \in Queues \ {task[x].queue}
    BY <1>2 DEF BaseInv, SchedOK, Handing
  <2> QED BY <1>1, <1>3, <2>1 DEF OwnInv, AssignOwn
<1>7. jobs'.assigned = jobs.assigned
  BY <1>1
<1> QED BY <1>1, <1>2, <1>3, <1>4, <1>5, <1>6, <1>7, ExeOwnFrame

\* The task is given back.
LEMMA LeaveOwns ==
  ASSUME BaseInv, OwnInv, Locked, NEW x \in Tasks, ExeLeave(x) \/ ExeExit(x) \/ ExeSetIdle(x)
  PROVE  OwnInv'
<1>1. TypeOK /\ task \in [Tasks -> TaskRec] /\ ~ExeSetIdle(x) /\ ExeMay(x)
  BY TaskTypes DEF BaseInv, OwnInv, TaskOwn, ExeSetIdle, ExeLeave, ExeExit
<1>2. UNCHANGED <<jobs, queue, sched>>
  BY <1>1 DEF ExeLeave, ExeExit, shared
<1>3. /\ ~Running(x)' /\ task'[x].queue = NULL
      /\ \A y \in Tasks \ {x} : task'[y] = task[y]
  <2>1. CASE ExeLeave(x)
    BY <1>1, <2>1 DEF ExeLeave, TaskRec, Running
  <2>2. CASE ExeExit(x)
    <3>1. ~Running(x)
      BY <2>2 DEF ExeExit, BaseInv, SessionOK, Leaving
    <3>2. task[x].queue = NULL
      BY <3>1 DEF OwnInv, TaskOwn
    <3> QED BY <1>1, <2>2, <3>2 DEF ExeExit, TaskRec, Running
  <2> QED BY <1>1, <2>1, <2>2
<1>4. exe'[x].pc \in {"poll", "exited"} /\ \A y \in Tasks \ {x} : exe'[y] = exe[y]
  <2>1. CASE ExeLeave(x)
    BY <1>1, <2>1, ExeTypes DEF ExeLeave
  <2>2. CASE ExeExit(x)
    BY <1>1, <2>2, ExeSteps DEF ExeExit
  <2> QED BY <1>1, <2>1, <2>2
<1>5. \A y \in Tasks : y # x => (Running(y)' <=> Running(y)) /\ (Filling(y)' <=> Filling(y))
                                /\ (InWindow(y)' <=> InWindow(y))
  BY <1>3, <1>4 DEF Running, Filling, InWindow
<1>6. ~Filling(x)' /\ ~InWindow(x)' /\ ~Running(x)'
  BY <1>3, <1>4 DEF Running, Filling, InWindow
<1>7. TaskOwn'
  <2>1. \A y, z \in Tasks : InWindow(y)' /\ InWindow(z)' => y = z
    BY <1>5, <1>6 DEF OwnInv, TaskOwn
  <2>2. \A y \in Tasks : /\ exe'[y].pc = "isrun" => Running(y)'
                         /\ exe'[y].pc # "setidle"
                         /\ task'[y].queue # NULL => Running(y)'
                         /\ Running(y)' => task'[y].job \in TakenOf(jobs)
    BY <1>3, <1>4, <1>5, <1>6 DEF OwnInv, TaskOwn
  <2>3. \A y, z \in Tasks : Running(y)' /\ Running(z)' /\ task'[y].job = task'[z].job => y = z
    BY <1>3, <1>5, <1>6 DEF OwnInv, TaskOwn
  <2> QED BY <1>2, <2>1, <2>2, <2>3 DEF TaskOwn, TakenOf
<1>8. QueueOwn'
  BY <1>2, <1>3, <1>5, <1>6 DEF OwnInv, QueueOwn, Handing
<1>9. AssignOwn'
  BY <1>2 DEF OwnInv, AssignOwn
<1>10. SeekOwn'
  BY <1>2, <1>3, <1>5, <1>6 DEF OwnInv, SeekOwn
<1> QED BY <1>7, <1>8, <1>9, <1>10 DEF OwnInv

LEMMA ExeOwns == ASSUME BaseInv, OwnInv, Locked, NEW x \in Tasks, ExeNext(x) PROVE OwnInv'
  BY ExeQuietOwns, DoneOwns, LeaveOwns DEF ExeNext

LEMMA InitOwn == Init => OwnInv
<1> SUFFICES ASSUME Init PROVE OwnInv
  OBVIOUS
<1>1. \A x \in Tasks : ~Running(x) /\ ~Filling(x) /\ ~InWindow(x) /\ task[x].queue = NULL
                         /\ exe[x].pc = "poll"
  BY DEF Init, Running, Filling, InWindow
<1>2. sched.pc = "top"
  BY DEF Init
<1> QED BY <1>1, <1>2 DEF OwnInv, TaskOwn, QueueOwn, AssignOwn, SeekOwn

LEMMA OwnStutters == ASSUME OwnInv, UNCHANGED vars PROVE OwnInv'
<1>1. UNCHANGED <<jobs, queue, task, sched, exe>>
  BY DEF vars
<1> QED BY <1>1 DEF OwnInv, TaskOwn, QueueOwn, AssignOwn, SeekOwn, Running, Filling, InWindow,
                    Handing, TakenOf

LEMMA OwnStep == ASSUME BaseInv, CountOK, OwnInv, Locked, [Next]_vars PROVE OwnInv'
<1>1. CASE UNCHANGED vars
  BY <1>1, OwnStutters
<1>2. CASE Gone
  BY <1>2, OwnStutters DEF Gone
<1> QED BY <1>1, <1>2, AppOwns, SchedOwns, ExeOwns DEF Next

LEMMA OwnInvariant == ASSUME Locked PROVE Spec => []OwnInv
<1>1. Init => OwnInv
  BY InitOwn
<1>2. BaseInv /\ CountOK /\ OwnInv /\ [Next]_vars => OwnInv'
  BY OwnStep
<1> QED BY <1>1, <1>2, Invariance, PTL DEF Spec

\* Two executors never fill the same queue, and a queue that is being filled is in
\* use and has the job of its executor, if nobody runs while an executor is between
\* its look at expect_status and its status, or between the queue's complete flag
\* and its status.  The windows of the scheduler are open.
THEOREM QueuesOwned ==
  ASSUME Locked
  PROVE  Spec => []QueueOwned
<1>1. OwnInv => QueueOwned
  <2> SUFFICES ASSUME OwnInv PROVE QueueOwned
    OBVIOUS
  <2> QED BY QueueDistinct DEF OwnInv, QueueOwn, QueueOwned
<1> QED BY <1>1, OwnInvariant, PTL


-----------------------------------------------------------------------------
(* With the same windows closed: every assigned job that is not complete   *)
(* has an executor, and the complete jobs are counted.                     *)

HandWaits == sched.job \in Jobs => ~jobs.complete[sched.job]

\* An executor in download_done.
Finishing ==
  \A x \in Tasks :
    /\ exe[x].pc \in {"complete", "count"} => exe[x].job = task[x].job
    /\ exe[x].pc \in {"count", "leave"} => task[x].job \in DoneOf(jobs)
    /\ exe[x].pc = "count" => /\ exe[x].num = jobs.complete_job_num
                              /\ jobs.complete_job_num + 1 = Cardinality(DoneOf(jobs))

Counted ==
  /\ (\A x \in Tasks : exe[x].pc # "count") => jobs.complete_job_num = Cardinality(DoneOf(jobs))
  /\ jobs.complete_job_num = JobTotal => jobs.finish_flag

Covered == \A j \in TakenOf(jobs) \ DoneOf(jobs) : \E x \in Tasks : Running(x) /\ task[x].job = j

DoneInv == HandWaits /\ Finishing /\ Counted /\ Covered

LEMMA DoneOutside ==
  ASSUME DoneInv, \A x \in Tasks : ~InWindow(x)
  PROVE  CompleteExact(jobs)
<1>1. \A x \in Tasks : exe[x].pc # "count"
  BY DEF InWindow
<1> QED BY <1>1 DEF DoneInv, Counted, CompleteExact

\* A step outside the windows.
LEMMA DoneFrame ==
  ASSUME exe' = exe, \A x \in Tasks : ~InWindow(x), NEW K, jobs' = K, CompleteExact(K),
         HandWaits', Covered'
  PROVE  DoneInv'
<1>1. \A x \in Tasks : exe'[x].pc \notin {"complete", "count", "leave"}
  BY DEF InWindow
<1>2. Finishing'
  BY <1>1 DEF Finishing
<1>3. Counted'
  BY DEF CompleteExact, Counted, DoneOf
<1> QED BY <1>2, <1>3 DEF DoneInv

\* The running tasks are kept, and no more jobs need one.
LEMMA CoverFrame ==
  ASSUME DoneInv, \A x \in Tasks : task'[x].status = task[x].status /\ task'[x].job = task[x].job,
         TakenOf(jobs') \ DoneOf(jobs') \subseteq TakenOf(jobs) \ DoneOf(jobs)
  PROVE  Covered'
<1>1. \A j \in TakenOf(jobs') \ DoneOf(jobs') : \E x \in Tasks : Running(x)' /\ task'[x].job = j
  BY DEF DoneInv, Covered, Running
<1> QED BY <1>1 DEF Covered, TakenOf, DoneOf

\* A waiting job is given to an idle executor.
LEMMA CoverGives ==
  ASSUME BaseInv, DoneInv, NEW t \in Tasks, NEW q \in Queues, NEW j \in Jobs, task[t].status = "IDLE",
         task' = [task EXCEPT ![t] = Assigned(q, j)], exe' = exe,
         TakenOf(jobs') \ DoneOf(jobs') \subseteq (TakenOf(jobs) \ DoneOf(jobs)) \cup {j}
  PROVE  Covered'
<1>1. /\ task'[t] = Assigned(q, j) /\ \A y \in Tasks \ {t} : task'[y] = task[y]
  BY GivenTask
<1>2. Running(t)' /\ task'[t].job = j
  BY <1>1 DEF Running, Assigned
<1>3. \A x \in Tasks : Running(x) => Running(x)' /\ task'[x].job = task[x].job
  BY <1>1 DEF Running
<1>4. \A i \in TakenOf(jobs') \ DoneOf(jobs') : \E x \in Tasks : Running(x)' /\ task'[x].job = i
  BY <1>2, <1>3 DEF DoneInv, Covered
<1> QED BY <1>4 DEF Covered, TakenOf, DoneOf

LEMMA AppDone == ASSUME BaseInv, OwnInv, DoneInv, Locked, AppNext PROVE DoneInv'
<1>1. \A x \in Tasks : ~InWindow(x)
  BY AppWindow, Outside
<1>2. exe' = exe /\ task' = task
  BY DEF AppNext, AppReturns, OpenBegin, OpenDone, OpenFailed, OpenReset, ReadBegin, ReadEof, ReadTurn,
         ReadNothing, SeekBegin, StartSeek, SeekDone, CloseBegin, CloseStop, CloseDone, DeinitBegin,
         DeinitStop, DeinitDestroy, DeinitDone
<1>3. jobs \in JobsRec /\ sched \in SchedRec /\ CompleteExact(jobs)
  BY <1>1, JobsTypes, SchedTypes, DoneOutside DEF BaseInv
<1>4. CASE OpenDone
  <2>1. jobs' = NewJobs
    BY <1>4 DEF OpenDone
  <2>2. TakenOf(NewJobs) = {} /\ DoneOf(NewJobs) = {} /\ NewJobs.complete_job_num = 0
    BY DEF TakenOf, DoneOf, NewJobs
  <2>3. CompleteExact(NewJobs)
    BY <2>2, FS_EmptySet, JobTotalFacts DEF CompleteExact
  <2>4. HandWaits'
    BY <2>1 DEF HandWaits, NewJobs
  <2>5. Covered'
    BY <2>1, <2>2 DEF Covered, TakenOf, DoneOf
  <2> QED BY <1>1, <1>2, <2>1, <2>3, <2>4, <2>5, DoneFrame
<1>5. CASE CloseDone
  <2>1. jobs' = [jobs EXCEPT !.alive = FALSE] /\ sched' = [sched EXCEPT !.stale = sched.job # INVALID_JOB_ID]
    BY <1>5 DEF CloseDone
  <2>2. /\ jobs'.assigned = jobs.assigned /\ jobs'.complete = jobs.complete
        /\ jobs'.complete_job_num = jobs.complete_job_num /\ jobs'.finish_flag = jobs.finish_flag
        /\ sched'.job = sched.job
    BY <1>3, <2>1 DEF JobsRec, SchedRec
  <2> QED BY <1>2, <2>2 DEF DoneInv, HandWaits, Finishing, Counted, Covered, TakenOf, DoneOf, Running
<1>6. CASE UNCHANGED <<jobs, sched>>
  BY <1>2, <1>6 DEF DoneInv, HandWaits, Finishing, Counted, Covered, TakenOf, DoneOf, Running
<1>7. UNCHANGED <<jobs, sched>> \/ OpenDone \/ CloseDone
  BY DEF AppNext, AppReturns, OpenBegin, OpenFailed, OpenReset, ReadBegin, ReadEof, ReadTurn, ReadNothing,
         SeekBegin, StartSeek, SeekDone, CloseBegin, CloseStop, DeinitBegin, DeinitStop,
         DeinitDestroy, DeinitDone, shared
<1> QED BY <1>4, <1>5, <1>6, <1>7

\* The job in hand after a step of a seek: none.
LEMMA NoHand == sched'.job = INVALID_JOB_ID => HandWaits'
  BY NoJob DEF HandWaits

\* The steps of the scheduler that leave the job list alone.
LEMMA SchedKeepsJobs ==
  ASSUME BaseInv, DoneInv,
         SchedExit \/ SchedPrepareIdle \/ SchedIdleCheck \/ SchedTake \/ SchedPolicy \/ SchedKill
           \/ SchedSave \/ SchedPolicyDone \/ SchedEndSeek \/ SchedSetRunning \/ SchedPass
  PROVE  /\ jobs' = jobs /\ HandWaits'
         /\ \A x \in Tasks : task'[x].status = task[x].status /\ task'[x].job = task[x].job
<1>1. sched \in SchedRec /\ SchedOK /\ TypeOK
  BY SchedTypes DEF BaseInv
<1>2. jobs' = jobs
  BY DEF SchedExit, SchedPrepareIdle, SchedIdleCheck, SchedTake, SchedPolicy, SchedKill,
         SchedSave, SchedPolicyDone, SchedEndSeek, SchedSetRunning, SchedPass, shared
<1>3. \A x \in Tasks : task'[x].status = task[x].status /\ task'[x].job = task[x].job
  <2>1. CASE SchedKill
    <3>1. task' = task \/ \E x \in Tasks : task' = [task EXCEPT ![x].expect = "IDLE"]
      BY <2>1, KillFacts DEF KillAsks
    <3> QED BY <1>1, <3>1, AskedTask
  <2>2. CASE ~SchedKill
    BY <2>2 DEF SchedExit, SchedPrepareIdle, SchedIdleCheck, SchedTake, SchedPolicy,
                SchedSave, SchedPolicyDone, SchedEndSeek, SchedSetRunning, SchedPass
  <2> QED BY <2>1, <2>2
<1>4. sched'.job \in {sched.job, INVALID_JOB_ID} \/ ~jobs.complete[sched'.job]
  <2>1. CASE SchedExit \/ SchedPrepareIdle \/ SchedTake \/ SchedPolicyDone \/ SchedEndSeek
               \/ SchedSetRunning
    BY <1>1, <2>1 DEF SchedExit, SchedPrepareIdle, SchedTake, SchedPolicyDone, SchedEndSeek,
                      SchedSetRunning, SchedRec
  <2>2. CASE SchedIdleCheck
    BY <1>1, <2>2 DEF SchedIdleCheck, Forget, SchedRec
  <2>3. CASE SchedPolicy
    <3>1. \E p, pc : sched' = [sched EXCEPT !.policy = p, !.pc = pc]
      BY <2>3 DEF SchedPolicy
    <3> QED BY <1>1, <3>1 DEF SchedRec
  <2>4. CASE SchedKill
    <3>1. \E x : sched' = [sched EXCEPT !.pc = "killed", !.task = x]
      BY <2>4, KillFacts DEF KillAsks
    <3> QED BY <1>1, <3>1 DEF SchedRec
  <2>5. CASE SchedSave
    <3>1. sched' = [sched EXCEPT !.policy.save = {}]
      BY <2>5 DEF SchedSave
    <3> QED BY <1>1, <3>1 DEF SchedRec
  <2>6. CASE SchedPass
    <3>1. PICK j \in Jobs :
            /\ j = sched.job \/ ~jobs.complete[j]
            /\ PassWaits(j) \/ \E q \in Queues, x \in Tasks : PassTakes(j, q, x)
      BY <1>1, <2>6, PassSteps
    <3>2. sched'.job = j
      <4>1. CASE PassWaits(j)
        BY <1>1, <4>1 DEF PassWaits, SchedRec
      <4>2. CASE \E q \in Queues, x \in Tasks : PassTakes(j, q, x)
        BY <1>1, <4>2 DEF PassTakes, SchedRec
      <4> QED BY <3>1, <4>1, <4>2
    <3> QED BY <3>1, <3>2
  <2> QED BY <2>1, <2>2, <2>3, <2>4, <2>5, <2>6
<1>5. HandWaits'
  BY <1>2, <1>4, NoJob DEF DoneInv, HandWaits
<1> QED BY <1>2, <1>3, <1>5

LEMMA SchedDone == ASSUME BaseInv, CountOK, OwnInv, DoneInv, Locked, SchedNext PROVE DoneInv'
<1>1. \A x \in Tasks : ~InWindow(x)
  BY SchedWindowClosed, Outside
<1>2. exe' = exe
  BY DEF SchedNext, SchedExit, SchedPrepareIdle, SchedIdleCheck, SchedPass, SchedTake, SchedAssign,
         SchedSeek, SchedPolicy, SchedSeekReset, SchedKill, SchedKilled, SchedSave, SchedNew,
         SchedPolicyDone, SchedEndSeek, SchedSetRunning
<1>3. jobs \in JobsRec /\ sched \in SchedRec /\ SchedOK /\ TypeOK /\ CompleteExact(jobs)
  BY <1>1, JobsTypes, SchedTypes, DoneOutside DEF BaseInv
<1>4. CASE SchedExit \/ SchedPrepareIdle \/ SchedIdleCheck \/ SchedTake \/ SchedPolicy \/ SchedKill
             \/ SchedSave \/ SchedPolicyDone \/ SchedEndSeek \/ SchedSetRunning \/ SchedPass
  <2>1. /\ jobs' = jobs /\ HandWaits'
        /\ \A x \in Tasks : task'[x].status = task[x].status /\ task'[x].job = task[x].job
    BY <1>4, SchedKeepsJobs
  <2>2. Covered'
    BY <2>1, CoverFrame
  <2> QED BY <1>1, <1>2, <1>3, <2>1, <2>2, DoneFrame
<1>5. CASE SchedAssign
  <2>1. /\ sched.job \in Jobs /\ sched.task \in Tasks /\ sched.queue \in Queues
        /\ task[sched.task].status = "IDLE"
    BY <1>5 DEF BaseInv, SchedOK, SchedAssign
  <2>2. PICK j \in Jobs, t \in Tasks, q \in Queues : j = sched.job /\ t = sched.task /\ q = sched.queue
    BY <2>1
  <2>3. jobs' = Assign_Job(jobs, j) /\ task' = [task EXCEPT ![t] = Assigned(q, j)]
    BY <1>5, <2>2 DEF SchedAssign
  <2>4. j \notin DoneOf(jobs)
    BY <2>2 DEF DoneInv, HandWaits, DoneOf
  <2>5. /\ CompleteExact(Assign_Job(jobs, j))
        /\ TakenOf(Assign_Job(jobs, j)) = TakenOf(jobs) \cup {j}
        /\ DoneOf(Assign_Job(jobs, j)) = DoneOf(jobs) \ {j}
    BY <1>3, <2>4, AssignJob DEF Edited
  <2>6. TakenOf(jobs') \ DoneOf(jobs') \subseteq (TakenOf(jobs) \ DoneOf(jobs)) \cup {j}
    BY <2>3, <2>5
  <2>7. Covered'
    BY <1>2, <2>1, <2>2, <2>3, <2>6, CoverGives
  <2>8. sched'.job = INVALID_JOB_ID
    BY <1>3, <1>5 DEF SchedAssign, Forget, SchedRec
  <2> QED BY <1>1, <1>2, <2>3, <2>5, <2>7, <2>8, NoHand, DoneFrame
<1>6. CASE SchedSeek
  <2>1. sched'.job = INVALID_JOB_ID /\ task' = task
    BY <1>3, <1>6 DEF SchedSeek, Forget, SchedRec
  <2>2. CompleteExact(jobs') /\ TakenOf(jobs') \ DoneOf(jobs') \subseteq TakenOf(jobs) \ DoneOf(jobs)
    <3>1. CASE sched.job = INVALID_JOB_ID
      BY <1>3, <1>6, <3>1 DEF SchedSeek
    <3>2. CASE sched.job # INVALID_JOB_ID
      <4>1. PICK j : j = sched.job
        OBVIOUS
      <4>2. j \in Jobs /\ j \notin TakenOf(jobs) /\ j \notin DoneOf(jobs)
        BY <1>3, <3>2, <4>1, SchedTypes DEF CountOK, HandFree, DoneInv, HandWaits, TakenOf, DoneOf
      <4>3. PICK K : K = Assign_Job_Reset(jobs, j)
        OBVIOUS
      <4>4. CompleteExact(K) /\ TakenOf(K) = TakenOf(jobs) /\ DoneOf(K) = DoneOf(jobs) \ {j}
        BY <1>3, <4>2, <4>3, AssignJobReset DEF Edited
      <4>5. jobs' = K
        BY <1>6, <3>2, <4>1, <4>3 DEF SchedSeek
      <4> QED BY <4>2, <4>4, <4>5
    <3> QED BY <3>1, <3>2
  <2>3. Covered'
    BY <2>1, <2>2, CoverFrame
  <2> QED BY <1>1, <1>2, <2>1, <2>2, <2>3, NoHand, DoneFrame
<1>7. CASE SchedSeekReset \/ SchedKilled \/ SchedNew
  <2>1. sched.pc \in SeekPcs
    BY <1>7, SchedSets DEF SchedSeekReset, SchedKilled, SchedNew
  <2>2. sched.job = INVALID_JOB_ID /\ sched.policy \in Policy
    BY <2>1, Seeking
  <2>3. CASE SchedSeekReset
    <3>1. seek_off \div SEG \in Jobs
      BY <1>3, SeekJob DEF TypeOK
    <3>2. /\ CompleteExact(jobs')
          /\ TakenOf(jobs') \ DoneOf(jobs') \subseteq TakenOf(jobs) \ DoneOf(jobs)
      BY <1>3, <2>3, <3>1, ResetJobsFacts DEF SchedSeekReset
    <3>3. sched'.job = INVALID_JOB_ID /\ task' = task
      BY <1>3, <2>2, <2>3 DEF SchedSeekReset, SchedRec
    <3>4. Covered'
      BY <3>2, <3>3, CoverFrame
    <3> QED BY <1>1, <1>2, <3>2, <3>3, <3>4, NoHand, DoneFrame
  <2>4. CASE SchedKilled
    <3>1. PICK j : j = Min(sched.policy.kill)
      OBVIOUS
    <3>2. jobs' = Reactive_Job(jobs, j) /\ task' = task
            /\ sched' = [sched EXCEPT !.pc = "policy", !.task = NULL, !.policy.kill = @ \ {j}]
      BY <2>4, <3>1 DEF SchedKilled
    <3>3. /\ CompleteExact(Reactive_Job(jobs, j))
          /\ TakenOf(Reactive_Job(jobs, j)) = TakenOf(jobs) \ {j}
          /\ DoneOf(Reactive_Job(jobs, j)) = DoneOf(jobs) \ {j}
      BY <1>3, ReactiveJob DEF Edited
    <3>4. sched'.job = INVALID_JOB_ID
      BY <1>3, <2>2, <3>2 DEF SchedRec
    <3>5. TakenOf(jobs') \ DoneOf(jobs') \subseteq TakenOf(jobs) \ DoneOf(jobs)
      BY <3>2, <3>3
    <3>6. Covered'
      BY <3>2, <3>5, CoverFrame
    <3> QED BY <1>1, <1>2, <3>2, <3>3, <3>4, <3>6, NoHand, DoneFrame
  <2>5. CASE SchedNew
    <3>1. PICK j \in Jobs :
            /\ sched' = [sched EXCEPT !.policy = [sched.policy EXCEPT !.new = @ \ {j}]]
            /\ NewWaits(j) \/ \E q \in Queues, x \in Tasks : NewGives(j, q, x)
      BY <1>3, <2>2, <2>5, NewFacts
    <3>2. sched'.job = INVALID_JOB_ID
      BY <1>3, <2>2, <3>1 DEF SchedRec
    <3>3. PICK J : J = Reactive_Job(jobs, j)
      OBVIOUS
    <3>4. J \in JobsRec /\ CompleteExact(J) /\ TakenOf(J) = TakenOf(jobs) \ {j} /\ DoneOf(J) = DoneOf(jobs) \ {j}
      BY <1>3, <3>3, ReactiveJob DEF Edited
    <3>5. CASE NewWaits(j)
      <4>1. jobs' = J /\ task' = task
        BY <3>3, <3>5 DEF NewWaits
      <4>2. TakenOf(jobs') \ DoneOf(jobs') \subseteq TakenOf(jobs) \ DoneOf(jobs)
        BY <3>4, <4>1
      <4>3. Covered'
        BY <4>1, <4>2, CoverFrame
      <4> QED BY <1>1, <1>2, <3>2, <3>4, <4>1, <4>3, NoHand, DoneFrame
    <3>6. ASSUME NEW q \in Queues, NEW t \in Tasks, NewGives(j, q, t) PROVE DoneInv'
      <4>1. jobs' = Assign_Job(J, j) /\ task' = [task EXCEPT ![t] = Assigned(q, j)] /\ task[t].status = "IDLE"
        BY <3>3, <3>6 DEF NewGives
      <4>2. /\ CompleteExact(Assign_Job(J, j))
            /\ TakenOf(Assign_Job(J, j)) = TakenOf(J) \cup {j} /\ DoneOf(Assign_Job(J, j)) = DoneOf(J) \ {j}
        BY <3>4, AssignJob DEF Edited
      <4>3. TakenOf(jobs') \ DoneOf(jobs') \subseteq (TakenOf(jobs) \ DoneOf(jobs)) \cup {j}
        BY <3>4, <4>1, <4>2
      <4>4. Covered'
        BY <1>2, <4>1, <4>3, CoverGives
      <4> QED BY <1>1, <1>2, <3>2, <4>1, <4>2, <4>4, NoHand, DoneFrame
    <3> QED BY <3>1, <3>5, <3>6
  <2> QED BY <1>7, <2>3, <2>4, <2>5
<1> QED BY <1>4, <1>5, <1>6, <1>7 DEF SchedNext


\* A step of executor x that neither completes nor leaves.
LEMMA ExeQuietDone ==
  ASSUME BaseInv, OwnInv, DoneInv, Locked, NEW x \in Tasks,
         ExePoll(x) \/ ExeIsRunning(x) \/ ExeStart(x) \/ ExeStopped(x) \/ ExeFault(x) \/ ExeRecv(x)
           \/ ExeExit(x) \/ ExeSetIdle(x) \/ ExeDone(x)
  PROVE  DoneInv'
<1>1. TypeOK /\ ExeMay(x) /\ ~ExeSetIdle(x) /\ task \in [Tasks -> TaskRec] /\ exe \in [Tasks -> ExeRec]
  BY TaskTypes, ExeTypes DEF BaseInv, OwnInv, TaskOwn, ExePoll, ExeIsRunning, ExeStart, ExeStopped, ExeFault, ExeRecv,
         ExeExit, ExeSetIdle, ExeDone
<1>2. jobs' = jobs /\ sched' = sched
  BY <1>1 DEF ExePoll, ExeIsRunning, ExeStart, ExeStopped, ExeFault, ExeRecv, ExeExit, ExeDone, shared
<1>3. \A y \in Tasks : Running(y) => Running(y)' /\ task'[y].job = task[y].job
  <2>1. CASE ExeExit(x)
    <3>1. ~Running(x)
      BY <2>1 DEF ExeExit, BaseInv, SessionOK, Leaving
    <3> QED BY <1>1, <2>1, <3>1 DEF ExeExit, Running
  <2>2. CASE ~ExeExit(x)
    <3>1. task' = task
      BY <1>1, <2>2 DEF ExePoll, ExeIsRunning, ExeStart, ExeStopped, ExeFault, ExeRecv, ExeDone
    <3> QED BY <3>1 DEF Running
  <2> QED BY <2>1, <2>2
<1>4. /\ \A y \in Tasks \ {x} : exe'[y] = exe[y]
      /\ exe'[x].pc \in {"isrun", "setidle", "recv", "done", "exited", "complete"}
      /\ exe'[x].pc = "complete" => exe'[x].job = task'[x].job
      /\ exe[x].pc # "count"
  <2>1. CASE ExePoll(x)
    BY <1>1, <2>1, ExeSteps DEF ExePoll
  <2>2. CASE ExeIsRunning(x)
    <3>1. PICK pc \in {"done", "setidle"} : ExeStep(x, pc) /\ exe[x].pc = "isrun"
      BY <2>2 DEF ExeIsRunning
    <3> QED BY <1>1, <3>1, ExeSteps
  <2>3. CASE ExeStart(x)
    <3>1. exe[x] \in ExeRec
      BY <1>1
    <3> QED BY <1>1, <2>3, <3>1 DEF ExeStart, ExeRec
  <2>4. CASE ExeStopped(x) \/ ExeFault(x)
    <3>1. ExeStep(x, "done") /\ exe[x].pc = "recv"
      BY <2>4 DEF ExeStopped, ExeFault
    <3> QED BY <1>1, <3>1, ExeSteps
  <2>5. CASE ExeRecv(x)
    BY <2>5, RecvFacts DEF ExeRecv
  <2>6. CASE ExeExit(x)
    BY <1>1, <2>6, ExeSteps DEF ExeExit
  <2>7. CASE ExeDone(x)
    <3>1. exe[x].pc = "done" /\ task' = task
      BY <2>7 DEF ExeDone
    <3>2. Running(x) /\ Filling(x)
      BY <2>7, <3>1, DoneFacts DEF Filling, Running
    <3>3. queue[task[x].queue].job_id = task[x].job /\ task[x].job \in Jobs
      BY <3>2 DEF OwnInv, QueueOwn, BaseInv, TasksOK
    <3> QED BY <2>7, <3>1, <3>3, DoneFacts
  <2> QED BY <1>1, <2>1, <2>2, <2>3, <2>4, <2>5, <2>6, <2>7
<1>5. \A y \in Tasks \ {x} : exe'[y].pc \notin {"complete", "count", "leave"} /\ exe[y].pc # "count"
  BY <1>1, <1>4, OthersOutside DEF InWindow
<1>6. Finishing'
  BY <1>4, <1>5 DEF Finishing
<1>7. Counted'
  <2>1. \A y \in Tasks : exe[y].pc # "count"
    BY <1>4, <1>5
  <2> QED BY <1>2, <2>1 DEF DoneInv, Counted, DoneOf
<1>8. Covered'
  BY <1>2, <1>3 DEF DoneInv, Covered, TakenOf, DoneOf
<1>9. HandWaits'
  BY <1>2 DEF DoneInv, HandWaits
<1> QED BY <1>6, <1>7, <1>8, <1>9 DEF DoneInv

\* Complete_Job marks the executor's own job, which is not in the scheduler's hands.
LEMMA ExeCompleteDone ==
  ASSUME BaseInv, CountOK, OwnInv, DoneInv, Locked, NEW x \in Tasks, ExeComplete(x)
  PROVE  DoneInv'
<1>1. ExeMay(x) /\ sched' = sched /\ task' = task /\ exe[x].pc = "complete" /\ jobs \in JobsRec
  BY JobsTypes DEF ExeComplete, BaseInv
<1>2. PICK j \in Jobs : j = exe[x].job /\ j = task[x].job /\ Running(x)
  BY <1>1, CompleteFacts DEF DoneInv, Finishing
<1>3. \A y \in Tasks \ {x} : exe'[y] = exe[y] /\ ~InWindow(y)
  BY <1>1, CompleteFacts, OthersOutside
<1>4. \A y \in Tasks \ {x} : exe'[y].pc \notin {"complete", "count", "leave"} /\ exe[y].pc # "count"
  BY <1>3 DEF InWindow
<1>5. jobs.complete_job_num = Cardinality(DoneOf(jobs))
  BY <1>1, <1>4 DEF DoneInv, Counted
<1>6. CASE jobs.complete[j]
  <2>1. jobs' = jobs /\ exe'[x].pc = "leave"
    BY <1>2, <1>6, CompleteFacts
  <2>2. task[x].job \in DoneOf(jobs)
    BY <1>2, <1>6 DEF DoneOf
  <2>3. Finishing'
    BY <1>1, <1>4, <2>1, <2>2 DEF Finishing, DoneOf
  <2>4. Counted'
    BY <1>5, <2>1 DEF DoneInv, Counted, DoneOf
  <2> QED BY <1>1, <2>1, <2>3, <2>4 DEF DoneInv, HandWaits, Covered, Running, TakenOf, DoneOf
<1>7. CASE ~jobs.complete[j]
  <2>1. /\ exe'[x].pc = "count" /\ exe'[x].num = jobs.complete_job_num /\ exe'[x].job = j
        /\ jobs'.assigned = jobs.assigned
        /\ jobs'.complete = [jobs.complete EXCEPT ![j] = TRUE]
        /\ jobs'.complete_job_num = jobs.complete_job_num /\ jobs'.finish_flag = jobs.finish_flag
    BY <1>2, <1>7, CompleteFacts
  <2>2. jobs.complete \in [Jobs -> BOOLEAN]
    BY <1>1 DEF JobsRec
  <2>3. DoneOf(jobs') = DoneOf(jobs) \cup {j} /\ TakenOf(jobs') = TakenOf(jobs) /\ j \notin DoneOf(jobs)
    BY <1>7, <2>1, <2>2 DEF DoneOf, TakenOf
  <2>4. Cardinality(DoneOf(jobs')) = jobs.complete_job_num + 1
    <3>1. DoneOf(jobs) \in SUBSET Jobs
      BY DEF DoneOf
    <3>2. IsFiniteSet(DoneOf(jobs)) /\ Cardinality(DoneOf(jobs)) \in Nat
      BY <3>1, JobsFinite
    <3>3. Cardinality(DoneOf(jobs) \cup {j}) = Cardinality(DoneOf(jobs)) + 1
      BY <2>3, <3>2, FS_AddElement
    <3> QED BY <1>5, <2>3, <3>3
  <2>5. Finishing'
    <3>1. task[x].job \in DoneOf(jobs')
      BY <1>2, <2>3
    <3>2. (task[x].job \in DoneOf(jobs))'
      BY <1>1, <3>1 DEF DoneOf
    <3>3. (jobs.complete_job_num + 1 = Cardinality(DoneOf(jobs)))'
      BY <2>1, <2>4 DEF DoneOf
    <3> QED BY <1>1, <1>2, <1>4, <2>1, <3>2, <3>3 DEF Finishing
  <2>6. Counted'
    BY <2>1 DEF DoneInv, Counted
  <2>7. Covered'
    <3>1. TakenOf(jobs') \ DoneOf(jobs') \subseteq TakenOf(jobs) \ DoneOf(jobs)
      BY <2>3
    <3> QED BY <1>1, <3>1, CoverFrame
  <2>8. HandWaits'
    <3>1. j \in TakenOf(jobs)
      BY <1>2 DEF OwnInv, TaskOwn
    <3>2. sched.job # j
      BY <3>1 DEF CountOK, HandFree, TakenOf
    <3> QED BY <1>1, <2>1, <2>2, <3>2 DEF DoneInv, HandWaits
  <2> QED BY <2>5, <2>6, <2>7, <2>8 DEF DoneInv
<1> QED BY <1>6, <1>7

LEMMA ExeCountDone ==
  ASSUME BaseInv, OwnInv, DoneInv, Locked, NEW x \in Tasks, ExeCount(x)
  PROVE  DoneInv'
<1>1. ExeMay(x) /\ sched' = sched /\ task' = task /\ exe[x].pc = "count"
  BY DEF ExeCount
<1>2. \A y \in Tasks \ {x} : exe'[y].pc \notin {"complete", "count", "leave"}
  BY <1>1, CountFacts, OthersOutside DEF InWindow
<1>3. /\ exe'[x].pc = "leave" /\ jobs'.assigned = jobs.assigned /\ jobs'.complete = jobs.complete
      /\ jobs'.complete_job_num = exe[x].num + 1
      /\ jobs'.finish_flag = (jobs.finish_flag \/ exe[x].num + 1 = JobTotal)
  BY CountFacts
<1>4. /\ exe[x].num = jobs.complete_job_num /\ jobs.complete_job_num + 1 = Cardinality(DoneOf(jobs))
      /\ task[x].job \in DoneOf(jobs)
  BY <1>1 DEF DoneInv, Finishing
<1>5. Finishing'
  BY <1>1, <1>2, <1>3, <1>4 DEF Finishing, DoneOf
<1>6. Counted'
  BY <1>3, <1>4 DEF Counted, DoneOf
<1> QED BY <1>1, <1>3, <1>5, <1>6 DEF DoneInv, HandWaits, Covered, Running, TakenOf, DoneOf

LEMMA ExeLeaveDone ==
  ASSUME BaseInv, OwnInv, DoneInv, Locked, NEW x \in Tasks, ExeLeave(x)
  PROVE  DoneInv'
<1>1. ExeMay(x) /\ sched' = sched /\ jobs' = jobs /\ exe[x].pc = "leave" /\ TypeOK
        /\ task \in [Tasks -> TaskRec] /\ exe \in [Tasks -> ExeRec]
  BY TaskTypes, ExeTypes DEF ExeLeave, shared, BaseInv
<1>2. exe'[x].pc = "poll" /\ \A y \in Tasks \ {x} : exe'[y] = exe[y]
  BY <1>1 DEF ExeLeave
<1>3. \A y \in Tasks : /\ exe'[y].pc \notin {"complete", "count", "leave"} /\ exe[y].pc # "count"
  BY <1>1, <1>2, OthersOutside DEF InWindow
<1>4. Finishing'
  BY <1>3 DEF Finishing
<1>5. Counted'
  BY <1>1, <1>3 DEF DoneInv, Counted, DoneOf
<1>6. task[x].job \in DoneOf(jobs)
  BY <1>1 DEF DoneInv, Finishing
<1>7. \A y \in Tasks \ {x} : task'[y] = task[y]
  BY <1>1 DEF ExeLeave
<1>8. Covered'
  BY <1>1, <1>6, <1>7 DEF DoneInv, Covered, Running, TakenOf, DoneOf
<1>9. HandWaits'
  BY <1>1 DEF DoneInv, HandWaits
<1> QED BY <1>4, <1>5, <1>8, <1>9 DEF DoneInv

LEMMA InitDone == Init => DoneInv
<1> SUFFICES ASSUME Init PROVE DoneInv
  OBVIOUS
<1>1. TakenOf(jobs) = {} /\ DoneOf(jobs) = {} /\ jobs.complete_job_num = 0
  BY DEF Init, NewJobs, TakenOf, DoneOf
<1>2. Counted
  BY <1>1, FS_EmptySet, JobTotalFacts DEF Counted
<1>3. Finishing
  BY DEF Init, Finishing
<1>4. Covered
  BY <1>1 DEF Covered
<1>5. HandWaits
  BY NoJob DEF Init, HandWaits
<1> QED BY <1>2, <1>3, <1>4, <1>5 DEF DoneInv

LEMMA DoneStep == ASSUME BaseInv, CountOK, OwnInv, DoneInv, Locked, [Next]_vars PROVE DoneInv'
<1>1. CASE UNCHANGED vars
  BY <1>1 DEF vars, DoneInv, HandWaits, Finishing, Counted, Covered, Running, TakenOf, DoneOf
<1>2. CASE Gone
  BY <1>2 DEF Gone, vars, DoneInv, HandWaits, Finishing, Counted, Covered, Running, TakenOf, DoneOf
<1>3. ASSUME NEW x \in Tasks, ExeNext(x) PROVE DoneInv'
  BY <1>3, ExeQuietDone, ExeCompleteDone, ExeCountDone, ExeLeaveDone DEF ExeNext
<1> QED BY <1>1, <1>2, <1>3, AppDone, SchedDone DEF Next

LEMMA DoneInvariant == ASSUME Locked PROVE Spec => []DoneInv
<1>1. Init => DoneInv
  BY InitDone
<1>2. BaseInv /\ CountOK /\ OwnInv /\ DoneInv /\ [Next]_vars => DoneInv'
  BY DoneStep
<1> QED BY <1>1, <1>2, Invariance, OwnInvariant, PTL DEF Spec

\* A job that is assigned and not complete has an executor that runs: no job is
\* lost between the scheduler, the executors and the seeks, if the executors'
\* windows are closed.
THEOREM AssignedHasOne ==
  ASSUME Locked
  PROVE  Spec => []AssignedHasExecutor
<1>1. DoneInv => AssignedHasExecutor
  <2> SUFFICES ASSUME DoneInv PROVE AssignedHasExecutor
    OBVIOUS
  <2>1. \A j \in Jobs : jobs.assigned[j] /\ ~jobs.complete[j] => j \in TakenOf(jobs) \ DoneOf(jobs)
    BY DEF TakenOf, DoneOf
  <2> QED BY <2>1 DEF DoneInv, Covered, AssignedHasExecutor, Running
<1> QED BY <1>1, DoneInvariant, PTL

\* When all jobs are complete and nobody is counting, finish_flag is set, by which
\* the reader reports the end of the file, if the executors' windows are closed.
THEOREM CompletionIsReported ==
  ASSUME Locked
  PROVE  Spec => []CompletionReported
<1>1. DoneInv => CompletionReported
  <2> SUFFICES ASSUME DoneInv, \A j \in Jobs : jobs.complete[j], \A x \in Tasks : exe[x].pc # "count"
               PROVE  jobs.finish_flag
    BY DEF CompletionReported
  <2>1. DoneOf(jobs) = Jobs
    BY DEF DoneOf
  <2>2. jobs.complete_job_num = JobTotal
    BY <2>1, JobsFinite DEF DoneInv, Counted
  <2> QED BY <2>2 DEF DoneInv, Counted
<1> QED BY <1>1, DoneInvariant, PTL

-----------------------------------------------------------------------------
(* The queues as a window on the file.  With the windows of the executors  *)
(* and the scheduler's "take" closed, a network that delivers every        *)
(* segment in full, one session and seeks forward: the jobs from r to      *)
(* k - 1 are in the queues, each in one, and the reader is at job r.       *)

\* Every request for a segment is answered in full, if need be again.
Delivered == "short" \notin Faults /\ ("error" \in Faults => Reconnect)

Smooth == /\ Locked /\ "take" \notin Races /\ Delivered
          /\ MaxOpens <= 1 /\ ~SeekBack

Streaming == jobs.alive /\ app \in {"idle", "read", "startseek", "seekwait"}

InUse(q) == queue[q].used /\ ~Handing(q)

\* Where job r begins, the end of the file if there is none.
Begins(r) == IF r = JobTotal THEN Size ELSE JobOffset(r)

\* The reader has not yet come to the application's position.
Lag == app = "startseek" \/ mq.seek_pos # INVALID_SEEK_POS

\* The jobs before k have been handed out or skipped.
JobsTo(k) ==
  /\ TakenOf(jobs) \cup DoneOf(jobs) = {j \in Jobs : j < k}
  /\ sched.job \in Jobs => sched.job = k
  /\ jobs.finish_flag => k = JobTotal

\* The jobs from r on are in the queues, the queue being read has job r.
QueuesOf(r, k) ==
  /\ \A q \in Queues : InUse(q) => r <= queue[q].job_id /\ queue[q].job_id < k
  /\ \A q \in Queues : ~InUse(q) => queue[q].job_id < r
  /\ \A j \in r..(k - 1) : \E q \in Queues : InUse(q) /\ queue[q].job_id = j
  /\ \A p, q \in Queues : InUse(p) /\ InUse(q) /\ queue[p].job_id = queue[q].job_id => p = q
  /\ mq.cur_queue # NULL => InUse(mq.cur_queue) /\ queue[mq.cur_queue].job_id = r

\* A queue holds the first units of its job, all of them when it is complete.
Holds(q, j) ==
  /\ queue[q].range.start = JobOffset(j) /\ queue[q].range.end = JobOffset(j) + JobSize(j) - 1
  /\ 0 <= queue[q].read_pos /\ queue[q].read_pos <= queue[q].write_pos
  /\ queue[q].write_pos <= JobSize(j)
  /\ \A i \in 0..(queue[q].write_pos - 1) : queue[q].data[i] = JobOffset(j) + i
  /\ queue[q].complete /\ expect_status = "RUNNING" => queue[q].write_pos = JobSize(j)

Contents == \A q \in Queues : InUse(q) => Holds(q, queue[q].job_id)

\* The queue about to be given to a job is empty.
Ready ==
  sched.pc = "assign" => queue[sched.queue].read_pos = 0 /\ queue[sched.queue].write_pos = 0

\* How far executor x has filled its queue.
Fills(x) ==
  /\ Running(x) => task[x].expect = "RUNNING"
  /\ Running(x) /\ exe[x].pc \in {"poll", "isrun"} => queue[task[x].queue].write_pos = 0
  /\ exe[x].pc = "isrun" => expect_status # "RUNNING"
  /\ exe[x].pc = "recv" => exe[x].total = queue[task[x].queue].write_pos
  /\ exe[x].pc = "done" /\ expect_status = "RUNNING" =>
       queue[task[x].queue].write_pos = JobSize(task[x].job)

\* The group is stopped by a seek only, for which the application waits.
Seeks ==
  /\ expect_status # "RUNNING" => sched.pc = "seekstop"
  /\ sched.pc = "seekstop" => mq.seek_pending
  /\ mq.seek_pending => app = "seekwait"
  /\ app = "seekwait" => mq.seek_pos = off
  /\ app \in {"startseek", "seekwait"} => seek_off = off
  /\ sched.pc = "policy" => sched.policy.kill = {} /\ sched.policy.save = {} /\ sched.policy.new = {}
  /\ sched.pc # "killed"
  /\ mq.seek_pos # INVALID_SEEK_POS /\ app # "startseek" => mq.seek_pos = off

\* The reader stands at the application's position, or before it after a seek.
Position(r, k) ==
  /\ off \in 0..Size
  /\ \A q \in Queues : InUse(q) /\ queue[q].job_id # r => queue[q].read_pos = 0
  /\ Lag => /\ Begins(r) <= off /\ off < Size
            /\ \A q \in Queues : InUse(q) /\ queue[q].job_id = r => Begins(r) + queue[q].read_pos <= off
  /\ ~Lag => /\ \A q \in Queues : InUse(q) /\ queue[q].job_id = r => off = Begins(r) + queue[q].read_pos
             /\ r = k => off = Begins(r)

Span(r, k) ==
  /\ JobsTo(k) /\ QueuesOf(r, k) /\ Contents /\ Ready
  /\ \A x \in Tasks : Fills(x)
  /\ Seeks /\ Position(r, k)

\* Nothing has been opened yet.
Fresh ==
  /\ off = 0
  /\ mq.cur_queue = NULL /\ ~mq.seek_pending /\ mq.seek_pos = INVALID_SEEK_POS
  /\ \A q \in Queues : ~queue[q].used /\ queue[q].job_id = INVALID_JOB_ID
  /\ sched.job = INVALID_JOB_ID

StreamInv ==
  /\ opens = 0 => ~jobs.alive /\ app # "gen"
  /\ opens = 0 \/ app = "gen" => Fresh
  /\ Streaming => \E k \in 0..JobTotal : \E r \in 0..k : Span(r, k)

\* Everything proved so far under Locked.
Known == BaseInv /\ CountOK /\ OwnInv /\ DoneInv

LEMMA Places ==
  /\ \A j \in Jobs : /\ j \in Nat /\ j < JobTotal /\ Begins(j) = JobOffset(j) /\ JobOffset(j) \in Nat
                     /\ JobSize(j) \in 1..SEG /\ JobSize(j) \in Nat
                     /\ Begins(j) + JobSize(j) = Begins(j + 1) /\ Begins(j) < Size
                     /\ Begins(j + 1) <= Size
  /\ \A r \in 0..JobTotal : Begins(r) \in 0..Size /\ (r # JobTotal => r \in Jobs)
  /\ Begins(JobTotal) = Size /\ Begins(0) = 0 /\ INVALID_JOB_ID \notin Jobs
  /\ JobTotal \in Nat \ {0} /\ SEG \in Nat \ {0} /\ Size \in Nat \ {0}
<1>1. JobTotal \in Nat \ {0} /\ SEG \in Nat \ {0} /\ Size \in Nat \ {0}
  BY ConstantsAssumption, JobTotalFacts
<1>2. (JobTotal - 1) * SEG < Size /\ Size <= (JobTotal - 1) * SEG + SEG /\ (JobTotal - 1) * SEG \in Nat
  BY <1>1, JobTotalFacts
<1>3. ASSUME NEW j \in Jobs
      PROVE  /\ j \in Nat /\ j < JobTotal /\ Begins(j) = JobOffset(j) /\ JobOffset(j) \in Nat
             /\ JobSize(j) \in 1..SEG /\ JobSize(j) \in Nat
             /\ Begins(j) + JobSize(j) = Begins(j + 1) /\ Begins(j) < Size /\ Begins(j + 1) <= Size
  <2>1. j \in Nat /\ j < JobTotal
    BY <1>1 DEF Jobs
  <2>2. Begins(j) = JobOffset(j) /\ JobOffset(j) \in Nat /\ JobOffset(j) = j * SEG /\ j * SEG \in Nat
    BY <1>1, <2>1 DEF Begins, JobOffset
  <2>3. JobSize(j) \in 1..SEG /\ JobSize(j) \in Nat
    BY <1>1, JobSizes
  <2>4. CASE j = JobTotal - 1
    <3>1. JobSize(j) = Size - JobOffset(j) /\ Begins(j + 1) = Size
      BY <1>1, <2>4 DEF JobSize, Begins
    <3> QED BY <1>1, <2>1, <2>2, <2>3, <3>1
  <2>5. CASE j # JobTotal - 1
    <3>1. JobSize(j) = SEG /\ Begins(j + 1) = (j + 1) * SEG
      BY <1>1, <2>1, <2>5 DEF JobSize, Begins, JobOffset
    <3>2. (j + 1) * SEG = j * SEG + SEG
      BY <1>1, <2>1
    <3>3. j + 1 <= JobTotal - 1 /\ j + 1 \in Nat
      BY <1>1, <2>1, <2>5
    <3>4. (j + 1) * SEG <= (JobTotal - 1) * SEG
      <4>1. PICK d \in Nat : JobTotal - 1 = j + 1 + d
        <5>1. JobTotal - 1 - (j + 1) \in Nat /\ JobTotal - 1 = j + 1 + (JobTotal - 1 - (j + 1))
          BY <1>1, <3>3
        <5> QED BY <5>1
      <4>2. (JobTotal - 1) * SEG = (j + 1) * SEG + d * SEG /\ d * SEG \in Nat /\ (j + 1) * SEG \in Nat
        BY <1>1, <3>3, <4>1
      <4> QED BY <4>2
    <3>5. j * SEG + SEG < Size
      BY <1>1, <1>2, <2>2, <3>2, <3>4
    <3> QED BY <1>1, <2>1, <2>2, <2>3, <3>1, <3>2, <3>5
  <2> QED BY <2>1, <2>2, <2>3, <2>4, <2>5
<1>4. \A r \in 0..JobTotal : r # JobTotal => r \in Jobs
  BY <1>1 DEF Jobs
<1>5. Begins(JobTotal) = Size
  BY DEF Begins
<1>6. Begins(0) = 0
  BY <1>1 DEF Begins, JobOffset
<1>7. \A r \in 0..JobTotal : Begins(r) \in 0..Size
  BY <1>1, <1>3, <1>4, <1>5
<1> QED BY <1>1, <1>3, <1>4, <1>5, <1>6, <1>7, NoJob

\* The job a seek to o goes to.
LEMMA SeekPlace ==
  ASSUME NEW o \in 0..(Size - 1)
  PROVE  /\ o \div SEG \in Jobs /\ Begins(o \div SEG) <= o
         /\ \A r \in 0..JobTotal : Begins(r) <= o => r <= o \div SEG
<1>1. JobTotal \in Nat \ {0} /\ SEG \in Nat \ {0} /\ Size \in Nat \ {0} /\ o \in Nat /\ o < Size
  BY Places
<1>2. o \div SEG \in Jobs
  BY SeekJob
<1>3. o \div SEG \in Nat /\ (o \div SEG) * SEG <= o /\ o < (o \div SEG) * SEG + SEG
  BY <1>1, Division
<1>4. Begins(o \div SEG) <= o
  BY <1>2, <1>3, Places DEF JobOffset
<1>5. ASSUME NEW r \in 0..JobTotal, Begins(r) <= o PROVE r <= o \div SEG
  <2>1. r # JobTotal
    BY <1>1, <1>5, Places
  <2>2. r \in Jobs /\ r \in Nat /\ r * SEG <= o
    BY <1>5, <2>1, Places DEF JobOffset
  <2>3. r * SEG < (o \div SEG) * SEG + SEG
    <3>1. r * SEG \in Nat /\ (o \div SEG) * SEG \in Nat
      BY <1>1, <1>3, <2>2
    <3> QED BY <1>1, <1>3, <2>2, <3>1
  <2> QED BY <1>1, <1>3, <2>2, <2>3, Multiples
<1> QED BY <1>2, <1>4, <1>5

\* The scheduler's next job is k.
LEMMA NextIs ==
  ASSUME TypeOK, CountOK, CompleteExact(jobs), NEW k \in 0..JobTotal, JobsTo(k)
  PROVE  Get_Next_Job(jobs) = IF k = JobTotal THEN INVALID_JOB_ID ELSE k
<1>1. /\ JobTotal \in Nat \ {0} /\ k \in Nat /\ k <= JobTotal
      /\ \A j \in Jobs : j \in Nat /\ j < JobTotal
      /\ k # JobTotal => k \in Jobs
  BY Places
<1>2. \A j \in Jobs : (jobs.assigned[j] \/ jobs.complete[j]) <=> j < k
  BY DEF JobsTo, TakenOf, DoneOf
<1>3. Waiting(jobs) = {j \in Jobs : ~(j < k)}
  BY <1>2 DEF Waiting
<1>4. CASE k = JobTotal
  <2>1. \A j \in Jobs : j < k
    BY <1>1, <1>4
  <2>2. Waiting(jobs) = {}
    BY <1>3, <2>1
  <2> QED BY <1>4, <2>2 DEF Get_Next_Job
<1>5. CASE k # JobTotal
  <2>1. k \in Jobs
    BY <1>1, <1>5
  <2>2. TakenOf(jobs) \in SUBSET Jobs /\ DoneOf(jobs) \in SUBSET Jobs /\ k \notin TakenOf(jobs) /\ k \notin DoneOf(jobs)
    BY <1>1, <1>2, <2>1 DEF TakenOf, DoneOf
  <2>3. jobs.assigned_job_num # JobTotal
    BY <2>1, <2>2, JobsFinite DEF CountOK, AssignedExact
  <2>4. jobs.complete_job_num # JobTotal
    BY <2>1, <2>2, JobsFinite DEF CompleteExact
  <2>5. ~jobs.finish_flag
    BY <1>5 DEF JobsTo
  <2>6. Waiting(jobs) \subseteq Nat /\ k \in Waiting(jobs) /\ \A j \in Waiting(jobs) : k <= j
    <3>1. ~(k < k) /\ \A j \in Jobs : ~(j < k) => k <= j
      BY <1>1
    <3>2. \A j \in Waiting(jobs) : j \in Jobs /\ ~(j < k)
      BY <1>3
    <3> QED BY <1>1, <1>3, <2>1, <3>1, <3>2
  <2>7. Min(Waiting(jobs)) \in Waiting(jobs) /\ Min(Waiting(jobs)) <= k
    BY <2>6, MinIn
  <2>8. Min(Waiting(jobs)) = k
    BY <1>1, <2>6, <2>7
  <2> QED BY <1>5, <2>3, <2>4, <2>5, <2>6, <2>8 DEF Get_Next_Job
<1> QED BY <1>4, <1>5

\* The queue the reader goes to has job r.
LEMMA ReaderFinds ==
  ASSUME TypeOK, NEW k \in 0..JobTotal, NEW r \in 0..k, QueuesOf(r, k),
         \A q \in Queues : ~Handing(q),
         NEW c, c = (IF mq.cur_queue # NULL THEN mq.cur_queue ELSE find_dataready), c # NULL
  PROVE  c \in Queues /\ InUse(c) /\ queue[c].job_id = r
<1>1. CASE mq.cur_queue # NULL
  BY <1>1 DEF QueuesOf, TypeOK, Queues, NULL
<1>2. CASE mq.cur_queue = NULL
  <2>0. INVALID_JOB_ID \in Int /\ \A j \in Jobs : j \in Nat /\ j # INVALID_JOB_ID
    BY JobSizes, NoJob DEF INVALID_JOB_ID
  <2> DEFINE S == {q \in Queues : /\ queue[q].used
                                 /\ queue[q].job_id # INVALID_JOB_ID
                                 /\ queue[q].job_id < queue[1].job_id + MAX_JOB_TOTAL}
             least == {q \in S : \A p \in S : queue[q].job_id <= queue[p].job_id}
  <2>1. c = IF S = {} THEN NULL ELSE Min(least)
    BY <1>2 DEF find_dataready
  <2>2. PICK m : m = queue[1].job_id + MAX_JOB_TOTAL
    OBVIOUS
  <2>3. m \in Int
    <3>1. 1 \in Queues
      BY ConstantsAssumption DEF Queues
    <3>2. queue[1].job_id \in Int
      BY <2>0, <3>1 DEF TypeOK
    <3> QED BY <2>2, <3>2 DEF MAX_JOB_TOTAL
  <2>4. \A q \in Queues : queue[q].used =>
           InUse(q) /\ queue[q].job_id \in Nat /\ r <= queue[q].job_id /\ queue[q].job_id < k
                    /\ queue[q].job_id # INVALID_JOB_ID
    <3> SUFFICES ASSUME NEW q \in Queues, queue[q].used
                 PROVE  InUse(q) /\ queue[q].job_id \in Nat /\ r <= queue[q].job_id /\ queue[q].job_id < k
                          /\ queue[q].job_id # INVALID_JOB_ID
      OBVIOUS
    <3>1. InUse(q)
      BY DEF InUse
    <3>2. r <= queue[q].job_id /\ queue[q].job_id < k
      BY <3>1 DEF QueuesOf
    <3>3. queue[q].job_id \in Jobs \cup {INVALID_JOB_ID}
      BY DEF TypeOK
    <3>4. queue[q].job_id # INVALID_JOB_ID
      BY <3>2 DEF INVALID_JOB_ID
    <3> QED BY <2>0, <3>1, <3>2, <3>3, <3>4
  <2>5. PICK p \in S : TRUE
    BY <1>2, <2>1
  <2>6. r \in Nat /\ k \in Nat /\ r <= queue[p].job_id /\ queue[p].job_id < k /\ queue[p].job_id < m
          /\ queue[p].job_id \in Nat
    BY <2>2, <2>4, <2>5, Places
  <2>7. r \in r..(k - 1)
    BY <2>6
  <2>8. PICK q \in Queues : InUse(q) /\ queue[q].job_id = r
    BY <2>7 DEF QueuesOf
  <2>9. q \in S
    BY <2>2, <2>3, <2>4, <2>6, <2>8 DEF InUse
  <2>10. q \in least
    BY <2>4, <2>8, <2>9
  <2>11. \A s \in least : s \in Queues /\ queue[s].used /\ queue[s].job_id <= r
    BY <2>8, <2>9
  <2>12. least \subseteq Nat
    BY DEF Queues
  <2> HIDE DEF least
  <2>13. Min(least) \in least
    BY <2>10, <2>12, MinIn
  <2>14. c \in least
    BY <2>1, <2>9, <2>13
  <2>15. c \in Queues /\ queue[c].used /\ queue[c].job_id <= r
    BY <2>11, <2>14
  <2> QED BY <2>4, <2>6, <2>15
<1> QED BY <1>1, <1>2

\* What a read t of the queue of job r gives: the next n units from the application's
\* position on, or nothing, and then the reader has come nearer to it.
Gives(c, r, t, rp, n, pos) ==
  /\ t.queue = [queue[c] EXCEPT !.read_pos = rp] /\ t.seek_pos = pos
  /\ t.units = [i \in 1..n |-> off + i - 1]
  /\ rp <= queue[c].write_pos /\ off + n <= Size
  /\ \/ pos = INVALID_SEEK_POS /\ off + n = Begins(r) + rp
     \/ /\ pos = mq.seek_pos /\ Lag /\ n = 0 /\ Begins(r) + rp <= off
        /\ queue[c].complete /\ rp = queue[c].write_pos => Begins(r + 1) <= off

LEMMA ClippedTo ==
  ASSUME NEW a \in Nat, NEW b \in Nat
  PROVE  Max({0, Min({a, b})}) \in Nat /\ Max({0, Min({a, b})}) <= b
<1>1. PICK e : e = Min({a, b})
  OBVIOUS
<1>2. e \in {a, b} /\ e <= a /\ e <= b
  BY <1>1, Smaller
<1>3. e \in Nat
  BY <1>2
<1>4. PICK z : z = Max({0, e})
  OBVIOUS
<1>5. z \in {0, e}
  BY <1>3, <1>4, Larger
<1>6. z \in Nat /\ z <= b
  BY <1>2, <1>3, <1>5
<1> QED BY <1>1, <1>4, <1>6

LEMMA ReadGives ==
  ASSUME TypeOK, NEW k \in 0..JobTotal, NEW r \in 0..k, r < k, NEW c \in Queues,
         InUse(c), queue[c].job_id = r, Holds(c, r), Seeks, Position(r, k), app = "read",
         NEW size \in 1..SEG
  PROVE  \E rp \in Nat, n \in Nat, pos \in Int : Gives(c, r, queue_read(queue[c], size), rp, n, pos)
<1> DEFINE q == queue[c]
<1>0. PICK dt : dt = q.data
  OBVIOUS
<1>r. r \in Jobs
  BY Places DEF Jobs
<1>f. q.write_pos \in Nat /\ q.read_pos \in Int /\ 0 <= q.read_pos /\ mq.seek_pos \in Int
  BY ConstantsAssumption DEF TypeOK, Holds
<1>w. PICK wp \in Nat : wp = q.write_pos
  BY <1>f
<1>p. PICK rp0 \in Nat : rp0 = q.read_pos
  BY <1>f
<1>b. PICK b \in Nat : b = Begins(r)
  BY <1>r, Places
<1>j. PICK js \in Nat : js = JobSize(r)
  BY <1>r, Places
<1>s. PICK sp \in Int : sp = mq.seek_pos
  BY <1>f
<1>1. /\ wp = q.write_pos /\ rp0 = q.read_pos /\ b = Begins(r) /\ js = JobSize(r) /\ sp = mq.seek_pos
      /\ wp \in Nat /\ rp0 \in Nat /\ b \in Nat /\ js \in Nat /\ sp \in Int
  BY <1>w, <1>p, <1>b, <1>j, <1>s
<1>2. /\ q.range.start = b /\ q.range.end = b + js - 1 /\ rp0 <= wp /\ wp <= js /\ js \in 1..SEG
      /\ b + js = Begins(r + 1) /\ b + js <= Size /\ b < Size
      /\ \A i \in 0..(wp - 1) : dt[i] = b + i
      /\ q.complete => wp = js
  <2>1. r \in Jobs
    BY Places DEF Jobs
  <2>2. expect_status = "RUNNING"
    BY DEF Seeks
  <2>3. js \in 1..SEG /\ b + js = Begins(r + 1) /\ b + js <= Size /\ b < Size /\ b = JobOffset(r)
    BY <1>1, <2>1, Places
  <2>4. /\ q.range.start = b /\ q.range.end = b + js - 1 /\ rp0 <= wp /\ wp <= js
        /\ q.complete => wp = js
    <3>1. /\ q.range.start = JobOffset(r) /\ q.range.end = JobOffset(r) + JobSize(r) - 1
          /\ q.read_pos <= q.write_pos /\ q.write_pos <= JobSize(r)
          /\ q.complete => q.write_pos = JobSize(r)
      BY <2>2 DEF Holds
    <3> HIDE DEF q
    <3> QED BY <1>1, <2>3, <3>1
  <2>5. \A i \in 0..(wp - 1) : dt[i] = b + i
    BY <1>0, <1>1, <2>3 DEF Holds
  <2> QED BY <2>3, <2>4, <2>5
<1>3. size \in Nat /\ size >= 1 /\ off \in Nat /\ off <= Size /\ Size \in Nat
  BY Places DEF Position
<1>4. /\ sp # INVALID_SEEK_POS => sp = off /\ b <= off /\ off < Size
                               /\ b + rp0 <= off /\ Lag
      /\ sp = INVALID_SEEK_POS => off = b + rp0
  BY <1>1 DEF Seeks, Position, Lag
<1> DEFINE seeking == sp # INVALID_SEEK_POS
           here == b <= sp /\ sp <= b + js - 1
           there == sp - b
           come == there < wp
           from == IF seeking THEN there ELSE rp0
           n == Max({0, Min({size, wp - from})})
           copied == [queue |-> [q EXCEPT !.read_pos = from + n],
                      seek_pos |-> INVALID_SEEK_POS,
                      units |-> [i \in 1..n |-> dt[from + i - 1]]]
           nothing(pos) == [queue |-> [q EXCEPT !.read_pos = pos],
                            seek_pos |-> sp, units |-> <<>>]
<1>5. PICK t : t = queue_read(queue[c], size)
  OBVIOUS
<1>6. t = CASE seeking /\ ~here -> nothing(wp)
            [] seeking /\ here /\ ~come -> nothing(rp0)
            [] OTHER -> copied
  BY <1>0, <1>1, <1>2, <1>5 DEF queue_read
<1> DEFINE Fine(rp, m, pos) ==
               /\ t.queue = [queue[c] EXCEPT !.read_pos = rp] /\ t.seek_pos = pos
               /\ t.units = [i \in 1..m |-> off + i - 1]
               /\ rp <= queue[c].write_pos /\ off + m <= Size
               /\ \/ pos = INVALID_SEEK_POS /\ off + m = Begins(r) + rp
                  \/ /\ pos = mq.seek_pos /\ Lag /\ m = 0 /\ Begins(r) + rp <= off
                     /\ queue[c].complete /\ rp = queue[c].write_pos => Begins(r + 1) <= off
<1>7. ASSUME NEW pos \in Nat, pos <= wp, seeking, b + pos <= off,
             q.complete /\ pos = wp => b + js <= off, t = nothing(pos)
      PROVE  Fine(pos, 0, sp)
  <2>1. <<>> = [i \in 1..0 |-> off + i - 1]
    OBVIOUS
  <2>2. t.queue = [queue[c] EXCEPT !.read_pos = pos] /\ t.seek_pos = sp /\ t.units = [i \in 1..0 |-> off + i - 1]
    BY <1>7, <2>1
  <2>3. off + 0 <= Size /\ Lag /\ sp = mq.seek_pos /\ pos <= queue[c].write_pos
    BY <1>1, <1>3, <1>4, <1>7
  <2>4. Begins(r) + pos <= off /\ (queue[c].complete /\ pos = queue[c].write_pos => Begins(r + 1) <= off)
    BY <1>1, <1>2, <1>7
  <2> QED BY <2>2, <2>3, <2>4
<1>8. ASSUME seeking /\ ~here PROVE \E rp \in Nat, m \in Nat, pos \in Int : Fine(rp, m, pos)
  <2>1. t = nothing(wp)
    BY <1>6, <1>8
  <2>2. b + js <= off /\ b + wp <= off
    BY <1>2, <1>3, <1>4, <1>8
  <2>3. Fine(wp, 0, sp)
    BY <1>7, <1>8, <2>1, <2>2
  <2> HIDE DEF Fine
  <2> QED BY <2>3
<1>9. ASSUME seeking /\ here /\ ~come PROVE \E rp \in Nat, m \in Nat, pos \in Int : Fine(rp, m, pos)
  <2>1. t = nothing(rp0)
    BY <1>6, <1>9
  <2>2. wp # js
    BY <1>2, <1>3, <1>4, <1>9
  <2>3. Fine(rp0, 0, sp)
    BY <1>2, <1>4, <1>7, <1>9, <2>1, <2>2
  <2> HIDE DEF Fine
  <2> QED BY <2>3
<1>10. ASSUME ~(seeking /\ ~here) /\ ~(seeking /\ here /\ ~come)
       PROVE  \E rp \in Nat, m \in Nat, pos \in Int : Fine(rp, m, pos)
  <2>1. t = copied
    BY <1>6, <1>10
  <2>2. from \in Nat /\ from <= wp /\ off = b + from
    BY <1>1, <1>2, <1>3, <1>4, <1>10
  <2>3. n \in Nat /\ n <= wp - from
    <3> HIDE DEF from
    <3>1. wp - from \in Nat
      BY <2>2
    <3> QED BY <1>3, <3>1, ClippedTo
  <2> HIDE DEF n, from
  <2>4. \A i \in 1..n : dt[from + i - 1] = off + i - 1
    <3> SUFFICES ASSUME NEW i \in 1..n PROVE dt[from + i - 1] = off + i - 1
      OBVIOUS
    <3>1. from + i - 1 \in 0..(wp - 1)
      BY <1>1, <2>2, <2>3
    <3> QED BY <1>2, <2>2, <2>3, <3>1
  <2>5. t.units = [i \in 1..n |-> off + i - 1]
    BY <2>1, <2>4
  <2>6. t.queue = [queue[c] EXCEPT !.read_pos = from + n] /\ t.seek_pos = INVALID_SEEK_POS
    BY <2>1
  <2>7. from + n \in Nat /\ from + n <= wp /\ off + n = b + (from + n) /\ off + n <= Size
    BY <1>1, <1>2, <1>3, <2>2, <2>3
  <2>8. Fine(from + n, n, INVALID_SEEK_POS)
    BY <1>1, <2>5, <2>6, <2>7
  <2>9. INVALID_SEEK_POS \in Int
    BY DEF INVALID_SEEK_POS
  <2> HIDE DEF Fine
  <2> QED BY <2>3, <2>7, <2>8, <2>9
<1>11. \E rp \in Nat, m \in Nat, pos \in Int : Fine(rp, m, pos)
  <2> HIDE DEF Fine, seeking, here, come
  <2> QED BY <1>8, <1>9, <1>10
<1> QED BY <1>5, <1>11 DEF Gives

LEMMA CurrentQueue == ASSUME TypeOK, mq.cur_queue # NULL PROVE mq.cur_queue \in Queues
<1>1. mq.cur_queue \in 0..QueueNum
  BY DEF TypeOK
<1> QED BY <1>1 DEF Queues, NULL

\* A step that leaves the queues in use, their jobs and their contents alone.
LEMMA StoreFrame ==
  ASSUME TypeOK, NEW k \in 0..JobTotal, NEW r \in 0..k, QueuesOf(r, k), Contents,
         mq'.cur_queue = mq.cur_queue, expect_status' = "RUNNING" => expect_status = "RUNNING",
         \A q \in Queues : (InUse(q)' <=> InUse(q)) /\ queue'[q].job_id = queue[q].job_id,
         \A q \in Queues : InUse(q) =>
           /\ queue'[q].range = queue[q].range /\ queue'[q].read_pos = queue[q].read_pos
           /\ queue'[q].write_pos = queue[q].write_pos /\ queue'[q].data = queue[q].data
           /\ queue'[q].complete = queue[q].complete
  PROVE  QueuesOf(r, k)' /\ Contents'
<1>1. mq.cur_queue # NULL => mq.cur_queue \in Queues
  BY DEF TypeOK, Queues, NULL
<1>2. QueuesOf(r, k)'
  BY <1>1 DEF QueuesOf
<1>3. Contents'
  <2> SUFFICES ASSUME NEW q \in Queues, InUse(q)' PROVE Holds(q, queue[q].job_id)'
    BY DEF Contents
  <2>1. Holds(q, queue[q].job_id)
    BY DEF Contents
  <2> QED BY <2>1 DEF Holds
<1> QED BY <1>2, <1>3

LEMMA PositionFrame ==
  ASSUME NEW k \in 0..JobTotal, NEW r \in 0..k, Position(r, k), off' = off, Lag' <=> Lag,
         \A q \in Queues : InUse(q)' => InUse(q) /\ queue'[q].job_id = queue[q].job_id
                                     /\ queue'[q].read_pos = queue[q].read_pos
  PROVE  Position(r, k)'
  BY DEF Position, Begins, JobTotal, JobOffset

LEMMA FillsFrame ==
  ASSUME BaseInv, \A x \in Tasks : Fills(x), exe' = exe,
         expect_status' = "RUNNING" => expect_status = "RUNNING",
         \A x \in Tasks : /\ task'[x].status = task[x].status /\ task'[x].expect = task[x].expect
                          /\ task'[x].queue = task[x].queue /\ task'[x].job = task[x].job,
         \A x \in Tasks : Running(x) => queue'[task[x].queue].write_pos = queue[task[x].queue].write_pos
  PROVE  \A x \in Tasks : Fills(x)'
<1> SUFFICES ASSUME NEW x \in Tasks PROVE Fills(x)'
  OBVIOUS
<1>1. exe[x].pc \in {"recv", "done"} => Running(x)
  BY DEF BaseInv, TasksOK, Busy
<1>2. Running(x)' <=> Running(x)
  BY DEF Running
<1>3. Fills(x)
  OBVIOUS
<1> QED BY <1>1, <1>2, <1>3 DEF Fills

\* The reader is not past the application's position.
LEMMA Behind ==
  ASSUME TypeOK, NEW k \in 0..JobTotal, NEW r \in 0..k, QueuesOf(r, k), Contents, Position(r, k)
  PROVE  /\ Begins(r) <= off
         /\ \A q \in Queues : InUse(q) /\ queue[q].job_id = r => Begins(r) + queue[q].read_pos <= off
<1>1. Begins(r) \in Nat /\ off \in Int
  BY Places DEF TypeOK
<1>2. CASE Lag
  BY <1>2 DEF Position
<1>3. CASE ~Lag
  <2>1. \A q \in Queues : InUse(q) /\ queue[q].job_id = r => off = Begins(r) + queue[q].read_pos
                                                           /\ 0 <= queue[q].read_pos
    BY <1>3 DEF Position, Contents, Holds
  <2>2. \A q \in Queues : queue[q].read_pos \in Int
    BY DEF TypeOK
  <2>3. CASE r = k
    BY <1>1, <1>3, <2>1, <2>2, <2>3 DEF Position
  <2>4. CASE r # k
    <3>1. r \in r..(k - 1)
      BY <2>4, Places
    <3>2. PICK q \in Queues : InUse(q) /\ queue[q].job_id = r
      BY <3>1 DEF QueuesOf
    <3> QED BY <1>1, <2>1, <2>2, <3>2
  <2> QED BY <2>3, <2>4
<1> QED BY <1>2, <1>3

\* No queue is in the scheduler's hands when the application runs.
LEMMA NoHanding ==
  ASSUME Smooth, MayEnter(SchedWindow)
  PROVE  sched.pc \notin {"taken", "assign"} /\ \A q \in Queues : ~Handing(q) /\ (InUse(q) <=> queue[q].used)
<1>1. sched.pc \notin {"taken", "assign"}
  BY DEF Smooth, MayEnter, SchedWindow
<1> QED BY <1>1 DEF Handing, InUse

\* A step of the application other than a turn of the reader.
LEMMA AppMoves ==
  ASSUME Known, Smooth, Streaming, NEW k \in 0..JobTotal, NEW r \in 0..k, Span(r, k),
         ReadBegin \/ ReadEof \/ ReadNothing \/ SeekDone \/ SeekBegin \/ StartSeek
  PROVE  Span(r, k)'
<1>1. /\ UNCHANGED <<jobs, queue, expect_status, task, exe, sched>>
      /\ mq'.cur_queue = mq.cur_queue
  BY DEF ReadBegin, ReadEof, ReadNothing, SeekDone, SeekBegin, StartSeek, shared, TypeOK, Known, BaseInv
<1>2. TypeOK /\ BaseInv
  BY DEF Known, BaseInv
<1>3. \A q \in Queues : InUse(q)' <=> InUse(q)
  BY <1>1 DEF InUse, Handing
<1>4. QueuesOf(r, k)' /\ Contents'
  BY <1>1, <1>2, <1>3, StoreFrame DEF Span
<1>5. \A x \in Tasks : Fills(x)'
  BY <1>1, <1>2, FillsFrame DEF Span
<1>6. JobsTo(k)' /\ Ready'
  BY <1>1 DEF Span, JobsTo, Ready, TakenOf, DoneOf
<1>7. off \in Int /\ off \in 0..Size /\ Seeks /\ Position(r, k)
  BY <1>2 DEF Span, Position, TypeOK
<1>8. Seeks' /\ Position(r, k)'
  <2>1. CASE ReadBegin \/ ReadEof \/ ReadNothing \/ SeekDone
    <3>1. /\ mq' = mq /\ off' = off /\ seek_off' = seek_off
          /\ app \notin {"startseek"} /\ app' \notin {"startseek", "seekwait"} /\ ~mq.seek_pending
      BY <1>7, <2>1 DEF ReadBegin, ReadEof, ReadNothing, SeekDone, shared, handle, Seeks
    <3>2. Lag' <=> Lag
      BY <3>1 DEF Lag
    <3>3. Position(r, k)'
      BY <1>1, <1>3, <1>7, <3>1, <3>2, PositionFrame
    <3>4. Seeks'
      BY <1>1, <1>7, <3>1 DEF Seeks
    <3> QED BY <3>3, <3>4
  <2>2. CASE SeekBegin
    <3>1. PICK p \in SeekTo \ {off} : InFile(p) /\ off' = p /\ seek_off' = p /\ (p < off => SeekBack)
      BY <2>2 DEF SeekBegin
    <3>2. p \in Nat /\ p < Size /\ off <= p /\ Size \in Nat
      BY <1>7, <3>1, ConstantsAssumption DEF InFile, Smooth
    <3>3. app = "idle" /\ app' = "startseek" /\ mq' = mq
      BY <2>2 DEF SeekBegin, shared
    <3>4. Seeks'
      BY <1>1, <1>7, <3>1, <3>3 DEF Seeks
    <3>5. /\ Begins(r) <= off
          /\ \A q \in Queues : InUse(q) /\ queue[q].job_id = r => Begins(r) + queue[q].read_pos <= off
      BY <1>2, Behind DEF Span
    <3>6. Begins(r) \in Nat /\ \A q \in Queues : queue[q].read_pos \in Int
      BY <1>2, Places DEF TypeOK
    <3>7. /\ Begins(r) <= p
          /\ \A q \in Queues : InUse(q) /\ queue[q].job_id = r => Begins(r) + queue[q].read_pos <= p
      BY <1>7, <3>2, <3>5, <3>6
    <3>8. Lag'
      BY <3>3 DEF Lag
    <3>9. Begins(r)' = Begins(r)
      BY DEF Begins, JobTotal, JobOffset
    <3>10. p \in 0..Size
      BY <3>2
    <3>11. \A q \in Queues : InUse(q) /\ queue[q].job_id # r => queue[q].read_pos = 0
      BY <1>7 DEF Position
    <3>12. Position(r, k)'
      BY <1>1, <1>3, <3>1, <3>2, <3>7, <3>8, <3>9, <3>10, <3>11 DEF Position
    <3> QED BY <3>4, <3>12
  <2>3. CASE StartSeek
    <3>1. app = "startseek" /\ ~mq.seek_pending /\ seek_off = off /\ off' = off /\ seek_off' = seek_off
      BY <1>7, <2>3 DEF StartSeek, Seeks, handle
    <3>2. app' = "seekwait" /\ mq' = [mq EXCEPT !.seek_pending = TRUE, !.seek_pos = seek_off]
      BY <2>3, <3>1 DEF StartSeek
    <3>3. mq'.seek_pending /\ mq'.seek_pos = off
      BY <1>2, <3>1, <3>2 DEF TypeOK
    <3>4. off # INVALID_SEEK_POS
      BY <1>7 DEF INVALID_SEEK_POS
    <3>5. Lag /\ Lag'
      BY <3>1, <3>3, <3>4 DEF Lag
    <3>6. Position(r, k)'
      BY <1>1, <1>3, <1>7, <3>1, <3>5, PositionFrame
    <3>7. Seeks'
      BY <1>1, <1>7, <3>1, <3>2, <3>3 DEF Seeks
    <3> QED BY <3>6, <3>7
  <2> QED BY <2>1, <2>2, <2>3
<1> QED BY <1>4, <1>5, <1>6, <1>8 DEF Span

\* A turn of the reader at the queue of job r.
TurnOf(c, r, rp, n, pos) ==
  LET drained == queue[c].complete /\ rp = queue[c].write_pos
  IN  /\ queue' = [queue EXCEPT ![c] = [queue[c] EXCEPT !.read_pos = rp, !.used = ~drained]]
      /\ mq' = [mq EXCEPT !.cur_queue = IF drained THEN NULL ELSE c, !.seek_pos = pos]
      /\ off' = off + n
      /\ ret' = IF n = 0 THEN F!None ELSE [kind |-> "data", units |-> [i \in 1..n |-> off + i - 1]]
      /\ app' \in {"read", "idle"}
      /\ rp <= queue[c].write_pos /\ off + n <= Size
      /\ \/ pos = INVALID_SEEK_POS /\ off + n = Begins(r) + rp
         \/ /\ pos = mq.seek_pos /\ Lag /\ n = 0 /\ Begins(r) + rp <= off
            /\ drained => Begins(r + 1) <= off

LEMMA TurnIs ==
  ASSUME Known, Smooth, Streaming, NEW k \in 0..JobTotal, NEW r \in 0..k, Span(r, k), ReadTurn
  PROVE  /\ r < k
         /\ \E c \in Queues : /\ InUse(c) /\ queue[c].job_id = r
                              /\ \E rp \in Nat, n \in Nat, pos \in Int : TurnOf(c, r, rp, n, pos)
<1>1. TypeOK /\ app = "read" /\ AppMay
  BY DEF Known, BaseInv, ReadTurn
<1>2. \A q \in Queues : ~Handing(q) /\ (InUse(q) <=> queue[q].used)
  BY <1>1, NoHanding DEF AppMay
<1>3. PICK c : c = IF mq.cur_queue # NULL THEN mq.cur_queue ELSE find_dataready
  OBVIOUS
<1>4. PICK size \in 1..SEG :
       LET t == queue_read(queue[c], size)
           n == Cardinality(DOMAIN t.units)
           drained == t.queue.complete /\ t.queue.read_pos = t.queue.write_pos
       IN  /\ c # NULL
           /\ queue' = [queue EXCEPT ![c] = [t.queue EXCEPT !.used = @ /\ ~drained]]
           /\ mq' = [mq EXCEPT !.cur_queue = IF drained THEN NULL ELSE c, !.seek_pos = t.seek_pos]
           /\ off' = off + n
           /\ ret' = IF n = 0 THEN F!None ELSE [kind |-> "data", units |-> t.units]
           /\ app' = IF n = 0 THEN "read" ELSE "idle"
  BY <1>3 DEF ReadTurn
<1>d. size \in 1..SEG
  BY <1>4
<1>5. c \in Queues /\ InUse(c) /\ queue[c].job_id = r
  BY <1>1, <1>2, <1>3, <1>4, ReaderFinds DEF Span
<1>6. r < k /\ Holds(c, r) /\ queue[c] \in QueueRec /\ queue[c].used
  BY <1>1, <1>2, <1>5, QueueTypes DEF Span, QueuesOf, Contents
<1>7. PICK t : t = queue_read(queue[c], size)
  OBVIOUS
<1>8. PICK rp \in Nat, n \in Nat, pos \in Int :
        /\ t.queue = [queue[c] EXCEPT !.read_pos = rp] /\ t.seek_pos = pos
        /\ t.units = [i \in 1..n |-> off + i - 1]
        /\ rp <= queue[c].write_pos /\ off + n <= Size
        /\ \/ pos = INVALID_SEEK_POS /\ off + n = Begins(r) + rp
           \/ /\ pos = mq.seek_pos /\ Lag /\ n = 0 /\ Begins(r) + rp <= off
              /\ queue[c].complete /\ rp = queue[c].write_pos => Begins(r + 1) <= off
  <2>1. Seeks /\ Position(r, k)
    BY DEF Span
  <2>2. \E rp \in Nat, n \in Nat, pos \in Int : Gives(c, r, queue_read(queue[c], size), rp, n, pos)
    BY <1>1, <1>d, <1>5, <1>6, <2>1, ReadGives
  <2>3. PICK rp \in Nat, n \in Nat, pos \in Int : Gives(c, r, t, rp, n, pos)
    BY <1>7, <2>2
  <2> QED BY <2>3 DEF Gives
<1>9. Cardinality(DOMAIN t.units) = n
  <2>1. DOMAIN t.units = 1..n
    BY <1>8
  <2>2. Cardinality(1..n) = IF 1 > n THEN 0 ELSE n - 1 + 1
    BY FS_Interval
  <2> QED BY <2>1, <2>2
<1>10. /\ t.queue.complete = queue[c].complete /\ t.queue.read_pos = rp
       /\ t.queue.write_pos = queue[c].write_pos /\ t.queue.used
  BY <1>6, <1>8 DEF QueueRec
<1>e. PICK d \in BOOLEAN : d = (queue[c].complete /\ rp = queue[c].write_pos)
  OBVIOUS
<1> DEFINE drained == d
<1>11. [t.queue EXCEPT !.used = @ /\ ~drained] = [queue[c] EXCEPT !.read_pos = rp, !.used = ~drained]
  <2>1. [t.queue EXCEPT !.used = @ /\ ~drained] = [t.queue EXCEPT !.used = ~drained]
    BY <1>6, <1>8, <1>10 DEF QueueRec
  <2> QED BY <1>8, <2>1
<1>12. /\ queue' = [queue EXCEPT ![c] = [queue[c] EXCEPT !.read_pos = rp, !.used = ~drained]]
       /\ mq' = [mq EXCEPT !.cur_queue = IF drained THEN NULL ELSE c, !.seek_pos = pos]
       /\ off' = off + n
       /\ ret' = IF n = 0 THEN F!None ELSE [kind |-> "data", units |-> [i \in 1..n |-> off + i - 1]]
       /\ app' \in {"read", "idle"}
  <2>1. /\ queue' = [queue EXCEPT ![c] = [t.queue EXCEPT !.used = @ /\ ~(t.queue.complete /\ t.queue.read_pos = t.queue.write_pos)]]
        /\ mq' = [mq EXCEPT !.cur_queue = IF t.queue.complete /\ t.queue.read_pos = t.queue.write_pos THEN NULL ELSE c,
                            !.seek_pos = t.seek_pos]
        /\ off' = off + n
        /\ ret' = IF n = 0 THEN F!None ELSE [kind |-> "data", units |-> t.units]
        /\ app' = IF n = 0 THEN "read" ELSE "idle"
    BY <1>4, <1>7, <1>9
  <2>2. (t.queue.complete /\ t.queue.read_pos = t.queue.write_pos) = d
    BY <1>e, <1>10
  <2>3. queue' = [queue EXCEPT ![c] = [t.queue EXCEPT !.used = @ /\ ~d]]
    BY <2>1, <2>2
  <2>4. mq' = [mq EXCEPT !.cur_queue = IF d THEN NULL ELSE c, !.seek_pos = pos]
    BY <1>8, <2>1, <2>2
  <2>5. queue' = [queue EXCEPT ![c] = [queue[c] EXCEPT !.read_pos = rp, !.used = ~d]]
    BY <1>11, <2>3
  <2> QED BY <1>8, <2>1, <2>4, <2>5
<1>13. TurnOf(c, r, rp, n, pos)
  BY <1>8, <1>12, <1>e DEF TurnOf
<1> QED BY <1>5, <1>6, <1>13

\* After the turn the reader is in the same queue, or has retired it.
LEMMA TurnKeeps ==
  ASSUME Known, Smooth, Streaming, NEW k \in 0..JobTotal, NEW r \in 0..k, Span(r, k), ReadTurn
  PROVE  \E s \in 0..k : Span(s, k)'
<1>1. TypeOK /\ BaseInv /\ app = "read" /\ AppMay /\ queue \in [Queues -> QueueRec]
  BY QueueTypes DEF Known, BaseInv, ReadTurn
<1>2. \A q \in Queues : ~Handing(q) /\ (InUse(q) <=> queue[q].used)
  BY <1>1, NoHanding DEF AppMay
<1>3. /\ UNCHANGED <<schedule_task_status, seek_off, jobs, expect_status, task, sched, exe>>
  BY DEF ReadTurn
<1>4. r < k /\ r \in Nat /\ k \in Nat /\ r \in Jobs /\ r + 1 \in 0..k
  <2>1. r < k
    BY TurnIs
  <2> QED BY <2>1, Places DEF Jobs
<1>5. PICK c \in Queues, rp \in Nat, n \in Nat, pos \in Int :
        InUse(c) /\ queue[c].job_id = r /\ TurnOf(c, r, rp, n, pos)
  BY TurnIs
<1>b. PICK drained \in BOOLEAN : drained = (queue[c].complete /\ rp = queue[c].write_pos)
  OBVIOUS
<1>10. PICK s \in 0..k : s = IF drained THEN r + 1 ELSE r
  BY <1>4
<1>6. /\ queue' = [queue EXCEPT ![c] = [queue[c] EXCEPT !.read_pos = rp, !.used = ~drained]]
      /\ mq' = [mq EXCEPT !.cur_queue = IF drained THEN NULL ELSE c, !.seek_pos = pos]
      /\ off' = off + n /\ app' \in {"read", "idle"}
      /\ rp <= queue[c].write_pos /\ off + n <= Size
      /\ \/ pos = INVALID_SEEK_POS /\ off + n = Begins(r) + rp
         \/ /\ pos = mq.seek_pos /\ Lag /\ n = 0 /\ Begins(r) + rp <= off
            /\ drained => Begins(r + 1) <= off
  BY <1>5, <1>b DEF TurnOf
<1>7. /\ queue'[c].used = ~drained /\ queue'[c].read_pos = rp
      /\ \A q \in Queues \ {c} : queue'[q] = queue[q]
      /\ \A q \in Queues :
           /\ queue'[q].job_id = queue[q].job_id /\ queue'[q].write_pos = queue[q].write_pos
           /\ queue'[q].range = queue[q].range /\ queue'[q].data = queue[q].data
           /\ queue'[q].complete = queue[q].complete
  <2>1. queue'[c] = [queue[c] EXCEPT !.read_pos = rp, !.used = ~drained]
    BY <1>1, <1>6
  <2>2. \A q \in Queues \ {c} : queue'[q] = queue[q]
    BY <1>1, <1>6
  <2>3. queue[c] \in QueueRec
    BY <1>1
  <2>4. /\ queue'[c].used = ~drained /\ queue'[c].read_pos = rp
        /\ queue'[c].job_id = queue[c].job_id /\ queue'[c].write_pos = queue[c].write_pos
        /\ queue'[c].range = queue[c].range /\ queue'[c].data = queue[c].data
        /\ queue'[c].complete = queue[c].complete
    BY <2>1, <2>3 DEF QueueRec
  <2> QED BY <2>2, <2>4
<1>8. /\ mq'.cur_queue = (IF drained THEN NULL ELSE c) /\ mq'.seek_pos = pos
      /\ mq'.seek_pending = mq.seek_pending
  <2>1. mq \in MqRec
    BY <1>1 DEF TypeOK, MqRec
  <2> QED BY <1>6, <2>1 DEF MqRec
<1>9. /\ InUse(c)' <=> ~drained
      /\ \A q \in Queues \ {c} : InUse(q)' <=> InUse(q)
      /\ \A q \in Queues : ~Handing(q)'
  BY <1>2, <1>3, <1>7 DEF InUse, Handing
<1>a. \A q \in Queues : queue[q].job_id \in Int
  <2>1. INVALID_JOB_ID \in Int /\ \A j \in Jobs : j \in Int
    BY JobSizes DEF INVALID_JOB_ID
  <2> QED BY <1>1, <2>1 DEF TypeOK
<1>11. JobsTo(k)' /\ Ready'
  BY <1>3, <1>1, <1>2, <1>7 DEF Span, JobsTo, Ready, TakenOf, DoneOf, AppMay, MayEnter, SchedWindow, Smooth
<1>12. QueuesOf(s, k)'
  <2>1. \A q \in Queues \ {c} : InUse(q) => r + 1 <= queue[q].job_id /\ queue[q].job_id < k
    <3> SUFFICES ASSUME NEW q \in Queues \ {c}, InUse(q)
                 PROVE  r + 1 <= queue[q].job_id /\ queue[q].job_id < k
      OBVIOUS
    <3>1. queue[q].job_id # r
      BY <1>5 DEF Span, QueuesOf
    <3>2. r <= queue[q].job_id /\ queue[q].job_id < k
      BY DEF Span, QueuesOf
    <3> QED BY <1>4, <1>a, <3>1, <3>2
  <2>2. \A q \in Queues : InUse(q)' => s <= queue[q].job_id /\ queue[q].job_id < k
    BY <1>4, <1>5, <1>9, <1>10, <1>a, <2>1
  <2>3. \A q \in Queues : ~InUse(q)' => queue[q].job_id < s
    <3>1. \A q \in Queues : ~InUse(q) => queue[q].job_id < r
      BY DEF Span, QueuesOf
    <3> QED BY <1>4, <1>5, <1>9, <1>10, <1>a, <3>1
  <2>4. ASSUME NEW j \in s..(k - 1) PROVE \E q \in Queues : InUse(q)' /\ queue[q].job_id = j
    <3>1. j \in r..(k - 1)
      BY <1>4, <1>10, <2>4
    <3>2. PICK q \in Queues : InUse(q) /\ queue[q].job_id = j
      BY <3>1 DEF Span, QueuesOf
    <3>3. q = c => ~drained
      BY <1>4, <1>5, <1>10, <2>4, <3>2
    <3> QED BY <1>9, <3>2, <3>3
  <2>5. \A p, q \in Queues : InUse(p)' /\ InUse(q)' /\ queue[p].job_id = queue[q].job_id => p = q
    BY <1>5, <1>9 DEF Span, QueuesOf
  <2>6. mq'.cur_queue # NULL => mq'.cur_queue \in Queues /\ InUse(mq.cur_queue)' /\ queue[mq'.cur_queue].job_id = s
    <3>1. CASE drained
      BY <1>8, <3>1
    <3>2. CASE ~drained
      <4>1. mq'.cur_queue = c
        BY <1>8, <3>2
      <4>2. InUse(mq.cur_queue)'
        BY <1>7, <1>9, <3>2, <4>1 DEF InUse
      <4> QED BY <1>5, <1>10, <3>2, <4>1, <4>2
    <3> QED BY <3>1, <3>2
  <2> QED BY <1>7, <2>2, <2>3, <2>4, <2>5, <2>6 DEF QueuesOf
<1>13. Contents'
  <2> SUFFICES ASSUME NEW q \in Queues, InUse(q)' PROVE Holds(q, queue[q].job_id)'
    BY DEF Contents
  <2>1. InUse(q) /\ Holds(q, queue[q].job_id)
    BY <1>5, <1>9 DEF Span, Contents
  <2>2. 0 <= queue'[q].read_pos /\ queue'[q].read_pos <= queue'[q].write_pos
    BY <1>6, <1>7, <2>1 DEF Holds
  <2> QED BY <1>3, <1>7, <2>1, <2>2 DEF Holds, JobOffset, JobSize, JobTotal
<1>14. \A x \in Tasks : Fills(x)'
  <2>1. \A x \in Tasks : Running(x) => queue'[task[x].queue].write_pos = queue[task[x].queue].write_pos
    BY <1>1, <1>7 DEF BaseInv, TasksOK
  <2> QED BY <1>1, <1>3, <2>1, FillsFrame DEF Span
<1>15. off \in Nat /\ Begins(r) \in Nat /\ Size \in Nat /\ off + n \in 0..Size
  BY <1>4, <1>6, Places DEF Span, Position
<1>16. Seeks'
  <2>1. mq.seek_pos # INVALID_SEEK_POS => mq.seek_pos = off
    BY <1>1 DEF Span, Seeks
  <2>2. pos # INVALID_SEEK_POS => pos = off + n
    BY <1>6, <1>15, <2>1
  <2> QED BY <1>1, <1>3, <1>6, <1>8, <2>2 DEF Span, Seeks
<1>17. Lag' <=> pos # INVALID_SEEK_POS
  BY <1>6, <1>8 DEF Lag
<1>18. Position(s, k)'
  <2>1. \A q \in Queues : InUse(q)' /\ queue[q].job_id # s => queue'[q].read_pos = 0
    <3> SUFFICES ASSUME NEW q \in Queues, InUse(q)', queue[q].job_id # s PROVE queue'[q].read_pos = 0
      OBVIOUS
    <3>1. q # c
      BY <1>5, <1>9, <1>10
    <3>2. InUse(q) /\ queue'[q] = queue[q]
      BY <1>7, <1>9, <3>1
    <3>3. queue[q].job_id # r
      BY <1>5, <3>1, <3>2 DEF Span, QueuesOf
    <3> QED BY <3>2, <3>3 DEF Span, Position
  \* the queues of job s: the one read, or the next one, not begun
  <2>2. ASSUME NEW q \in Queues, InUse(q)', queue[q].job_id = s
        PROVE  \/ ~drained /\ s = r /\ queue'[q].read_pos = rp
               \/ drained /\ s = r + 1 /\ queue'[q].read_pos = 0
    <3>1. CASE q = c
      <4>1. ~drained
        BY <1>9, <2>2, <3>1
      <4> QED BY <1>7, <1>10, <3>1, <4>1
    <3>2. CASE q # c
      <4>1. InUse(q) /\ queue'[q] = queue[q]
        BY <1>7, <1>9, <2>2, <3>2
      <4>2. queue[q].job_id # r
        BY <1>5, <3>2, <4>1 DEF Span, QueuesOf
      <4>3. queue[q].read_pos = 0
        BY <4>1, <4>2 DEF Span, Position
      <4>4. drained
        BY <1>10, <2>2, <4>2
      <4> QED BY <1>10, <4>1, <4>3, <4>4
    <3> QED BY <3>1, <3>2
  <2>3. drained => Begins(r) + rp = Begins(r + 1)
    <3>1. drained => rp = JobSize(r)
      <4>1. Holds(c, r) /\ expect_status = "RUNNING"
        BY <1>1, <1>5 DEF Span, Contents, Seeks
      <4> QED BY <1>b, <4>1 DEF Holds
    <3> QED BY <1>4, <3>1, Places
  <2>4. Begins(r + 1) \in Nat /\ Begins(s) \in Nat
    BY <1>4, <1>10, Places
  <2>5. CASE pos = INVALID_SEEK_POS /\ off + n = Begins(r) + rp
    <3>1. \A q \in Queues : InUse(q)' /\ queue[q].job_id = s => off + n = Begins(s) + queue'[q].read_pos
      BY <1>15, <2>2, <2>3, <2>4, <2>5
    <3>2. s = k => off + n = Begins(s)
      <4>1. s = k => drained
        BY <1>4, <1>10
      <4> QED BY <1>10, <2>3, <2>5, <4>1
    <3>3. ~Lag'
      BY <1>17, <2>5
    <3> QED BY <1>6, <1>7, <1>15, <2>1, <3>1, <3>2, <3>3 DEF Position, Begins, JobTotal, JobOffset
  <2>6. CASE /\ pos = mq.seek_pos /\ Lag /\ n = 0 /\ Begins(r) + rp <= off
             /\ drained => Begins(r + 1) <= off
    <3>1. Lag' /\ off' = off
      BY <1>1, <1>6, <1>15, <1>17, <2>6 DEF Lag
    <3>2. \A q \in Queues : InUse(q)' /\ queue[q].job_id = s => Begins(s) + queue'[q].read_pos <= off
      BY <1>15, <2>2, <2>4, <2>6
    <3>3. Begins(s) <= off /\ off < Size
      <4>1. off < Size
        BY <2>6 DEF Span, Position
      <4> QED BY <1>10, <1>15, <2>4, <2>6, <4>1
    <3> QED BY <1>7, <1>15, <2>1, <2>6, <3>1, <3>2, <3>3 DEF Position, Begins, JobTotal, JobOffset
  <2> QED BY <1>6, <2>5, <2>6
<1>19. Span(s, k)'
  BY <1>11, <1>12, <1>13, <1>14, <1>16, <1>18 DEF Span
<1> QED BY <1>10, <1>19

\* A seek forward resets the queues or changes nothing.
LEMMA PolicyForward ==
  ASSUME TypeOK, \A q \in Queues : queue[q].used => queue[q].job_id \in Jobs, NEW dst \in Jobs,
         \A q \in Queues : queue[q].used => \E p \in Queues : queue[p].used /\ queue[p].job_id <= dst
  PROVE  LET p == gen_seek_policy(dst)
         IN  p \in Policy /\ (p.reset \/ (p.kill = {} /\ p.save = {} /\ p.new = {}))
<1> DEFINE U == {q \in Queues : queue[q].used}
           I == {queue[q].job_id : q \in U}
           total == Cardinality(U)
           min == Min(I)
           max == Max({0} \cup I)
           new == min - dst
           save == Min({TaskNum - new, total})
           none == [reset |-> FALSE, new |-> {}, save |-> {}, kill |-> {}]
           Fine(p) == p.reset \/ (p.kill = {} /\ p.save = {} /\ p.new = {})
<1>1. gen_seek_policy(dst) \in Policy
  BY PolicyFacts
<1>2. dst \in Nat
  BY JobSizes
<1>3. total # 0 => min \in Nat /\ min <= dst
  <2> SUFFICES ASSUME total # 0 PROVE min \in Nat /\ min <= dst
    OBVIOUS
  <2>1. U # {}
    <3> HIDE DEF U
    <3> QED BY FS_EmptySet
  <2>2. PICK p \in Queues : queue[p].used /\ queue[p].job_id <= dst
    BY <2>1
  <2>3. I \subseteq Nat /\ queue[p].job_id \in I
    BY <2>2, JobSizes
  <2>4. PICK i : i = queue[p].job_id
    OBVIOUS
  <2>5. I # {} /\ i \in I
    BY <2>3, <2>4
  <2> HIDE DEF I
  <2>6. min \in I /\ \A n \in I : min <= n
    BY <2>3, <2>5, MinIn
  <2> HIDE DEF min
  <2> QED BY <1>2, <2>2, <2>3, <2>4, <2>5, <2>6
<1>4. PICK a : a = [none EXCEPT !.reset = TRUE]
  OBVIOUS
<1>5. PICK b : b = [none EXCEPT !.new = dst..(min - 1),
                                !.save = min..(min + save - 1),
                                !.kill = (min + save)..(min + total - 1)]
  OBVIOUS
<1>6. gen_seek_policy(dst) =
        CASE total = 0                -> a
          [] total # 0 /\ dst > max   -> a
          [] total # 0 /\ dst <= max /\ dst >= min -> none
          [] total # 0 /\ dst < min /\ dst >= min - (TaskNum - 1) -> b
          [] OTHER                    -> a
  BY <1>4, <1>5 DEF gen_seek_policy
<1>7. ~(total # 0 /\ dst < min)
  <2> HIDE DEF total, min
  <2> QED BY <1>2, <1>3
<1>8. gen_seek_policy(dst) \in {none, a}
  <2> HIDE DEF total, min, max, none
  <2> QED BY <1>6, <1>7
<1>9. Fine(none) /\ Fine(a)
  BY <1>4
<1> HIDE DEF none
<1> QED BY <1>1, <1>8, <1>9

\* After the reset for a seek to job dst the jobs before it are done with.
LEMMA ResetTo ==
  ASSUME TypeOK, CountOK, CompleteExact(jobs), NEW k \in 0..JobTotal, JobsTo(k), NEW dst \in Jobs
  PROVE  LET K == ResetJobs(jobs, dst)
         IN  TakenOf(K) \cup DoneOf(K) = {j \in Jobs : j < dst} /\ ~K.finish_flag
<1> DEFINE next == Get_Next_Job(jobs)
           curr == IF next # INVALID_JOB_ID THEN next ELSE JobTotal - 1
           last == IF next # INVALID_JOB_ID THEN curr - 1 ELSE curr
           Fine(K) == TakenOf(K) \cup DoneOf(K) = {j \in Jobs : j < dst} /\ ~K.finish_flag
<1>1. next = IF k = JobTotal THEN INVALID_JOB_ID ELSE k
  BY NextIs
<1>2. /\ JobTotal \in Nat \ {0} /\ k \in Nat /\ k <= JobTotal /\ dst \in Nat /\ dst < JobTotal
      /\ \A j \in Jobs : j \in Nat /\ j < JobTotal
      /\ \A j \in Nat : j < JobTotal => j \in Jobs
      /\ k # JobTotal => k \in Jobs /\ k # INVALID_JOB_ID
  BY Places DEF Jobs
<1>3. curr = (IF k = JobTotal THEN JobTotal - 1 ELSE k) /\ last = (IF k = JobTotal THEN JobTotal - 1 ELSE k - 1)
  BY <1>1, <1>2
<1>4. jobs \in JobsRec /\ TakenOf(jobs) \cup DoneOf(jobs) = {j \in Jobs : j < k}
  BY JobsTypes DEF JobsTo
<1>5. \A J \in JobsRec, S \in SUBSET Jobs : ~Reactivated(J, S).finish_flag
  BY DEF Reactivated, JobsRec
<1> HIDE DEF next, curr, last
<1>6. ASSUME NEW S \in SUBSET Jobs, S # {}, \A j \in S : dst <= j, \A j \in Jobs : dst <= j /\ j < k => j \in S, dst <= k
      PROVE  Fine(Reactivated(jobs, S))
  <2>1. Edited(jobs, Reactivated(jobs, S), {}, S, {}, S)
    BY <1>4, <1>6, ReactivatedJobs
  <2>2. TakenOf(Reactivated(jobs, S)) \cup DoneOf(Reactivated(jobs, S)) = {j \in Jobs : j < k} \ S
    BY <1>4, <2>1 DEF Edited
  <2>3. \A j \in Jobs : j < k /\ j \notin S <=> j < dst
    BY <1>2, <1>6
  <2>4. {j \in Jobs : j < k} \ S = {j \in Jobs : j < dst}
    BY <2>3, Zenon
  <2> QED BY <1>4, <1>5, <2>2, <2>4
<1>7. CASE dst < curr
  <2> DEFINE S == dst..(IF last >= JobTotal \/ last <= 0 THEN JobTotal - 1 ELSE last)
  <2>1. ResetJobs(jobs, dst) = Reactivated(jobs, S)
    <3>1. ResetJobs(jobs, dst) = Reactive_Jobs(jobs, dst, last)
      <4>1. PICK c : c = curr
        OBVIOUS
      <4>2. PICK n : n = next
        OBVIOUS
      <4>3. ResetJobs(jobs, dst) = CASE dst < c -> Reactive_Jobs(jobs, dst, IF n # INVALID_JOB_ID THEN c - 1 ELSE c)
                                     [] dst > c -> Reactive_Job(Complete_Skipped(jobs, c..(dst - 1)), dst)
                                     [] OTHER   -> Reactive_Job(jobs, dst)
        BY <4>1, <4>2 DEF ResetJobs, next, curr
      <4>4. ~(dst > c)
        BY <1>2, <1>3, <1>7, <4>1
      <4>5. last = IF n # INVALID_JOB_ID THEN c - 1 ELSE c
        BY <4>1, <4>2 DEF last
      <4> QED BY <1>7, <4>1, <4>3, <4>4, <4>5
    <3> QED BY <3>1 DEF Reactive_Jobs
  <2>2. last \in Int /\ dst <= last /\ last < JobTotal /\ k <= last + 1
    BY <1>2, <1>3, <1>7
  <2>3. S \in SUBSET Jobs
    <3>1. \A j \in S : j \in Nat /\ j < JobTotal
      BY <1>2, <2>2
    <3> QED BY <1>2, <3>1
  <2>4. dst \in S /\ (\A j \in S : dst <= j) /\ (\A j \in Jobs : dst <= j /\ j < k => j \in S) /\ dst <= k
    BY <1>2, <2>2, <1>3, <1>7
  <2> HIDE DEF S
  <2>5. Fine(Reactivated(jobs, S))
    BY <1>6, <2>3, <2>4
  <2> QED BY <2>1, <2>5
<1>8. CASE dst > curr
  <2>1. k # JobTotal /\ curr = k /\ k < dst
    BY <1>2, <1>3, <1>8
  <2> DEFINE S == k..(dst - 1)
             K == Complete_Skipped(jobs, S)
  <2>2. ResetJobs(jobs, dst) = Reactive_Job(K, dst)
    BY <1>2, <1>8, <2>1 DEF ResetJobs, next, curr
  <2>3. S \in SUBSET Jobs
    BY <1>2, <2>1
  <2>4. \A j \in Jobs : j \in S <=> ~(j < k) /\ j < dst
    BY <1>2, <2>1
  <2> HIDE DEF S
  <2>5. K \in JobsRec /\ TakenOf(K) = TakenOf(jobs) /\ DoneOf(K) = DoneOf(jobs) \cup S
    BY <1>4, <2>3, CompleteSkipped DEF Edited
  <2> HIDE DEF K
  <2>6. Reactive_Job(K, dst) = Reactivated(K, {dst})
    BY DEF Reactive_Job
  <2>7. Edited(K, Reactivated(K, {dst}), {}, {dst}, {}, {dst})
    BY <2>5, ReactivatedJobs
  <2>8. TakenOf(Reactivated(K, {dst})) \cup DoneOf(Reactivated(K, {dst})) = ({j \in Jobs : j < k} \cup S) \ {dst}
    BY <1>4, <2>5, <2>7 DEF Edited
  <2>a. \A j \in Jobs : (j < k \/ j \in S) /\ j # dst <=> j < dst
    BY <1>2, <2>1, <2>4
  <2>9. ({j \in Jobs : j < k} \cup S) \ {dst} = {j \in Jobs : j < dst}
    BY <2>3, <2>a, Zenon
  <2>10. ~Reactivated(K, {dst}).finish_flag
    BY <1>5, <2>5
  <2> QED BY <2>2, <2>6, <2>8, <2>9, <2>10
<1>9. CASE dst = curr
  <2>1. ResetJobs(jobs, dst) = Reactivated(jobs, {dst})
    BY <1>2, <1>9 DEF ResetJobs, next, curr, Reactive_Job
  <2>2. \A j \in Jobs : dst <= j /\ j < k => j \in {dst}
    BY <1>2, <1>3, <1>9
  <2>3. dst <= k
    BY <1>2, <1>3, <1>9
  <2>4. Fine(Reactivated(jobs, {dst}))
    BY <1>2, <1>6, <2>2, <2>3
  <2> QED BY <2>1, <2>4
<1>10. curr \in Int
  BY <1>2, <1>3
<1> QED BY <1>2, <1>7, <1>8, <1>9, <1>10

\* A step of the scheduler that leaves the queues in use alone.
LEMMA SchedFrame ==
  ASSUME Known, NEW k \in 0..JobTotal, NEW r \in 0..k, Span(r, k),
         UNCHANGED <<exe, task, app, off, seek_off>>,
         mq'.cur_queue = mq.cur_queue, mq'.seek_pos = mq.seek_pos,
         expect_status' = "RUNNING" => expect_status = "RUNNING",
         \A q \in Queues : (InUse(q)' <=> InUse(q)) /\ queue'[q].job_id = queue[q].job_id,
         \A q \in Queues : InUse(q) => queue'[q] = queue[q],
         \A x \in Tasks : Running(x) => queue'[task[x].queue] = queue[task[x].queue],
         JobsTo(k)', Ready', Seeks'
  PROVE  Span(r, k)'
<1>1. TypeOK /\ BaseInv
  BY DEF Known, BaseInv
<1>2. QueuesOf(r, k)' /\ Contents'
  BY <1>1, StoreFrame DEF Span
<1>3. \A x \in Tasks : Fills(x)'
  BY <1>1, FillsFrame DEF Span
<1>4. Lag' <=> Lag
  BY DEF Lag
<1>5. Position(r, k)'
  BY <1>4, PositionFrame DEF Span
<1> QED BY <1>2, <1>3, <1>5 DEF Span

\* The scheduler's executors are outside their windows.
LEMMA SchedOutside ==
  ASSUME Known, Smooth, SchedMay
  PROVE  /\ \A x \in Tasks : ~InWindow(x) /\ (Running(x) => Filling(x) /\ task[x].queue \in Queues)
         /\ CompleteExact(jobs)
         /\ \A x \in Tasks : Running(x) => ~Handing(task[x].queue) /\ queue[task[x].queue].used
         /\ TypeOK /\ BaseInv /\ SchedOK /\ sched \in SchedRec /\ queue \in [Queues -> QueueRec] /\ mq \in MqRec
         /\ jobs \in JobsRec
<1>1. BaseInv /\ TypeOK /\ SchedOK /\ OwnInv /\ DoneInv /\ Locked
  BY DEF Known, BaseInv, Smooth
<1>2. \A x \in Tasks : ~InWindow(x) /\ (Running(x) => Filling(x))
  BY <1>1, Outside
<1>3. CompleteExact(jobs)
  BY <1>1, <1>2, DoneOutside
<1>4. \A x \in Tasks : Running(x) => task[x].queue \in Queues
  BY <1>1 DEF BaseInv, TasksOK
<1>5. \A x \in Tasks : Running(x) => ~Handing(task[x].queue) /\ queue[task[x].queue].used
  BY <1>1, <1>2 DEF OwnInv, QueueOwn
<1>6. mq \in MqRec
  BY <1>1 DEF TypeOK, MqRec
<1> QED BY <1>1, <1>2, <1>3, <1>4, <1>5, <1>6, SchedTypes, QueueTypes, JobsTypes

LEMMA QuietMoves ==
  ASSUME Known, Smooth, Streaming, NEW k \in 0..JobTotal, NEW r \in 0..k, Span(r, k),
         SchedExit \/ SchedPrepareIdle \/ SchedIdleCheck \/ SchedPolicyDone \/ SchedEndSeek \/ SchedSetRunning
  PROVE  Span(r, k)'
<1>1. SchedMay
  BY DEF SchedExit, SchedPrepareIdle, SchedIdleCheck, SchedPolicyDone, SchedEndSeek, SchedSetRunning
<1>2. sched \in SchedRec /\ mq \in MqRec
  BY <1>1, SchedOutside
<1>3. UNCHANGED <<jobs, queue, task, exe, app, off, seek_off, expect_status>>
  BY DEF SchedExit, SchedPrepareIdle, SchedIdleCheck, SchedPolicyDone, SchedEndSeek, SchedSetRunning,
         shared, handle
<1>4. ~SchedExit
  BY DEF SchedExit, Streaming, Known, BaseInv, SessionOK, Leaving
<1>5. /\ sched.pc \notin {"seekstop", "taken", "assign"}
      /\ sched'.pc \in {"idlechk", "top", "endseek", "setrun"}
      /\ sched'.job = sched.job \/ sched'.job = INVALID_JOB_ID
  <2>1. CASE SchedIdleCheck
    <3>1. sched' = Forget \/ sched' = [sched EXCEPT !.pc = "top"]
      BY <2>1 DEF SchedIdleCheck
    <3> QED BY <1>2, <2>1, <3>1 DEF SchedIdleCheck, Forget, SchedRec
  <2>2. CASE ~SchedIdleCheck
    BY <1>2, <1>4, <2>2 DEF SchedPrepareIdle, SchedPolicyDone, SchedEndSeek, SchedSetRunning, SchedRec
  <2> QED BY <2>1, <2>2
<1>6. /\ mq'.cur_queue = mq.cur_queue /\ mq'.seek_pos = mq.seek_pos
      /\ mq'.seek_pending => mq.seek_pending
  <2>1. CASE SchedEndSeek
    BY <1>2, <2>1 DEF SchedEndSeek, EndSeek, MqRec
  <2>2. CASE ~SchedEndSeek
    <3>1. mq' = mq
      BY <1>4, <2>2 DEF SchedPrepareIdle, SchedIdleCheck, SchedPolicyDone, SchedSetRunning, shared
    <3> QED BY <3>1
  <2> QED BY <2>1, <2>2
<1>7. \A q \in Queues : InUse(q)' <=> InUse(q)
  BY <1>3, <1>5 DEF InUse, Handing
<1>8. JobsTo(k)'
  <2>1. sched'.job \in Jobs => sched'.job = k
    BY <1>5, NoJob DEF Span, JobsTo
  <2> QED BY <1>3, <2>1 DEF Span, JobsTo, TakenOf, DoneOf
<1>9. Ready' /\ Seeks'
  BY <1>3, <1>5, <1>6 DEF Span, Ready, Seeks
<1> QED BY <1>3, <1>6, <1>7, <1>8, <1>9, SchedFrame

\* A seek puts back the job in hand.
LEMMA SeekMoves ==
  ASSUME Known, Smooth, Streaming, NEW k \in 0..JobTotal, NEW r \in 0..k, Span(r, k), SchedSeek
  PROVE  Span(r, k)'
<1>1. SchedMay /\ sched.pc = "top"
  BY DEF SchedSeek
<1>2. sched \in SchedRec /\ jobs \in JobsRec /\ CountOK
  BY <1>1, SchedOutside DEF Known
<1>3. UNCHANGED <<mq, queue, task, exe, app, off, seek_off, expect_status>>
  BY DEF SchedSeek, handle
<1>4. sched'.pc = "seek" /\ sched'.job = INVALID_JOB_ID
  <2>1. sched' = [Forget EXCEPT !.pc = "seek"]
    BY DEF SchedSeek
  <2> QED BY <1>2, <2>1 DEF Forget, SchedRec
<1>5. \A q \in Queues : InUse(q)' <=> InUse(q)
  BY <1>1, <1>3, <1>4 DEF InUse, Handing
<1>6. TakenOf(jobs') \cup DoneOf(jobs') = TakenOf(jobs) \cup DoneOf(jobs) /\ jobs'.finish_flag = jobs.finish_flag
  <2>1. CASE sched.job = INVALID_JOB_ID
    BY <2>1 DEF SchedSeek
  <2>2. CASE sched.job # INVALID_JOB_ID
    <3>1. PICK j \in Jobs : j = sched.job /\ jobs' = Assign_Job_Reset(jobs, j)
      BY <1>2, <2>2 DEF SchedSeek, SchedRec
    <3>2. j \notin TakenOf(jobs) /\ j \notin DoneOf(jobs)
      <4>1. j = k /\ TakenOf(jobs) \cup DoneOf(jobs) = {i \in Jobs : i < k}
        BY <3>1 DEF Span, JobsTo
      <4>2. ~(k < k)
        BY Places
      <4> QED BY <4>1, <4>2
    <3>3. TakenOf(jobs') = TakenOf(jobs) /\ DoneOf(jobs') = DoneOf(jobs)
      <4>1. Edited(jobs, jobs', {}, {}, {}, {j})
        BY <1>2, <3>1, <3>2, AssignJobReset
      <4> QED BY <3>2, <4>1 DEF Edited
    <3>4. jobs'.finish_flag = jobs.finish_flag
      BY <1>2, <3>1 DEF Assign_Job_Reset, JobsRec
    <3> QED BY <3>3, <3>4
  <2> QED BY <2>1, <2>2
<1>7. JobsTo(k)'
  <2>1. TakenOf(jobs') \cup DoneOf(jobs') = {j \in Jobs : j < k} /\ (jobs'.finish_flag => k = JobTotal)
    BY <1>6 DEF Span, JobsTo
  <2> QED BY <1>4, <2>1, NoJob DEF JobsTo, TakenOf, DoneOf
<1>8. Ready' /\ Seeks'
  BY <1>1, <1>3, <1>4 DEF Span, Ready, Seeks
<1> QED BY <1>3, <1>4, <1>5, <1>7, <1>8, SchedFrame

\* The scheduler takes job k into its hands, and perhaps a queue nobody uses.
LEMMA PassMoves ==
  ASSUME Known, Smooth, Streaming, NEW k \in 0..JobTotal, NEW r \in 0..k, Span(r, k), SchedPass
  PROVE  Span(r, k)'
<1>1. SchedMay /\ sched.pc = "top"
  BY DEF SchedPass
<1>2. /\ sched \in SchedRec /\ TypeOK /\ CountOK /\ CompleteExact(jobs) /\ queue \in [Queues -> QueueRec]
      /\ \A x \in Tasks : Running(x) => task[x].queue \in Queues /\ queue[task[x].queue].used
  BY <1>1, SchedOutside DEF Known
<1>3. UNCHANGED <<jobs, mq, task, exe, app, off, seek_off, expect_status>>
  BY DEF SchedPass, handle
<1>4. PICK j : j = IF sched.job # INVALID_JOB_ID THEN sched.job ELSE Get_Next_Job(jobs)
  OBVIOUS
<1>5. /\ j # INVALID_JOB_ID
      /\ \/ PassWaits(j)
         \/ /\ FirstUnused # NULL
            /\ queue' = [queue EXCEPT ![FirstUnused].used = TRUE]
            /\ sched' = [sched EXCEPT !.pc = "taken", !.job = j, !.queue = FirstUnused, !.task = FirstIdle]
  BY <1>4 DEF SchedPass, PassWaits
<1>6. j = k
  <2>1. CASE sched.job # INVALID_JOB_ID
    <3>1. sched.job \in Jobs
      BY <1>2, <2>1 DEF SchedRec
    <3> QED BY <1>4, <2>1, <3>1 DEF Span, JobsTo
  <2>2. CASE sched.job = INVALID_JOB_ID
    <3>1. Get_Next_Job(jobs) = IF k = JobTotal THEN INVALID_JOB_ID ELSE k
      BY <1>2, NextIs DEF Span
    <3> QED BY <1>4, <1>5, <2>2, <3>1
  <2> QED BY <2>1, <2>2
<1>7. /\ sched'.job = k
      /\ \/ sched'.pc = "top" /\ queue' = queue
         \/ \E q \in Queues : /\ ~queue[q].used /\ sched'.pc = "taken" /\ sched'.queue = q
                              /\ queue' = [queue EXCEPT ![q].used = TRUE]
  <2>1. CASE PassWaits(j)
    BY <1>1, <1>2, <1>6, <2>1 DEF PassWaits, SchedRec
  <2>2. CASE ~PassWaits(j)
    <3>1. PICK q \in Queues : q = FirstUnused /\ ~queue[q].used
      BY <1>5, <2>2, FirstUnusedFacts
    <3>2. PICK x : x = FirstIdle
      OBVIOUS
    <3>3. sched' = [sched EXCEPT !.pc = "taken", !.job = j, !.queue = q, !.task = x]
      BY <1>5, <2>2, <3>1, <3>2
    <3>4. sched'.pc = "taken" /\ sched'.job = j /\ sched'.queue = q
      BY <1>2, <3>3 DEF SchedRec
    <3> QED BY <1>5, <1>6, <2>2, <3>1, <3>4
  <2> QED BY <2>1, <2>2
<1>8. /\ \A q \in Queues : (InUse(q)' <=> InUse(q)) /\ queue'[q].job_id = queue[q].job_id
      /\ \A q \in Queues : queue[q].used => queue'[q] = queue[q]
  <2>1. CASE sched'.pc = "top" /\ queue' = queue
    BY <1>1, <2>1 DEF InUse, Handing
  <2>2. ASSUME NEW t \in Queues, ~queue[t].used, sched'.pc = "taken", sched'.queue = t,
               queue' = [queue EXCEPT ![t].used = TRUE]
        PROVE  /\ \A q \in Queues : (InUse(q)' <=> InUse(q)) /\ queue'[q].job_id = queue[q].job_id
               /\ \A q \in Queues : queue[q].used => queue'[q] = queue[q]
    <3>1. \A q \in Queues \ {t} : queue'[q] = queue[q]
      BY <1>2, <2>2
    <3>2. queue'[t].job_id = queue[t].job_id
      BY <1>2, <2>2 DEF QueueRec
    <3>3. ~InUse(t) /\ Handing(t)'
      BY <2>2 DEF InUse, Handing
    <3>4. \A q \in Queues \ {t} : ~Handing(q)' /\ ~Handing(q)
      BY <1>1, <2>2 DEF Handing
    <3> QED BY <2>2, <3>1, <3>2, <3>3, <3>4 DEF InUse
  <2> QED BY <1>7, <2>1, <2>2
<1>9. JobsTo(k)'
  BY <1>3, <1>7 DEF Span, JobsTo, TakenOf, DoneOf
<1>10. sched'.pc \in {"top", "taken"}
  BY <1>7
<1>11. Ready' /\ Seeks'
  BY <1>1, <1>3, <1>10 DEF Span, Ready, Seeks
<1> QED BY <1>2, <1>3, <1>8, <1>9, <1>11, SchedFrame DEF InUse

\* The queue taken is emptied: nobody uses it.
LEMMA TakeMoves ==
  ASSUME Known, Smooth, Streaming, NEW k \in 0..JobTotal, NEW r \in 0..k, Span(r, k), SchedTake
  PROVE  Span(r, k)'
<1>1. SchedMay /\ sched.pc = "taken"
  BY DEF SchedTake
<1>2. /\ sched \in SchedRec /\ sched.queue \in Queues /\ queue \in [Queues -> QueueRec]
      /\ \A x \in Tasks : Running(x) => task[x].queue \in Queues /\ ~Handing(task[x].queue)
  BY <1>1, SchedOutside DEF SchedOK
<1>3. UNCHANGED <<jobs, mq, task, exe, app, off, seek_off, expect_status>>
  BY DEF SchedTake, handle
<1>4. PICK t \in Queues : t = sched.queue
  BY <1>2
<1>5. sched'.pc = "assign" /\ sched'.queue = t /\ sched'.job = sched.job
  BY <1>2, <1>4 DEF SchedTake, SchedRec
<1>6. queue' = [queue EXCEPT ![t] = Taken(queue[t])]
  BY <1>4 DEF SchedTake
<1>7. Taken(queue[t]).job_id = queue[t].job_id /\ Taken(queue[t]).read_pos = 0 /\ Taken(queue[t]).write_pos = 0
  BY <1>2 DEF Taken, QueueRec
<1>8. /\ \A q \in Queues : Handing(q) <=> q = t
      /\ \A q \in Queues : Handing(q)' <=> q = t
  BY <1>1, <1>4, <1>5 DEF Handing
<1>9. /\ \A q \in Queues \ {t} : queue'[q] = queue[q]
      /\ queue'[t] = Taken(queue[t])
  BY <1>2, <1>6
<1>10. \A q \in Queues : (InUse(q)' <=> InUse(q)) /\ queue'[q].job_id = queue[q].job_id
  BY <1>7, <1>8, <1>9 DEF InUse
<1>11. \A q \in Queues : ~Handing(q) => queue'[q] = queue[q]
  BY <1>8, <1>9
<1>12. JobsTo(k)' /\ Seeks'
  BY <1>1, <1>3, <1>5 DEF Span, JobsTo, Seeks, TakenOf, DoneOf
<1>13. Ready'
  <2>1. queue'[t].read_pos = 0 /\ queue'[t].write_pos = 0
    BY <1>7, <1>9
  <2> QED BY <1>5, <2>1 DEF Ready
<1> QED BY <1>2, <1>3, <1>10, <1>11, <1>12, <1>13, SchedFrame DEF InUse

\* Job k gets the empty queue, and an idle executor.
LEMMA AssignMoves ==
  ASSUME Known, Smooth, Streaming, NEW k \in 0..JobTotal, NEW r \in 0..k, Span(r, k), SchedAssign
  PROVE  k \in Jobs /\ Span(r, k + 1)'
<1>1. SchedMay /\ sched.pc = "assign"
  BY DEF SchedAssign
<1>2. /\ sched \in SchedRec /\ sched.queue \in Queues /\ sched.task \in Tasks /\ sched.job \in Jobs
      /\ task[sched.task].status = "IDLE" /\ queue \in [Queues -> QueueRec] /\ jobs \in JobsRec
      /\ BaseInv /\ TypeOK
      /\ \A x \in Tasks : ~InWindow(x)
      /\ \A x \in Tasks : Running(x) => task[x].queue \in Queues /\ ~Handing(task[x].queue)
  BY <1>1, SchedOutside DEF SchedOK
<1>3. UNCHANGED <<mq, exe, app, off, seek_off, expect_status>>
  BY DEF SchedAssign, handle
<1>4. PICK t \in Queues, x0 \in Tasks : t = sched.queue /\ x0 = sched.task
  BY <1>2
<1>5. sched.job = k /\ k \in Jobs /\ k \in Nat /\ r \in Nat /\ r <= k /\ JobSize(k) \in Nat
  BY <1>2, Places DEF Span, JobsTo
<1>6. /\ queue' = [queue EXCEPT ![t] = ForJob(queue[t], k)]
      /\ jobs' = Assign_Job(jobs, k)
      /\ task' = [task EXCEPT ![x0] = Assigned(t, k)]
  BY <1>4, <1>5 DEF SchedAssign
<1>7. sched'.pc = "top" /\ sched'.job = INVALID_JOB_ID
  <2>1. sched' = [Forget EXCEPT !.queue = NULL, !.task = NULL]
    BY DEF SchedAssign
  <2> QED BY <1>2, <2>1 DEF Forget, SchedRec
<1>8. queue[t].used /\ ~queue[t].complete /\ queue[t].read_pos = 0 /\ queue[t].write_pos = 0
  BY <1>1, <1>4 DEF Known, OwnInv, AssignOwn, Span, Ready
<1>9. /\ \A q \in Queues \ {t} : queue'[q] = queue[q]
      /\ queue'[t].used /\ ~queue'[t].complete /\ queue'[t].read_pos = 0 /\ queue'[t].write_pos = 0
      /\ queue'[t].job_id = k
      /\ queue'[t].range.start = JobOffset(k) /\ queue'[t].range.end = JobOffset(k) + JobSize(k) - 1
  <2>1. queue'[t] = ForJob(queue[t], k) /\ \A q \in Queues \ {t} : queue'[q] = queue[q]
    BY <1>2, <1>6
  <2>2. PICK g : g = [start |-> JobOffset(k), end |-> JobOffset(k) + JobSize(k) - 1]
    OBVIOUS
  <2>3. queue'[t] = [queue[t] EXCEPT !.job_id = k, !.range = g]
    BY <2>1, <2>2 DEF ForJob
  <2>4. queue[t] \in QueueRec
    BY <1>2
  <2>5. /\ queue'[t].used = queue[t].used /\ queue'[t].complete = queue[t].complete
        /\ queue'[t].read_pos = queue[t].read_pos /\ queue'[t].write_pos = queue[t].write_pos
        /\ queue'[t].job_id = k /\ queue'[t].range = g
    BY <2>3, <2>4 DEF QueueRec
  <2>6. g.start = JobOffset(k) /\ g.end = JobOffset(k) + JobSize(k) - 1
    BY <2>2
  <2> QED BY <1>8, <2>1, <2>5, <2>6
<1>10. /\ ~InUse(t) /\ InUse(t)'
       /\ \A q \in Queues \ {t} : InUse(q)' <=> InUse(q)
  BY <1>1, <1>4, <1>7, <1>9 DEF InUse, Handing
<1>11. /\ task'[x0].status = "RUNNING" /\ task'[x0].expect = "RUNNING" /\ task'[x0].queue = t
       /\ \A y \in Tasks \ {x0} : task'[y] = task[y]
  <2>1. task[x0].status = "IDLE"
    BY <1>2, <1>4
  <2>2. task'[x0] = Assigned(t, k) /\ \A y \in Tasks \ {x0} : task'[y] = task[y]
    BY <1>2, <1>3, <1>5, <1>6, <2>1, GivenTask
  <2> QED BY <2>2 DEF Assigned
<1>12. JobsTo(k + 1)'
  <2>1. TakenOf(jobs) \cup DoneOf(jobs) = {j \in Jobs : j < k} /\ ~jobs.finish_flag
    BY <1>5, Places DEF Span, JobsTo
  <2>2. k \notin DoneOf(jobs)
    <3>1. ~(k < k)
      BY <1>5
    <3> QED BY <2>1, <3>1
  <2>3. TakenOf(jobs') = TakenOf(jobs) \cup {k} /\ DoneOf(jobs') = DoneOf(jobs)
    <3>1. Edited(jobs, jobs', {k}, {}, {}, {k})
      BY <1>2, <1>5, <1>6, AssignJob
    <3> QED BY <2>2, <3>1 DEF Edited
  <2>4. ~jobs'.finish_flag
    BY <1>2, <1>6, <2>1 DEF Assign_Job, JobsRec
  <2>5. \A j \in Jobs : j < k + 1 <=> j < k \/ j = k
    BY <1>5, Places
  <2>6. TakenOf(jobs') \cup DoneOf(jobs') = {j \in Jobs : j < k + 1}
    BY <1>5, <2>1, <2>3, <2>5
  <2> QED BY <1>7, <2>4, <2>6, NoJob DEF JobsTo, TakenOf, DoneOf
<1>13. QueuesOf(r, k + 1)'
  <2>a. \A q \in Queues : queue[q].job_id \in Int
    <3>1. INVALID_JOB_ID \in Int /\ \A j \in Jobs : j \in Int
      BY JobSizes DEF INVALID_JOB_ID
    <3>2. \A q \in Queues : queue[q].job_id \in Jobs \cup {INVALID_JOB_ID}
      BY <1>2 DEF QueueRec
    <3> QED BY <3>1, <3>2
  <2>1. \A q \in Queues : InUse(q)' => r <= queue'[q].job_id /\ queue'[q].job_id < k + 1
    <3>1. \A q \in Queues \ {t} : InUse(q)' => r <= queue'[q].job_id /\ queue'[q].job_id < k
      BY <1>9, <1>10 DEF Span, QueuesOf
    <3>2. \A q \in Queues \ {t} : queue'[q].job_id \in Int
      BY <1>9, <2>a
    <3>3. r <= queue'[t].job_id /\ queue'[t].job_id < k + 1
      BY <1>5, <1>9
    <3>4. \A q \in Queues \ {t} : InUse(q)' => r <= queue'[q].job_id /\ queue'[q].job_id < k + 1
      BY <1>5, <3>1, <3>2
    <3> QED BY <3>3, <3>4
  <2>2. \A q \in Queues : ~InUse(q)' => queue'[q].job_id < r
    BY <1>9, <1>10 DEF Span, QueuesOf
  <2>3. ASSUME NEW j \in r..(k + 1 - 1) PROVE \E q \in Queues : InUse(q)' /\ queue'[q].job_id = j
    <3>1. CASE j = k
      BY <1>9, <1>10, <3>1
    <3>2. CASE j # k
      <4>1. j \in r..(k - 1)
        BY <1>5, <2>3, <3>2
      <4>2. PICK q \in Queues : InUse(q) /\ queue[q].job_id = j
        BY <4>1 DEF Span, QueuesOf
      <4> QED BY <1>9, <1>10, <4>2
    <3> QED BY <3>1, <3>2
  <2>4. \A p, q \in Queues : InUse(p)' /\ InUse(q)' /\ queue'[p].job_id = queue'[q].job_id => p = q
    <3>1. \A q \in Queues \ {t} : InUse(q)' => queue'[q].job_id # k
      <4>1. \A q \in Queues \ {t} : InUse(q)' => queue'[q].job_id = queue[q].job_id /\ queue[q].job_id < k
        BY <1>9, <1>10 DEF Span, QueuesOf
      <4> QED BY <1>5, <2>a, <4>1
    <3>2. \A p, q \in Queues \ {t} : InUse(p)' /\ InUse(q)' /\ queue'[p].job_id = queue'[q].job_id => p = q
      BY <1>9, <1>10 DEF Span, QueuesOf
    <3> QED BY <1>9, <3>1, <3>2
  <2>5. mq.cur_queue # NULL => InUse(mq.cur_queue)' /\ queue'[mq.cur_queue].job_id = r
    <3>1. mq.cur_queue # NULL => mq.cur_queue \in Queues \ {t} /\ InUse(mq.cur_queue) /\ queue[mq.cur_queue].job_id = r
      <4>1. mq.cur_queue # NULL => mq.cur_queue \in Queues
        BY <1>2, CurrentQueue
      <4>2. mq.cur_queue # NULL => InUse(mq.cur_queue) /\ queue[mq.cur_queue].job_id = r
        BY DEF Span, QueuesOf
      <4>3. ~InUse(t)
        BY <1>10
      <4> QED BY <4>1, <4>2, <4>3
    <3>2. PICK c : c = mq.cur_queue
      OBVIOUS
    <3>3. c # NULL => InUse(c)' /\ queue'[c].job_id = r
      BY <1>9, <1>10, <3>1, <3>2
    <3> QED BY <1>3, <3>2, <3>3 DEF InUse, Handing
  <2> QED BY <1>3, <2>1, <2>2, <2>3, <2>4, <2>5 DEF QueuesOf
<1>14. Contents'
  <2>1. Holds(t, k)'
    <3>1. 0 <= queue'[t].read_pos /\ queue'[t].read_pos <= queue'[t].write_pos /\ queue'[t].write_pos <= JobSize(k)
      BY <1>5, <1>9
    <3>2. \A i \in 0..(queue'[t].write_pos - 1) : queue'[t].data[i] = JobOffset(k) + i
      BY <1>9
    <3> QED BY <1>9, <3>1, <3>2 DEF Holds, JobOffset, JobSize, JobTotal
  <2>2. \A q \in Queues \ {t} : InUse(q) => Holds(q, queue[q].job_id)
    BY DEF Span, Contents
  <2>3. \A q \in Queues \ {t} : InUse(q)' => Holds(q, queue[q].job_id)'
    BY <1>3, <1>9, <1>10, <2>2 DEF Holds, JobOffset, JobSize, JobTotal
  <2>4. Holds(t, queue[t].job_id)'
    BY <1>9, <2>1 DEF Holds, JobOffset, JobSize, JobTotal
  <2> QED BY <2>3, <2>4 DEF Contents
<1>15. Ready'
  BY <1>7 DEF Ready
<1>16. ASSUME NEW x \in Tasks PROVE Fills(x)'
  <2>0. exe[x].pc \in {"recv", "done"} => Running(x)
    BY <1>2 DEF BaseInv, TasksOK, Busy
  <2>1. CASE x = x0
    <3>1. exe[x].pc \notin {"isrun", "recv", "done"}
      BY <1>2, <1>4, <2>0, <2>1 DEF InWindow, Running
    <3> QED BY <1>3, <1>9, <1>11, <2>1, <3>1 DEF Fills
  <2>2. CASE x # x0
    <3>1. task'[x] = task[x] /\ Fills(x)
      BY <1>11, <2>2 DEF Span
    <3>2. Running(x) => queue'[task[x].queue] = queue[task[x].queue]
      BY <1>1, <1>2, <1>4, <1>9 DEF Handing
    <3> QED BY <1>3, <2>0, <3>1, <3>2 DEF Fills, Running
  <2> QED BY <2>1, <2>2
<1>17. Seeks'
  BY <1>1, <1>3, <1>7 DEF Span, Seeks
<1>18. Position(r, k + 1)'
  <2>1. Lag' <=> Lag
    BY <1>3 DEF Lag
  <2>2. \A q \in Queues : InUse(q)' /\ queue'[q].job_id # r => queue'[q].read_pos = 0
    BY <1>9, <1>10 DEF Span, Position
  <2>3. off \in 0..Size /\ Begins(r) \in Nat /\ Begins(r) + 0 = Begins(r)
    BY Places DEF Span, Position
  <2>4. Lag => /\ Begins(r) <= off /\ off < Size
               /\ \A q \in Queues : InUse(q)' /\ queue'[q].job_id = r => Begins(r) + queue'[q].read_pos <= off
    BY <1>9, <1>10, <2>3 DEF Span, Position
  <2>5. ~Lag => \A q \in Queues : InUse(q)' /\ queue'[q].job_id = r => off = Begins(r) + queue'[q].read_pos
    <3>1. ~Lag => \A q \in Queues \ {t} : InUse(q)' /\ queue'[q].job_id = r => off = Begins(r) + queue'[q].read_pos
      BY <1>9, <1>10 DEF Span, Position
    <3>2. ~Lag /\ r = k => off = Begins(r)
      BY DEF Span, Position
    <3> QED BY <1>9, <2>3, <3>1, <3>2
  <2>6. r # k + 1
    BY <1>5
  <2> QED BY <1>3, <2>1, <2>2, <2>3, <2>4, <2>5, <2>6 DEF Position, Begins, JobTotal, JobOffset
<1> QED BY <1>5, <1>12, <1>13, <1>14, <1>15, <1>16, <1>17, <1>18 DEF Span

\* A seek forward keeps the queues it needs, or begins to reset them all.
LEMMA PolicyMoves ==
  ASSUME Known, Smooth, Streaming, NEW k \in 0..JobTotal, NEW r \in 0..k, Span(r, k), SchedPolicy
  PROVE  Span(r, k)'
<1>1. SchedMay /\ sched.pc = "seek" /\ mq.seek_pending
  BY DEF SchedPolicy
<1>2. sched \in SchedRec /\ TypeOK /\ BaseInv
  BY <1>1, SchedOutside
<1>3. UNCHANGED <<jobs, mq, queue, task, exe, app, off, seek_off>>
  BY DEF SchedPolicy, shared, handle
<1>4. app = "seekwait" /\ seek_off = off /\ mq.seek_pos = off /\ off # INVALID_SEEK_POS
  BY <1>1 DEF Span, Seeks, Position, INVALID_SEEK_POS
<1>5. off \in 0..(Size - 1) /\ Begins(r) <= off
  BY <1>4, Places DEF Lag, Span, Position
<1>6. off \div SEG \in Jobs /\ r <= off \div SEG
  BY <1>5, SeekPlace, Places
<1>7. PICK dst \in Jobs : dst = seek_off \div SEG /\ r <= dst
  BY <1>4, <1>6
<1>8. /\ \A q \in Queues : queue[q].used => queue[q].job_id \in Jobs
      /\ \A q \in Queues : ~Handing(q)
  BY <1>1, <1>2, Seeking DEF SeekPcs
<1>9. \A q \in Queues : queue[q].used => \E p \in Queues : queue[p].used /\ queue[p].job_id <= dst
  <2> SUFFICES ASSUME NEW q \in Queues, queue[q].used
               PROVE  \E p \in Queues : queue[p].used /\ queue[p].job_id <= dst
    OBVIOUS
  <2>1. r <= queue[q].job_id /\ queue[q].job_id < k /\ queue[q].job_id \in Nat
    BY <1>8, JobSizes DEF InUse, Span, QueuesOf
  <2>2. r \in r..(k - 1)
    BY <2>1, Places
  <2>3. PICK p \in Queues : InUse(p) /\ queue[p].job_id = r
    BY <2>2 DEF Span, QueuesOf
  <2> QED BY <1>7, <2>3 DEF InUse
<1>10. PICK p : p = gen_seek_policy(dst)
  OBVIOUS
<1>11. p \in Policy /\ (p.reset \/ (p.kill = {} /\ p.save = {} /\ p.new = {}))
  BY <1>2, <1>8, <1>9, <1>10, PolicyForward
<1>12. /\ sched' = [sched EXCEPT !.policy = p, !.pc = IF p.reset THEN "seekstop" ELSE "policy"]
       /\ expect_status' = IF p.reset THEN "IDLE" ELSE expect_status
  BY <1>7, <1>10 DEF SchedPolicy
<1>13. /\ sched'.policy = p /\ sched'.pc = (IF p.reset THEN "seekstop" ELSE "policy")
       /\ sched'.job = sched.job
  BY <1>2, <1>12 DEF SchedRec
<1>14. \A q \in Queues : InUse(q)' <=> InUse(q)
  BY <1>1, <1>3, <1>13 DEF InUse, Handing
<1>15. JobsTo(k)'
  BY <1>3, <1>13 DEF Span, JobsTo, TakenOf, DoneOf
<1>16. Ready'
  BY <1>13 DEF Ready
<1>17. Seeks'
  <2>1. expect_status' # "RUNNING" => sched'.pc = "seekstop"
    BY <1>1, <1>12, <1>13 DEF Span, Seeks
  <2>2. sched'.pc \in {"seekstop", "policy"}
    BY <1>13
  <2>3. sched'.pc = "policy" => sched'.policy.kill = {} /\ sched'.policy.save = {} /\ sched'.policy.new = {}
    BY <1>11, <1>13
  <2> QED BY <1>1, <1>3, <1>4, <2>1, <2>2, <2>3 DEF Span, Seeks
<1>18. expect_status' = "RUNNING" => expect_status = "RUNNING"
  BY <1>12
<1> QED BY <1>3, <1>14, <1>15, <1>16, <1>17, <1>18, SchedFrame

\* The reset: nobody has a queue, the jobs before the seek's are done with.
LEMMA ResetMoves ==
  ASSUME Known, Smooth, Streaming, NEW k \in 0..JobTotal, NEW r \in 0..k, Span(r, k), SchedSeekReset
  PROVE  \E s \in 0..JobTotal : Span(s, s)'
<1>1. SchedMay /\ sched.pc = "seekstop" /\ AllIdle
  BY DEF SchedSeekReset
<1>2. /\ sched \in SchedRec /\ TypeOK /\ BaseInv /\ mq \in MqRec /\ CompleteExact(jobs) /\ CountOK
      /\ queue \in [Queues -> QueueRec]
      /\ \A x \in Tasks : ~InWindow(x)
  BY <1>1, SchedOutside DEF Known
<1>3. UNCHANGED <<task, exe, app, off, seek_off>> /\ expect_status' = "RUNNING"
  BY DEF SchedSeekReset, handle
<1>4. mq.seek_pending /\ app = "seekwait" /\ seek_off = off /\ mq.seek_pos = off /\ off # INVALID_SEEK_POS
  BY <1>1 DEF Span, Seeks, Position, INVALID_SEEK_POS
<1>5. off \in 0..(Size - 1)
  BY <1>4, Places DEF Lag, Span, Position
<1>6. off \div SEG \in Jobs /\ Begins(off \div SEG) <= off
  BY <1>5, SeekPlace
<1>7. PICK dst \in Jobs : dst = seek_off \div SEG /\ Begins(dst) <= off
  BY <1>4, <1>6
<1>8. dst \in 0..JobTotal /\ dst \in Nat
  BY Places
<1>9. sched'.pc = "endseek" /\ sched'.job = sched.job /\ sched.job = INVALID_JOB_ID
  <2>1. sched.job = INVALID_JOB_ID
    BY <1>1, <1>2, Seeking DEF SeekPcs
  <2> QED BY <1>2, <2>1 DEF SchedSeekReset, SchedRec
<1>10. \A q \in Queues : ~queue'[q].used /\ queue'[q].job_id = INVALID_JOB_ID
  <2>1. \A q \in Queues : queue'[q] = queue_reset(queue[q]) /\ queue[q] \in QueueRec
    BY <1>2 DEF SchedSeekReset
  <2> QED BY <2>1 DEF queue_reset, QueueRec
<1>11. mq'.cur_queue = NULL /\ mq'.seek_pos = mq.seek_pos /\ mq'.seek_pending = mq.seek_pending
  BY <1>2 DEF SchedSeekReset, ClearCurrent, MqRec
<1>12. \A q \in Queues : ~InUse(q)'
  BY <1>10 DEF InUse
<1>13. JobsTo(dst)'
  <2>1. jobs' = ResetJobs(jobs, dst)
    BY <1>7 DEF SchedSeekReset
  <2>2. JobsTo(k)
    BY DEF Span
  <2>3. TakenOf(ResetJobs(jobs, dst)) \cup DoneOf(ResetJobs(jobs, dst)) = {j \in Jobs : j < dst}
           /\ ~ResetJobs(jobs, dst).finish_flag
    BY <1>2, <2>2, ResetTo
  <2>4. TakenOf(jobs') \cup DoneOf(jobs') = {j \in Jobs : j < dst} /\ ~jobs'.finish_flag
    BY <2>1, <2>3
  <2> QED BY <1>9, <2>4, NoJob DEF JobsTo, TakenOf, DoneOf
<1>14. QueuesOf(dst, dst)'
  <2>1. INVALID_JOB_ID < dst
    BY <1>8 DEF INVALID_JOB_ID
  <2>2. \A j \in dst..(dst - 1) : FALSE
    BY <1>8
  <2> QED BY <1>10, <1>11, <1>12, <2>1, <2>2 DEF QueuesOf
<1>15. Contents' /\ Ready'
  BY <1>9, <1>12 DEF Contents, Ready
<1>16. ASSUME NEW x \in Tasks PROVE Fills(x)'
  <2>1. ~Running(x)
    BY <1>1, IdleNotRunning
  <2>2. exe[x].pc \notin {"isrun", "recv", "done"}
    BY <1>2, <2>1 DEF InWindow, BaseInv, TasksOK, Busy
  <2> QED BY <1>3, <2>1, <2>2 DEF Fills, Running
<1>17. Seeks'
  BY <1>3, <1>4, <1>9, <1>11 DEF Seeks
<1>18. Position(dst, dst)'
  <2>1. Lag' /\ off \in 0..Size /\ off < Size
    BY <1>3, <1>4, <1>5, <1>11, Places DEF Lag
  <2> QED BY <1>3, <1>7, <1>12, <2>1 DEF Position, Begins, JobTotal, JobOffset
<1>19. Span(dst, dst)'
  BY <1>13, <1>14, <1>15, <1>16, <1>17, <1>18 DEF Span
<1> QED BY <1>8, <1>19

LEMMA SchedMoves ==
  ASSUME Known, Smooth, Streaming, NEW k \in 0..JobTotal, NEW r \in 0..k, Span(r, k), SchedNext
  PROVE  \E m \in 0..JobTotal : \E s \in 0..m : Span(s, m)'
<1>1. ~(SchedKill \/ SchedKilled \/ SchedSave \/ SchedNew)
  BY DEF SchedKill, SchedKilled, SchedSave, SchedNew, Span, Seeks
<1>2. CASE SchedAssign
  <2>1. k \in Jobs /\ Span(r, k + 1)'
    BY <1>2, AssignMoves
  <2>2. PICK m \in 0..JobTotal : m = k + 1
    BY <2>1, Places
  <2>3. r \in 0..m
    BY <2>2, Places
  <2>4. Span(r, m)'
    BY <2>1, <2>2
  <2> QED BY <2>3, <2>4
<1>3. CASE SchedSeekReset
  <2>1. PICK s \in 0..JobTotal : Span(s, s)'
    BY <1>3, ResetMoves
  <2>2. s \in 0..s
    BY Places
  <2> QED BY <2>1, <2>2
<1>4. CASE ~SchedAssign /\ ~SchedSeekReset
  <2>1. Span(r, k)'
    BY <1>1, <1>4, QuietMoves, SeekMoves, PassMoves, TakeMoves, PolicyMoves DEF SchedNext
  <2> QED BY <2>1
<1> QED BY <1>2, <1>3, <1>4

LEMMA ExeWindowClosed == \A x \in Tasks : ExeNext(x) => ExeMay(x)
  BY DEF ExeNext, ExePoll, ExeIsRunning, ExeSetIdle, ExeStart, ExeStopped, ExeRecv, ExeFault,
         ExeDone, ExeComplete, ExeCount, ExeLeave, ExeExit

\* What an executor may rely on while it runs.
LEMMA ExeOutside ==
  ASSUME Known, Smooth, NEW x \in Tasks, ExeMay(x)
  PROVE  /\ TypeOK /\ BaseInv /\ TaskOwn /\ QueueOwn /\ Locked
         /\ queue \in [Queues -> QueueRec] /\ exe \in [Tasks -> ExeRec] /\ task \in [Tasks -> TaskRec]
         /\ sched.pc \notin {"taken", "assign"}
         /\ \A q \in Queues : ~Handing(q) /\ (InUse(q) <=> queue[q].used)
         /\ \A y \in Tasks : Busy(y) => Running(y)
         /\ \A y \in Tasks : Running(y) => task[y].queue \in Queues /\ task[y].job \in Jobs
         /\ \A y \in Tasks \ {x} : ~InWindow(y) /\ (Running(y) => Filling(y))
<1>1. TypeOK /\ BaseInv /\ TaskOwn /\ QueueOwn /\ Locked
  BY DEF Known, BaseInv, OwnInv, Smooth
<1>2. sched.pc \notin {"taken", "assign"} /\ \A q \in Queues : ~Handing(q) /\ (InUse(q) <=> queue[q].used)
  BY NoHanding DEF ExeMay
<1>3. /\ \A y \in Tasks : Busy(y) => Running(y)
      /\ \A y \in Tasks : Running(y) => task[y].queue \in Queues /\ task[y].job \in Jobs
  BY <1>1 DEF BaseInv, TasksOK
<1>4. \A y \in Tasks \ {x} : ~InWindow(y) /\ (Running(y) => Filling(y))
  BY <1>1, OthersOutside DEF InWindow, Filling, Running
<1> QED BY <1>1, <1>2, <1>3, <1>4, QueueTypes, ExeTypes, TaskTypes

\* A step of executor x: what is left to show.
LEMMA ExeSpan ==
  ASSUME Known, Smooth, NEW k \in 0..JobTotal, NEW r \in 0..k, Span(r, k), NEW x \in Tasks, ExeMay(x),
         UNCHANGED <<mq, expect_status, app, sched, off, seek_off>>,
         \A q \in Queues : /\ queue'[q].used = queue[q].used /\ queue'[q].job_id = queue[q].job_id
                           /\ queue'[q].range = queue[q].range /\ queue'[q].read_pos = queue[q].read_pos,
         \A y \in Tasks \ {x} : task'[y] = task[y] /\ exe'[y] = exe[y],
         \A y \in Tasks \ {x} : Running(y) => queue'[task[y].queue].write_pos = queue[task[y].queue].write_pos,
         JobsTo(k)', Contents', Fills(x)'
  PROVE  Span(r, k)'
<1>1. /\ TypeOK /\ sched.pc \notin {"taken", "assign"}
      /\ \A y \in Tasks : Busy(y) => Running(y)
  BY ExeOutside
<1>2. \A q \in Queues : InUse(q)' <=> InUse(q)
  BY DEF InUse, Handing
<1>3. mq.cur_queue # NULL => mq.cur_queue \in Queues
  BY <1>1 DEF TypeOK, Queues, NULL
<1>4. QueuesOf(r, k)'
  BY <1>2, <1>3 DEF Span, QueuesOf
<1>5. Ready'
  BY <1>1 DEF Ready
<1>6. ASSUME NEW y \in Tasks PROVE Fills(y)'
  <2>1. CASE y = x
    BY <2>1
  <2>2. CASE y # x
    <3>1. exe[y].pc \in {"recv", "done"} => Running(y)
      BY <1>1 DEF Busy
    <3>2. /\ Fills(y) /\ task'[y] = task[y] /\ exe'[y] = exe[y]
          /\ Running(y) => queue'[task[y].queue].write_pos = queue[task[y].queue].write_pos
      BY <2>2 DEF Span
    <3> QED BY <3>1, <3>2 DEF Fills, Running
  <2> QED BY <2>1, <2>2
<1>7. Seeks'
  BY DEF Span, Seeks
<1>8. Lag' <=> Lag
  BY DEF Lag
<1>9. Position(r, k)'
  BY <1>2, <1>8, PositionFrame DEF Span
<1> QED BY <1>4, <1>5, <1>6, <1>7, <1>9 DEF Span

\* The queues are as before.
LEMMA ContentsFrame ==
  ASSUME Contents, Smooth, NEW x \in Tasks, ExeMay(x), queue' = queue, expect_status' = expect_status, sched' = sched
  PROVE  Contents'
<1>1. \A q \in Queues : InUse(q)' <=> InUse(q)
  BY DEF InUse, Handing
<1> QED BY <1>1 DEF Contents, Holds, JobOffset, JobSize, JobTotal

\* A step of the program counter only.
LEMMA PcMoves ==
  ASSUME Known, Smooth, NEW k \in 0..JobTotal, NEW r \in 0..k, Span(r, k), NEW x \in Tasks,
         ExePoll(x) \/ ExeIsRunning(x) \/ ExeStart(x) \/ ExeStopped(x)
  PROVE  Span(r, k)'
<1>1. /\ ExeMay(x)
      /\ UNCHANGED <<jobs, mq, queue, expect_status, task, app, sched, off, seek_off>>
  BY DEF ExePoll, ExeIsRunning, ExeStart, ExeStopped, shared, handle
<1>2. /\ TypeOK /\ TaskOwn /\ Locked /\ exe \in [Tasks -> ExeRec]
      /\ \A y \in Tasks : Busy(y) => Running(y)
  BY <1>1, ExeOutside
<1>3. Fills(x) /\ JobsTo(k) /\ Contents
  BY DEF Span
<1>4. JobsTo(k)' /\ Contents'
  BY <1>1, <1>3, ContentsFrame DEF JobsTo, TakenOf, DoneOf
<1>5. /\ \A y \in Tasks \ {x} : exe'[y] = exe[y]
      /\ Fills(x)'
  <2>1. CASE ExePoll(x)
    <3>1. ExeStep(x, "isrun") /\ exe[x].pc = "poll"
      BY <2>1 DEF ExePoll
    <3>2. exe'[x].pc = "isrun" /\ \A y \in Tasks \ {x} : exe'[y] = exe[y]
      BY <1>2, <3>1, ExeSteps
    <3>3. Running(x) /\ task[x].expect = "RUNNING"
      BY <1>2, <1>3, <2>1 DEF ExePoll, Locked, Running, Fills
    <3>4. expect_status # "RUNNING"
      BY <2>1, <3>3 DEF ExePoll
    <3> QED BY <1>1, <1>3, <3>1, <3>2, <3>3, <3>4 DEF Fills, Running
  <2>2. CASE ExeIsRunning(x)
    <3>1. Running(x) /\ exe[x].pc = "isrun"
      BY <1>2, <2>2 DEF ExeIsRunning, TaskOwn
    <3>2. ExeStep(x, "done")
      BY <2>2, <3>1 DEF ExeIsRunning, Running
    <3>3. exe'[x].pc = "done" /\ \A y \in Tasks \ {x} : exe'[y] = exe[y]
      BY <1>2, <3>2, ExeSteps
    <3> QED BY <1>1, <1>3, <3>1, <3>3 DEF Fills, Running
  <2>3. CASE ExeStart(x)
    <3>1. exe[x].pc = "poll" /\ Running(x) /\ exe' = [exe EXCEPT ![x].pc = "recv", ![x].total = 0]
      BY <2>3 DEF ExeStart, Running
    <3>2. exe'[x] = [exe[x] EXCEPT !.pc = "recv", !.total = 0] /\ \A y \in Tasks \ {x} : exe'[y] = exe[y]
      BY <1>2, <3>1
    <3>3. exe'[x].pc = "recv" /\ exe'[x].total = 0
      BY <1>2, <3>2 DEF ExeRec
    <3> QED BY <1>1, <1>3, <3>1, <3>2, <3>3 DEF Fills, Running
  <2>4. CASE ExeStopped(x)
    <3>1. exe[x].pc = "recv" /\ ExeStep(x, "done") /\ ~Wanted(x)
      BY <2>4 DEF ExeStopped
    <3>2. exe'[x].pc = "done" /\ \A y \in Tasks \ {x} : exe'[y] = exe[y]
      BY <1>2, <3>1, ExeSteps
    <3>3. Running(x) /\ expect_status # "RUNNING"
      BY <1>2, <1>3, <3>1 DEF Busy, Fills, Wanted
    <3> QED BY <1>1, <1>3, <3>2, <3>3 DEF Fills, Running
  <2> QED BY <2>1, <2>2, <2>3, <2>4
<1> QED BY <1>1, <1>4, <1>5, ExeSpan

\* Units arrive: they are the next ones of the queue's job.
LEMMA RecvMoves ==
  ASSUME Known, Smooth, NEW k \in 0..JobTotal, NEW r \in 0..k, Span(r, k), NEW x \in Tasks, ExeRecv(x)
  PROVE  Span(r, k)'
<1> DEFINE u == task[x].queue
           q0 == queue[u]
           size == JobSize(task[x].job)
           off0 == JobOffset(task[x].job)
<1>8. PICK n \in 1..(size - exe[x].total) :
        /\ queue' = IF q0.write_pos + n > SEG THEN queue
                    ELSE [queue EXCEPT ![u] =
                           [q0 EXCEPT !.write_pos = @ + n,
                                     !.data = [i \in DOMAIN @ |->
                                       IF i \in q0.write_pos..(q0.write_pos + n - 1)
                                       THEN off0 + exe[x].total - q0.write_pos + i ELSE @[i]]]]
        /\ exe' = [exe EXCEPT ![x].total = exe[x].total + n,
                     ![x].pc = IF exe[x].total + n = size THEN "done" ELSE "recv"]
  BY DEF ExeRecv
<1>1. /\ ExeMay(x) /\ exe[x].pc = "recv" /\ Wanted(x)
      /\ UNCHANGED <<jobs, mq, expect_status, task, app, sched, off, seek_off>>
  BY DEF ExeRecv, handle
<1>2. /\ TypeOK /\ BaseInv /\ QueueOwn /\ queue \in [Queues -> QueueRec] /\ exe \in [Tasks -> ExeRec]
      /\ \A q \in Queues : ~Handing(q) /\ (InUse(q) <=> queue[q].used)
      /\ Running(x) /\ task[x].queue \in Queues /\ task[x].job \in Jobs
      /\ \A y \in Tasks \ {x} : Running(y) => Filling(y)
      /\ \A y \in Tasks : Running(y) => task[y].queue \in Queues
  BY <1>1, ExeOutside DEF Busy
<1>3. Filling(x) /\ OwnInv
  BY <1>1, <1>2 DEF Filling, Running, Known
<1>4. PICK b \in Queues, j \in Jobs : b = task[x].queue /\ j = task[x].job
  BY <1>2
<1>5. /\ queue[b].used /\ queue[b].job_id = j /\ ~queue[b].complete /\ InUse(b)
      /\ Holds(b, j)
  BY <1>2, <1>3, <1>4 DEF QueueOwn, Span, Contents
<1>6. PICK wp \in Nat, js \in Nat, jo \in Nat : wp = queue[b].write_pos /\ js = JobSize(j) /\ jo = JobOffset(j)
  <2>1. queue[b].write_pos \in Nat
    BY <1>2, ConstantsAssumption DEF QueueRec
  <2>2. JobSize(j) \in Nat /\ JobOffset(j) \in Nat
    BY Places
  <2> QED BY <2>1, <2>2
<1>7. exe[x].total = wp /\ js <= SEG /\ SEG \in Nat
  BY <1>1, <1>4, <1>6, Places DEF Span, Fills
<1>9. PICK m \in Nat : m = wp + n /\ n \in Nat /\ n >= 1 /\ m <= js /\ m <= SEG /\ m \in 0..SEG
  BY <1>4, <1>6, <1>7, <1>8
<1>10. PICK d : d = [i \in DOMAIN queue[b].data |-> IF i \in wp..(wp + n - 1) THEN jo + wp - wp + i
                                                                        ELSE queue[b].data[i]]
  OBVIOUS
<1>11. queue' = [queue EXCEPT ![b] = [queue[b] EXCEPT !.write_pos = m, !.data = d]]
  <2>1. PICK g \in QueueRec : g = queue[b] /\ g.write_pos = wp
    BY <1>2, <1>6
  <2>2. queue' = IF wp + n > SEG THEN queue
                 ELSE [queue EXCEPT ![b] =
                        [g EXCEPT !.write_pos = @ + n,
                                   !.data = [i \in DOMAIN @ |->
                                     IF i \in wp..(wp + n - 1) THEN jo + wp - wp + i ELSE @[i]]]]
    BY <1>4, <1>6, <1>7, <1>8, <2>1
  <2>3. ~(wp + n > SEG)
    BY <1>6, <1>7, <1>9
  <2>4. queue' = [queue EXCEPT ![b] = [g EXCEPT !.write_pos = m, !.data = d]]
    BY <1>9, <1>10, <2>1, <2>2, <2>3
  <2> QED BY <2>1, <2>4
<1>b. DOMAIN d = 0..(SEG - 1)
      /\ \A i \in 0..(SEG - 1) : d[i] = IF i \in wp..(wp + n - 1) THEN jo + wp - wp + i ELSE queue[b].data[i]
  <2>1. DOMAIN queue[b].data = 0..(SEG - 1)
    BY <1>2 DEF QueueRec
  <2> QED BY <1>10, <2>1
<1>c. exe' = [exe EXCEPT ![x].total = m, ![x].pc = IF m = js THEN "done" ELSE "recv"]
  BY <1>4, <1>6, <1>7, <1>8, <1>9
<1>12. /\ \A q \in Queues \ {b} : queue'[q] = queue[q]
       /\ queue'[b].used = queue[b].used /\ queue'[b].job_id = queue[b].job_id
       /\ queue'[b].range = queue[b].range /\ queue'[b].read_pos = queue[b].read_pos
       /\ queue'[b].complete = queue[b].complete
       /\ queue'[b].write_pos = m /\ queue'[b].data = d
  <2>1. queue[b] \in QueueRec
    BY <1>2
  <2>2. queue'[b] = [queue[b] EXCEPT !.write_pos = m, !.data = d] /\ \A q \in Queues \ {b} : queue'[q] = queue[q]
    BY <1>2, <1>11
  <2> QED BY <2>1, <2>2 DEF QueueRec
<1>13. /\ \A y \in Tasks \ {x} : exe'[y] = exe[y]
       /\ exe'[x].total = m /\ exe'[x].pc = IF m = js THEN "done" ELSE "recv"
  <2>1. PICK pc : pc = IF m = js THEN "done" ELSE "recv"
    OBVIOUS
  <2>2. exe' = [exe EXCEPT ![x].total = m, ![x].pc = pc]
    BY <1>c, <2>1
  <2>3. exe'[x] = [exe[x] EXCEPT !.total = m, !.pc = pc] /\ \A y \in Tasks \ {x} : exe'[y] = exe[y]
    BY <1>2, <2>2
  <2>4. exe[x] \in ExeRec
    BY <1>2
  <2> QED BY <2>1, <2>3, <2>4 DEF ExeRec
<1>14. \A q \in Queues : InUse(q)' <=> InUse(q)
  BY <1>1, <1>12 DEF InUse, Handing
<1>15. Contents'
  <2>1. Holds(b, j)'
    <3>1. /\ queue[b].range.start = jo /\ queue[b].range.end = jo + js - 1
          /\ 0 <= queue[b].read_pos /\ queue[b].read_pos <= wp /\ queue[b].read_pos \in Int
          /\ \A i \in 0..(wp - 1) : queue[b].data[i] = jo + i
      BY <1>2, <1>5, <1>6 DEF Holds, QueueRec
    <3>2. \A i \in 0..(m - 1) : d[i] = jo + i
      <4> SUFFICES ASSUME NEW i \in 0..(m - 1) PROVE d[i] = jo + i
        OBVIOUS
      <4>1. i \in 0..(SEG - 1) /\ (i \notin wp..(wp + n - 1) => i \in 0..(wp - 1)) /\ jo + wp - wp + i = jo + i
        BY <1>6, <1>7, <1>9
      <4> QED BY <1>b, <3>1, <4>1
    <3>3. queue[b].read_pos <= m
      BY <1>6, <1>9, <3>1
    <3>4. JobOffset(j)' = jo /\ JobSize(j)' = js
      BY <1>6 DEF JobOffset, JobSize, JobTotal
    <3> QED BY <1>5, <1>9, <1>12, <3>1, <3>2, <3>3, <3>4 DEF Holds
  <2>2. Holds(b, queue[b].job_id)'
    BY <1>5, <1>12, <2>1 DEF Holds, JobOffset, JobSize, JobTotal
  <2>3. \A q \in Queues \ {b} : InUse(q)' => Holds(q, queue[q].job_id)'
    <3>1. \A q \in Queues \ {b} : InUse(q) => Holds(q, queue[q].job_id)
      BY DEF Span, Contents
    <3> QED BY <1>1, <1>12, <1>14, <3>1 DEF Holds, JobOffset, JobSize, JobTotal
  <2> QED BY <2>2, <2>3 DEF Contents
<1>16. \A y \in Tasks \ {x} : Running(y) => queue'[task[y].queue].write_pos = queue[task[y].queue].write_pos
  <2>1. \A y \in Tasks \ {x} : Running(y) => task[y].queue # b
    BY <1>2, <1>3, <1>4, QueueDistinct
  <2> QED BY <1>2, <1>12, <2>1
<1>17. Fills(x)'
  <2>1. Fills(x)
    BY DEF Span
  <2>2. JobSize(task[x].job)' = js /\ (task[x].queue)' = b
    BY <1>1, <1>4, <1>6 DEF JobOffset, JobSize, JobTotal
  <2> QED BY <1>1, <1>4, <1>12, <1>13, <2>1, <2>2 DEF Fills, Running
<1>18. JobsTo(k)'
  BY <1>1 DEF Span, JobsTo, TakenOf, DoneOf
<1>19. \A q \in Queues : /\ queue'[q].used = queue[q].used /\ queue'[q].job_id = queue[q].job_id
                         /\ queue'[q].range = queue[q].range /\ queue'[q].read_pos = queue[q].read_pos
  BY <1>12
<1> QED BY <1>1, <1>13, <1>15, <1>16, <1>17, <1>18, <1>19, ExeSpan

\* download_done marks the queue complete: the job has arrived, or was given up.
LEMMA DoneMoves ==
  ASSUME Known, Smooth, NEW k \in 0..JobTotal, NEW r \in 0..k, Span(r, k), NEW x \in Tasks, ExeDone(x)
  PROVE  Span(r, k)'
<1>1. /\ ExeMay(x) /\ exe[x].pc = "done" /\ BaseInv
      /\ UNCHANGED <<jobs, mq, expect_status, task, app, sched, off, seek_off>>
  BY DEF ExeDone, handle, Known
<1>2. /\ TypeOK /\ QueueOwn /\ queue \in [Queues -> QueueRec]
      /\ \A q \in Queues : ~Handing(q) /\ (InUse(q) <=> queue[q].used)
      /\ \A y \in Tasks : Running(y) => task[y].queue \in Queues
      /\ Running(x) /\ Filling(x)
  BY <1>1, ExeOutside DEF Busy, Filling, Running
<1>3. PICK b \in Queues : b = task[x].queue
  BY <1>2
<1>4. exe'[x].pc \in {"complete", "leave"} /\ \A y \in Tasks \ {x} : exe'[y] = exe[y]
  BY <1>1, DoneFacts
<1>5. queue' = [queue EXCEPT ![b].complete = TRUE]
  BY <1>3 DEF ExeDone
<1>6. /\ \A q \in Queues \ {b} : queue'[q] = queue[q]
      /\ queue'[b].used = queue[b].used /\ queue'[b].job_id = queue[b].job_id
      /\ queue'[b].range = queue[b].range /\ queue'[b].read_pos = queue[b].read_pos
      /\ queue'[b].write_pos = queue[b].write_pos /\ queue'[b].data = queue[b].data
  <2>1. queue'[b] = [queue[b] EXCEPT !.complete = TRUE] /\ \A q \in Queues \ {b} : queue'[q] = queue[q]
    BY <1>2, <1>5
  <2>2. queue[b] \in QueueRec
    BY <1>2
  <2> QED BY <2>1, <2>2 DEF QueueRec
<1>7. \A q \in Queues : InUse(q)' <=> InUse(q)
  BY <1>1, <1>6 DEF InUse, Handing
<1>8. queue[b].job_id = task[x].job /\ (expect_status = "RUNNING" => queue[b].write_pos = JobSize(queue[b].job_id))
  <2>1. queue[b].job_id = task[x].job
    BY <1>2, <1>3 DEF QueueOwn
  <2> QED BY <1>1, <1>3, <2>1 DEF Span, Fills
<1>9. Contents'
  <2>1. \A q \in Queues : InUse(q) => Holds(q, queue[q].job_id)
    BY DEF Span, Contents
  <2>2. ASSUME NEW q \in Queues \ {b}, InUse(q)' PROVE Holds(q, queue[q].job_id)'
    BY <1>1, <1>6, <1>7, <2>1, <2>2 DEF Holds, JobOffset, JobSize, JobTotal
  <2>3. InUse(b)' => Holds(b, queue[b].job_id)'
    BY <1>1, <1>6, <1>7, <1>8, <2>1 DEF Holds, JobOffset, JobSize, JobTotal
  <2> QED BY <2>2, <2>3 DEF Contents
<1>10. \A y \in Tasks \ {x} : Running(y) => queue'[task[y].queue].write_pos = queue[task[y].queue].write_pos
  BY <1>2, <1>6
<1>11. Fills(x)'
  BY <1>1, <1>4 DEF Span, Fills, Running
<1>12. JobsTo(k)'
  BY <1>1 DEF Span, JobsTo, TakenOf, DoneOf
<1>13. \A q \in Queues : /\ queue'[q].used = queue[q].used /\ queue'[q].job_id = queue[q].job_id
                         /\ queue'[q].range = queue[q].range /\ queue'[q].read_pos = queue[q].read_pos
  BY <1>6
<1> QED BY <1>1, <1>4, <1>9, <1>10, <1>11, <1>12, <1>13, ExeSpan

\* The job is complete: it was one of those handed out.
LEMMA CompleteMoves ==
  ASSUME Known, Smooth, NEW k \in 0..JobTotal, NEW r \in 0..k, Span(r, k), NEW x \in Tasks,
         ExeComplete(x) \/ ExeCount(x)
  PROVE  Span(r, k)'
<1>1. /\ ExeMay(x) /\ exe[x].pc \in {"complete", "count"} /\ BaseInv /\ DoneInv
      /\ UNCHANGED <<mq, queue, expect_status, task, app, sched, off, seek_off>>
  BY DEF ExeComplete, ExeCount, handle, Known
<1>2. /\ TaskOwn /\ Running(x) /\ jobs \in JobsRec
      /\ Contents /\ JobsTo(k)
  BY <1>1, ExeOutside, JobsTypes DEF Busy, Span
<1>3. /\ exe'[x].pc \in {"count", "leave"} /\ \A y \in Tasks \ {x} : exe'[y] = exe[y]
      /\ TakenOf(jobs') \cup DoneOf(jobs') = TakenOf(jobs) \cup DoneOf(jobs)
      /\ jobs'.finish_flag => jobs.finish_flag \/ k = JobTotal
  <2>1. CASE ExeComplete(x)
    <3>1. PICK j : j = exe[x].job
      OBVIOUS
    <3>2. j \in TakenOf(jobs)
      BY <1>1, <1>2, <2>1, <3>1 DEF ExeComplete, DoneInv, Finishing, TaskOwn
    <3>3. \/ jobs' = jobs
          \/ /\ jobs'.assigned = jobs.assigned /\ jobs'.finish_flag = jobs.finish_flag
             /\ jobs'.complete = [jobs.complete EXCEPT ![j] = TRUE]
      BY <1>1, <2>1, <3>1, CompleteFacts
    <3>4. jobs.complete \in [Jobs -> BOOLEAN] /\ j \in Jobs
      BY <1>2, <3>2 DEF JobsRec, TakenOf
    <3>5. TakenOf(jobs') \cup DoneOf(jobs') = TakenOf(jobs) \cup DoneOf(jobs) /\ jobs'.finish_flag = jobs.finish_flag
      <4>1. CASE jobs' = jobs
        BY <4>1
      <4>2. CASE /\ jobs'.assigned = jobs.assigned /\ jobs'.finish_flag = jobs.finish_flag
                 /\ jobs'.complete = [jobs.complete EXCEPT ![j] = TRUE]
        <5>1. TakenOf(jobs') = TakenOf(jobs) /\ DoneOf(jobs') = DoneOf(jobs) \cup {j}
          BY <3>4, <4>2 DEF TakenOf, DoneOf
        <5> QED BY <3>2, <4>2, <5>1
      <4> QED BY <3>3, <4>1, <4>2
    <3>6. exe'[x].pc \in {"count", "leave"} /\ \A y \in Tasks \ {x} : exe'[y] = exe[y]
      BY <1>1, <2>1, CompleteFacts
    <3> QED BY <3>5, <3>6
  <2>2. CASE ExeCount(x)
    <3>1. /\ exe'[x].pc = "leave" /\ \A y \in Tasks \ {x} : exe'[y] = exe[y]
          /\ jobs'.assigned = jobs.assigned /\ jobs'.complete = jobs.complete
          /\ jobs'.finish_flag = (jobs.finish_flag \/ exe[x].num + 1 = JobTotal)
      BY <1>1, <2>2, CountFacts
    <3>2. exe[x].num + 1 = Cardinality(DoneOf(jobs))
      BY <1>1, <2>2 DEF ExeCount, DoneInv, Finishing
    <3>3. ASSUME exe[x].num + 1 = JobTotal PROVE k = JobTotal
      <4>1. DoneOf(jobs) \in SUBSET Jobs
        BY DEF DoneOf
      <4>2. DoneOf(jobs) = Jobs
        BY <3>2, <3>3, <4>1, JobsFinite
      <4>3. \A j \in Jobs : j < k
        BY <1>2, <4>2 DEF JobsTo
      <4>4. k # JobTotal => k \in Jobs /\ ~(k < k)
        BY Places
      <4> QED BY <4>3, <4>4
    <3>4. TakenOf(jobs') = TakenOf(jobs) /\ DoneOf(jobs') = DoneOf(jobs)
      BY <3>1 DEF TakenOf, DoneOf
    <3> QED BY <3>1, <3>3, <3>4
  <2> QED BY <2>1, <2>2
<1>4. JobsTo(k)'
  <2>1. TakenOf(jobs') \cup DoneOf(jobs') = {j \in Jobs : j < k} /\ (jobs'.finish_flag => k = JobTotal)
    BY <1>2, <1>3 DEF JobsTo
  <2>2. sched'.job \in Jobs => sched'.job = k
    BY <1>1, <1>2 DEF JobsTo
  <2> QED BY <2>1, <2>2 DEF JobsTo, TakenOf, DoneOf
<1>5. Contents'
  BY <1>1, <1>2, ContentsFrame
<1>6. Fills(x)'
  BY <1>1, <1>3 DEF Span, Fills, Running
<1> QED BY <1>1, <1>3, <1>4, <1>5, <1>6, ExeSpan

LEMMA LeaveMoves ==
  ASSUME Known, Smooth, NEW k \in 0..JobTotal, NEW r \in 0..k, Span(r, k), NEW x \in Tasks, ExeLeave(x)
  PROVE  Span(r, k)'
<1>1. /\ ExeMay(x) /\ exe[x].pc = "leave"
      /\ UNCHANGED <<jobs, mq, queue, expect_status, app, sched, off, seek_off>>
  BY DEF ExeLeave, shared, handle
<1>2. task \in [Tasks -> TaskRec] /\ exe \in [Tasks -> ExeRec] /\ Contents /\ JobsTo(k)
  BY <1>1, ExeOutside DEF Span
<1>3. /\ exe'[x].pc = "poll" /\ \A y \in Tasks \ {x} : exe'[y] = exe[y] /\ task'[y] = task[y]
      /\ task'[x].status = "IDLE"
  <2>1. /\ exe' = [exe EXCEPT ![x] = [pc |-> "poll", total |-> 0, job |-> INVALID_JOB_ID, num |-> 0]]
        /\ task' = [task EXCEPT ![x].queue = NULL, ![x].status = "IDLE"]
    BY DEF ExeLeave
  <2>2. task'[x] = [task[x] EXCEPT !.queue = NULL, !.status = "IDLE"] /\ task[x] \in TaskRec
    BY <1>2, <2>1
  <2> QED BY <1>2, <2>1, <2>2 DEF TaskRec
<1>4. JobsTo(k)' /\ Contents'
  BY <1>1, <1>2, ContentsFrame DEF JobsTo, TakenOf, DoneOf
<1>5. Fills(x)'
  BY <1>3 DEF Fills, Running
<1> QED BY <1>1, <1>3, <1>4, <1>5, ExeSpan

LEMMA ExeKeepsSpan ==
  ASSUME Known, Smooth, Streaming, NEW k \in 0..JobTotal, NEW r \in 0..k, Span(r, k), NEW x \in Tasks, ExeNext(x)
  PROVE  Span(r, k)'
<1>1. TypeOK /\ TaskOwn /\ SessionOK /\ Fills(x) /\ (Busy(x) => Running(x))
  BY ExeWindowClosed, ExeOutside DEF Span, BaseInv
<1>2. ~ExeSetIdle(x)
  BY <1>1 DEF ExeSetIdle, TaskOwn
<1>3. ~ExeFault(x)
  BY DEF ExeFault, Smooth, Delivered
<1>4. ~ExeExit(x)
  BY <1>1 DEF ExeExit, SessionOK, Streaming
<1> QED BY <1>2, <1>3, <1>4, PcMoves, RecvMoves, DoneMoves, CompleteMoves, LeaveMoves DEF ExeNext

\* With no session open the scheduler's and the executors' steps change little.
LEMMA ClosedSteps ==
  ASSUME Known, Smooth, ~jobs.alive,
         SchedNext \/ \E x \in Tasks : ExeNext(x)
  PROVE  /\ UNCHANGED <<jobs, mq, queue, off, app, opens>>
         /\ sched'.job = sched.job \/ sched'.job = INVALID_JOB_ID
<1>1. TypeOK /\ BaseInv /\ SessionOK /\ SchedOK /\ TasksOK /\ sched \in SchedRec
  BY SchedTypes DEF Known, BaseInv
<1>2. CASE SchedNext
  <2>1. schedule_task_status \in {"IDLE", "PREPARE_EXIT", "EXIT_DONE"}
    BY <1>1 DEF SessionOK
  <2>2. sched.pc \in {"top", "idlechk", "exited"}
    BY <1>1, <2>1 DEF SessionOK
  <2>3. SchedExit \/ SchedIdleCheck
    BY <1>2, <2>1, <2>2 DEF SchedNext, SchedPrepareIdle, SchedPass, SchedTake, SchedAssign,
         SchedSeek, SchedPolicy, SchedSeekReset, SchedKill, SchedKilled, SchedSave, SchedNew,
         SchedPolicyDone, SchedEndSeek, SchedSetRunning
  <2>4. CASE SchedExit
    BY <1>1, <2>4 DEF SchedExit, shared, handle, SchedRec
  <2>5. CASE SchedIdleCheck
    <3>1. sched' = Forget \/ sched' = [sched EXCEPT !.pc = "top"]
      BY <2>5 DEF SchedIdleCheck
    <3>2. sched'.job = sched.job \/ sched'.job = INVALID_JOB_ID
      BY <1>1, <3>1 DEF Forget, SchedRec
    <3> QED BY <2>5, <3>2 DEF SchedIdleCheck, shared, handle
  <2> QED BY <2>3, <2>4, <2>5
<1>3. ASSUME NEW x \in Tasks, ExeNext(x)
      PROVE  /\ UNCHANGED <<jobs, mq, queue, off, app, opens>> /\ sched' = sched
  <2>1. ~Busy(x)
    BY <1>1 DEF SessionOK, TasksOK
  <2>2. ~ExeRecv(x) /\ ~ExeDone(x) /\ ~ExeComplete(x) /\ ~ExeCount(x)
    BY <2>1 DEF ExeRecv, ExeDone, ExeComplete, ExeCount, Busy
  <2> QED BY <1>3, <2>2 DEF ExeNext, ExePoll, ExeIsRunning, ExeSetIdle, ExeStart, ExeStopped, ExeFault,
                            ExeLeave, ExeExit, shared, handle
<1> QED BY <1>2, <1>3

\* The session begins with nothing handed out.
LEMMA OpenSpan ==
  ASSUME Known, Smooth, StreamInv, OpenDone
  PROVE  Span(0, 0)'
<1>1. /\ app = "gen" /\ app' = "idle" /\ Fresh
      /\ UNCHANGED <<mq, queue, task, sched, exe, off, seek_off>>
      /\ jobs' = NewJobs /\ expect_status' = "RUNNING"
  BY DEF OpenDone, handle, StreamInv
<1>2. BaseInv /\ TaskOwn
  BY DEF Known, OwnInv
<1>3. \A x \in Tasks : ~Running(x) /\ exe[x].pc \notin {"isrun", "recv", "done"}
  <2>1. \A x \in Tasks : ~Running(x)
    BY <1>1, <1>2 DEF BaseInv, SessionOK
  <2> QED BY <1>2, <2>1 DEF BaseInv, TasksOK, Busy, TaskOwn
<1>4. sched.pc \in {"top", "idlechk"}
  BY <1>1, <1>2 DEF BaseInv, SessionOK, Leaving
<1>5. JobsTo(0)'
  <2>1. TakenOf(jobs') = {} /\ DoneOf(jobs') = {} /\ ~jobs'.finish_flag
    BY <1>1 DEF NewJobs, TakenOf, DoneOf
  <2>2. {j \in Jobs : j < 0} = {}
    <3>1. \A j \in Jobs : ~(j < 0)
      BY Places
    <3> QED BY <3>1
  <2>3. sched'.job \notin Jobs
    BY <1>1, NoJob DEF Fresh
  <2> QED BY <2>1, <2>2, <2>3 DEF JobsTo, TakenOf, DoneOf
<1>6. \A q \in Queues : ~InUse(q)' /\ queue'[q].job_id = INVALID_JOB_ID
  BY <1>1 DEF Fresh, InUse
<1>7. QueuesOf(0, 0)'
  <2>1. INVALID_JOB_ID < 0 /\ \A j \in 0..(0 - 1) : FALSE
    BY DEF INVALID_JOB_ID
  <2> QED BY <1>1, <1>6, <2>1 DEF QueuesOf, Fresh
<1>8. Contents' /\ Ready'
  BY <1>1, <1>4, <1>6 DEF Contents, Ready
<1>9. \A x \in Tasks : Fills(x)'
  BY <1>1, <1>3 DEF Fills, Running
<1>10. Seeks'
  BY <1>1, <1>4 DEF Seeks, Fresh
<1>11. Position(0, 0)'
  <2>1. ~Lag' /\ off' = 0 /\ 0 \in 0..Size /\ Begins(0) = 0
    BY <1>1, Places DEF Lag, Fresh
  <2> QED BY <1>6, <2>1 DEF Position, Begins, JobTotal, JobOffset
<1> QED BY <1>5, <1>7, <1>8, <1>9, <1>10, <1>11 DEF Span

\* Before the only session is open, and while it is being opened.
LEMMA FreshStep ==
  ASSUME Known, Smooth, StreamInv, [Next]_vars
  PROVE  /\ opens' = 0 => ~jobs'.alive /\ app' # "gen"
         /\ opens' = 0 \/ app' = "gen" => Fresh'
<1>1. /\ opens \in Nat /\ SessionOK /\ TypeOK
      /\ opens = 0 => ~jobs.alive /\ app # "gen"
      /\ opens = 0 \/ app = "gen" => Fresh
      /\ app = "gen" => ~jobs.alive
  BY DEF Known, BaseInv, SchedOK, SessionOK, StreamInv
<1>2. CASE UNCHANGED vars \/ Gone
  <2>1. UNCHANGED vars
    BY <1>2 DEF Gone
  <2> QED BY <1>1, <2>1 DEF vars, Fresh
<1>3. CASE SchedNext \/ \E x \in Tasks : ExeNext(x)
  <2>1. app' = app /\ opens' = opens
    BY <1>3 DEF SchedNext, SchedExit, SchedPrepareIdle, SchedIdleCheck, SchedPass, SchedTake, SchedAssign,
         SchedSeek, SchedPolicy, SchedSeekReset, SchedKill, SchedKilled, SchedSave, SchedNew,
         SchedPolicyDone, SchedEndSeek, SchedSetRunning, ExeNext, ExePoll, ExeIsRunning, ExeSetIdle, ExeStart,
         ExeStopped, ExeRecv, ExeFault, ExeDone, ExeComplete, ExeCount, ExeLeave, ExeExit, handle
  <2>2. CASE opens = 0 \/ app = "gen"
    <3>1. ~jobs.alive /\ Fresh
      BY <1>1, <2>2
    <3>2. /\ UNCHANGED <<jobs, mq, queue, off>>
          /\ sched'.job = sched.job \/ sched'.job = INVALID_JOB_ID
      BY <1>3, <3>1, ClosedSteps
    <3> QED BY <1>1, <2>1, <3>1, <3>2 DEF Fresh
  <2>3. CASE ~(opens = 0 \/ app = "gen")
    BY <2>1, <2>3
  <2> QED BY <2>2, <2>3
<1>4. CASE AppNext
  <2>1. CASE OpenBegin
    <3>1. opens = 0 /\ opens' = opens + 1
      BY <1>1, <2>1, ConstantsAssumption DEF OpenBegin, Smooth
    <3>2. Fresh /\ UNCHANGED <<off, mq, queue, sched>>
      BY <1>1, <2>1, <3>1 DEF OpenBegin, shared
    <3> QED BY <3>1, <3>2 DEF Fresh
  <2>2. CASE OpenDone \/ OpenFailed
    <3>1. opens' = opens /\ app = "gen" /\ app' # "gen"
      BY <2>2 DEF OpenDone, OpenFailed, handle
    <3> QED BY <1>1, <3>1
  <2>3. CASE OpenReset
    <3>1. opens' = opens /\ app' # "gen" /\ jobs' = jobs /\ off' = off /\ sched' = sched /\ ResetAll
      BY <2>3 DEF OpenReset, handle
    <3>2. \A q \in Queues : ~queue'[q].used /\ queue'[q].job_id = INVALID_JOB_ID
      <4>1. \A q \in Queues : queue'[q] = queue_reset(queue[q]) /\ queue[q] \in QueueRec
        BY <1>1, <3>1, QueueTypes DEF ResetAll
      <4> QED BY <4>1 DEF queue_reset, QueueRec
    <3>3. mq'.cur_queue = NULL /\ ~mq'.seek_pending /\ mq'.seek_pos = INVALID_SEEK_POS
      BY <3>1 DEF ResetAll
    <3> QED BY <1>1, <3>1, <3>2, <3>3 DEF Fresh
  <2>4. CASE DeinitBegin \/ DeinitStop \/ DeinitDestroy \/ DeinitDone
    <3>1. UNCHANGED <<opens, jobs, mq, queue, off, sched>> /\ app' # "gen"
      BY <2>4 DEF DeinitBegin, DeinitStop, DeinitDestroy, DeinitDone, shared, handle
    <3> QED BY <1>1, <3>1 DEF Fresh
  <2>5. CASE ~(OpenBegin \/ OpenDone \/ OpenFailed \/ OpenReset \/ DeinitBegin \/ DeinitStop
                 \/ DeinitDestroy \/ DeinitDone)
    <3>1. ReadBegin \/ ReadEof \/ SeekBegin \/ CloseBegin \/ ReadTurn \/ ReadNothing
            \/ StartSeek \/ SeekDone \/ CloseStop \/ CloseDone
      BY <1>4, <2>5 DEF AppNext, AppReturns
    <3>2. jobs.alive
      BY <1>1, <3>1 DEF ReadBegin, ReadEof, SeekBegin, CloseBegin, ReadTurn, ReadNothing, StartSeek, SeekDone,
         CloseStop, CloseDone, SessionOK
    <3>3. opens' = opens /\ app' # "gen"
      BY <3>1 DEF ReadBegin, ReadEof, SeekBegin, CloseBegin, ReadTurn, ReadNothing, StartSeek, SeekDone,
         CloseStop, CloseDone, handle
    <3> QED BY <1>1, <3>2, <3>3
  <2> QED BY <2>1, <2>2, <2>3, <2>4, <2>5
<1> QED BY <1>2, <1>3, <1>4 DEF Next

LEMMA StreamStep ==
  ASSUME Known, Smooth, StreamInv, [Next]_vars
  PROVE  StreamInv'
<1>1. SessionOK /\ TypeOK
  BY DEF Known, BaseInv
<1>2. ASSUME Streaming' PROVE \E m \in 0..JobTotal : \E s \in 0..m : Span(s, m)'
  <2>1. CASE UNCHANGED vars \/ Gone
    <3>1. UNCHANGED vars
      BY <2>1 DEF Gone
    <3>2. Streaming
      BY <1>2, <3>1 DEF Streaming, vars
    <3>k. PICK k \in 0..JobTotal : \E r \in 0..k : Span(r, k)
      BY <3>2 DEF StreamInv
    <3>3. PICK r \in 0..k : Span(r, k)
      BY <3>k
    <3>4. Span(r, k)'
      <4>1. \A q \in Queues : InUse(q)' <=> InUse(q)
        BY <3>1 DEF vars, InUse, Handing
      <4>2. JobsTo(k)' /\ Ready' /\ Seeks' /\ \A x \in Tasks : Fills(x)'
        BY <3>1, <3>3 DEF vars, Span, JobsTo, Ready, Seeks, Fills, TakenOf, DoneOf, Running, JobOffset, JobSize, JobTotal
      <4>3. QueuesOf(r, k)' /\ Contents'
        BY <1>1, <3>1, <3>3, <4>1, StoreFrame DEF vars, Span
      <4>4. Lag' <=> Lag
        BY <3>1 DEF vars, Lag
      <4>5. Position(r, k)'
        BY <3>1, <3>3, <4>1, <4>4, PositionFrame DEF vars, Span
      <4> QED BY <4>2, <4>3, <4>5 DEF Span
    <3> QED BY <3>4
  <2>2. CASE SchedNext \/ \E x \in Tasks : ExeNext(x)
    <3>1. app' = app
      BY <2>2 DEF SchedNext, SchedExit, SchedPrepareIdle, SchedIdleCheck, SchedPass, SchedTake, SchedAssign,
         SchedSeek, SchedPolicy, SchedSeekReset, SchedKill, SchedKilled, SchedSave, SchedNew,
         SchedPolicyDone, SchedEndSeek, SchedSetRunning, ExeNext, ExePoll, ExeIsRunning, ExeSetIdle, ExeStart,
         ExeStopped, ExeRecv, ExeFault, ExeDone, ExeComplete, ExeCount, ExeLeave, ExeExit
    <3>2. jobs.alive
      <4>1. ~jobs.alive => jobs' = jobs
        BY <2>2, ClosedSteps
      <4> QED BY <1>2, <4>1 DEF Streaming
    <3>3. Streaming
      BY <1>2, <3>1, <3>2 DEF Streaming
    <3>k. PICK k \in 0..JobTotal : \E r \in 0..k : Span(r, k)
      BY <3>3 DEF StreamInv
    <3>4. PICK r \in 0..k : Span(r, k)
      BY <3>k
    <3>5. CASE SchedNext
      BY <3>3, <3>4, <3>5, SchedMoves
    <3>6. ASSUME NEW x \in Tasks, ExeNext(x) PROVE Span(r, k)'
      BY <3>3, <3>4, <3>6, ExeKeepsSpan
    <3> QED BY <2>2, <3>5, <3>6
  <2>3. CASE AppNext
    <3>1. CASE OpenDone
      <4>1. Span(0, 0)'
        BY <3>1, OpenSpan
      <4>2. 0 \in 0..JobTotal /\ 0 \in 0..0
        BY Places
      <4> QED BY <4>1, <4>2
    <3>2. CASE ~OpenDone
      <4>1. ReadTurn \/ ReadBegin \/ ReadEof \/ ReadNothing \/ SeekDone \/ SeekBegin \/ StartSeek
        <5>1. ~(OpenBegin \/ CloseBegin \/ DeinitBegin \/ CloseStop \/ DeinitStop \/ DeinitDestroy \/ DeinitDone)
          BY <1>2 DEF OpenBegin, CloseBegin, DeinitBegin, CloseStop, DeinitStop, DeinitDestroy, DeinitDone, Streaming
        <5>2. ~(OpenFailed \/ OpenReset)
          BY <1>1, <1>2 DEF OpenFailed, OpenReset, shared, SessionOK, Streaming
        <5>3. ~CloseDone
          BY <1>1, <1>2 DEF CloseDone, TypeOK, Streaming
        <5> QED BY <2>3, <3>2, <5>1, <5>2, <5>3 DEF AppNext, AppReturns
      <4>2. Streaming
        BY <1>1, <4>1 DEF ReadTurn, ReadBegin, ReadEof, ReadNothing, SeekDone, SeekBegin, StartSeek, Streaming, SessionOK
      <4>k. PICK k \in 0..JobTotal : \E r \in 0..k : Span(r, k)
        BY <4>2 DEF StreamInv
      <4>3. PICK r \in 0..k : Span(r, k)
        BY <4>k
      <4>4. CASE ReadTurn
        BY <4>2, <4>3, <4>4, TurnKeeps
      <4>5. CASE ~ReadTurn
        <5>1. Span(r, k)'
          BY <4>1, <4>2, <4>3, <4>5, AppMoves
        <5> QED BY <5>1
      <4> QED BY <4>4, <4>5
    <3> QED BY <3>1, <3>2
  <2> QED BY <2>1, <2>2, <2>3 DEF Next
<1>3. (Streaming => \E k \in 0..JobTotal : \E r \in 0..k : Span(r, k))'
  <2>1. JobTotal' = JobTotal
    BY DEF JobTotal
  <2> QED BY <1>2, <2>1
<1> QED BY <1>3, FreshStep DEF StreamInv

LEMMA StreamInvariant == ASSUME Smooth PROVE Spec => []StreamInv
<1>1. Init => StreamInv
  <2> SUFFICES ASSUME Init PROVE StreamInv
    OBVIOUS
  <2>1. ~jobs.alive /\ app # "gen"
    BY DEF Init, NewJobs
  <2>2. Fresh
    BY DEF Init, Fresh
  <2> QED BY <2>1, <2>2 DEF StreamInv, Streaming
<1>2. Known /\ StreamInv /\ [Next]_vars => StreamInv'
  BY StreamStep
<1>3. Locked
  BY DEF Smooth
<1>4. Spec => []Known
  <2>1. BaseInv /\ CountOK /\ OwnInv /\ DoneInv => Known
    BY DEF Known
  <2> QED BY <1>3, <2>1, Invariance, OwnInvariant, DoneInvariant, PTL
<1> QED BY <1>1, <1>2, <1>4, PTL DEF Spec

\* At the end of the file: the last job's queue is read to its end.
LEMMA EofAtEnd ==
  ASSUME Known, Streaming, app = "idle", NEW k \in 0..JobTotal, NEW r \in 0..k, Span(r, k), AtEnd
  PROVE  off = Size
<1>1. TypeOK /\ Position(r, k) /\ QueuesOf(r, k) /\ Contents /\ Seeks /\ JobsTo(k)
  BY DEF Known, BaseInv, Span
<1>2. PICK q \in Queues : queue[q].job_id = JobTotal - 1 /\ queue[q].complete
                            /\ queue[q].read_pos = queue[q].write_pos
  BY OneQueueFacts DEF AtEnd, check_queue_drained
<1>3. k = JobTotal /\ JobTotal \in Nat \ {0} /\ JobTotal - 1 \in Jobs /\ r \in Nat /\ r <= JobTotal
        /\ Begins(JobTotal) = Size /\ Size \in Nat /\ off \in Nat
  BY <1>1, Places DEF AtEnd, JobsTo, Jobs, Position
<1>4. PICK j \in Jobs : j = JobTotal - 1
  BY <1>3
<1>5. Begins(j) + JobSize(j) = Size /\ JobSize(j) \in Nat /\ JobSize(j) >= 1
  <2>1. j + 1 = JobTotal
    BY <1>3, <1>4
  <2>2. Begins(j) + JobSize(j) = Begins(j + 1) /\ JobSize(j) \in 1..SEG
    BY Places
  <2> QED BY <1>3, <2>1, <2>2
<1>6. CASE InUse(q)
  <2>1. expect_status = "RUNNING"
    BY <1>1 DEF Seeks
  <2>2. queue[q].read_pos = JobSize(j)
    BY <1>1, <1>2, <1>4, <1>6, <2>1 DEF Contents, Holds
  <2>3. r = j
    <3>1. queue[q].job_id # r => queue[q].read_pos = 0
      BY <1>1, <1>6 DEF Position
    <3> QED BY <1>2, <1>4, <1>5, <2>2, <3>1
  <2>4. CASE Lag
    <3>1. off < Size /\ Begins(j) + queue[q].read_pos <= off
      BY <1>1, <1>2, <1>4, <1>6, <2>3, <2>4 DEF Position
    <3> QED BY <1>3, <1>5, <2>2, <3>1
  <2>5. CASE ~Lag
    BY <1>1, <1>2, <1>4, <1>5, <1>6, <2>2, <2>3, <2>5 DEF Position
  <2> QED BY <2>4, <2>5
<1>7. CASE ~InUse(q)
  <2>1. r = JobTotal
    <3>1. JobTotal - 1 < r
      BY <1>1, <1>2, <1>7 DEF QueuesOf
    <3> QED BY <1>3, <3>1
  <2>2. CASE Lag
    <3>1. Begins(r) <= off /\ off < Size
      BY <1>1, <2>2 DEF Position
    <3> QED BY <1>3, <2>1, <3>1
  <2>3. CASE ~Lag
    BY <1>1, <1>3, <2>1, <2>3 DEF Position
  <2> QED BY <2>2, <2>3
<1> QED BY <1>6, <1>7

\* What a step is for a reader of the file.
LEMMA FileStep ==
  ASSUME Known, Smooth, StreamInv, [Next]_vars
  PROVE  [F!Next]_<<off, ret>>
<1>1. SessionOK /\ TypeOK
  BY DEF Known, BaseInv
<1>2. CASE UNCHANGED vars \/ Gone
  BY <1>2 DEF Gone, vars
<1>3. CASE SchedNext
  <2>1. CASE SchedExit \/ SchedPrepareIdle \/ SchedIdleCheck \/ SchedPass \/ SchedTake
    BY <2>1 DEF SchedExit, SchedPrepareIdle, SchedIdleCheck, SchedPass, SchedTake, handle
  <2>2. CASE SchedAssign \/ SchedSeek \/ SchedPolicy \/ SchedSeekReset \/ SchedKill \/ SchedKilled
    BY <2>2 DEF SchedAssign, SchedSeek, SchedPolicy, SchedSeekReset, SchedKill, SchedKilled, handle
  <2>3. CASE SchedSave \/ SchedNew \/ SchedPolicyDone \/ SchedEndSeek \/ SchedSetRunning
    BY <2>3 DEF SchedSave, SchedNew, SchedPolicyDone, SchedEndSeek, SchedSetRunning, handle
  <2> QED BY <1>3, <2>1, <2>2, <2>3 DEF SchedNext
<1>4. CASE \E x \in Tasks : ExeNext(x)
  <2>1. PICK x \in Tasks : ExeNext(x)
    BY <1>4
  <2>2. CASE ExePoll(x) \/ ExeIsRunning(x) \/ ExeSetIdle(x) \/ ExeStart(x)
    BY <2>2 DEF ExePoll, ExeIsRunning, ExeSetIdle, ExeStart, handle
  <2>3. CASE ExeStopped(x) \/ ExeRecv(x) \/ ExeFault(x) \/ ExeDone(x)
    BY <2>3 DEF ExeStopped, ExeRecv, ExeFault, ExeDone, handle
  <2>4. CASE ExeComplete(x) \/ ExeCount(x) \/ ExeLeave(x) \/ ExeExit(x)
    BY <2>4 DEF ExeComplete, ExeCount, ExeLeave, ExeExit, handle
  <2> QED BY <2>1, <2>2, <2>3, <2>4 DEF ExeNext
<1>5. CASE OpenDone \/ OpenFailed \/ OpenReset \/ ReadBegin \/ StartSeek \/ SeekDone \/ CloseStop \/ CloseDone
             \/ DeinitStop \/ DeinitDestroy \/ DeinitDone
  BY <1>5 DEF OpenDone, OpenFailed, OpenReset, ReadBegin, StartSeek, SeekDone, CloseStop, CloseDone,
         DeinitStop, DeinitDestroy, DeinitDone, handle
<1>6. CASE OpenBegin \/ CloseBegin \/ DeinitBegin \/ ReadNothing
  <2>1. F!Return
    BY <1>6 DEF OpenBegin, CloseBegin, DeinitBegin, ReadNothing, F!Return
  <2> QED BY <2>1 DEF F!Next
<1>7. CASE ReadTurn
  <2>1. Streaming
    BY <1>1, <1>7 DEF ReadTurn, Streaming, SessionOK
  <2>k. PICK k \in 0..JobTotal : \E r \in 0..k : Span(r, k)
    BY <2>1 DEF StreamInv
  <2>2. PICK r \in 0..k : Span(r, k)
    BY <2>k
  <2>3. PICK c \in Queues, rp \in Nat, n \in Nat, pos \in Int : TurnOf(c, r, rp, n, pos)
    BY <1>7, <2>1, <2>2, TurnIs
  <2>4. /\ n \in Nat /\ off' = off + n /\ off + n <= Size
        /\ ret' = IF n = 0 THEN F!None
                  ELSE [kind |-> "data", units |-> [i \in 1..n |-> off + i - 1]]
    BY <2>3 DEF TurnOf
  <2>5. off \in Nat /\ Size \in Nat
    BY <2>2, Places DEF Span, Position
  <2>6. CASE n = 0
    <3>1. F!Return
      BY <2>4, <2>5, <2>6 DEF F!Return
    <3> QED BY <3>1 DEF F!Next
  <2>7. CASE n # 0
    <3>1. n \in 1..(Size - off)
      BY <2>4, <2>5, <2>7
    <3>2. ret' = F!Data(off, n)
      BY <2>4, <2>7 DEF F!Data
    <3>3. F!Read
      BY <2>4, <3>1, <3>2 DEF F!Read
    <3> QED BY <3>3 DEF F!Next
  <2> QED BY <2>6, <2>7
<1>8. CASE ReadEof
  <2>1. Streaming /\ app = "idle" /\ AtEnd /\ ret' = F!Eof /\ off' = off
    BY <1>8 DEF ReadEof, Streaming
  <2>k. PICK k \in 0..JobTotal : \E r \in 0..k : Span(r, k)
    BY <2>1 DEF StreamInv
  <2>2. PICK r \in 0..k : Span(r, k)
    BY <2>k
  <2>3. off = Size
    BY <2>1, <2>2, EofAtEnd
  <2>4. F!ReadEof
    BY <2>1, <2>3 DEF F!ReadEof
  <2> QED BY <2>4 DEF F!Next
<1>9. CASE SeekBegin
  <2>1. PICK p \in SeekTo : InFile(p) /\ off' = p /\ ret' = F!None
    BY <1>9 DEF SeekBegin
  <2>2. p \in 0..(Size - 1)
    BY <2>1, ConstantsAssumption DEF InFile
  <2>3. F!Seek
    BY <2>1, <2>2 DEF F!Seek
  <2> QED BY <2>3 DEF F!Next
<1> QED BY <1>2, <1>3, <1>4, <1>5, <1>6, <1>7, <1>8, <1>9 DEF Next, AppNext, AppReturns

\* The downloader implements a file read from a position: whatever order the
\* executors download in, mutiQueue_read hands out the file's units one after
\* the other from SmartHTTPGlobalContext.off, and Read reports the end only
\* there.  For one session with seeks forward, when every segment arrives in
\* full, with the windows "take", "poll", "count" and "leave" closed.
THEOREM StreamImplemented ==
  ASSUME Smooth
  PROVE  Spec => ImplementsFileStream
<1>1. Init => F!Init
  BY DEF Init, F!Init
<1>2. Known /\ StreamInv /\ [Next]_vars => [F!Next]_<<off, ret>>
  BY FileStep
<1>3. Locked
  BY DEF Smooth
<1>4. Spec => []Known
  <2>1. BaseInv /\ CountOK /\ OwnInv /\ DoneInv => Known
    BY DEF Known
  <2> QED BY <1>3, <2>1, Invariance, OwnInvariant, DoneInvariant, PTL
<1> QED BY <1>1, <1>2, <1>4, StreamInvariant, PTL DEF Spec, ImplementsFileStream, F!Spec, F!vars
=============================================================================
