-------------------------- MODULE FastPlayerProofs --------------------------
(***************************************************************************)
(* Proofs about FastPlayer, for any number of control and conditional-     *)
(* access threads, any set of flags and any capacity of the kernel's queue.*)
(***************************************************************************)
EXTENDS FastPlayer, FiniteSetTheorems, SequenceTheorems, TLAPS

-----------------------------------------------------------------------------
(* The inductive invariant.                                                *)

\* Where a conditional-access thread holds p_priv->mutex.
Critical == {"find", "lock", "snd", "post", "sent"}

\* A thread is in a call exactly while it has an operation to carry out.
CallOps ==
  /\ \A c \in Controllers : /\ thr[c].op \in Commands \cup {"none"}
                            /\ thr[c].op = "none" <=> At(c, "idle")
                            /\ thr[c].op = "destroy" => ~At(c, "mutex")
  /\ \A t \in CaThreads : /\ thr[t].op \in Flags \cup {"none"}
                          /\ thr[t].op = "none" <=> At(t, "idle")
                          /\ ~At(t, "ack")

\* One control call at a time (Serial), and a destroy alone (Quiet).
CallsAlone ==
  /\ \A c, d \in Controllers : ~At(c, "idle") /\ ~At(d, "idle") => c = d
  /\ \A c \in Controllers : thr[c].op = "destroy" =>
       \A t \in Threads \ {c} : At(t, "idle")

\* The two mutexes are held by whoever is between taking and giving them.
MutexesHeld ==
  /\ \A t \in CaThreads : mutex = t <=> thr[t].pc \in Critical
  /\ \A t \in Threads : snd_rcv_mutex = t <=> At(t, "snd")
  /\ snd_rcv_mutex = Fdp <=> fdp.pc = "rcv"

\* The life of p_priv, the queue and fdp_thread.
Lifetime ==
  /\ used <=> player # "none"
  /\ ~used => /\ \A t \in Threads : At(t, "idle")
              /\ fdp.pc = "exit" /\ msgs = <<>> /\ sem = 0 /\ sync_sem = 0
  /\ used /\ fdp.pc = "exit" => player = "freed"
  /\ player = "freed" =>
       /\ \E c \in Controllers : thr[c].op = "destroy" /\ thr[c].pc \in {"post", "ack", "sent"}
       /\ fdp.pc = "exit" \/ (fdp.pc = "ack" /\ fdp.msg.op = "destroy")
       /\ msgs = <<>>
  /\ fdp.msg.op = "destroy" => msgs = <<>> /\ (fdp.pc = "ack" => player = "freed")

\* A message is an announcement, or the command of a control call under way.
MessageOK(m) ==
  \/ m.by = Free /\ m.op \in Flags
  \/ /\ m.by \in Controllers /\ m.op = thr[m.by].op
     /\ thr[m.by].pc \in {"post", "ack"}

Messages ==
  /\ \A i \in 1 .. Len(msgs) : MessageOK(msgs[i])
  /\ \A i \in 1 .. Len(msgs) : msgs[i].op = "destroy" => i = Len(msgs)
  /\ fdp.pc \in {"handle", "ack"} => MessageOK(fdp.msg)
  /\ fdp.pc \notin {"handle", "ack"} => fdp.msg = None
  /\ fdp.pc = "ack" => fdp.msg.by # Free

Queued == \E i \in 1 .. Len(msgs) : msgs[i].by # Free

\* A command is in one place: in the queue, with fdp_thread, or answered.
OnePlace ==
  /\ \A i, j \in 1 .. Len(msgs) : msgs[i].by # Free /\ msgs[j].by # Free => i = j
  /\ Queued => fdp.msg.by = Free /\ sync_sem = 0
  /\ fdp.msg.by # Free => sync_sem = 0
  /\ sync_sem \in {0, 1}
  /\ sync_sem = 1 => \E c \in Controllers : thr[c].pc \in {"post", "ack"}

\* Whether it has been executed, by where it is.
Progress ==
  /\ \A c \in Controllers :
       /\ thr[c].pc \in {"post", "ack"} => Queued \/ fdp.msg.by # Free \/ sync_sem = 1
       /\ thr[c].pc \in {"post", "ack"} /\ sync_sem = 1 => done[c]
       /\ At(c, "sent") => done[c]
       /\ thr[c].op = "destroy" /\ (sync_sem = 1 \/ At(c, "sent")) =>
            player = "freed" /\ fdp.pc = "exit"
  /\ fdp.pc = "ack" => done[fdp.msg.by]

\* The flag f may still be announced in this epoch.
Sending(f) == \E t \in CaThreads : thr[t].op = f /\ thr[t].pc \in {"find", "lock", "snd"}
Sent(f) == \E t \in CaThreads : thr[t].op = f /\ thr[t].pc \in {"post", "sent"}
Pending(f) == Sending(f) \/ (f \in is_wait /\ ~Sent(f))

Is(i, f) == msgs[i].op = f

\* i comes after the command, wherever that is.
After(i) == \A k \in 1 .. Len(msgs) : msgs[k].by # Free => k < i

\* A flag is announced at most twice in the queue, once since the command.
Announced ==
  /\ \A f \in Flags : \A i, j, k \in 1 .. Len(msgs) :
       Is(i, f) /\ Is(j, f) /\ Is(k, f) => i = j \/ j = k \/ i = k
  /\ \A f \in Flags : \A i, j \in 1 .. Len(msgs) :
       Pending(f) /\ Is(i, f) /\ Is(j, f) => i = j
  /\ (\E c \in Controllers : thr[c].pc \in {"post", "ack", "sent"}) =>
       \A f \in Flags : \A i \in 1 .. Len(msgs) : Is(i, f) /\ After(i) =>
         /\ ~Pending(f)
         /\ \A j \in 1 .. Len(msgs) : Is(j, f) /\ After(j) => i = j

IInv ==
  /\ TypeOK /\ CallOps /\ CallsAlone /\ MutexesHeld /\ Lifetime
  /\ Messages /\ OnePlace /\ Progress /\ TokensMatch /\ Len(msgs) <= Capacity
  /\ Announced

-----------------------------------------------------------------------------
(* Facts used by every step.                                               *)

Pcs == {"idle", "mutex", "find", "lock", "snd", "post", "ack", "sent"}

\* t is at pc with op and the other threads stay where they are.
Moved(t, pc, op) ==
  /\ thr' \in [Threads -> [pc : Pcs, op : Commands \cup Flags \cup {"none"}]]
  /\ thr'[t].pc = pc /\ thr'[t].op = op
  /\ \A u \in Threads : u # t => thr'[u] = thr[u]

FdpMoved(pc, msg) ==
  /\ fdp' \in [pc : {"wait", "lock", "rcv", "handle", "ack", "exit"}, msg : Message \cup {None}]
  /\ fdp'.pc = pc /\ fdp'.msg = msg

\* A call goes on; a call returns.
LEMMA GotoMoves ==
  ASSUME TypeOK, NEW t \in Threads, NEW pc \in Pcs, Goto(t, pc)
  PROVE  Moved(t, pc, thr[t].op)
  BY DEF TypeOK, Goto, Moved, Pcs

LEMMA ReturnMoves ==
  ASSUME TypeOK, NEW t \in Threads, Return(t)
  PROVE  Moved(t, "idle", "none")
  BY DEF TypeOK, Return, Moved, Pcs

\* Threads and the marks for nobody and for fdp_thread are different.
LEMMA Apart ==
  /\ Threads = Controllers \cup CaThreads
  /\ \A c \in Controllers : c \notin CaThreads /\ c \in Threads
  /\ \A t \in CaThreads : t \notin Controllers /\ t \in Threads
  /\ \A t \in Threads : t # Free /\ t # Fdp
  /\ Fdp # Free
  /\ \A f \in Flags : f \notin Commands /\ f # "none"
  /\ Commands = {"switch", "stop", "destroy"}
  BY ThreadsAssumption DEF Threads, Commands

\* The numbers of the queue, and the senders yet to post, are naturals.
LEMMA Counts ==
  ASSUME TypeOK
  PROVE  /\ used \in BOOLEAN /\ msgs \in Seq(Message) /\ Len(msgs) \in Nat
         /\ sem \in Nat /\ sync_sem \in Nat /\ Capacity \in Nat \ {0}
         /\ IsFiniteSet(Threads) /\ IsFiniteSet(Posting) /\ Cardinality(Posting) \in Nat
         /\ Cardinality(Controllers) \in Nat
         /\ \A c \in Controllers : Cardinality(Controllers) >= 1
<1>1. IsFiniteSet(Threads) /\ Cardinality(Controllers) \in Nat
  BY ThreadsAssumption, FS_Union, FS_CardinalityType DEF Threads
<1>2. Posting \in SUBSET Threads
  BY DEF Posting
<1>3. IsFiniteSet(Posting) /\ Cardinality(Posting) \in Nat
  BY <1>1, <1>2, FS_Subset, FS_CardinalityType
<1>4. \A c \in Controllers : Cardinality(Controllers) >= 1
  BY <1>1, ThreadsAssumption, FS_EmptySet
<1>5. Capacity \in Nat \ {0}
  BY CapacityAssumption
<1>6. /\ used \in BOOLEAN /\ msgs \in Seq(Message) /\ Len(msgs) \in Nat
      /\ sem \in Nat /\ sync_sem \in Nat
  BY <1>5 DEF TypeOK, MsgQTypeOK
<1> QED BY <1>1, <1>3, <1>4, <1>5, <1>6

\* A thread comes to its sem_post, a thread leaves it, none does.
LEMMA PostingGrows ==
  ASSUME TypeOK, NEW t \in Threads, NEW op, Moved(t, "post", op), ~At(t, "post")
  PROVE  Cardinality(Posting') = Cardinality(Posting) + 1
<1>1. Posting' = Posting \cup {t} /\ t \notin Posting
  BY DEF Posting, Moved, At
<1> QED BY <1>1, Counts, FS_AddElement

LEMMA PostingShrinks ==
  ASSUME TypeOK, NEW t \in Threads, NEW pc, NEW op, Moved(t, pc, op), pc # "post", At(t, "post")
  PROVE  Cardinality(Posting') = Cardinality(Posting) - 1 /\ Cardinality(Posting) >= 1
<1>1. Posting' = Posting \ {t} /\ t \in Posting
  BY DEF Posting, Moved, At
<1>2. IsFiniteSet(Posting) /\ Cardinality(Posting) \in Nat
  BY Counts
<1>3. Cardinality(Posting') = Cardinality(Posting) - 1
  BY <1>1, <1>2, FS_RemoveElement
<1>4. Cardinality(Posting) # 0
  BY <1>1, <1>2, FS_EmptySet
<1> QED BY <1>2, <1>3, <1>4

\* What is announced is bounded as before when the queue stays and no flag
\* and no answered command is new.
LEMMA AnnouncedSame ==
  ASSUME Announced, msgs' = msgs,
         \A f \in Flags : Pending(f)' => Pending(f),
         (\E c \in Controllers : thr'[c].pc \in {"post", "ack", "sent"}) =>
           (\E c \in Controllers : thr[c].pc \in {"post", "ack", "sent"})
  PROVE  Announced'
<1>1. \A i : After(i)' <=> After(i)
  BY DEF After
<1>2. \A i, f : Is(i, f)' <=> Is(i, f)
  BY DEF Is
<1> QED BY <1>1, <1>2 DEF Announced

\* TakeGive: switch and stop wait for the capture call under way.
LEMMA TakeGiveKeeps == ASSUME IInv, NEW c \in Controllers, TakeGive(c) PROVE IInv'
<1> USE Apart DEF IInv, At
<1>1. Moved(c, "find", thr[c].op) /\ thr[c].pc = "mutex"
  BY GotoMoves DEF TakeGive, Pcs
<1>2. UNCHANGED <<used, msgs, sem, snd_rcv_mutex, sync_sem, player, mutex, is_wait, fdp, done>>
  BY DEF TakeGive, msgq
<1> USE <1>1, <1>2 DEF Moved, FdpMoved
<1>3. TypeOK'
  BY Counts DEF TypeOK, MsgQTypeOK, Pcs
<1>4. CallOps' /\ CallsAlone' /\ MutexesHeld'
  BY DEF CallOps, CallsAlone, MutexesHeld, Critical
<1>5. Lifetime'
  BY DEF Lifetime
<1>6. Messages'
  BY DEF Messages, MessageOK
<1>7. OnePlace' /\ Progress'
  BY DEF OnePlace, Progress, Queued
<1>8. TokensMatch'
  BY Counts DEF TokensMatch, Posting
<1>9. Announced'
  <2>1. \A f \in Flags : Pending(f)' => Pending(f)
    BY DEF Pending, Sending, Sent
  <2> QED BY <2>1, AnnouncedSame
<1> QED BY <1>3, <1>4, <1>5, <1>6, <1>7, <1>8, <1>9

\* Find: the queue is there, for it is deleted only by a destroy that is alone.
LEMMA FindKeeps == ASSUME IInv, NEW t \in Threads, Find(t) PROVE IInv'
<1> USE Apart DEF IInv, At
<1>1. used
  BY DEF Find, Lifetime
<1>2. Moved(t, "lock", thr[t].op) /\ thr[t].pc = "find"
  BY <1>1, GotoMoves DEF Find, Pcs
<1>3. UNCHANGED <<used, msgs, sem, snd_rcv_mutex, sync_sem, player, mutex, is_wait, fdp, done>>
  BY DEF Find, msgq
<1> USE <1>1, <1>2, <1>3 DEF Moved, FdpMoved
<1>4. TypeOK'
  BY Counts DEF TypeOK, MsgQTypeOK, Pcs
<1>5. CallOps' /\ CallsAlone' /\ MutexesHeld'
  BY DEF CallOps, CallsAlone, MutexesHeld, Critical
<1>6. Lifetime'
  BY DEF Lifetime
<1>7. Messages'
  BY DEF Messages, MessageOK
<1>8. OnePlace' /\ Progress'
  BY DEF OnePlace, Progress, Queued
<1>9. TokensMatch'
  BY Counts DEF TokensMatch, Posting
<1>10. Announced'
  <2>1. \A f \in Flags : Pending(f)' => Pending(f)
    BY DEF Pending, Sending, Sent
  <2> QED BY <2>1, AnnouncedSame
<1> QED BY <1>4, <1>5, <1>6, <1>7, <1>8, <1>9, <1>10

\* Lock: snd_rcv_mutex is taken to send.
LEMMA LockKeeps == ASSUME IInv, NEW t \in Threads, Lock(t) PROVE IInv'
<1> USE Apart DEF IInv, At
<1>1. /\ Moved(t, "snd", thr[t].op) /\ thr[t].pc = "lock"
      /\ snd_rcv_mutex = Free /\ snd_rcv_mutex' = t
  BY GotoMoves DEF Lock, Pcs, MsgQLock
<1>2. UNCHANGED <<used, msgs, sem, sync_sem, player, mutex, is_wait, fdp, done>>
  BY DEF Lock, MsgQLock
<1> USE <1>1, <1>2 DEF Moved, FdpMoved
<1>3. TypeOK'
  BY Counts DEF TypeOK, MsgQTypeOK, Pcs
<1>4. CallOps' /\ CallsAlone' /\ MutexesHeld'
  BY DEF CallOps, CallsAlone, MutexesHeld, Critical
<1>5. Lifetime'
  BY DEF Lifetime
<1>6. Messages'
  BY DEF Messages, MessageOK
<1>7. OnePlace' /\ Progress'
  BY DEF OnePlace, Progress, Queued
<1>8. TokensMatch'
  BY Counts DEF TokensMatch, Posting
<1>9. Announced'
  <2>1. \A f \in Flags : Pending(f)' => Pending(f)
    BY DEF Pending, Sending, Sent
  <2> QED BY <2>1, AnnouncedSame
<1> QED BY <1>3, <1>4, <1>5, <1>6, <1>7, <1>8, <1>9

\* Create: a new queue, a new player, a new thread; every call has ended.
LEMMA CreateKeeps == ASSUME IInv, NEW c \in Controllers, Create(c) PROVE IInv'
<1> USE Apart DEF IInv, At
<1>1. /\ ~used /\ used' = TRUE /\ msgs' = <<>> /\ sem' = 0 /\ sync_sem' = 0
      /\ snd_rcv_mutex' = Free /\ player' = "alive" /\ mutex' = Free /\ is_wait' = {}
      /\ FdpMoved("wait", None)
  BY DEF Create, MsgQCreate, FdpMoved, TypeOK
<1>2. UNCHANGED <<thr, done>>
  BY DEF Create
<1> USE <1>1, <1>2 DEF Moved, FdpMoved
<1>3. TypeOK'
  BY Counts DEF TypeOK, MsgQTypeOK
<1>4. CallOps' /\ CallsAlone' /\ MutexesHeld'
  BY DEF CallOps, CallsAlone, MutexesHeld, Critical, Lifetime
<1>5. Lifetime'
  BY DEF Lifetime, None
<1>6. Messages'
  BY DEF Messages, MessageOK
<1>7. OnePlace' /\ Progress'
  BY DEF OnePlace, Progress, Queued, None, Lifetime
<1>8. TokensMatch'
  <2>1. Posting' = {}
    BY DEF Posting, Lifetime
  <2> QED BY <2>1, FS_EmptySet DEF TokensMatch
<1>9. Announced'
  BY DEF Announced
<1> QED BY <1>3, <1>4, <1>5, <1>6, <1>7, <1>8, <1>9, Counts

\* Control: with Serial the only one, with Quiet a destroy only on its own.
LEMMA ControlKeeps == ASSUME IInv, Serial, Quiet, NEW c \in Controllers, NEW op \in Commands, Control(c, op) PROVE IInv'
<1> USE Apart DEF IInv, At
<1>1. /\ Moved(c, IF op = "destroy" THEN "find" ELSE "mutex", op) /\ thr[c].pc = "idle"
      /\ done' = [done EXCEPT ![c] = FALSE]
  BY DEF Control, MayCall, Moved, TypeOK, Pcs
<1>2. /\ player = "alive" /\ ~Closing /\ \A d \in Controllers : At(d, "idle")
      /\ op = "destroy" => \A t \in Threads : At(t, "idle")
  BY DEF Control, MayCall
<1>3. UNCHANGED <<used, msgs, sem, snd_rcv_mutex, sync_sem, player, mutex, is_wait, fdp>>
  BY DEF Control, msgq
<1> USE <1>1, <1>2, <1>3 DEF Moved, FdpMoved
<1>4. TypeOK'
  BY Counts DEF TypeOK, MsgQTypeOK, Pcs
<1>5. CallOps' /\ CallsAlone' /\ MutexesHeld'
  BY DEF CallOps, CallsAlone, MutexesHeld, Critical, Closing
<1>6. Lifetime'
  BY DEF Lifetime
<1>7. Messages'
  BY DEF Messages, MessageOK
<1>8. OnePlace' /\ Progress'
  BY DEF OnePlace, Progress, Queued, TypeOK, Messages, MessageOK
<1>9. TokensMatch'
  BY Counts DEF TokensMatch, Posting
<1>10. Announced'
  <2>1. \A f \in Flags : Pending(f)' => Pending(f)
    BY DEF Pending, Sending, Sent
  <2> QED BY <2>1, AnnouncedSame
<1> QED BY <1>4, <1>5, <1>6, <1>7, <1>8, <1>9, <1>10

\* Capture: nobody is destroying the player.
LEMMA CaptureKeeps == ASSUME IInv, Quiet, NEW t \in CaThreads, NEW f \in Flags, Capture(t, f) PROVE IInv'
<1> USE Apart DEF IInv, At
<1>1. /\ Moved(t, "mutex", f) /\ thr[t].pc = "idle" /\ player = "alive" /\ ~Closing
  BY DEF Capture, MayCall, Moved, TypeOK, Pcs
<1>2. UNCHANGED <<used, msgs, sem, snd_rcv_mutex, sync_sem, player, mutex, is_wait, fdp, done>>
  BY DEF Capture, msgq
<1> USE <1>1, <1>2 DEF Moved, FdpMoved
<1>3. TypeOK'
  BY Counts DEF TypeOK, MsgQTypeOK, Pcs
<1>4. CallOps' /\ CallsAlone' /\ MutexesHeld'
  BY DEF CallOps, CallsAlone, MutexesHeld, Critical, Closing
<1>5. Lifetime'
  BY DEF Lifetime
<1>6. Messages'
  BY DEF Messages, MessageOK
<1>7. OnePlace' /\ Progress'
  BY DEF OnePlace, Progress, Queued
<1>8. TokensMatch'
  BY Counts DEF TokensMatch, Posting
<1>9. Announced'
  <2>1. \A g \in Flags : Pending(g)' => Pending(g)
    BY DEF Pending, Sending, Sent
  <2> QED BY <2>1, AnnouncedSame
<1> QED BY <1>3, <1>4, <1>5, <1>6, <1>7, <1>8, <1>9

\* CaTake: a flag that waits is taken up, with the mutex held.
LEMMA CaTakeKeeps == ASSUME IInv, NEW t \in CaThreads, CaTake(t) PROVE IInv'
<1> USE Apart DEF IInv, At
<1>1. /\ thr[t].pc = "mutex" /\ mutex = Free
      /\ \/ mutex' = t /\ thr[t].op \in is_wait /\ Moved(t, "find", thr[t].op)
         \/ mutex' = mutex /\ Moved(t, "idle", "none")
  BY GotoMoves, ReturnMoves DEF CaTake, Pcs
<1>2. UNCHANGED <<used, msgs, sem, snd_rcv_mutex, sync_sem, player, is_wait, fdp, done>>
  BY DEF CaTake, msgq
<1> USE <1>1, <1>2 DEF Moved, FdpMoved
<1>3. TypeOK'
  BY Counts DEF TypeOK, MsgQTypeOK, Pcs
<1>4. CallOps' /\ CallsAlone' /\ MutexesHeld'
  BY DEF CallOps, CallsAlone, MutexesHeld, Critical
<1>5. Lifetime'
  BY DEF Lifetime
<1>6. Messages'
  BY DEF Messages, MessageOK
<1>7. OnePlace' /\ Progress'
  BY DEF OnePlace, Progress, Queued
<1>8. TokensMatch'
  BY Counts DEF TokensMatch, Posting
<1>9. Announced'
  <2>1. \A f \in Flags : Pending(f)' => Pending(f)
    BY DEF Pending, Sending, Sent, MutexesHeld, Critical, CallOps
  <2> QED BY <2>1, AnnouncedSame
<1> QED BY <1>3, <1>4, <1>5, <1>6, <1>7, <1>8, <1>9

\* CaClear: the flag is cleared, the mutex given back.
LEMMA CaClearKeeps == ASSUME IInv, NEW t \in CaThreads, CaClear(t) PROVE IInv'
<1> USE Apart DEF IInv, At
<1>1. /\ thr[t].pc = "sent" /\ Moved(t, "idle", "none")
      /\ mutex' = Free /\ is_wait' = is_wait \ {thr[t].op}
  BY ReturnMoves DEF CaClear
<1>2. UNCHANGED <<used, msgs, sem, snd_rcv_mutex, sync_sem, player, fdp, done>>
  BY DEF CaClear, msgq
<1> USE <1>1, <1>2 DEF Moved, FdpMoved
<1>3. TypeOK'
  BY Counts DEF TypeOK, MsgQTypeOK, Pcs
<1>4. CallOps' /\ CallsAlone' /\ MutexesHeld'
  BY DEF CallOps, CallsAlone, MutexesHeld, Critical
<1>5. Lifetime'
  BY DEF Lifetime
<1>6. Messages'
  BY DEF Messages, MessageOK
<1>7. OnePlace' /\ Progress'
  BY DEF OnePlace, Progress, Queued
<1>8. TokensMatch'
  BY Counts DEF TokensMatch, Posting
<1>9. Announced'
  <2>1. \A f \in Flags : Pending(f)' => Pending(f)
    BY DEF Pending, Sending, Sent, MutexesHeld, Critical, CallOps
  <2> QED BY <2>1, AnnouncedSame
<1> QED BY <1>3, <1>4, <1>5, <1>6, <1>7, <1>8, <1>9

\* SetFlags: the answer has come, so that what is queued was sent since.
LEMMA SetFlagsKeeps == ASSUME IInv, NEW c \in Controllers, SetFlags(c) PROVE IInv'
<1> USE Apart DEF IInv, At
<1>1. /\ thr[c].pc = "sent" /\ thr[c].op # "destroy" /\ Moved(c, "idle", "none")
      /\ is_wait' = IF thr[c].op = "switch" THEN Flags ELSE {}
  BY ReturnMoves DEF SetFlags
<1>2. UNCHANGED <<used, msgs, sem, snd_rcv_mutex, sync_sem, player, mutex, fdp, done>>
  BY DEF SetFlags, msgq
<1> USE <1>1, <1>2 DEF Moved, FdpMoved
<1>3. TypeOK'
  BY Counts DEF TypeOK, MsgQTypeOK, Pcs
<1>4. CallOps' /\ CallsAlone' /\ MutexesHeld'
  BY DEF CallOps, CallsAlone, MutexesHeld, Critical
<1>5. Lifetime'
  BY DEF Lifetime
<1>6. Messages'
  BY DEF Messages, MessageOK
<1>7. OnePlace' /\ Progress'
  BY DEF OnePlace, Progress, Queued
<1>8. TokensMatch'
  BY Counts DEF TokensMatch, Posting
<1>9. Announced'
  <2>1. \A i \in 1 .. Len(msgs) : msgs[i].by = Free
    BY DEF CallsAlone, Messages, MessageOK
  <2>2. \A f \in Flags : \A i, j \in 1 .. Len(msgs) : Is(i, f) /\ Is(j, f) => i = j
    BY <2>1 DEF Announced, After
  <2>3. \A d \in Controllers : thr'[d].pc \notin {"post", "ack", "sent"}
    BY DEF CallsAlone
  <2>4. \A i, f : Is(i, f)' <=> Is(i, f)
    BY DEF Is
  <2> QED BY <2>2, <2>3, <2>4 DEF Announced
<1> QED BY <1>3, <1>4, <1>5, <1>6, <1>7, <1>8, <1>9

\* Release: after the answer to a destroy the queue is empty and nobody else calls.
LEMMA ReleaseKeeps == ASSUME IInv, NEW c \in Controllers, Release(c) PROVE IInv'
<1> USE Apart DEF IInv, At
<1>1. thr[c].pc = "sent" /\ thr[c].op = "destroy" /\ msgs = <<>>
  BY DEF Release, Progress, Lifetime
<1>2. /\ Moved(c, "idle", "none") /\ used' = FALSE /\ player' = "none"
      /\ sem' = 0 /\ sync_sem' = 0
  BY <1>1, ReturnMoves DEF Release, MsgQDel
<1>3. UNCHANGED <<msgs, snd_rcv_mutex, mutex, is_wait, fdp, done>>
  BY <1>1 DEF Release, MsgQDel
<1> USE <1>1, <1>2, <1>3 DEF Moved, FdpMoved
<1>4. TypeOK'
  <2>1. /\ msgs' \in Seq(Message) /\ used' \in BOOLEAN
        /\ Capacity \in Nat /\ Cardinality(Controllers) \in Nat
    BY Counts
  <2> HIDE <1>1
  <2> QED BY <2>1 DEF TypeOK, MsgQTypeOK, Pcs
<1>5. CallOps' /\ CallsAlone' /\ MutexesHeld'
  BY DEF CallOps, CallsAlone, MutexesHeld, Critical
<1>6. Lifetime'
  BY DEF Lifetime, CallsAlone, Progress
<1>7. Messages'
  BY DEF Messages, MessageOK
<1>8. OnePlace' /\ Progress'
  BY DEF OnePlace, Progress, Queued, CallsAlone, Messages, None
<1>9. TokensMatch'
  BY Counts DEF TokensMatch, Posting
<1>10. Announced'
  BY DEF Announced
<1> QED BY <1>4, <1>5, <1>6, <1>7, <1>8, <1>9, <1>10

\* Post: the token of the message just sent.
LEMMA PostKeeps == ASSUME IInv, NEW t \in Threads, Post(t) PROVE IInv'
<1> USE Apart DEF IInv, At
<1>1. /\ thr[t].pc = "post" /\ sem' = sem + 1
      /\ Moved(t, IF thr[t].op \in Commands THEN "ack" ELSE "sent", thr[t].op)
  BY GotoMoves DEF Post, SemPost, Pcs
<1>2. UNCHANGED <<used, msgs, snd_rcv_mutex, sync_sem, player, mutex, is_wait, fdp, done>>
  BY DEF Post, SemPost
<1> USE <1>1, <1>2 DEF Moved, FdpMoved
<1>3. TypeOK'
  <2>1. used /\ sem + Cardinality(Posting) <= Len(msgs) /\ Cardinality(Posting) >= 1
    BY PostingShrinks, Counts DEF TokensMatch, Lifetime
  <2> QED BY <2>1, Counts DEF TypeOK, MsgQTypeOK, Pcs
<1>4. CallOps' /\ CallsAlone' /\ MutexesHeld'
  BY DEF CallOps, CallsAlone, MutexesHeld, Critical
<1>5. Lifetime'
  BY DEF Lifetime
<1>6. Messages'
  BY DEF Messages, MessageOK, CallOps
<1>7. OnePlace' /\ Progress'
  BY DEF OnePlace, Progress, Queued, CallOps
<1>8. TokensMatch'
  <2>1. Cardinality(Posting') = Cardinality(Posting) - 1
    BY PostingShrinks
  <2>2. Cardinality(Posting) \in Nat /\ sem \in Nat
    BY Counts
  <2> QED BY <2>1, <2>2 DEF TokensMatch
<1>9. Announced'
  <2>1. \A f \in Flags : Pending(f)' => Pending(f)
    BY DEF Pending, Sending, Sent
  <2> QED BY <2>1, AnnouncedSame
<1> QED BY <1>3, <1>4, <1>5, <1>6, <1>7, <1>8, <1>9

\* Acknowledged: the answer is the answer to this command.
LEMMA AcknowledgedKeeps == ASSUME IInv, NEW c \in Controllers, Acknowledged(c) PROVE IInv'
<1> USE Apart DEF IInv, At
<1>1. /\ thr[c].pc = "ack" /\ sync_sem > 0 /\ sync_sem' = sync_sem - 1
      /\ Moved(c, "sent", thr[c].op)
  BY GotoMoves DEF Acknowledged, TakeAck, Pcs
<1>2. UNCHANGED <<used, msgs, sem, snd_rcv_mutex, player, mutex, is_wait, fdp, done>>
  BY DEF Acknowledged, TakeAck
<1> USE <1>1, <1>2 DEF Moved, FdpMoved
<1>3. TypeOK'
  BY Counts DEF TypeOK, MsgQTypeOK, Pcs
<1>4. CallOps' /\ CallsAlone' /\ MutexesHeld'
  BY DEF CallOps, CallsAlone, MutexesHeld, Critical
<1>5. Lifetime'
  BY DEF Lifetime
<1>6. Messages'
  BY DEF Messages, MessageOK, OnePlace, Queued
<1>7. OnePlace' /\ Progress'
  BY DEF OnePlace, Progress, Queued, CallsAlone
<1>8. TokensMatch'
  BY Counts DEF TokensMatch, Posting
<1>9. Announced'
  <2>1. \A f \in Flags : Pending(f)' => Pending(f)
    BY DEF Pending, Sending, Sent
  <2> QED BY <2>1, AnnouncedSame
<1> QED BY <1>3, <1>4, <1>5, <1>6, <1>7, <1>8, <1>9

\* FdpToken: a token is taken.
LEMMA FdpTokenKeeps == ASSUME IInv, FdpToken PROVE IInv'
<1> USE Apart DEF IInv, At
<1>1. /\ fdp.pc = "wait" /\ sem > 0 /\ sem' = sem - 1
      /\ FdpMoved("lock", fdp.msg)
  BY DEF FdpToken, SemTake, FdpGoto, FdpMoved, TypeOK
<1>2. UNCHANGED <<used, msgs, snd_rcv_mutex, sync_sem, player, mutex, is_wait, thr, done>>
  BY DEF FdpToken, SemTake
<1> USE <1>1, <1>2 DEF Moved, FdpMoved
<1>3. TypeOK'
  BY Counts DEF TypeOK, MsgQTypeOK, Pcs
<1>4. CallOps' /\ CallsAlone' /\ MutexesHeld'
  BY DEF CallOps, CallsAlone, MutexesHeld, Critical
<1>5. Lifetime'
  BY DEF Lifetime
<1>6. Messages'
  BY DEF Messages, MessageOK
<1>7. OnePlace' /\ Progress'
  BY DEF OnePlace, Progress, Queued
<1>8. TokensMatch'
  BY Counts DEF TokensMatch, Posting
<1>9. Announced'
  <2>1. \A f \in Flags : Pending(f)' => Pending(f)
    BY DEF Pending, Sending, Sent
  <2> QED BY <2>1, AnnouncedSame
<1> QED BY <1>3, <1>4, <1>5, <1>6, <1>7, <1>8, <1>9

\* FdpLock: snd_rcv_mutex is taken to receive.
LEMMA FdpLockKeeps == ASSUME IInv, FdpLock PROVE IInv'
<1> USE Apart DEF IInv, At
<1>1. /\ fdp.pc = "lock" /\ snd_rcv_mutex = Free /\ snd_rcv_mutex' = Fdp
      /\ FdpMoved("rcv", fdp.msg)
  BY DEF FdpLock, MsgQLock, FdpGoto, FdpMoved, TypeOK
<1>2. UNCHANGED <<used, msgs, sem, sync_sem, player, mutex, is_wait, thr, done>>
  BY DEF FdpLock, MsgQLock
<1> USE <1>1, <1>2 DEF Moved, FdpMoved
<1>3. TypeOK'
  BY Counts DEF TypeOK, MsgQTypeOK, Pcs
<1>4. CallOps' /\ CallsAlone' /\ MutexesHeld'
  BY DEF CallOps, CallsAlone, MutexesHeld, Critical
<1>5. Lifetime'
  BY DEF Lifetime
<1>6. Messages'
  BY DEF Messages, MessageOK
<1>7. OnePlace' /\ Progress'
  BY DEF OnePlace, Progress, Queued
<1>8. TokensMatch'
  BY Counts DEF TokensMatch, Posting
<1>9. Announced'
  <2>1. \A f \in Flags : Pending(f)' => Pending(f)
    BY DEF Pending, Sending, Sent
  <2> QED BY <2>1, AnnouncedSame
<1> QED BY <1>3, <1>4, <1>5, <1>6, <1>7, <1>8, <1>9

\* Send: the message is appended, a command as the only one.
LEMMA SendKeeps == ASSUME IInv, NEW t \in Threads, Send(t) PROVE IInv'
<1> USE Apart DEF IInv, At
<1>1. /\ thr[t].pc = "snd" /\ Moved(t, "post", thr[t].op) /\ snd_rcv_mutex = t
      /\ snd_rcv_mutex' = Free /\ Len(msgs) < Capacity
      /\ UNCHANGED <<used, sem, sync_sem, player, mutex, is_wait, fdp, done>>
  BY GotoMoves DEF Send, MsgSnd, Pcs
<1> PICK m : m = MsgOf(t)
  OBVIOUS
<1> PICK n : n = Len(msgs)
  OBVIOUS
<1>2. /\ m \in Message /\ m.op = thr[t].op
      /\ t \in Controllers => m.by = t /\ m.op \in Commands
      /\ t \in CaThreads => m.by = Free /\ m.op \in Flags
  BY <1>1 DEF MsgOf, Message, CallOps
<1>3. msgs' = Append(msgs, m)
  BY DEF Send, MsgSnd
<1>4. /\ msgs' \in Seq(Message) /\ n \in Nat /\ Len(msgs') = n + 1
      /\ \A i \in 1 .. n : msgs'[i] = msgs[i]
      /\ msgs'[n + 1] = m
  BY <1>2, <1>3, Counts
<1>5. \A c \in Controllers : c # t => ~(thr[c].op = "destroy")
  BY <1>1 DEF CallsAlone
<1>6. t \in Controllers => \A c \in Controllers : thr[c].pc \notin {"post", "ack", "sent"}
  BY <1>1 DEF CallsAlone
<1>7. t \in Controllers => /\ \A i \in 1 .. n : msgs[i].by = Free
                           /\ fdp.msg.by = Free /\ sync_sem = 0
  BY <1>6 DEF Messages, MessageOK, OnePlace, None
<1> USE <1>1, <1>2, <1>4 DEF Moved
<1>8. TypeOK'
  BY Counts DEF TypeOK, MsgQTypeOK, Pcs
<1>9. CallOps' /\ CallsAlone' /\ MutexesHeld'
  BY DEF CallOps, CallsAlone, MutexesHeld, Critical
<1>10. Lifetime'
  BY <1>5 DEF Lifetime, Messages, MessageOK, None
<1>11. Messages'
  BY <1>5, <1>7 DEF Messages, MessageOK
<1>12. OnePlace' /\ Progress'
  BY <1>6, <1>7 DEF OnePlace, Progress, Queued
<1>13. TokensMatch'
  <2>1. Cardinality(Posting') = Cardinality(Posting) + 1
    BY PostingGrows
  <2>2. Cardinality(Posting) \in Nat /\ sem \in Nat /\ n \in Nat
    BY Counts
  <2> QED BY <2>1, <2>2 DEF TokensMatch
<1>14. Announced'
  <2>1. CASE t \in Controllers
    <3>1. \A i \in 1 .. n + 1, f \in Flags : Is(i, f)' => i \in 1 .. n /\ Is(i, f)
      BY <2>1 DEF Is
    <3>2. \A i \in 1 .. n + 1 : ~After(i)'
      BY <2>1 DEF After
    <3>3. \A f \in Flags : Pending(f)' => Pending(f)
      BY <2>1 DEF Pending, Sending, Sent
    <3> QED BY <3>1, <3>2, <3>3 DEF Announced
  <2>2. CASE t \in CaThreads
    <3>1. Pending(m.op) /\ ~Pending(m.op)'
      BY <2>2 DEF Pending, Sending, Sent, MutexesHeld, Critical
    <3>2. \A f \in Flags : f # m.op /\ Pending(f)' => Pending(f)
      BY <2>2 DEF Pending, Sending, Sent
    <3>3. \A i \in 1 .. n, f \in Flags : Is(i, f)' <=> Is(i, f)
      BY DEF Is
    <3>4. \A f \in Flags : Is(n + 1, f)' <=> f = m.op
      BY DEF Is
    <3>5. \A i \in 1 .. n : After(i)' => After(i)
      BY DEF After
    <3>6. (\E c \in Controllers : thr'[c].pc \in {"post", "ack", "sent"}) =>
            (\E c \in Controllers : thr[c].pc \in {"post", "ack", "sent"})
      BY <2>2
    <3>7. \A i \in 1 .. n + 1 : i \in 1 .. n \/ i = n + 1
      OBVIOUS
    <3> HIDE <1>1, <1>2
    <3>8. m.op \in Flags
      BY <1>2, <2>2
    <3>9. \A f \in Flags : \A i, j, k \in 1 .. n + 1 :
             Is(i, f)' /\ Is(j, f)' /\ Is(k, f)' => i = j \/ j = k \/ i = k
      BY <3>1, <3>3, <3>4, <3>7 DEF Announced
    <3>10. \A f \in Flags : \A i, j \in 1 .. n + 1 :
             Pending(f)' /\ Is(i, f)' /\ Is(j, f)' => i = j
      BY <3>1, <3>2, <3>3, <3>4, <3>7 DEF Announced
    <3>11. (\E c \in Controllers : thr'[c].pc \in {"post", "ack", "sent"}) =>
             \A f \in Flags : \A i \in 1 .. n + 1 : Is(i, f)' /\ After(i)' =>
               /\ ~Pending(f)'
               /\ \A j \in 1 .. n + 1 : Is(j, f)' /\ After(j)' => i = j
      BY <3>1, <3>2, <3>3, <3>4, <3>5, <3>6, <3>7 DEF Announced
    <3> QED BY <3>9, <3>10, <3>11 DEF Announced
  <2> QED BY <2>1, <2>2
<1> QED BY <1>8, <1>9, <1>10, <1>11, <1>12, <1>13, <1>14, Counts

\* FdpReceive: the token stands for a message; the first is taken.
LEMMA FdpReceiveKeeps == ASSUME IInv, FdpReceive PROVE IInv'
<1> USE Apart DEF IInv, At
<1>1. fdp.pc = "rcv" /\ snd_rcv_mutex = Fdp /\ msgs # <<>> /\ used
  BY Counts DEF FdpReceive, MsgRcv, TokensMatch, Lifetime
<1>2. /\ msgs' = Tail(msgs) /\ snd_rcv_mutex' = Free
      /\ fdp' = [pc |-> "handle", msg |-> Head(msgs)]
      /\ UNCHANGED <<used, sem, sync_sem, player, mutex, is_wait, thr, done>>
  BY <1>1 DEF FdpReceive, MsgRcv
<1> PICK n : n = Len(msgs)
  OBVIOUS
<1>3. /\ msgs' \in Seq(Message) /\ n \in Nat \ {0} /\ Len(msgs') = n - 1
      /\ \A i \in 1 .. n - 1 : msgs'[i] = msgs[i + 1] /\ i + 1 \in 1 .. n
      /\ Head(msgs) = msgs[1] /\ msgs[1] \in Message /\ 1 \in 1 .. n
  BY <1>1, <1>2, Counts
<1>4. fdp'.pc = "handle" /\ fdp'.msg = msgs[1] /\ fdp.msg = None
  BY <1>1, <1>2, <1>3 DEF Messages
<1>5. player = "alive"
  BY <1>1, <1>3 DEF Lifetime, TypeOK
<1>6. TypeOK'
  BY <1>1, <1>2, <1>3, Counts DEF TypeOK, MsgQTypeOK
<1> USE <1>1, <1>2, <1>3, <1>4, <1>5
<1>7. CallOps' /\ CallsAlone' /\ MutexesHeld'
  BY DEF CallOps, CallsAlone, MutexesHeld
<1>8. Lifetime'
  <2>1. n = 1 => msgs' = <<>>
    BY EmptySeq
  <2> QED BY <2>1 DEF Lifetime, Messages
<1>9. Messages'
  BY DEF Messages, MessageOK
<1>10. OnePlace' /\ Progress'
  <2>1. Queued' => Queued /\ msgs[1].by = Free
    BY DEF Queued, OnePlace
  <2>2. Queued => Queued' \/ msgs[1].by # Free
    <3> SUFFICES ASSUME NEW k \in 1 .. n, msgs[k].by # Free, k # 1 PROVE Queued'
      BY DEF Queued
    <3>1. k - 1 \in 1 .. n - 1 /\ msgs'[k - 1] = msgs[k]
      OBVIOUS
    <3> QED BY <3>1 DEF Queued
  <2>3. msgs[1].by # Free => Queued
    BY DEF Queued
  <2> QED BY <2>1, <2>2, <2>3 DEF OnePlace, Progress, None
<1>11. TokensMatch'
  BY Counts DEF TokensMatch, Posting
<1>12. Announced'
  <2>1. \A i \in 1 .. n - 1, f \in Flags : Is(i, f)' <=> Is(i + 1, f)
    BY DEF Is
  <2>2. \A i \in 1 .. n - 1 : After(i)' => After(i + 1)
    <3> SUFFICES ASSUME NEW i \in 1 .. n - 1, After(i)', NEW k \in 1 .. n, msgs[k].by # Free
                 PROVE  k < i + 1
      BY DEF After
    <3>1. CASE k = 1
      BY <3>1
    <3>2. CASE k # 1
      <4>1. k - 1 \in 1 .. n - 1 /\ msgs'[k - 1] = msgs[k]
        BY <3>2
      <4>2. k - 1 < i
        BY <4>1 DEF After
      <4> QED BY <4>2
    <3> QED BY <3>1, <3>2
  <2>3. \A f \in Flags : Pending(f)' <=> Pending(f)
    BY DEF Pending, Sending, Sent
  <2> QED BY <2>1, <2>2, <2>3 DEF Announced
<1> QED BY <1>6, <1>7, <1>8, <1>9, <1>10, <1>11, <1>12, Counts

\* FdpHandle: the command is executed, an announcement is done with.
LEMMA FdpHandleKeeps == ASSUME IInv, FdpHandle PROVE IInv'
<1> USE Apart DEF IInv, At
<1>1. /\ fdp.pc = "handle" /\ MessageOK(fdp.msg) /\ fdp.msg \in Message \cup {None}
      /\ player' = IF fdp.msg.op = "destroy" THEN "freed" ELSE player
      /\ UNCHANGED <<used, msgs, sem, snd_rcv_mutex, sync_sem, mutex, is_wait, thr>>
  BY DEF FdpHandle, Messages, TypeOK, msgq
<1>2. fdp.msg.by = Free => fdp' = [pc |-> "wait", msg |-> None] /\ done' = done
  BY <1>1 DEF FdpHandle, Answered, MessageOK
<1>3. fdp.msg.by # Free => /\ fdp.msg.by \in Controllers /\ fdp.msg.op = thr[fdp.msg.by].op
                           /\ thr[fdp.msg.by].pc \in {"post", "ack"}
                           /\ fdp'.pc = "ack" /\ fdp'.msg = fdp.msg
                           /\ done' \in [Controllers -> BOOLEAN] /\ done'[fdp.msg.by] = TRUE
                           /\ \A c \in Controllers : done[c] => done'[c]
  BY <1>1 DEF FdpHandle, Answered, MessageOK, FdpGoto, CallOps, TypeOK
<1>4. /\ fdp' \in [pc : {"wait", "lock", "rcv", "handle", "ack", "exit"}, msg : Message \cup {None}]
      /\ done' \in [Controllers -> BOOLEAN]
  BY <1>1, <1>2, <1>3 DEF FdpHandle, FdpGoto, TypeOK
<1> USE <1>1, <1>2, <1>3, <1>4
<1>5. TypeOK'
  BY Counts DEF TypeOK, MsgQTypeOK
<1>6. CallOps' /\ CallsAlone' /\ MutexesHeld'
  BY DEF CallOps, CallsAlone, MutexesHeld
<1>7. Lifetime'
  BY DEF Lifetime, MessageOK, None
<1>8. Messages'
  BY DEF Messages, MessageOK
<1>9. OnePlace' /\ Progress'
  BY DEF OnePlace, Progress, Queued, None, MessageOK, CallsAlone, Lifetime
<1>10. TokensMatch'
  BY Counts DEF TokensMatch, Posting
<1>11. Announced'
  <2>1. \A f \in Flags : Pending(f)' => Pending(f)
    BY DEF Pending, Sending, Sent
  <2> QED BY <2>1, AnnouncedSame
<1> QED BY <1>5, <1>6, <1>7, <1>8, <1>9, <1>10, <1>11

\* FdpAck: the answer; after a destroy the thread ends.
LEMMA FdpAckKeeps == ASSUME IInv, FdpAck PROVE IInv'
<1> USE Apart DEF IInv, At
<1>1. /\ fdp.pc = "ack" /\ fdp.msg.by \in Controllers /\ fdp.msg.op = thr[fdp.msg.by].op
      /\ thr[fdp.msg.by].pc \in {"post", "ack"} /\ done[fdp.msg.by]
  BY DEF FdpAck, Messages, MessageOK, Progress
<1>2. /\ sync_sem = 0 /\ sync_sem' = 1 /\ ~Queued
  BY <1>1 DEF OnePlace, FdpAck, Ack
<1>3. /\ fdp' = [pc |-> IF fdp.msg.op = "destroy" THEN "exit" ELSE "wait", msg |-> None]
      /\ UNCHANGED <<used, msgs, sem, snd_rcv_mutex, player, mutex, is_wait, thr, done>>
  BY DEF FdpAck, Ack, AfterAnswer
<1>4. fdp'.pc = (IF fdp.msg.op = "destroy" THEN "exit" ELSE "wait") /\ fdp'.msg = None
  BY <1>3
<1>5. TypeOK'
  BY <1>1, <1>2, <1>3, Counts DEF TypeOK, MsgQTypeOK
<1> USE <1>1, <1>2, <1>3, <1>4
<1>6. CallOps' /\ CallsAlone' /\ MutexesHeld'
  BY DEF CallOps, CallsAlone, MutexesHeld
<1>7. Lifetime'
  BY DEF Lifetime, None, CallsAlone
<1>8. Messages'
  BY DEF Messages, MessageOK
<1>9. OnePlace' /\ Progress'
  BY DEF OnePlace, Progress, Queued, None, CallsAlone, Lifetime, TypeOK
<1>10. TokensMatch'
  BY Counts DEF TokensMatch, Posting
<1>11. Announced'
  <2>1. \A f \in Flags : Pending(f)' => Pending(f)
    BY DEF Pending, Sending, Sent
  <2> QED BY <2>1, AnnouncedSame
<1> QED BY <1>5, <1>6, <1>7, <1>8, <1>9, <1>10, <1>11

-----------------------------------------------------------------------------
(* The theorems.                                                           *)

\* The queue does not exist, nobody calls.
LEMMA InvariantInit == Init => IInv
<1> SUFFICES ASSUME Init PROVE IInv
  OBVIOUS
<1> USE Apart DEF Init, MsgQInit, At
<1>1. TypeOK
  <2>1. Cardinality(Controllers) \in Nat /\ Capacity \in Nat
    BY ThreadsAssumption, CapacityAssumption, FS_CardinalityType
  <2>2. MsgQTypeOK(Message, Threads \cup {Fdp})
    <3>1. msgs \in Seq(Message)
      BY EmptySeq
    <3>2. used \in BOOLEAN
      OBVIOUS
    <3>3. sem \in 0 .. Capacity /\ sync_sem \in Nat /\ snd_rcv_mutex = Free
      BY <2>1
    <3> QED BY <3>1, <3>2, <3>3 DEF MsgQTypeOK
  <2> QED BY <2>1, <2>2 DEF TypeOK
<1>2. CallOps /\ CallsAlone /\ MutexesHeld
  BY DEF CallOps, CallsAlone, MutexesHeld, Critical
<1>3. Lifetime /\ Messages
  BY DEF Lifetime, Messages, None
<1>4. OnePlace /\ Progress
  BY DEF OnePlace, Progress, Queued, None
<1>5. TokensMatch /\ Announced /\ Len(msgs) <= Capacity
  BY CapacityAssumption DEF TokensMatch, Announced
<1> QED BY <1>1, <1>2, <1>3, <1>4, <1>5 DEF IInv

\* Every step of every thread keeps the invariant.
LEMMA InvariantStep == ASSUME Serial, Quiet PROVE IInv /\ [Next]_vars => IInv'
<1> SUFFICES ASSUME IInv, [Next]_vars PROVE IInv'
  OBVIOUS
<1>1. ASSUME NEW c \in Controllers, NEW op \in Commands, Control(c, op) PROVE IInv'
  BY <1>1, ControlKeeps
<1>2. ASSUME NEW c \in Controllers, Create(c) \/ ControllerStep(c) PROVE IInv'
  BY <1>2, Apart, CreateKeeps, TakeGiveKeeps, FindKeeps, LockKeeps, SendKeeps, PostKeeps,
     AcknowledgedKeeps, SetFlagsKeeps, ReleaseKeeps DEF ControllerStep, SendStep
<1>3. ASSUME NEW t \in CaThreads, NEW f \in Flags, Capture(t, f) PROVE IInv'
  BY <1>3, CaptureKeeps
<1>4. ASSUME NEW t \in CaThreads, CaStep(t) PROVE IInv'
  BY <1>4, Apart, CaTakeKeeps, FindKeeps, LockKeeps, SendKeeps, PostKeeps, CaClearKeeps
     DEF CaStep, SendStep
<1>5. ASSUME FdpStep PROVE IInv'
  BY <1>5, FdpTokenKeeps, FdpLockKeeps, FdpReceiveKeeps, FdpHandleKeeps, FdpAckKeeps DEF FdpStep
<1>6. ASSUME UNCHANGED vars PROVE IInv'
  <2> USE <1>6 DEF vars, msgq, IInv, At
  <2>1. TypeOK'
    BY DEF TypeOK, MsgQTypeOK
  <2>2. CallOps' /\ CallsAlone' /\ MutexesHeld'
    BY DEF CallOps, CallsAlone, MutexesHeld
  <2>3. Lifetime' /\ Messages'
    BY DEF Lifetime, Messages, MessageOK
  <2>4. OnePlace' /\ Progress'
    BY DEF OnePlace, Progress, Queued
  <2>5. TokensMatch'
    BY DEF TokensMatch, Posting
  <2>6. Announced'
    <3>1. \A f \in Flags : Pending(f)' => Pending(f)
      BY DEF Pending, Sending, Sent
    <3> QED BY <3>1, AnnouncedSame
  <2> QED BY <2>1, <2>2, <2>3, <2>4, <2>5, <2>6
<1> QED BY <1>1, <1>2, <1>3, <1>4, <1>5, <1>6 DEF Next

\* The invariant, for an application that calls one at a time and destroys
\* the player when nobody else uses it.
THEOREM Invariance == ASSUME Serial, Quiet PROVE Spec => []IInv
  BY InvariantInit, InvariantStep, PTL DEF Spec

\* Every variable keeps its type: the semaphore never counts past the kernel's
\* queue, and no answer is left over.
THEOREM TypeCorrect == ASSUME Serial, Quiet PROVE Spec => []TypeOK
<1>1. IInv => TypeOK
  BY DEF IInv
<1> QED BY <1>1, Invariance, PTL

\* mtos_messageq_send returns to a control call only after fdp_thread has
\* executed its command.
THEOREM CommandsAreExecuted == ASSUME Serial, Quiet PROVE Spec => []CommandsExecuted
<1>1. IInv => CommandsExecuted
  BY DEF IInv, Progress, CommandsExecuted
<1> QED BY <1>1, Invariance, PTL

\* SYS_MsgQWait never spends a token on an empty queue, and no message is left
\* without one, however the mutex and the post interleave.
THEOREM TokensAreExact == ASSUME Serial, Quiet PROVE Spec => []TokensMatch
<1>1. IInv => TokensMatch
  BY DEF IInv
<1> QED BY <1>1, Invariance, PTL

\* An answered destroy leaves nothing of the queue in use.
LEMMA InvDestroyLast == IInv => DestroyLast
<1> SUFFICES ASSUME IInv PROVE DestroyLast
  OBVIOUS
<1>1. player = "freed" => msgs = <<>> /\ fdp.pc \in {"ack", "exit"}
  BY DEF IInv, Lifetime
<1>2. ~used => fdp.pc = "exit"
  BY DEF IInv, Lifetime
<1>3. ASSUME NEW c \in Controllers, At(c, "sent"), thr[c].op = "destroy"
      PROVE  msgs = <<>> /\ sem = 0 /\ sync_sem = 0 /\ fdp.pc = "exit"
  <2>1. player = "freed" /\ fdp.pc = "exit" /\ msgs = <<>>
    BY <1>1, <1>3 DEF IInv, Progress
  <2>2. used
    BY <2>1 DEF IInv, Lifetime
  <2>3. \A d \in Controllers : thr[d].pc \notin {"post", "ack"}
    BY <1>3 DEF IInv, CallsAlone, At
  <2>4. sync_sem = 0
    BY <2>3 DEF IInv, OnePlace
  <2>5. sem = 0
    <3>1. sem \in Nat /\ Cardinality(Posting) \in Nat
      BY Counts DEF IInv
    <3>2. Len(msgs) = sem + Cardinality(Posting) + 0
      BY <2>1, <2>2 DEF IInv, TokensMatch
    <3> QED BY <2>1, <3>1, <3>2
  <2> QED BY <2>1, <2>4, <2>5
<1> QED BY <1>1, <1>2, <1>3 DEF DestroyLast

\* The announcements that returned before a destroy are executed before p_priv
\* is freed, and the queue is released with nothing in it, no token and no
\* answer, after fdp_thread's last use of it.
THEOREM DestroyIsLast == ASSUME Serial, Quiet PROVE Spec => []DestroyLast
  BY InvDestroyLast, Invariance, PTL

\* Messages with different flags, at most as many as there are flags.
LEMMA OnePerFlag ==
  ASSUME TypeOK, NEW S \in SUBSET (1 .. Len(msgs)),
         \A i \in S : msgs[i].op \in Flags,
         \A i, j \in S : msgs[i].op = msgs[j].op => i = j
  PROVE  IsFiniteSet(S) /\ Cardinality(S) <= Cardinality(Flags)
<1> DEFINE g == [i \in S |-> msgs[i].op]
<1>1. g \in Injection(S, Flags)
  BY DEF Injection, IsInjective
<1> QED BY <1>1, ThreadsAssumption, FS_Injection

\* A union is at most as large as its parts together.
LEMMA AtMostSum ==
  ASSUME NEW S, NEW T, IsFiniteSet(S), IsFiniteSet(T)
  PROVE  IsFiniteSet(S \cup T) /\ Cardinality(S \cup T) <= Cardinality(S) + Cardinality(T)
<1>1. S \cap T \in SUBSET S
  OBVIOUS
<1>2. IsFiniteSet(S \cap T)
  BY <1>1, FS_Subset
<1>3. Cardinality(S \cap T) \in Nat /\ Cardinality(S) \in Nat /\ Cardinality(T) \in Nat
  BY <1>2, FS_CardinalityType
<1>4. /\ IsFiniteSet(S \cup T)
      /\ Cardinality(S \cup T) = Cardinality(S) + Cardinality(T) - Cardinality(S \cap T)
  BY FS_Union
<1> QED BY <1>3, <1>4

\* The first and the second message of each flag, and the command.
LEMMA InvBounded == IInv => QueueBounded
<1> SUFFICES ASSUME IInv PROVE QueueBounded
  OBVIOUS
<1> USE DEF IInv
<1> DEFINE I == 1 .. Len(msgs)
           Cmd == {i \in I : msgs[i].by # Free}
           Ann == {i \in I : msgs[i].by = Free}
           First == {i \in Ann : \A j \in Ann : j < i => msgs[j].op # msgs[i].op}
           Second == Ann \ First
<1>1. Len(msgs) \in Nat /\ Cardinality(Flags) \in Nat
  BY Counts, ThreadsAssumption, FS_CardinalityType
<1>2. \A i \in Ann : msgs[i].op \in Flags
  BY Apart DEF Messages, MessageOK
<1>3. IsFiniteSet(I) /\ Cardinality(I) = Len(msgs)
  <2>1. \A a, b \in Int : /\ IsFiniteSet(a .. b)
                           /\ Cardinality(a .. b) = IF a > b THEN 0 ELSE b - a + 1
    BY FS_Interval, Zenon
  <2>2. 1 \in Int /\ Len(msgs) \in Int
    BY <1>1
  <2>3. /\ IsFiniteSet(I)
        /\ Cardinality(I) = IF 1 > Len(msgs) THEN 0 ELSE Len(msgs) - 1 + 1
    BY <2>1, <2>2, Zenon
  <2> QED BY <1>1, <2>3
<1>4. IsFiniteSet(First) /\ Cardinality(First) <= Cardinality(Flags)
  <2>1. \A i, j \in First : msgs[i].op = msgs[j].op => i = j
    BY <1>1
  <2>2. First \in SUBSET (1 .. Len(msgs)) /\ \A i \in First : msgs[i].op \in Flags
    BY <1>2
  <2> QED BY <2>1, <2>2, OnePerFlag
<1>5. IsFiniteSet(Second) /\ Cardinality(Second) <= Cardinality(Flags)
  <2>1. ASSUME NEW i \in Second, NEW j \in Second, msgs[i].op = msgs[j].op, i < j PROVE FALSE
    <3>1. PICK k \in Ann : k < i /\ msgs[k].op = msgs[i].op
      BY <2>1
    <3>2. k \in I /\ i \in I /\ j \in I /\ k < i /\ i < j /\ msgs[i].op \in Flags
      BY <2>1, <3>1, <1>2
    <3> HIDE DEF Second, First, Ann, I
    <3>3. Is(i, msgs[i].op) /\ Is(j, msgs[i].op) /\ Is(k, msgs[i].op)
      BY <2>1, <3>1 DEF Is
    <3>4. i = j \/ j = k \/ i = k
      BY <3>2, <3>3 DEF Announced, I
    <3> QED BY <1>1, <3>2, <3>4 DEF I
  <2>2. \A i, j \in Second : msgs[i].op = msgs[j].op => i = j
    BY <1>1, <2>1
  <2>3. Second \in SUBSET (1 .. Len(msgs)) /\ \A i \in Second : msgs[i].op \in Flags
    BY <1>2
  <2> QED BY <2>2, <2>3, OnePerFlag
<1>6. IsFiniteSet(Cmd) /\ Cardinality(Cmd) <= 1
  <2>1. \A i, j \in Cmd : i = j
    BY DEF OnePlace
  <2>2. Cmd = {} \/ \E i : Cmd = {i}
    BY <2>1
  <2> HIDE DEF Cmd
  <2>3. CASE Cmd = {}
    BY <2>3, FS_EmptySet
  <2>4. CASE \E i : Cmd = {i}
    <3> PICK i : Cmd = {i}
      BY <2>4
    <3>1. IsFiniteSet({i}) /\ Cardinality({i}) = 1
      BY FS_Singleton, Zenon
    <3> QED BY <3>1
  <2> QED BY <2>2, <2>3, <2>4
<1>7. I = (First \cup Second) \cup Cmd
  OBVIOUS
<1> HIDE DEF I, First, Second, Cmd
<1>8. /\ IsFiniteSet(First \cup Second)
      /\ Cardinality(First \cup Second) <= Cardinality(First) + Cardinality(Second)
  BY <1>4, <1>5, AtMostSum
<1>9. Cardinality(I) <= Cardinality(First \cup Second) + Cardinality(Cmd)
  BY <1>6, <1>7, <1>8, AtMostSum
<1>10. /\ Cardinality(First) \in Nat /\ Cardinality(Second) \in Nat /\ Cardinality(Cmd) \in Nat
       /\ Cardinality(First \cup Second) \in Nat
  BY <1>4, <1>5, <1>6, <1>8, FS_CardinalityType
<1> QED BY <1>1, <1>3, <1>4, <1>5, <1>6, <1>8, <1>9, <1>10 DEF QueueBounded

\* The is_wait flags bound the queue: SYS_MsgQSend never stops with
\* snd_rcv_mutex held when the kernel's queue holds two announcements of each
\* flag and a command.
THEOREM QueueIsBounded == ASSUME Serial, Quiet PROVE Spec => []QueueBounded
  BY InvBounded, Invariance, PTL
=============================================================================
