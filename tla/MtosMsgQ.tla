------------------------------ MODULE MtosMsgQ ------------------------------
(***************************************************************************)
(* A message queue of the mtos layer (kware/mtos: mtos_msg.c over drv_os.c):*)
(* a System V queue of the kernel (external), a semaphore with a token for *)
(* every message, snd_rcv_mutex around each msgsnd and msgrcv, and         *)
(* sync_sem, on which the sender of a synchronous message waits for the    *)
(* receiver's mtos_messageq_ack.                                           *)
(*                                                                         *)
(* The actions below change the queue only; a module that has threads      *)
(* conjoins them with its threads' program counters.                       *)
(*                                                                         *)
(* Left out: the depth given to mtos_messageq_create, which the code       *)
(* stores and never looks at; interrupted system calls, which are repeated;*)
(* messages with an attached buffer (is_ext), which nobody here sends.     *)
(***************************************************************************)
EXTENDS Integers, Sequences

CONSTANTS Capacity,      \* messages the kernel's queue holds (msg_qbytes)
          Free           \* the owner of a mutex nobody holds

ASSUME CapacityAssumption == Capacity \in Nat \ {0}

VARIABLES used,          \* msgq_ctrl[].used, queueMgr[].msgId # -1
          msgs,          \* the kernel's queue
          sem,           \* queueMgr[].sem
          snd_rcv_mutex, \* its owner
          sync_sem       \* msgq_ctrl[].sync_sem

msgq == <<used, msgs, sem, snd_rcv_mutex, sync_sem>>

MsgQInit ==
  /\ used = FALSE /\ msgs = <<>> /\ sem = 0 /\ sync_sem = 0
  /\ snd_rcv_mutex = Free

\* mtos_messageq_create
MsgQCreate ==
  /\ used' = TRUE /\ msgs' = <<>> /\ sem' = 0 /\ sync_sem' = 0
  /\ snd_rcv_mutex' = Free

MsgQLock(t) ==
  /\ snd_rcv_mutex = Free
  /\ snd_rcv_mutex' = t
  /\ UNCHANGED <<used, msgs, sem, sync_sem>>

\* msgsnd waits for room with snd_rcv_mutex held; the mutex is given back
\* afterwards, before the token is posted.
MsgSnd(t, m) ==
  /\ snd_rcv_mutex = t /\ Len(msgs) < Capacity
  /\ msgs' = Append(msgs, m)
  /\ snd_rcv_mutex' = Free
  /\ UNCHANGED <<used, sem, sync_sem>>

\* sem_post
SemPost ==
  /\ sem' = sem + 1
  /\ UNCHANGED <<used, msgs, snd_rcv_mutex, sync_sem>>

\* Mutant: the token is looked at and not taken
SemSeen ==
  /\ sem > 0
  /\ UNCHANGED msgq

\* SYS_SemTimedwait got the token (a timeout changes nothing)
SemTake ==
  /\ sem > 0
  /\ sem' = sem - 1
  /\ UNCHANGED <<used, msgs, snd_rcv_mutex, sync_sem>>

\* msgrcv with IPC_NOWAIT: with nothing there the token is spent for nothing
MsgRcv(t) ==
  /\ snd_rcv_mutex = t
  /\ msgs' = IF msgs = <<>> THEN msgs ELSE Tail(msgs)
  /\ snd_rcv_mutex' = Free
  /\ UNCHANGED <<used, sem, sync_sem>>

\* mtos_messageq_ack
Ack ==
  /\ sync_sem' = sync_sem + 1
  /\ UNCHANGED <<used, msgs, sem, snd_rcv_mutex>>

\* the sender of a synchronous message goes on
TakeAck ==
  /\ sync_sem > 0
  /\ sync_sem' = sync_sem - 1
  /\ UNCHANGED <<used, msgs, sem, snd_rcv_mutex>>

\* mtos_messageq_clr takes one message and answers it if it is synchronous
Drain(sync) ==
  /\ snd_rcv_mutex = Free /\ msgs # <<>> /\ sem > 0
  /\ msgs' = Tail(msgs) /\ sem' = sem - 1
  /\ sync_sem' = IF sync THEN sync_sem + 1 ELSE sync_sem
  /\ UNCHANGED <<used, snd_rcv_mutex>>

\* SYS_MsgQDel and mtos_sem_destroy
MsgQDel ==
  /\ msgs = <<>>
  /\ used' = FALSE /\ sem' = 0 /\ sync_sem' = 0
  /\ UNCHANGED <<msgs, snd_rcv_mutex>>

MsgQTypeOK(Message, Threads) ==
  /\ used \in BOOLEAN
  /\ msgs \in Seq(Message)
  /\ sem \in 0..Capacity /\ sync_sem \in Nat
  /\ snd_rcv_mutex \in Threads \cup {Free}
=============================================================================
