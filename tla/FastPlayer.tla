----------------------------- MODULE FastPlayer -----------------------------
(***************************************************************************)
(* The commands of the fast DVB player (kware/fastplayer) and the message  *)
(* queue they travel by.  Control threads create, switch, stop and destroy *)
(* the player and wait for its answer; the conditional-access threads      *)
(* announce what they have captured, at most once each per switch (the     *)
(* is_wait flags), holding p_priv->mutex, and wait for nothing; fdp_thread *)
(* receives, executes and answers.                                         *)
(*                                                                         *)
(* Serial: the application makes one control call at a time.  Quiet: it    *)
(* destroys the player when no other call is under way and makes none      *)
(* until the next create.  Nothing in the player enforces either, and      *)
(* nothing here says what a capture call does to a player being destroyed. *)
(*                                                                         *)
(* Left out: what the commands do to tuner, recorder and decoder, and the  *)
(* state machine fdp_thread runs when a receive times out.                 *)
(***************************************************************************)
EXTENDS MtosMsgQ, FiniteSets

CONSTANTS Controllers,   \* threads that call create, switch, stop, destroy
          CaThreads,     \* threads that report captured tables and keys
          Fdp,           \* fdp_thread
          Flags,         \* is_wait_capture_table, _capture_done, _set_cw
          Serial, Quiet

ASSUME ThreadsAssumption ==
  /\ Controllers \cap CaThreads = {}
  /\ {Fdp, Free} \cap (Controllers \cup CaThreads) = {} /\ Fdp # Free
  /\ IsFiniteSet(Controllers) /\ IsFiniteSet(CaThreads) /\ IsFiniteSet(Flags)
  /\ Flags \cap {"switch", "stop", "destroy", "none"} = {}
  /\ Serial \in BOOLEAN /\ Quiet \in BOOLEAN

VARIABLES player,        \* p_priv: "none", "alive", "freed"
          mutex,         \* the owner of p_priv->mutex
          is_wait,       \* the flags that are TRUE
          thr,           \* the calling threads: where, and in which call
          fdp,           \* fdp_thread: where, and the message in hand
          done           \* history: has the controller's command been executed?

vars == <<msgq, player, mutex, is_wait, thr, fdp, done>>

Threads == Controllers \cup CaThreads
Commands == {"switch", "stop", "destroy"}
None == [op |-> "none", by |-> Free]
Message == [op : Commands \cup Flags, by : Controllers \cup {Free}]

Init ==
  /\ MsgQInit
  /\ player = "none" /\ mutex = Free /\ is_wait = {}
  /\ thr = [t \in Threads |-> [pc |-> "idle", op |-> "none"]]
  /\ fdp = [pc |-> "exit", msg |-> None]
  /\ done = [c \in Controllers |-> FALSE]

At(t, pc) == thr[t].pc = pc
Goto(t, pc) == thr' = [thr EXCEPT ![t].pc = pc]
Return(t) == thr' = [thr EXCEPT ![t] = [pc |-> "idle", op |-> "none"]]

Closing == \E c \in Controllers : thr[c].op = "destroy"

MayCall(t) ==
  /\ At(t, "idle") /\ player = "alive"
  /\ Quiet => ~Closing
  /\ Serial /\ t \in Controllers => \A c \in Controllers : At(c, "idle")

-----------------------------------------------------------------------------
(* The calls of the interface.                                             *)

Create(c) ==
  /\ At(c, "idle") /\ player = "none" /\ ~used
  /\ MsgQCreate
  /\ player' = "alive" /\ mutex' = Free /\ is_wait' = {}
  /\ fdp' = [pc |-> "wait", msg |-> None]
  /\ UNCHANGED <<thr, done>>

\* Switch and stop first take and give the mutex, so that a capture call
\* under way ends before they go on.
Control(c, op) ==
  /\ MayCall(c)
  /\ op = "destroy" /\ Quiet => \A t \in Threads : At(t, "idle")
  /\ thr' = [thr EXCEPT ![c] = [pc |-> IF op = "destroy" THEN "find" ELSE "mutex",
                                op |-> op]]
  /\ done' = [done EXCEPT ![c] = FALSE]
  /\ UNCHANGED <<msgq, player, mutex, is_wait, fdp>>

TakeGive(c) ==
  /\ At(c, "mutex") /\ mutex = Free
  /\ Goto(c, "find")
  /\ UNCHANGED <<msgq, player, mutex, is_wait, fdp, done>>

\* start_capture_ecm, finish_capture_ecm, set_cw_done
Capture(t, f) ==
  /\ MayCall(t)
  /\ thr' = [thr EXCEPT ![t] = [pc |-> "mutex", op |-> f]]
  /\ UNCHANGED <<msgq, player, mutex, is_wait, fdp, done>>

CaTake(t) ==
  /\ At(t, "mutex") /\ mutex = Free
  /\ IF thr[t].op \in is_wait THEN mutex' = t /\ Goto(t, "find")
                              ELSE Return(t) /\ UNCHANGED mutex
  /\ UNCHANGED <<msgq, player, is_wait, fdp, done>>

\* Mutant: the flag stays set
CaClearKept(t) ==
  /\ At(t, "sent")
  /\ mutex' = Free /\ Return(t)
  /\ UNCHANGED <<msgq, player, is_wait, fdp, done>>

\* the rest of the capture calls, after the message is on its way
CaClear(t) ==
  /\ At(t, "sent")
  /\ is_wait' = is_wait \ {thr[t].op}
  /\ mutex' = Free /\ Return(t)
  /\ UNCHANGED <<msgq, player, fdp, done>>

\* the rest of switch and stop, after the answer; the mutex is not taken, so
\* that a capture call under way may clear its flag before or after this
SetFlags(c) ==
  /\ At(c, "sent") /\ thr[c].op # "destroy"
  /\ is_wait' = IF thr[c].op = "switch" THEN Flags ELSE {}
  /\ Return(c)
  /\ UNCHANGED <<msgq, player, mutex, fdp, done>>

\* the rest of destroy: mtos_messageq_release empties the queue and deletes it
Release(c) ==
  /\ At(c, "sent") /\ thr[c].op = "destroy"
  /\ IF msgs # <<>> THEN /\ Drain(Head(msgs).op \in Commands)
                         /\ UNCHANGED <<thr, player>>
                    ELSE MsgQDel /\ Return(c) /\ player' = "none"
  /\ UNCHANGED <<mutex, is_wait, fdp, done>>

-----------------------------------------------------------------------------
(* mtos_messageq_send.                                                     *)

\* SYS_MsgQSend looks the queue up; without it the call fails at once
Find(t) ==
  /\ At(t, "find")
  /\ Goto(t, IF used THEN "lock" ELSE "sent")
  /\ UNCHANGED <<msgq, player, mutex, is_wait, fdp, done>>

Lock(t) ==
  /\ At(t, "lock") /\ MsgQLock(t)
  /\ Goto(t, "snd")
  /\ UNCHANGED <<player, mutex, is_wait, fdp, done>>

MsgOf(t) == [op |-> thr[t].op, by |-> IF t \in Controllers THEN t ELSE Free]

Send(t) ==
  /\ At(t, "snd") /\ MsgSnd(t, MsgOf(t))
  /\ Goto(t, "post")
  /\ UNCHANGED <<player, mutex, is_wait, fdp, done>>

\* Mutant: destroy does not ask for an answer
PostUnsynced(t) ==
  /\ At(t, "post") /\ SemPost
  /\ Goto(t, IF thr[t].op \in {"switch", "stop"} THEN "ack" ELSE "sent")
  /\ UNCHANGED <<player, mutex, is_wait, fdp, done>>

\* is_sync is set by switch, stop and destroy
Post(t) ==
  /\ At(t, "post") /\ SemPost
  /\ Goto(t, IF thr[t].op \in Commands THEN "ack" ELSE "sent")
  /\ UNCHANGED <<player, mutex, is_wait, fdp, done>>

Acknowledged(t) ==
  /\ At(t, "ack") /\ TakeAck
  /\ Goto(t, "sent")
  /\ UNCHANGED <<player, mutex, is_wait, fdp, done>>

-----------------------------------------------------------------------------
(* fdp_thread: mtos_messageq_receive, the command, the answer.             *)

FdpGoto(pc) == fdp' = [fdp EXCEPT !.pc = pc]

FdpToken ==
  /\ fdp.pc = "wait" /\ SemTake
  /\ FdpGoto("lock")
  /\ UNCHANGED <<player, mutex, is_wait, thr, done>>

FdpLock ==
  /\ fdp.pc = "lock" /\ MsgQLock(Fdp)
  /\ FdpGoto("rcv")
  /\ UNCHANGED <<player, mutex, is_wait, thr, done>>

FdpReceive ==
  /\ fdp.pc = "rcv" /\ MsgRcv(Fdp)
  /\ fdp' = IF msgs = <<>> THEN [fdp EXCEPT !.pc = "wait"]
                           ELSE [pc |-> "handle", msg |-> Head(msgs)]
  /\ UNCHANGED <<player, mutex, is_wait, thr, done>>

\* Mutants: every command is answered; a stop is not
AnsweredAlways(op) == TRUE
AnsweredNoStop(op) == op \in {"switch", "destroy"}

\* the cases of fdp_thread's switch that call mtos_messageq_ack
Answered(op) == op \in {"switch", "stop", "destroy"}

\* The command is executed.  fdp_destroy frees p_priv before it answers.
FdpHandle ==
  /\ fdp.pc = "handle"
  /\ LET m == fdp.msg
     IN /\ done' = IF m.by = Free THEN done ELSE [done EXCEPT ![m.by] = TRUE]
        /\ player' = IF m.op = "destroy" THEN "freed" ELSE player
        /\ IF Answered(m.op) THEN FdpGoto("ack")
                             ELSE fdp' = [pc |-> "wait", msg |-> None]
  /\ UNCHANGED <<msgq, mutex, is_wait, thr>>

\* mtos_task_exit
AfterAnswer(op) == IF op = "destroy" THEN "exit" ELSE "wait"

FdpAck ==
  /\ fdp.pc = "ack" /\ Ack
  /\ fdp' = [pc |-> AfterAnswer(fdp.msg.op), msg |-> None]
  /\ UNCHANGED <<player, mutex, is_wait, thr, done>>

-----------------------------------------------------------------------------
SendStep(t) == Find(t) \/ Lock(t) \/ Send(t) \/ Post(t)

ControllerStep(c) ==
  TakeGive(c) \/ SendStep(c) \/ Acknowledged(c) \/ SetFlags(c) \/ Release(c)

CaStep(t) == CaTake(t) \/ SendStep(t) \/ CaClear(t)

FdpStep == FdpToken \/ FdpLock \/ FdpReceive \/ FdpHandle \/ FdpAck

Next ==
  \/ \E c \in Controllers :
       Create(c) \/ (\E op \in Commands : Control(c, op)) \/ ControllerStep(c)
  \/ \E t \in CaThreads : (\E f \in Flags : Capture(t, f)) \/ CaStep(t)
  \/ FdpStep

Spec == Init /\ [][Next]_vars

\* Every thread runs on; of the application only that a call goes on.
Fairness ==
  /\ \A c \in Controllers : WF_vars(ControllerStep(c))
  /\ \A t \in CaThreads : WF_vars(CaStep(t))
  /\ WF_vars(FdpStep)

FairSpec == Spec /\ Fairness

-----------------------------------------------------------------------------
TypeOK ==
  /\ MsgQTypeOK(Message, Threads \cup {Fdp})
  /\ sync_sem <= Cardinality(Controllers)
  /\ player \in {"none", "alive", "freed"}
  /\ mutex \in CaThreads \cup {Free}
  /\ is_wait \subseteq Flags
  /\ thr \in [Threads -> [pc : {"idle", "mutex", "find", "lock", "snd", "post",
                                "ack", "sent"},
                          op : Commands \cup Flags \cup {"none"}]]
  /\ fdp \in [pc : {"wait", "lock", "rcv", "handle", "ack", "exit"},
              msg : Message \cup {None}]
  /\ done \in [Controllers -> BOOLEAN]

(***************************************************************************)
(* A control call returns from mtos_messageq_send only after fdp_thread    *)
(* has executed its command (mtos_msg.h: "you need to wait the ack from    *)
(* the receiver"): no answer is left over from an earlier message, whatever*)
(* announcements lie between the commands, and a destroy releases the      *)
(* queue only after p_priv is gone.                                        *)
(***************************************************************************)
CommandsExecuted ==
  \A c \in Controllers : At(c, "sent") => done[c]

(***************************************************************************)
(* The semaphore's tokens, those taken and those still to be posted are    *)
(* one for each message of the kernel's queue, so that the msgrcv after a  *)
(* token finds a message and no message is left without one.  (SYS_MsgQWait*)
(* would spend the token for nothing and the message behind it would stay.)*)
(***************************************************************************)
Posting == {t \in Threads : At(t, "post")}

TokensMatch ==
  used => Len(msgs) = sem + Cardinality(Posting)
                      + (IF fdp.pc \in {"lock", "rcv"} THEN 1 ELSE 0)

(***************************************************************************)
(* The is_wait flags bound what the player has under way: the             *)
(* announcements of two switches and one command.  SYS_MsgQSend keeps to   *)
(* no depth, and a full kernel queue would stop its sender with            *)
(* snd_rcv_mutex held, which the receiver needs to make room.              *)
(***************************************************************************)
QueueBounded == Len(msgs) <= 2 * Cardinality(Flags) + 1

(***************************************************************************)
(* Destroy comes last: what was announced before it is executed before     *)
(* p_priv is freed, and mtos_messageq_release finds no message for         *)
(* mtos_messageq_clr to drop, no token, no answer, and fdp_thread past its *)
(* last touch of the queue, the mtos_messageq_ack after the free.  It is   *)
(* about calls that have returned: one still under way, which Quiet leaves *)
(* out and the player does not, uses p_priv and the queue after both are   *)
(* gone (the FIXMEs of drv_os.c: "might be destroied during this loop").   *)
(***************************************************************************)
DestroyLast ==
  /\ player = "freed" => msgs = <<>> /\ fdp.pc \in {"ack", "exit"}
  /\ \A c \in Controllers : At(c, "sent") /\ thr[c].op = "destroy" =>
       msgs = <<>> /\ sem = 0 /\ sync_sem = 0 /\ fdp.pc = "exit"
  /\ ~used => fdp.pc = "exit"

(***************************************************************************)
(* Switch, stop and destroy return: the mutexes, the tokens and the answer *)
(* each wait for come.                                                     *)
(***************************************************************************)
CallsReturn == \A c \in Controllers : ~At(c, "idle") ~> At(c, "idle")
=============================================================================
