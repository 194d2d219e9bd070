----------------------------- MODULE AdecEsBuf -----------------------------
(***************************************************************************)
(* The elementary-stream buffer of the audio decoder: a ring of bytes and  *)
(* a ring of packet descriptors in memory shared with the audio firmware   *)
(* (adec_es_buf_t).  One producer fills it: the demultiplexer's audio      *)
(* thread in the kernel (MT_DRV_ADEC_Write, adec_es_write) or a player in  *)
(* user space (Get_ADEC_Buffer, Put_ADEC_Buffer).  The firmware empties    *)
(* it.  A control thread starts, stops, pauses, resumes and flushes the    *)
(* decoder, and clears both rings while doing so.                          *)
(*                                                                         *)
(* No lock orders the control thread's clear with the kernel's producer:   *)
(* the producer holds g_adec_es_mutex, but start, stop and IO_ADEC_FLUSH   *)
(* do not take it.  (adec_flush_all does, round the same flush; it is      *)
(* exported and has no caller in the tree.)  ClearInside says whether a    *)
(* clear may fall between a producer's space check and its publication.    *)
(* A player's two calls are each under AVPLAY's instance lock, as is every *)
(* control operation, so there a clear can only fall between the calls.    *)
(*                                                                         *)
(* Left out: the contents of the packets, their time stamps, the dump      *)
(* buffers, the description channel's ring (a second instance of the same  *)
(* functions), the AC-4 settings, and the second share buffer: adec_start  *)
(* clears the buffer of the codec before, which its stop left clear, and   *)
(* turns to that of the new codec afterwards.                              *)
(***************************************************************************)
EXTENDS Integers

CONSTANTS S,                        \* es_buf_size
          Cnt,                      \* pkt_cnt
          Sizes,                    \* lengths of the packets handed over
          Writers,                  \* the producers that may feed the decoder
          ClearInside,              \* may a clear interrupt a hand-over?
          CmdFails                  \* may a command to the firmware fail?

ASSUME RingAssumption ==
  /\ S \in Nat \ {0}
  /\ Cnt \in Nat \ {0}
  /\ Sizes \subseteq Nat \ {0}
  /\ Writers \subseteq {"kernel", "user"}
  /\ ClearInside \in BOOLEAN
  /\ CmdFails \in BOOLEAN

VARIABLES es_rd, es_wt,             \* positions in the ring of bytes
          pkt_rd, pkt_wt,           \* positions in the ring of descriptors
          es_pkt,                   \* the descriptors
          writer,                   \* which producer feeds the decoder
          w,                        \* the producer's call in progress
          status,                   \* adev->status
          decoding,                 \* does the firmware take packets?
          ctl                       \* the control operation in progress

ring == <<es_rd, es_wt, pkt_rd, pkt_wt, es_pkt, writer>>
device == <<status, decoding, ctl>>
vars == <<ring, w, device>>

Slots == 0..(Cnt - 1)

(***************************************************************************)
(* A descriptor.  at, head and old are history: where the packet's bytes   *)
(* were put, whether the writer had to go back to the head of the ring for *)
(* it, and whether it was prepared before the last clear.                  *)
(***************************************************************************)
Descriptor == [es_rd : 0..(S - 1), size : Nat, flag : 0..1, es_ts : 0..1,
               at : 0..(S - 1), head : 0..1, old : 0..1]

Blank == [es_rd |-> 0, size |-> 0, flag |-> 0, es_ts |-> 0,
          at |-> 0, head |-> 0, old |-> 0]

\* The descriptors the firmware has still to take, by their place in line.
Place(i) == IF i >= pkt_rd THEN i - pkt_rd ELSE i + Cnt - pkt_rd
Unread == {i \in Slots : Place(i) < Place(pkt_wt)}

Init ==
  /\ es_rd = 0 /\ es_wt = 0 /\ pkt_rd = 0 /\ pkt_wt = 0
  /\ es_pkt = [i \in Slots |-> Blank] /\ writer \in Writers
  /\ w = [pc |-> "idle", size |-> 0, at |-> 0, rd |-> 0, slot |-> 0,
          head |-> 0, old |-> 0]
  /\ status = "OPENED" /\ decoding = FALSE
  /\ ctl = "idle"

-----------------------------------------------------------------------------
(***************************************************************************)
(* The space checks.  remain <= 1 means "full" for descriptors.  Bytes: a  *)
(* packet is never split, so it goes to the tail of the ring or, when that *)
(* is too short, to the head.                                              *)
(***************************************************************************)
FreeSlots == IF pkt_wt >= pkt_rd THEN Cnt - (pkt_wt - pkt_rd)
                                 ELSE pkt_rd - pkt_wt
\* Mutant: the last slot is used as well
SlotFullLate == FreeSlots <= 0
SlotFull == FreeSlots <= 1

Remain == IF es_wt >= es_rd THEN S - (es_wt - es_rd) ELSE es_rd - es_wt

\* Mutants: a byte is left at the end; the head may be filled up to es_rd
TailLonger(n) == es_wt >= es_rd /\ S - es_wt > n
HeadAsLong(n) == es_wt >= es_rd /\ S - es_wt < n /\ es_rd >= n

FitsTail(n) == es_wt >= es_rd /\ S - es_wt >= n
FitsHead(n) == es_wt >= es_rd /\ S - es_wt < n /\ es_rd > n
FitsGap(n) == es_wt < es_rd /\ es_rd - es_wt > n

Fits(n) == Remain > n /\ (FitsTail(n) \/ FitsHead(n) \/ FitsGap(n))

\* get_es_buf_remain_space answers -1 for a full ring, which Put_ADEC_Buffer
\* compares as an unsigned number: no size is above it.
Linear == IF es_wt >= es_rd THEN S - es_wt ELSE es_rd - es_wt
PutFits(n) == Remain <= 1 \/ n <= Linear

\* adec_es_buf_data_remain, u32BufferUsed
DataRemain == IF es_rd <= es_wt THEN es_wt - es_rd ELSE S - es_rd + es_wt

-----------------------------------------------------------------------------
(***************************************************************************)
(* The producer.  MT_DRV_ADEC_Write is refused unless the decoder is       *)
(* started.  After a refusal for lack of room w.size stays: a packet is    *)
(* waiting, and the producer will offer it, or another, again.  A player's *)
(* Get_ADEC_Buffer runs the same checks.                                   *)
(***************************************************************************)
Write(n) ==
  /\ w.pc = "idle"
  /\ IF writer = "kernel" THEN status = "STARTED"
                          ELSE ctl = "idle" /\ status \in {"STARTED", "PAUSED"}
  /\ w' = [w EXCEPT !.pc = "pkt", !.size = n, !.old = 0]
  /\ UNCHANGED <<ring, device>>

CheckPkt ==
  /\ w.pc = "pkt"
  /\ w' = [w EXCEPT !.pc = IF SlotFull THEN "idle" ELSE "buf"]
  /\ UNCHANGED <<ring, device>>

\* Mutant: a flag once set stays
FlagKept(flag, head) == IF head THEN 1 ELSE flag

NewFlag(flag, head) == IF head THEN 1 ELSE 0

Granted == IF writer = "kernel" THEN "copy" ELSE "held"

\* The slot's flag is reset before the space is known; going to the head
\* moves es_wt at once.
CheckBuf ==
  /\ w.pc = "buf"
  /\ LET head == Fits(w.size) /\ FitsHead(w.size)
         wt == IF head THEN 0 ELSE es_wt
     IN /\ es_wt' = wt
        /\ es_pkt' = [es_pkt EXCEPT ![pkt_wt].flag = NewFlag(@, head)]
        /\ w' = [w EXCEPT !.pc = IF Fits(w.size) THEN Granted ELSE "idle",
                          !.at = wt,
                          !.head = IF head THEN 1 ELSE @]
  /\ UNCHANGED <<es_rd, pkt_rd, pkt_wt, writer, device>>

\* adec_es_write reads es_wt again before it copies.
Copy ==
  /\ w.pc = "copy"
  /\ w' = [w EXCEPT !.pc = "advance", !.at = es_wt]
  /\ UNCHANGED <<ring, device>>

\* The player has filled n bytes of what it was granted.
Put(n) ==
  /\ w.pc = "held" /\ n <= w.size
  /\ ctl = "idle" /\ status \in {"STARTED", "PAUSED"}
  /\ w' = [w EXCEPT !.pc = IF PutFits(n) THEN "advance" ELSE "idle",
                    !.size = IF PutFits(n) THEN n ELSE 0]
  /\ UNCHANGED <<ring, device>>

\* MT_MPI_AVPLAY_PutBuf returns before it reaches the decoder: the packet
\* lies before a seek's target, the player is in trick mode, or the audio
\* channel is stopped.
Discard ==
  /\ w.pc = "held" /\ ctl = "idle"
  /\ w' = [w EXCEPT !.pc = "idle", !.size = 0]
  /\ UNCHANGED <<ring, device>>

\* Mutant: the position is not wrapped
PositionPast(p, n) == p + n

Position(p, n) == (p + n) % S

\* es_wt moves on from where it stands, past the end and back by the modulo:
\* one step here, as nobody else stores to it but a clear.  The descriptor
\* will name the place adec_es_write copied to, or the position
\* Put_ADEC_Buffer finds now.
Advance ==
  /\ w.pc = "advance"
  /\ es_wt' = Position(es_wt, w.size)
  /\ w' = [w EXCEPT !.pc = "publish",
                    !.rd = IF writer = "kernel" THEN w.at ELSE es_wt]
  /\ UNCHANGED <<es_rd, pkt_rd, pkt_wt, es_pkt, writer, device>>

\* pkt_wt++ and its modulo are one store: the ring is plain memory, with no
\* call between the two statements.
Publish ==
  /\ w.pc = "publish"
  /\ es_pkt' = [es_pkt EXCEPT ![pkt_wt] =
       [es_rd |-> w.rd, size |-> w.size, flag |-> @.flag, es_ts |-> @.es_ts,
        at |-> w.at, head |-> w.head, old |-> w.old]]
  /\ pkt_wt' = (pkt_wt + 1) % Cnt
  /\ w' = [w EXCEPT !.pc = "mark", !.slot = pkt_wt, !.head = 0]
  /\ UNCHANGED <<es_rd, es_wt, pkt_rd, writer, device>>

\* es_ts is stored after pkt_wt has moved: 1 for a transport stream's packet.
Mark ==
  /\ w.pc = "mark"
  /\ es_pkt' = [es_pkt EXCEPT ![w.slot].es_ts =
                                IF writer = "kernel" THEN 1 ELSE 0]
  /\ w' = [w EXCEPT !.pc = "idle", !.size = 0]
  /\ UNCHANGED <<es_rd, es_wt, pkt_rd, pkt_wt, writer, device>>

-----------------------------------------------------------------------------
(***************************************************************************)
(* The firmware (external) takes the oldest packet and moves both read     *)
(* positions past it.                                                      *)
(***************************************************************************)
Read ==
  /\ decoding
  /\ pkt_rd # pkt_wt
  /\ es_rd' = Position(es_pkt[pkt_rd].es_rd, es_pkt[pkt_rd].size)
  /\ pkt_rd' = (pkt_rd + 1) % Cnt
  /\ UNCHANGED <<es_wt, pkt_wt, es_pkt, writer, w, device>>

-----------------------------------------------------------------------------
(***************************************************************************)
(* The control thread.  The status is stored before the command that stops *)
(* or pauses the firmware, and after the one that starts or resumes it.  A *)
(* command that fails may leave the firmware as it was; the driver goes on *)
(* all the same, except in a flush.                                        *)
(***************************************************************************)
CtlFree ==
  /\ ctl = "idle"
  /\ writer = "user" => w.pc = "idle" \/ (ClearInside /\ w.pc = "held")

MayClear == w.pc = "idle" \/ ClearInside

Command(on) == decoding' \in IF CmdFails THEN {on, decoding} ELSE {on}

\* adec_es_buf_clear
Clear ==
  /\ es_rd' = 0 /\ es_wt' = 0 /\ pkt_rd' = 0 /\ pkt_wt' = 0
  /\ es_pkt' = [i \in Slots |-> Blank]
  /\ w' = [w EXCEPT !.head = 0, !.old = IF w.pc = "idle" THEN 0 ELSE 1]
  /\ UNCHANGED writer

Begin(op) == ctl' = op
End == ctl' = "idle"

StartClear ==
  /\ CtlFree /\ MayClear
  /\ status \notin {"STARTED", "PAUSED"}
  /\ Clear /\ Begin("start")
  /\ UNCHANGED <<status, decoding>>

StartCommand ==
  /\ ctl = "start"
  /\ Command(TRUE) /\ Begin("run")
  /\ UNCHANGED <<ring, w, status>>

\* The parameters cannot be copied from user space.
StartFailed ==
  /\ ctl = "start"
  /\ End
  /\ UNCHANGED <<ring, w, status, decoding>>

\* the end of adec_start and of adec_resume
Run ==
  /\ ctl = "run"
  /\ status' = "STARTED" /\ End
  /\ UNCHANGED <<ring, w, decoding>>

Stop ==
  /\ CtlFree
  /\ status' = "STOPED" /\ Begin("halt")
  /\ UNCHANGED <<ring, w, decoding>>

StopCommand ==
  /\ ctl = "halt"
  /\ Command(FALSE) /\ Begin("stop")
  /\ UNCHANGED <<ring, w, status>>

StopClear ==
  /\ ctl = "stop" /\ MayClear
  /\ Clear /\ End
  /\ UNCHANGED <<status, decoding>>

Pause ==
  /\ CtlFree /\ status = "STARTED"
  /\ status' = "PAUSED" /\ Begin("pause")
  /\ UNCHANGED <<ring, w, decoding>>

PauseCommand ==
  /\ ctl = "pause"
  /\ Command(FALSE) /\ End
  /\ UNCHANGED <<ring, w, status>>

Resume ==
  /\ CtlFree /\ status = "PAUSED"
  /\ Command(TRUE) /\ Begin("run")
  /\ UNCHANGED <<ring, w, status>>

\* adec_pause answers 0 without a command unless the decoder is started.
FlushPause ==
  /\ CtlFree
  /\ IF status = "STARTED" THEN status' = "PAUSED" /\ Begin("flushing")
                           ELSE UNCHANGED status /\ Begin("flush")
  /\ UNCHANGED <<ring, w, decoding>>

FlushCommand ==
  /\ ctl = "flushing"
  /\ decoding' = FALSE /\ Begin("flush")
  /\ UNCHANGED <<ring, w, status>>

\* The pause command failed: the flush gives up, the status stays "PAUSED".
FlushFailed ==
  /\ ctl = "flushing" /\ CmdFails
  /\ decoding' \in {FALSE, decoding} /\ End
  /\ UNCHANGED <<ring, w, status>>

FlushClear ==
  /\ ctl = "flush" /\ MayClear
  /\ Clear /\ Begin("flushed")
  /\ UNCHANGED <<status, decoding>>

\* adec_resume: a no-op unless the decoder is paused.
FlushResume ==
  /\ ctl = "flushed"
  /\ IF status = "PAUSED" THEN Command(TRUE) /\ Begin("run")
                          ELSE UNCHANGED decoding /\ End
  /\ UNCHANGED <<ring, w, status>>

-----------------------------------------------------------------------------
Produce ==
  \/ \E n \in Sizes : Write(n) \/ Put(n)
  \/ CheckPkt \/ CheckBuf \/ Copy \/ Discard \/ Advance \/ Publish \/ Mark

Carried == \/ StartCommand \/ Run \/ StopCommand \/ StopClear \/ PauseCommand
           \/ FlushCommand \/ FlushClear \/ FlushResume

Control ==
  \/ StartClear \/ StartFailed \/ Stop \/ Pause \/ Resume
  \/ FlushPause \/ FlushFailed \/ Carried

Next == Produce \/ Read \/ Control

Spec == Init /\ [][Next]_vars

(***************************************************************************)
(* The demultiplexer's thread goes on offering its packet and the firmware *)
(* goes on taking packets while it decodes.  Nobody has to stop, pause or  *)
(* flush, but an operation once begun ends.                                *)
(***************************************************************************)
FairSpec == /\ Spec
            /\ WF_vars(Produce) /\ WF_vars(Read)
            /\ WF_vars(Carried)

-----------------------------------------------------------------------------
Producer ==
  [pc : {"idle", "pkt", "buf", "copy", "held", "advance", "publish", "mark"},
   size : {0} \cup Sizes, at : 0..(S - 1), rd : 0..(S - 1), slot : Slots,
   head : 0..1, old : 0..1]

TypeOK ==
  /\ es_rd \in 0..(S - 1) /\ es_wt \in 0..(S - 1)
  /\ pkt_rd \in Slots /\ pkt_wt \in Slots
  /\ es_pkt \in [Slots -> Descriptor] /\ writer \in Writers
  /\ w \in Producer
  /\ status \in {"OPENED", "STARTED", "PAUSED", "STOPED"}
  /\ decoding \in BOOLEAN
  /\ ctl \in {"idle", "start", "run", "halt", "stop", "pause",
              "flushing", "flush", "flushed"}

Apart(a, n, b, m) == a + n <= b \/ b + m <= a

(***************************************************************************)
(* Every packet the firmware has still to take lies, whole, where its      *)
(* descriptor says (adec_es_write, Put_ADEC_Buffer), and no other packet   *)
(* and no copy in progress touches its bytes: the positions the checks     *)
(* compare never let the producer run into data that is not yet taken.     *)
(***************************************************************************)
Filling == w.pc \in {"held", "advance", "publish"}

Intact ==
  \A i \in Unread :
    LET p == es_pkt[i] IN
    /\ p.at = p.es_rd
    /\ p.es_rd + p.size <= S
    /\ \A j \in Unread \ {i} :
         Apart(p.es_rd, p.size, es_pkt[j].es_rd, es_pkt[j].size)
    /\ Filling => Apart(p.es_rd, p.size, w.at, w.size)

(***************************************************************************)
(* A drained ring takes any packet of at most half its length, wherever    *)
(* its positions stand (check_es_buf needs the tail or the head to be long *)
(* enough): with nothing left to take, only the check itself could keep    *)
(* the producer waiting for ever.                                          *)
(***************************************************************************)
EmptyAccepts ==
  Unread = {} /\ w.pc = "buf" /\ 2 * w.size <= S => Fits(w.size)

(***************************************************************************)
(* adec_es_buf_data_remain and u32BufferUsed answer 0 exactly when every   *)
(* packet has been taken, for the kernel's producer between two packets.   *)
(***************************************************************************)
RemainTold ==
  writer = "kernel" /\ w.pc = "idle" => (DataRemain = 0 <=> Unread = {})

(***************************************************************************)
(* The flag of a descriptor (adec_api.h: "es buf right spce not enough,    *)
(* write from head") is set for the packets written at the head because    *)
(* the tail was too short, and for no other, by the kernel's producer.     *)
(***************************************************************************)
FlagMarksHead ==
  writer = "kernel" => \A i \in Unread : es_pkt[i].flag = es_pkt[i].head

(***************************************************************************)
(* A flush drops everything that was handed over before it                 *)
(* (MT_UNF_AVPLAY_Flush_Audio: "Flush audio all input and output           *)
(* buffers"): once it has resumed, no packet prepared before a clear is    *)
(* there to be taken.                                                      *)
(***************************************************************************)
FlushDrops == status = "STARTED" => \A i \in Unread : es_pkt[i].old = 0

(***************************************************************************)
(* The two rings are a queue of packets: none lost, doubled or reordered,  *)
(* and none dropped while the decoder is started (adec_es_write,           *)
(* Put_ADEC_Buffer and the three callers of adec_es_buf_clear).            *)
(***************************************************************************)
Queued == [k \in 1..Place(pkt_wt) |->
             LET p == es_pkt[(pkt_rd + k - 1) % Cnt]
             IN [start |-> p.es_rd, size |-> p.size]]

PQ == INSTANCE PacketQueue WITH Depth <- Cnt - 1, Length <- S,
                         queue <- Queued, started <- (status = "STARTED")

ImplementsPacketQueue == PQ!Spec

(***************************************************************************)
(* A packet on offer is taken in, unless the decoder leaves the started    *)
(* state or a failed command leaves the firmware idle: MT_DRV_ADEC_Write's *)
(* "buffer full" is never the answer for ever.                             *)
(***************************************************************************)
WriteCompletes ==
  w.size # 0 ~> w.size = 0 \/ status # "STARTED" \/ ~decoding
=============================================================================
