-------------------------- MODULE AdecEsBufProofs --------------------------
(***************************************************************************)
(* Proofs about AdecEsBuf, for every length of the two rings and every set *)
(* of packet lengths.  The properties about packets hold as long as no     *)
(* clear interrupts a hand-over (~ClearInside).                            *)
(*                                                                         *)
(* Intact is not inductive: that the next packet fits depends on where the *)
(* unread packets lie relative to the two positions.  The strengthening    *)
(* measures every place by its distance from es_rd (Key): the unread       *)
(* packets follow one another in queue order and end before the writer's   *)
(* front, and a granted packet ends before es_rd comes round again.        *)
(***************************************************************************)
EXTENDS AdecEsBuf, Sequences, TLAPS

\* A place in the ring of bytes, counted on from es_rd.
Key(x) == IF x >= es_rd THEN x ELSE x + S

EndOf(i) == es_pkt[i].es_rd + es_pkt[i].size

Granting == w.pc \in {"copy", "held", "advance", "publish"}

\* Where the unread packets end: es_wt, unless it has already been moved
\* past a packet that is not yet published.
Front == IF w.pc = "publish" THEN w.at ELSE es_wt

Sized == /\ w.pc # "idle" => w.size \in Nat \ {0}
         /\ w.pc = "held" => writer = "user"

Whole ==
  \A i \in Unread :
    /\ es_pkt[i].size >= 1
    /\ EndOf(i) <= S
    /\ es_pkt[i].at = es_pkt[i].es_rd
    /\ Key(es_pkt[i].es_rd) + es_pkt[i].size <= Key(Front)

Ordered ==
  \A i, j \in Unread :
    Place(i) < Place(j) =>
      Key(es_pkt[i].es_rd) + es_pkt[i].size <= Key(es_pkt[j].es_rd)

Room ==
  Granting =>
    /\ w.at + w.size <= S
    /\ Key(w.at) + w.size < es_rd + S
    /\ IF w.pc = "publish"
         THEN es_wt = Position(w.at, w.size) /\ w.rd = w.at
         ELSE es_wt = w.at

SlotKept == w.pc \in {"buf", "copy", "held", "advance", "publish"}
              => FreeSlots >= 2

\* The last unread packet, or es_rd when there is none, ends at the front,
\* or in the second half of the ring when the writer went to the head.
Meets(e) ==
  \/ e = Front
  \/ Front = 0 /\ (e = S \/ (2 * e > S /\ (writer = "user" \/ Granting)))

Drained ==
  /\ pkt_rd = pkt_wt => Meets(es_rd)
  /\ \A i \in Unread : Place(i) + 1 = Place(pkt_wt) => Meets(EndOf(i))

IInv == Sized /\ Whole /\ Ordered /\ Room /\ SlotKept /\ Drained

\* w.head stays set across a player's discarded packets; the kernel's
\* producer has always published what it went to the head for.
Flagged ==
  writer = "kernel" =>
    /\ ~Granting => w.head = 0
    /\ Granting => es_pkt[pkt_wt].flag = w.head
    /\ FlagMarksHead

(***************************************************************************)
(* Arithmetic.                                                             *)
(***************************************************************************)
\* One step past the end of a ring leads back to its start.
LEMMA ModStep == ASSUME NEW N \in Nat \ {0}, NEW x \in 0..N
                 PROVE x % N = IF x = N THEN 0 ELSE x
  BY Z3

\* A remainder is a position of the ring.
LEMMA ModRange == ASSUME NEW N \in Nat \ {0}, NEW x \in Nat
                  PROVE x % N \in 0..(N - 1)
  BY Z3

(***************************************************************************)
(* Type correctness.                                                       *)
(***************************************************************************)
\* Every descriptor written by a clear is one.
LEMMA BlankType == Blank \in Descriptor
  BY RingAssumption DEF Blank, Descriptor

\* A packet's length is a number.
LEMMA SizeNat == TypeOK => w.size \in Nat
<1> SUFFICES ASSUME TypeOK PROVE w.size \in Nat
  OBVIOUS
<1>1. w.size \in {0} \cup Sizes
  BY DEF TypeOK, Producer
<1>2. Sizes \subseteq Nat
  BY RingAssumption
<1>3. 0 \in Nat
  OBVIOUS
<1> QED BY <1>1, <1>2, <1>3, Zenon

\* The producer's call stays one when a component is replaced.
LEMMA ProducerUpdate ==
  ASSUME NEW r \in Producer
  PROVE  /\ \A n \in Sizes : [r EXCEPT !.size = n] \in Producer
         /\ \A i \in Slots : [r EXCEPT !.slot = i] \in Producer
         /\ [r EXCEPT !.head = 0] \in Producer
         /\ \A b \in 0..1 : [r EXCEPT !.old = b] \in Producer
         /\ [r EXCEPT !.old = 0] \in Producer
         /\ [r EXCEPT !.pc = "pkt"] \in Producer
         /\ [r EXCEPT !.pc = "mark"] \in Producer
  BY DEF Producer

\* The producer's steps keep the types.
LEMMA ProduceType == TypeOK /\ Produce => TypeOK'
<1> SUFFICES ASSUME TypeOK, Produce PROVE TypeOK'
  OBVIOUS
<1> USE RingAssumption DEF TypeOK, ring, device, Slots, Producer
<1>1. ASSUME NEW n \in Sizes, Write(n) PROVE TypeOK'
  <2>1. w' = [w EXCEPT !.pc = "pkt", !.size = n, !.old = 0]
    BY <1>1 DEF Write
  <2> DEFINE w1 == [w EXCEPT !.pc = "pkt"]
             w2 == [w1 EXCEPT !.size = n]
  <2>2. w' \in Producer
    <3>1. w1 \in Producer
      <4> HIDE DEF Producer, Slots
      <4> QED BY ProducerUpdate
    <3>2. w2 \in Producer
      <4> HIDE DEF w1, Producer, TypeOK, Slots
      <4> QED BY <3>1, ProducerUpdate
    <3>3. [w2 EXCEPT !.old = 0] \in Producer
      <4> HIDE DEF w2, Producer, TypeOK, Slots
      <4> QED BY <3>2, ProducerUpdate
    <3> QED BY <2>1, <3>3
  <2> QED BY <1>1, <2>2 DEF Write
<1>2. ASSUME NEW n \in Sizes, Put(n) PROVE TypeOK'
  BY <1>2 DEF Put
<1>3. CASE CheckPkt
  BY <1>3 DEF CheckPkt
<1>4. CASE CheckBuf
  <2> DEFINE head == Fits(w.size) /\ FitsHead(w.size)
             flag == NewFlag(es_pkt[pkt_wt].flag, head)
  <2>1. flag \in 0..1
    BY DEF NewFlag
  <2>2. es_pkt' = [es_pkt EXCEPT ![pkt_wt].flag = flag]
    BY <1>4 DEF CheckBuf
  <2>3. es_pkt' \in [Slots -> Descriptor]
    <3> HIDE DEF flag
    <3>1. es_pkt[pkt_wt] \in Descriptor
      OBVIOUS
    <3>2. [es_pkt[pkt_wt] EXCEPT !.flag = flag] \in Descriptor
      BY <2>1, <3>1 DEF Descriptor
    <3> QED BY <2>2, <3>2
  <2> DEFINE wt == IF head THEN 0 ELSE es_wt
             hd == IF head THEN 1 ELSE w.head
             pc == IF Fits(w.size) THEN Granted ELSE "idle"
  <2>4. wt \in 0..(S - 1) /\ hd \in 0..1 /\ pc \in {"idle", "copy", "held"}
    BY DEF Granted
  <2>5. es_wt' = wt /\ w' = [w EXCEPT !.pc = pc, !.at = wt, !.head = hd]
    BY <1>4 DEF CheckBuf
  <2>6. es_wt' \in 0..(S - 1) /\ w' \in Producer
    <3> HIDE DEF wt, hd, pc
    <3> QED BY <2>4, <2>5
  <2> QED BY <1>4, <2>3, <2>6 DEF CheckBuf
<1>5. CASE Copy
  BY <1>5 DEF Copy
<1>6. CASE Discard
  BY <1>6 DEF Discard
<1>7. CASE Advance
  <2>1. Position(es_wt, w.size) \in 0..(S - 1)
    <3>1. es_wt + w.size \in Nat
      BY SizeNat
    <3> QED BY <3>1, ModRange DEF Position
  <2> QED BY <1>7, <2>1 DEF Advance
<1>8. CASE Publish
  <2>1. pkt_wt' \in Slots
    BY <1>8, ModRange DEF Publish
  <2>2. [es_rd |-> w.rd, size |-> w.size, flag |-> es_pkt[pkt_wt].flag,
         es_ts |-> es_pkt[pkt_wt].es_ts, at |-> w.at, head |-> w.head,
         old |-> w.old] \in Descriptor
    <3>1. es_pkt[pkt_wt] \in Descriptor
      OBVIOUS
    <3>2. w.size \in Nat
      BY SizeNat
    <3> QED BY <3>1, <3>2 DEF Descriptor
  <2>3. es_pkt' \in [Slots -> Descriptor]
    BY <1>8, <2>2 DEF Publish
  <2>4. w' \in Producer
    <3>1. w' = [w EXCEPT !.pc = "mark", !.slot = pkt_wt, !.head = 0]
      BY <1>8 DEF Publish
    <3> DEFINE w1 == [w EXCEPT !.pc = "mark"]
               w2 == [w1 EXCEPT !.slot = pkt_wt]
    <3>2. w1 \in Producer /\ pkt_wt \in Slots
      <4> HIDE DEF Producer, Slots
      <4> QED BY ProducerUpdate
    <3>3. w2 \in Producer
      <4> HIDE DEF w1, Producer, TypeOK, Slots
      <4> QED BY <3>2, ProducerUpdate
    <3>4. [w2 EXCEPT !.head = 0] \in Producer
      <4> HIDE DEF w2, Producer, TypeOK, Slots
      <4> QED BY <3>3, ProducerUpdate
    <3> QED BY <3>1, <3>4
  <2> QED BY <1>8, <2>1, <2>3, <2>4 DEF Publish
<1>9. CASE Mark
  <2> DEFINE ts == IF writer = "kernel" THEN 1 ELSE 0
  <2>1. es_pkt' \in [Slots -> Descriptor]
    <3>1. w.slot \in Slots /\ es_pkt[w.slot] \in Descriptor /\ ts \in 0..1
      OBVIOUS
    <3>2. es_pkt' = [es_pkt EXCEPT ![w.slot].es_ts = ts]
      BY <1>9 DEF Mark
    <3> HIDE DEF ts
    <3>3. [es_pkt[w.slot] EXCEPT !.es_ts = ts] \in Descriptor
      BY <3>1 DEF Descriptor
    <3> QED BY <3>1, <3>2, <3>3
  <2> QED BY <1>9, <2>1 DEF Mark
<1> QED BY <1>1, <1>2, <1>3, <1>4, <1>5, <1>6, <1>7, <1>8, <1>9 DEF Produce

\* A clear keeps the types.
LEMMA ClearType == ASSUME TypeOK, Clear
                   PROVE /\ es_rd' \in 0..(S - 1) /\ es_wt' \in 0..(S - 1)
                         /\ pkt_rd' \in Slots /\ pkt_wt' \in Slots
                         /\ es_pkt' \in [Slots -> Descriptor]
                         /\ writer' \in Writers
                         /\ w' \in Producer
<1>1. es_pkt' \in [Slots -> Descriptor]
  BY BlankType DEF Clear
<1>2. w' \in Producer
  <2> DEFINE old == IF w.pc = "idle" THEN 0 ELSE 1
  <2>1. old \in 0..1 /\ w' = [w EXCEPT !.head = 0, !.old = old]
    BY DEF Clear
  <2> HIDE DEF old
  <2> DEFINE w1 == [w EXCEPT !.head = 0]
  <2>2. w1 \in Producer
    BY ProducerUpdate DEF TypeOK
  <2> QED BY <2>1, <2>2, ProducerUpdate
<1> QED BY <1>1, <1>2, RingAssumption DEF Clear, Slots, TypeOK

\* The control thread's steps keep the types.
LEMMA ControlType == TypeOK /\ Control => TypeOK'
<1> SUFFICES ASSUME TypeOK, Control PROVE TypeOK'
  OBVIOUS
<1>1. CASE StartClear
  BY <1>1, ClearType DEF StartClear, Begin, TypeOK
<1>2. CASE StartCommand \/ Resume
  BY <1>2 DEF StartCommand, Resume, Command, Begin, TypeOK, ring
<1>3. CASE StartFailed
  BY <1>3 DEF StartFailed, End, TypeOK, ring
<1>4. CASE Run
  BY <1>4 DEF Run, End, TypeOK, ring
<1>5. CASE Stop \/ Pause
  BY <1>5 DEF Stop, Pause, Begin, TypeOK, ring
<1>6. CASE StopCommand \/ PauseCommand
  BY <1>6 DEF StopCommand, PauseCommand, Command, Begin, End, TypeOK, ring
<1>7. CASE StopClear
  BY <1>7, ClearType DEF StopClear, End, TypeOK
<1>8. CASE FlushPause
  BY <1>8 DEF FlushPause, Begin, TypeOK, ring
<1>9. CASE FlushCommand \/ FlushFailed
  BY <1>9 DEF FlushCommand, FlushFailed, Begin, End, TypeOK, ring
<1>10. CASE FlushClear
  BY <1>10, ClearType DEF FlushClear, Begin, TypeOK
<1>11. CASE FlushResume
  BY <1>11 DEF FlushResume, Command, Begin, End, TypeOK, ring
<1> QED BY <1>1, <1>2, <1>3, <1>4, <1>5, <1>6, <1>7, <1>8, <1>9, <1>10, <1>11
        DEF Control, Carried

\* Every step keeps the types.
LEMMA TypeStep == TypeOK /\ [Next]_vars => TypeOK'
<1> SUFFICES ASSUME TypeOK, [Next]_vars PROVE TypeOK'
  OBVIOUS
<1>1. CASE Read
  <2>1. es_pkt[pkt_rd] \in Descriptor
    BY DEF TypeOK
  <2>2. es_rd' \in 0..(S - 1)
    <3>1. es_pkt[pkt_rd].es_rd + es_pkt[pkt_rd].size \in Nat
      BY <2>1, RingAssumption DEF Descriptor
    <3> QED BY <1>1, <3>1, RingAssumption, ModRange DEF Read, Position
  <2>3. pkt_rd' \in Slots
    BY <1>1, RingAssumption, ModRange DEF Read, Slots, TypeOK
  <2> QED BY <1>1, <2>2, <2>3 DEF Read, device, TypeOK
<1>2. CASE UNCHANGED vars
  BY <1>2 DEF vars, ring, device, TypeOK
<1> QED BY <1>1, <1>2, ProduceType, ControlType DEF Next

\* The initial state has the types.
LEMMA TypeInit == Init => TypeOK
<1> SUFFICES ASSUME Init PROVE TypeOK
  OBVIOUS
<1>1. es_pkt \in [Slots -> Descriptor]
  BY BlankType DEF Init
<1>2. w \in Producer
  BY RingAssumption DEF Init, Producer, Slots
<1>3. es_rd \in 0..(S - 1) /\ es_wt \in 0..(S - 1)
  BY RingAssumption DEF Init
<1>4. pkt_rd \in Slots /\ pkt_wt \in Slots
  BY RingAssumption DEF Init, Slots
<1> QED BY <1>1, <1>2, <1>3, <1>4 DEF Init, TypeOK

\* The four positions stay inside their rings and every descriptor is one,
\* whatever interrupts whatever (adec_es_write, Put_ADEC_Buffer,
\* adec_es_buf_clear and the firmware each move them).
THEOREM TypeCorrect == Spec => []TypeOK
  BY TypeInit, TypeStep, PTL DEF Spec

(***************************************************************************)
(* The ring of descriptors.                                                *)
(***************************************************************************)
\* Facts about the types in the form the steps below use them.
LEMMA Ranges ==
  ASSUME TypeOK
  PROVE  /\ S \in Nat \ {0} /\ Cnt \in Nat \ {0}
         /\ es_rd \in 0..(S - 1) /\ es_wt \in 0..(S - 1)
         /\ pkt_rd \in 0..(Cnt - 1) /\ pkt_wt \in 0..(Cnt - 1)
         /\ w.at \in 0..(S - 1) /\ w.size \in Nat
         /\ \A i \in Slots : /\ es_pkt[i].es_rd \in 0..(S - 1)
                             /\ es_pkt[i].size \in Nat
<1>1. \A i \in Slots : es_pkt[i] \in Descriptor
  BY DEF TypeOK
<1>2. \A i \in Slots : es_pkt[i].es_rd \in 0..(S - 1) /\ es_pkt[i].size \in Nat
  BY <1>1 DEF Descriptor
<1>3. w.at \in 0..(S - 1)
  BY DEF TypeOK, Producer
<1> QED BY <1>2, <1>3, SizeNat, RingAssumption DEF TypeOK, Slots

\* The firmware's step takes the head of the line and moves the others up.
LEMMA ReadSlots ==
  ASSUME TypeOK, pkt_rd # pkt_wt, pkt_wt' = pkt_wt,
         pkt_rd' = (pkt_rd + 1) % Cnt
  PROVE  /\ pkt_rd \in Unread /\ Place(pkt_rd) = 0
         /\ \A i \in Unread' : /\ i \in Unread /\ i \in Slots /\ i # pkt_rd
                              /\ Place(i) > 0 /\ Place(i)' = Place(i) - 1
         /\ Place(pkt_wt)' = Place(pkt_wt) - 1
         /\ pkt_rd' = pkt_wt' <=> Place(pkt_wt) = 1
<1>1. pkt_rd' = IF pkt_rd + 1 = Cnt THEN 0 ELSE pkt_rd + 1
  <2>1. pkt_rd + 1 \in 0..Cnt
    BY Ranges
  <2> QED BY <2>1, ModStep, Ranges
<1> QED BY <1>1, Ranges DEF Unread, Place, Slots

\* Publishing puts the next descriptor at the end of the line.
LEMMA PublishSlots ==
  ASSUME TypeOK, FreeSlots >= 2, pkt_rd' = pkt_rd,
         pkt_wt' = (pkt_wt + 1) % Cnt
  PROVE  /\ pkt_wt \notin Unread
         /\ Unread' = Unread \cup {pkt_wt}
         /\ \A i \in Slots : Place(i)' = Place(i)
         /\ Place(pkt_wt)' = Place(pkt_wt) + 1
         /\ \A i \in Unread : Place(i) < Place(pkt_wt)
         /\ pkt_rd' # pkt_wt'
<1>1. pkt_wt' = IF pkt_wt + 1 = Cnt THEN 0 ELSE pkt_wt + 1
  <2>1. pkt_wt + 1 \in 0..Cnt
    BY Ranges
  <2> QED BY <2>1, ModStep, Ranges
<1>2. \A i \in Slots : Place(i)' = Place(i)
  BY DEF Place
<1>3. Place(pkt_wt)' = Place(pkt_wt) + 1 /\ pkt_rd' # pkt_wt'
  BY <1>1, Ranges DEF Place, FreeSlots
<1>4. \A i \in Slots : Place(i) = Place(pkt_wt) <=> i = pkt_wt
  BY Ranges DEF Place, Slots
<1>5. \A i \in Slots : Place(i) \in Nat
  BY Ranges DEF Place, Slots
<1>6. Unread' = Unread \cup {pkt_wt}
  BY <1>2, <1>3, <1>4, <1>5, Ranges DEF Unread, Slots
<1>7. pkt_wt \notin Unread
  BY <1>5, Ranges DEF Unread, Slots
<1> QED BY <1>2, <1>3, <1>6, <1>7 DEF Unread

(***************************************************************************)
(* The strengthened invariant, step by step.                               *)
(***************************************************************************)
\* A step that leaves the rings and the producer alone leaves IInv alone.
LEMMA QuietStep == ASSUME IInv, UNCHANGED <<ring, w>> PROVE IInv'
  BY DEF IInv, ring, Sized, Whole, Ordered, Room, SlotKept, Drained, Meets,
         Granting, Front, EndOf, Key, Unread, Place, FreeSlots, Position

\* So does one that moves the producer between steps that hold nothing.
LEMMA IdleStep ==
  ASSUME IInv, TypeOK, UNCHANGED ring, ~Granting, ~Granting', Sized', SlotKept'
  PROVE  IInv'
<1>1. Front' = Front
  BY DEF Granting, Front, ring
<1>2. Unread' = Unread
  BY DEF Unread, Place, ring
<1>3. Whole' /\ Ordered'
  BY <1>1, <1>2 DEF IInv, Whole, Ordered, Key, EndOf, Place, ring
<1>4. Drained'
  BY <1>1, <1>2 DEF IInv, Drained, Meets, EndOf, Place, ring
<1>5. Room'
  BY DEF Room
<1> QED BY <1>3, <1>4, <1>5 DEF IInv

\* A clear between two hand-overs establishes it anew.
LEMMA ClearStep == ASSUME TypeOK, Clear, w.pc = "idle" PROVE IInv'
<1>1. w'.pc = "idle"
  BY DEF Clear, TypeOK, Producer
<1>2. Unread' = {}
  BY Ranges DEF Clear, Unread, Place, Slots
<1>3. Drained'
  BY <1>1, <1>2 DEF Clear, Drained, Meets, Front
<1> QED BY <1>1, <1>2, <1>3
        DEF IInv, Sized, Whole, Ordered, Room, SlotKept, Granting

\* The firmware takes the packet at the head of the line.
LEMMA ReadStep == ASSUME IInv, TypeOK, Read PROVE IInv'
<1> DEFINE p == es_pkt[pkt_rd]
           e == p.es_rd + p.size
<1>1. /\ pkt_rd # pkt_wt /\ UNCHANGED <<es_wt, pkt_wt, es_pkt, writer, w>>
      /\ es_rd' = Position(p.es_rd, p.size) /\ pkt_rd' = (pkt_rd + 1) % Cnt
  BY DEF Read, device
<1>2. /\ pkt_rd \in Unread /\ Place(pkt_rd) = 0
      /\ \A i \in Unread' : /\ i \in Unread /\ i \in Slots /\ i # pkt_rd
                           /\ Place(i) > 0 /\ Place(i)' = Place(i) - 1
      /\ Place(pkt_wt)' = Place(pkt_wt) - 1
      /\ pkt_rd' = pkt_wt' <=> Place(pkt_wt) = 1
  BY <1>1, ReadSlots
<1>3. /\ p.es_rd \in 0..(S - 1) /\ p.size \in Nat /\ p.size >= 1 /\ e <= S
      /\ Key(p.es_rd) + p.size <= Key(Front)
  BY <1>2, Ranges DEF IInv, Whole, EndOf, Unread
<1>4. es_rd' = IF e = S THEN 0 ELSE e
  <2>1. e \in 0..S
    BY <1>3, Ranges
  <2>2. es_rd' = e % S
    BY <1>1 DEF Position
  <2> HIDE DEF e
  <2> QED BY <2>1, <2>2, ModStep, Ranges
<1>5. Front' = Front /\ (Granting' <=> Granting) /\ Front \in 0..(S - 1)
  BY <1>1, Ranges DEF Front, Granting
<1>6. /\ es_rd' \in 0..(S - 1)
      /\ \A x \in 0..(S - 1) : Key(p.es_rd) + p.size <= Key(x) =>
           Key(x)' - es_rd' = Key(x) - (Key(p.es_rd) + p.size)
  BY <1>3, <1>4, Ranges DEF Key
<1> HIDE DEF e
<1>7. Whole'
  <2> SUFFICES ASSUME NEW i \in Unread'
               PROVE  /\ es_pkt[i].size >= 1 /\ EndOf(i) <= S
                      /\ es_pkt[i].at = es_pkt[i].es_rd
                      /\ Key(es_pkt[i].es_rd)' + es_pkt[i].size <= Key(Front)'
    BY <1>1 DEF Whole, EndOf, Key
  <2>1. /\ es_pkt[i].es_rd \in 0..(S - 1) /\ es_pkt[i].size \in Nat
        /\ es_pkt[i].size >= 1 /\ EndOf(i) <= S
        /\ es_pkt[i].at = es_pkt[i].es_rd
        /\ Key(es_pkt[i].es_rd) + es_pkt[i].size <= Key(Front)
    BY <1>2, Ranges DEF IInv, Whole
  <2>2. Key(p.es_rd) + p.size <= Key(es_pkt[i].es_rd)
    BY <1>2 DEF IInv, Ordered
  <2>3. Key(es_pkt[i].es_rd)' - es_rd' = Key(es_pkt[i].es_rd) - (Key(p.es_rd) + p.size)
    BY <1>1, <1>6, <2>1, <2>2 DEF Key
  <2>4. Key(Front)' - es_rd' = Key(Front) - (Key(p.es_rd) + p.size)
    BY <1>3, <1>5, <1>6 DEF Key
  <2> QED BY <2>1, <2>3, <2>4, <1>1, <1>3, <1>5, <1>6, Ranges DEF Key
<1>8. Ordered'
  <2> SUFFICES ASSUME NEW i \in Unread', NEW j \in Unread', Place(i)' < Place(j)'
               PROVE  Key(es_pkt[i].es_rd)' + es_pkt[i].size <= Key(es_pkt[j].es_rd)'
    BY <1>1 DEF Ordered
  <2>1. /\ Place(i) \in Int /\ Place(j) \in Int
        /\ es_pkt[i].es_rd \in 0..(S - 1) /\ es_pkt[i].size \in Nat
        /\ es_pkt[j].es_rd \in 0..(S - 1)
    BY <1>2, Ranges DEF Place, Slots
  <2>2. Place(i) < Place(j)
    BY <1>2, <2>1
  <2>3. /\ Key(p.es_rd) + p.size <= Key(es_pkt[i].es_rd)
        /\ Key(p.es_rd) + p.size <= Key(es_pkt[j].es_rd)
        /\ Key(es_pkt[i].es_rd) + es_pkt[i].size <= Key(es_pkt[j].es_rd)
    BY <1>2, <2>2 DEF IInv, Ordered
  <2>4. /\ Key(es_pkt[i].es_rd)' - es_rd' = Key(es_pkt[i].es_rd) - (Key(p.es_rd) + p.size)
        /\ Key(es_pkt[j].es_rd)' - es_rd' = Key(es_pkt[j].es_rd) - (Key(p.es_rd) + p.size)
    BY <1>1, <1>6, <2>1, <2>3 DEF Key
  <2> QED BY <2>1, <2>3, <2>4, <1>1, <1>3, <1>6, Ranges DEF Key
<1>9. Room'
  <2> SUFFICES ASSUME Granting PROVE Key(w.at)' + w.size < es_rd' + S
    BY <1>1, <1>5 DEF IInv, Room, Position, Key
  <2>1. Front = w.at /\ Key(w.at) + w.size < es_rd + S
    BY DEF IInv, Room, Front
  <2>2. Key(w.at)' - es_rd' = Key(w.at) - (Key(p.es_rd) + p.size)
    BY <1>1, <1>3, <1>6, <2>1, Ranges DEF Key
  <2> QED BY <1>1, <1>3, <1>6, <2>1, <2>2, Ranges DEF Key
<1>10. SlotKept'
  <2>1. FreeSlots' >= FreeSlots
    <3>1. pkt_rd' = IF pkt_rd + 1 = Cnt THEN 0 ELSE pkt_rd + 1
      BY <1>1, ModStep, Ranges
    <3>2. /\ pkt_wt' = pkt_wt /\ pkt_rd # pkt_wt /\ Cnt \in Nat
          /\ pkt_rd \in 0..(Cnt - 1) /\ pkt_wt \in 0..(Cnt - 1)
      BY <1>1, Ranges
    <3> QED BY <3>1, <3>2 DEF FreeSlots
  <2> QED BY <1>1, <2>1, Ranges DEF IInv, SlotKept, FreeSlots
<1>11. Drained'
  <2>1. \A x : Meets(x)' <=> Meets(x)
    BY <1>1, <1>5 DEF Meets
  <2>2. ASSUME NEW i \in Unread', Place(i)' + 1 = Place(pkt_wt)' PROVE Meets(EndOf(i))'
    <3>1. Place(i) + 1 = Place(pkt_wt)
      BY <1>2, <2>2, Ranges DEF Place, Slots
    <3> QED BY <1>1, <1>2, <2>1, <3>1 DEF IInv, Drained, EndOf
  <2>3. ASSUME pkt_rd' = pkt_wt' PROVE Meets(es_rd)'
    <3>1. Meets(e)
      BY <1>2, <2>3 DEF IInv, Drained, EndOf, e
    <3>2. CASE e = S
      <4>1. Front = 0
        BY <1>5, <3>1, <3>2, Ranges DEF Meets
      <4> QED BY <1>4, <1>5, <3>2, <4>1 DEF Meets
    <3>3. CASE e # S
      BY <1>4, <1>5, <3>1, <3>3, <2>1
    <3> QED BY <3>2, <3>3
  <2> QED BY <2>2, <2>3 DEF Drained
<1> QED BY <1>1, <1>7, <1>8, <1>9, <1>10, <1>11 DEF IInv, Sized

\* Slots are checked first.
LEMMA CheckPktStep == ASSUME IInv, TypeOK, CheckPkt PROVE IInv'
<1>1. w'.pc \in {"idle", "buf"} /\ w'.size = w.size /\ w.pc = "pkt" /\ UNCHANGED ring
  BY DEF CheckPkt, TypeOK, Producer
<1>2. SlotKept'
  <2>1. w'.pc = "buf" => ~SlotFull
    BY DEF CheckPkt, TypeOK, Producer
  <2> QED BY <1>1, <2>1, Ranges DEF SlotKept, SlotFull, FreeSlots, ring
<1> QED BY <1>1, <1>2, IdleStep DEF Granting, IInv, Sized

\* Then bytes: what check_es_buf grants ends before es_rd comes round.
LEMMA CheckBufStep == ASSUME IInv, TypeOK, CheckBuf PROVE IInv'
<1> DEFINE n == w.size
           head == Fits(n) /\ FitsHead(n)
           wt == IF head THEN 0 ELSE es_wt
<1>1. /\ w.pc = "buf" /\ UNCHANGED <<es_rd, pkt_rd, pkt_wt, writer>>
      /\ es_wt' = wt /\ w'.at = wt /\ w'.size = n
      /\ w'.pc = IF Fits(n) THEN Granted ELSE "idle"
      /\ \A i \in Slots : /\ es_pkt'[i].es_rd = es_pkt[i].es_rd
                          /\ es_pkt'[i].size = es_pkt[i].size
                          /\ es_pkt'[i].at = es_pkt[i].at
  BY DEF CheckBuf, TypeOK, Producer, Descriptor
<1>2. /\ Granted \in {"copy", "held"} /\ w'.pc \in {"copy", "held", "idle"}
      /\ Granting' <=> Fits(n)
  BY <1>1 DEF Granted, Granting
<1>3. n \in Nat \ {0} /\ FreeSlots >= 2
  BY <1>1 DEF IInv, Sized, SlotKept
<1>4. Sized' /\ SlotKept'
  <2>1. writer' \in {"kernel", "user"}
    BY <1>1, RingAssumption DEF TypeOK
  <2> QED BY <1>1, <1>3, <2>1 DEF Sized, SlotKept, FreeSlots, Granted
<1>5. /\ Unread' = Unread
      /\ \A i \in Slots : Place(i)' = Place(i) /\ EndOf(i)' = EndOf(i)
      /\ Place(pkt_wt)' = Place(pkt_wt)
      /\ \A x : Key(x)' = Key(x)
  BY <1>1 DEF Unread, Place, EndOf, Key
<1>6. Front = es_wt /\ Front' = wt
  BY <1>1, <1>2 DEF Front
<1>7. head => /\ es_wt >= es_rd /\ S - es_wt < n /\ es_rd > n
              /\ Key(0) = S /\ Key(es_wt) = es_wt
  BY <1>3, Ranges DEF FitsHead, Key
<1>8. Room'
  <2> SUFFICES ASSUME Fits(n) PROVE wt + n <= S /\ Key(wt) + n < es_rd + S
    BY <1>1, <1>2, <1>5 DEF Room
  <2>1. CASE head
    BY <1>3, <1>7, <2>1, Ranges
  <2>2. CASE ~head
    BY <1>3, <2>2, Ranges DEF Fits, FitsTail, FitsHead, FitsGap, Remain, Key
  <2> QED BY <2>1, <2>2
<1>9. Key(es_wt) <= Key(wt)
  BY <1>7, Ranges DEF Key
<1> HIDE DEF wt, head
<1>10. Whole'
  <2> SUFFICES ASSUME NEW i \in Unread
               PROVE  Key(es_pkt[i].es_rd) + es_pkt[i].size <= Key(wt)
    BY <1>1, <1>5, <1>6 DEF IInv, Whole, Unread
  <2>1. Key(es_pkt[i].es_rd) + es_pkt[i].size <= Key(es_wt)
    BY <1>6 DEF IInv, Whole
  <2> QED BY <1>9, <2>1, Ranges DEF Key, Unread, wt
<1>11. Ordered'
  BY <1>1, <1>5 DEF IInv, Ordered, Unread
<1>12. Drained'
  <2>1. CASE ~head
    <3>1. \A x : Meets(x) => Meets(x)'
      BY <1>1, <1>6, <2>1 DEF Meets, Granting, wt
    <3> QED BY <1>1, <1>5, <3>1 DEF IInv, Drained, Unread
  <2>2. CASE head
    <3>1. Granting' /\ Front' = 0
      BY <1>2, <1>6, <2>2 DEF head, wt
    <3>2. \A x \in Nat : Meets(x) => Meets(x)'
      <4> SUFFICES ASSUME NEW x \in Nat, Meets(x) PROVE x = S \/ 2 * x > S
        BY <3>1 DEF Meets
      <4> QED BY <1>3, <1>6, <1>7, <2>2, Ranges DEF Meets
    <3>3. es_rd \in Nat /\ \A i \in Slots : EndOf(i) \in Nat
      BY Ranges DEF EndOf
    <3> QED BY <1>1, <1>5, <3>2, <3>3 DEF IInv, Drained, Unread
  <2> QED BY <2>1, <2>2
<1> QED BY <1>4, <1>8, <1>10, <1>11, <1>12 DEF IInv

\* The producer offers a packet.
LEMMA WriteStep ==
  ASSUME IInv, TypeOK, NEW n \in Sizes, Write(n) PROVE IInv'
<1>1. w'.pc = "pkt" /\ w'.size = n /\ w.pc = "idle" /\ UNCHANGED ring
  BY DEF Write, TypeOK, Producer
<1>2. Sized' /\ SlotKept'
  BY <1>1, RingAssumption DEF Sized, SlotKept
<1> QED BY <1>1, <1>2, IdleStep DEF Granting

\* Steps that neither move a position nor publish: the front stays.
LEMMA HoldStep ==
  ASSUME IInv, TypeOK, UNCHANGED ring, w.pc # "publish", w'.pc # "publish",
         Granting => writer = "user" \/ Granting',
         Sized', SlotKept', Room'
  PROVE  IInv'
<1>1. Front' = Front
  BY DEF Front, ring
<1>2. Unread' = Unread
  BY DEF Unread, Place, ring
<1>3. Whole' /\ Ordered'
  BY <1>1, <1>2 DEF IInv, Whole, Ordered, Key, EndOf, Place, ring
<1>4. \A x : Meets(x) => Meets(x)'
  BY <1>1 DEF Meets, ring
<1>5. Drained'
  BY <1>2, <1>4 DEF IInv, Drained, EndOf, Place, ring
<1> QED BY <1>3, <1>5 DEF IInv

\* adec_es_write copies to where it was granted room.
LEMMA CopyStep == ASSUME IInv, TypeOK, Copy PROVE IInv'
<1>1. /\ w.pc = "copy" /\ w'.pc = "advance" /\ w'.at = es_wt
      /\ w'.size = w.size /\ UNCHANGED ring
  BY DEF Copy, TypeOK, Producer
<1>2. w.at = es_wt
  BY <1>1 DEF IInv, Room, Granting
<1>3. Room'
  BY <1>1, <1>2 DEF IInv, Room, Granting, Key, ring
<1>4. Sized' /\ SlotKept'
  BY <1>1 DEF IInv, Sized, SlotKept, FreeSlots, ring
<1> QED BY <1>1, <1>3, <1>4, HoldStep DEF Granting

\* A player commits part of what it was granted, or is refused.
LEMMA PutStep ==
  ASSUME IInv, TypeOK, NEW n \in Sizes, Put(n) PROVE IInv'
<1>1. /\ w.pc = "held" /\ n <= w.size /\ UNCHANGED ring
      /\ w'.at = w.at
      /\ \/ w'.pc = "advance" /\ w'.size = n
         \/ w'.pc = "idle"
  BY DEF Put, TypeOK, Producer
<1>2. n \in Nat \ {0}
  BY RingAssumption
<1>3. Room'
  <2> SUFFICES ASSUME w'.pc = "advance", w'.size = n PROVE Room'
    BY <1>1 DEF Room, Granting
  <2>1. /\ w.at + w.size <= S /\ Key(w.at) + w.size < es_rd + S /\ es_wt = w.at
    BY <1>1 DEF IInv, Room, Granting
  <2>2. w.at + n <= S /\ Key(w.at) + n < es_rd + S
    BY <1>1, <1>2, <2>1, Ranges DEF Key
  <2> QED BY <1>1, <2>1, <2>2 DEF Room, Granting, Key, ring
<1>4. Sized' /\ SlotKept' /\ writer = "user"
  BY <1>1, <1>2 DEF IInv, Sized, SlotKept, FreeSlots, ring
<1> QED BY <1>1, <1>3, <1>4, HoldStep

\* A player's packet is dropped; es_wt may stay at the head.
LEMMA DiscardStep == ASSUME IInv, TypeOK, Discard PROVE IInv'
<1>1. w.pc = "held" /\ w'.pc = "idle" /\ UNCHANGED ring
  BY DEF Discard, TypeOK, Producer
<1>2. Sized' /\ SlotKept' /\ Room' /\ writer = "user"
  BY <1>1 DEF IInv, Sized, SlotKept, Room, Granting
<1> QED BY <1>1, <1>2, HoldStep

\* es_wt moves past the packet before the packet is published.
LEMMA AdvanceStep == ASSUME IInv, TypeOK, Advance PROVE IInv'
<1>1. /\ w.pc = "advance" /\ w'.pc = "publish" /\ w'.at = w.at
      /\ w'.size = w.size /\ es_wt' = Position(es_wt, w.size)
      /\ w'.rd = IF writer = "kernel" THEN w.at ELSE es_wt
      /\ UNCHANGED <<es_rd, pkt_rd, pkt_wt, es_pkt>>
  BY DEF Advance, TypeOK, Producer
<1>2. es_wt = w.at /\ w.at + w.size <= S /\ Key(w.at) + w.size < es_rd + S
  BY <1>1 DEF IInv, Room, Granting
<1>3. Front' = Front /\ Granting /\ Granting'
  BY <1>1, <1>2 DEF Front, Granting
<1>4. Unread' = Unread
  BY <1>1 DEF Unread, Place
<1>5. Whole' /\ Ordered'
  BY <1>1, <1>3, <1>4 DEF IInv, Whole, Ordered, Key, EndOf, Place
<1>6. Room'
  BY <1>1, <1>2 DEF Room, Key, Position
<1>7. Drained'
  <2>1. \A x : Meets(x) => Meets(x)'
    BY <1>3 DEF Meets
  <2> QED BY <1>1, <1>4, <2>1 DEF IInv, Drained, EndOf, Place
<1>8. Sized' /\ SlotKept'
  BY <1>1 DEF IInv, Sized, SlotKept, FreeSlots
<1> QED BY <1>5, <1>6, <1>7, <1>8 DEF IInv

\* The published packet is the last in line and ends at es_wt.
LEMMA PublishStep == ASSUME IInv, TypeOK, Publish PROVE IInv'
<1> DEFINE k == pkt_wt
           e == w.at + w.size
<1>1. /\ w.pc = "publish" /\ w'.pc = "mark" /\ w'.size = w.size
      /\ pkt_wt' = (pkt_wt + 1) % Cnt /\ UNCHANGED <<es_rd, es_wt, pkt_rd>>
      /\ es_pkt'[k].es_rd = w.rd /\ es_pkt'[k].size = w.size
      /\ es_pkt'[k].at = w.at
      /\ \A i \in Slots \ {k} : es_pkt'[i] = es_pkt[i]
  BY DEF Publish, TypeOK, Producer
<1>2. /\ w.rd = w.at /\ es_wt = Position(w.at, w.size)
      /\ e <= S /\ Key(w.at) + w.size < es_rd + S
      /\ w.size \in Nat \ {0} /\ FreeSlots >= 2 /\ Front = w.at
  BY <1>1 DEF IInv, Room, Granting, Sized, SlotKept, Front
<1>3. /\ k \notin Unread /\ Unread' = Unread \cup {k}
      /\ \A i \in Slots : Place(i)' = Place(i)
      /\ Place(pkt_wt)' = Place(k) + 1
      /\ \A i \in Unread : Place(i) < Place(k)
      /\ pkt_rd' # pkt_wt'
  BY <1>1, <1>2, PublishSlots
<1>4. es_wt = IF e = S THEN 0 ELSE e
  <2>1. e \in 0..S
    BY <1>2, Ranges
  <2>2. es_wt = e % S
    BY <1>2 DEF Position
  <2> HIDE DEF e
  <2> QED BY <2>1, <2>2, ModStep, Ranges
<1>5. Front' = es_wt /\ ~Granting' /\ (\A x : Key(x)' = Key(x)) /\ Key(Front)' = Key(es_wt)
  BY <1>1 DEF Front, Granting, Key
<1>6. Key(w.at) + w.size = Key(es_wt)
  BY <1>2, <1>4, Ranges DEF Key
<1>7. Whole'
  <2> SUFFICES ASSUME NEW i \in Unread'
               PROVE  /\ es_pkt'[i].size >= 1
                      /\ es_pkt'[i].es_rd + es_pkt'[i].size <= S
                      /\ es_pkt'[i].at = es_pkt'[i].es_rd
                      /\ Key(es_pkt'[i].es_rd) + es_pkt'[i].size <= Key(es_wt)
    BY <1>5 DEF Whole, EndOf
  <2>1. CASE i = k
    BY <1>1, <1>2, <1>6, <2>1, Ranges DEF Key
  <2>2. CASE i # k
    <3>1. i \in Unread /\ i \in Slots /\ es_pkt'[i] = es_pkt[i]
      BY <1>1, <1>3, <2>2 DEF Unread
    <3>2. Key(es_pkt[i].es_rd) + es_pkt[i].size <= Key(w.at)
      BY <1>2, <3>1 DEF IInv, Whole
    <3>3. Key(es_pkt[i].es_rd) + es_pkt[i].size <= Key(es_wt)
      BY <1>2, <1>6, <3>1, <3>2, Ranges DEF Key
    <3> QED BY <3>1, <3>3 DEF IInv, Whole, EndOf
  <2> QED BY <2>1, <2>2
<1>8. Ordered'
  <2> SUFFICES ASSUME NEW i \in Unread', NEW j \in Unread', Place(i)' < Place(j)'
               PROVE  Key(es_pkt'[i].es_rd) + es_pkt'[i].size <= Key(es_pkt'[j].es_rd)
    BY <1>5 DEF Ordered
  <2>1. i \in Slots /\ j \in Slots /\ Place(i) < Place(j) /\ Place(k) \in Int
    BY <1>3, Ranges DEF Unread, Place, Slots
  <2>2. i # k
    <3>1. ~(Place(k) < Place(k)) /\ \A x \in Unread : ~(Place(k) < Place(x))
      BY <1>3, <2>1, Ranges DEF Place, Unread, Slots
    <3> QED BY <1>3, <2>1, <3>1
  <2>3. i \in Unread /\ es_pkt'[i] = es_pkt[i]
    BY <1>1, <1>3, <2>1, <2>2
  <2>4. CASE j = k
    BY <1>1, <1>2, <2>3, <2>4 DEF IInv, Whole
  <2>5. CASE j # k
    BY <1>1, <1>3, <2>1, <2>3, <2>5 DEF IInv, Ordered
  <2> QED BY <2>4, <2>5
<1>9. Drained'
  <2> SUFFICES ASSUME NEW i \in Unread', Place(i)' + 1 = Place(pkt_wt)'
               PROVE  Meets(EndOf(i))'
    BY <1>3 DEF Drained
  <2>1. i = k
    <3>1. i \in Slots /\ Place(i) = Place(k)
      BY <1>3, Ranges DEF Unread, Place, Slots
    <3>2. \A x \in Unread : Place(x) # Place(k)
      BY <1>3, Ranges DEF Unread, Place, Slots
    <3> QED BY <1>3, <3>1, <3>2
  <2>2. EndOf(i)' = e
    BY <1>1, <1>2, <2>1 DEF EndOf
  <2>3. e = es_wt \/ (es_wt = 0 /\ e = S)
    BY <1>4
  <2> HIDE DEF e
  <2> QED BY <1>5, <2>2, <2>3 DEF Meets
<1>10. Sized' /\ Room' /\ SlotKept'
  BY <1>1, <1>2 DEF Sized, Room, Granting, SlotKept
<1> QED BY <1>7, <1>8, <1>9, <1>10 DEF IInv

\* Marking the published packet changes nothing the invariant speaks of.
LEMMA MarkStep == ASSUME IInv, TypeOK, Mark PROVE IInv'
<1>1. /\ w.pc = "mark" /\ w'.pc = "idle"
      /\ UNCHANGED <<es_rd, es_wt, pkt_rd, pkt_wt, writer>>
      /\ \A i \in Slots : /\ es_pkt'[i].es_rd = es_pkt[i].es_rd
                          /\ es_pkt'[i].size = es_pkt[i].size
                          /\ es_pkt'[i].at = es_pkt[i].at
  BY DEF Mark, TypeOK, Producer, Descriptor
<1>2. /\ Unread' = Unread /\ Front' = Front /\ ~Granting /\ ~Granting'
      /\ \A x : Key(x)' = Key(x)
      /\ \A i \in Slots : EndOf(i)' = EndOf(i) /\ Place(i)' = Place(i)
      /\ Place(pkt_wt)' = Place(pkt_wt)
  BY <1>1 DEF Unread, Place, Front, Granting, Key, EndOf
<1>3. Whole' /\ Ordered'
  BY <1>1, <1>2 DEF IInv, Whole, Ordered, Unread
<1>4. Drained'
  <2>1. \A x : Meets(x) => Meets(x)'
    BY <1>1, <1>2 DEF Meets
  <2> QED BY <1>1, <1>2, <2>1 DEF IInv, Drained, Unread
<1>5. Sized' /\ Room' /\ SlotKept'
  BY <1>1 DEF Sized, Room, Granting, SlotKept
<1> QED BY <1>3, <1>4, <1>5 DEF IInv

\* The control thread's steps that clear nothing leave rings and producer alone.
Steering == \/ StartCommand \/ StartFailed \/ Run \/ Stop \/ StopCommand
            \/ Pause \/ PauseCommand \/ Resume
            \/ FlushPause \/ FlushCommand \/ FlushFailed \/ FlushResume

LEMMA SteeringKeeps == ASSUME Steering PROVE UNCHANGED <<ring, w>>
  BY DEF Steering, StartCommand, StartFailed, Run, Stop, StopCommand, Pause,
         PauseCommand, Resume, FlushPause, FlushCommand, FlushFailed, FlushResume

\* Every step keeps the strengthened invariant.
LEMMA InvStep ==
  ASSUME ~ClearInside, IInv, TypeOK, [Next]_vars PROVE IInv'
<1>1. CASE Produce
  BY <1>1, WriteStep, PutStep, CheckPktStep, CheckBufStep, CopyStep,
     DiscardStep, AdvanceStep, PublishStep, MarkStep DEF Produce
<1>2. CASE Read
  BY <1>2, ReadStep
<1>3. CASE StartClear \/ StopClear \/ FlushClear
  <2>1. Clear /\ w.pc = "idle"
    BY <1>3 DEF StartClear, StopClear, FlushClear, MayClear
  <2> QED BY <2>1, ClearStep
<1>4. CASE Steering
  <2>1. UNCHANGED <<ring, w>>
    BY <1>4, SteeringKeeps
  <2> QED BY <2>1, QuietStep
<1>5. CASE UNCHANGED vars
  <2>1. UNCHANGED <<ring, w>>
    BY <1>5 DEF vars
  <2> QED BY <2>1, QuietStep
<1> QED BY <1>1, <1>2, <1>3, <1>4, <1>5 DEF Next, Control, Carried, Steering

\* It holds at the start.
LEMMA InvInit == Init => IInv
<1> SUFFICES ASSUME Init PROVE IInv
  OBVIOUS
<1>1. w.pc = "idle" /\ es_rd = 0 /\ es_wt = 0 /\ pkt_rd = 0 /\ pkt_wt = 0
  BY DEF Init
<1>2. Unread = {}
  BY <1>1, RingAssumption DEF Unread, Place, Slots
<1>3. Drained
  BY <1>1, <1>2 DEF Drained, Meets, Front
<1> QED BY <1>1, <1>2, <1>3
        DEF IInv, Sized, Whole, Ordered, Room, SlotKept, Granting

\* The strengthened invariant holds throughout.
LEMMA InvAlways == ASSUME ~ClearInside PROVE Spec => [](TypeOK /\ IInv)
<1>1. Init => TypeOK /\ IInv
  BY InvInit, TypeInit
<1>2. TypeOK /\ IInv /\ [Next]_vars => (TypeOK /\ IInv)'
  BY TypeStep, InvStep
<1> QED BY <1>1, <1>2, PTL DEF Spec

(***************************************************************************)
(* The theorems.                                                           *)
(***************************************************************************)
\* Packets lie where their descriptors say, apart from one another and from
\* the copy in progress.
LEMMA InvIntact == ASSUME TypeOK, IInv PROVE Intact
<1> SUFFICES ASSUME NEW i \in Unread
             PROVE  /\ es_pkt[i].at = es_pkt[i].es_rd
                    /\ es_pkt[i].es_rd + es_pkt[i].size <= S
                    /\ \A j \in Unread \ {i} :
                         Apart(es_pkt[i].es_rd, es_pkt[i].size,
                               es_pkt[j].es_rd, es_pkt[j].size)
                    /\ Filling => Apart(es_pkt[i].es_rd, es_pkt[i].size, w.at, w.size)
  BY DEF Intact
<1>1. \A j \in Unread :
         /\ j \in Slots /\ es_pkt[j].es_rd \in 0..(S - 1) /\ es_pkt[j].size \in Nat
         /\ es_pkt[j].size >= 1 /\ es_pkt[j].es_rd + es_pkt[j].size <= S
         /\ Key(es_pkt[j].es_rd) + es_pkt[j].size <= Key(Front)
  BY Ranges DEF IInv, Whole, EndOf, Unread
<1>2. \A a, b \in 0..(S - 1), n, m \in Nat :
         /\ a + n <= S /\ b + m <= S /\ n >= 1 /\ m >= 1
         /\ Key(a) + n <= Key(b) /\ Key(b) + m <= es_rd + S
         => Apart(a, n, b, m)
  BY Ranges DEF Key, Apart
<1>3. Front \in 0..(S - 1) /\ Key(Front) <= es_rd + S
  BY Ranges DEF Front, Key
<1>4. ASSUME NEW j \in Unread \ {i}
      PROVE  Apart(es_pkt[i].es_rd, es_pkt[i].size, es_pkt[j].es_rd, es_pkt[j].size)
  <2>1. Place(i) < Place(j) \/ Place(j) < Place(i)
    BY <1>1, <1>4, Ranges DEF Place, Slots
  <2>2. /\ Key(es_pkt[i].es_rd) + es_pkt[i].size <= es_rd + S
        /\ Key(es_pkt[j].es_rd) + es_pkt[j].size <= es_rd + S
    BY <1>1, <1>3, Ranges DEF Key
  <2>3. CASE Place(i) < Place(j)
    <3>1. Key(es_pkt[i].es_rd) + es_pkt[i].size <= Key(es_pkt[j].es_rd)
      BY <2>3 DEF IInv, Ordered
    <3> QED BY <1>1, <1>2, <2>2, <3>1
  <2>4. CASE Place(j) < Place(i)
    <3>1. Key(es_pkt[j].es_rd) + es_pkt[j].size <= Key(es_pkt[i].es_rd)
      BY <2>4 DEF IInv, Ordered
    <3>2. Apart(es_pkt[j].es_rd, es_pkt[j].size, es_pkt[i].es_rd, es_pkt[i].size)
      BY <1>1, <1>2, <2>2, <3>1
    <3> QED BY <3>2 DEF Apart
  <2> QED BY <2>1, <2>3, <2>4
<1>5. ASSUME Filling PROVE Apart(es_pkt[i].es_rd, es_pkt[i].size, w.at, w.size)
  <2>1. /\ w.at + w.size <= S /\ Key(w.at) + w.size < es_rd + S
        /\ Front = w.at /\ w.size \in Nat /\ w.size >= 1
    BY <1>5 DEF IInv, Room, Granting, Filling, Sized, Front
  <2>2. Key(w.at) + w.size <= es_rd + S
    BY <2>1, Ranges DEF Key
  <2> QED BY <1>1, <1>2, <2>1, <2>2, Ranges
<1> QED BY <1>4, <1>5 DEF IInv, Whole, EndOf

\* No hand-over overwrites a packet the firmware has still to take, for
\* every length of the rings and every set of packet lengths.
THEOREM PacketsIntact == ASSUME ~ClearInside PROVE Spec => []Intact
  BY InvAlways, InvIntact, PTL

\* With nothing left to take the positions in the ring of descriptors agree.
LEMMA NoneUnread == ASSUME TypeOK, Unread = {} PROVE pkt_rd = pkt_wt
<1> SUFFICES ASSUME pkt_rd # pkt_wt PROVE pkt_rd \in Unread
  OBVIOUS
<1>1. /\ Cnt \in Nat \ {0}
      /\ pkt_rd \in 0..(Cnt - 1) /\ pkt_wt \in 0..(Cnt - 1)
  BY Ranges
<1>2. Place(pkt_rd) = 0
  BY <1>1 DEF Place
<1>3. Place(pkt_wt) > 0
  BY <1>1 DEF Place
<1> QED BY <1>1, <1>2, <1>3 DEF Unread, Slots

\* With nothing left to take there is room for a packet of half the ring.
LEMMA InvEmptyAccepts == ASSUME TypeOK, IInv PROVE EmptyAccepts
<1> SUFFICES ASSUME Unread = {}, w.pc = "buf", 2 * w.size <= S
             PROVE  Fits(w.size)
  BY DEF EmptyAccepts
<1>1. pkt_rd = pkt_wt
  BY NoneUnread
<1>2. Front = es_wt /\ w.size \in Nat \ {0}
  BY DEF Front, IInv, Sized
<1>3. es_rd = es_wt \/ (es_wt = 0 /\ 2 * es_rd > S)
  BY <1>1, <1>2, Ranges DEF IInv, Drained, Meets
<1>4. S \in Nat \ {0} /\ es_rd \in 0..(S - 1) /\ es_wt \in 0..(S - 1)
  BY Ranges
<1> DEFINE n == w.size
<1>5. n \in Nat \ {0} /\ 2 * n <= S
  BY <1>2
<1> HIDE DEF n
<1>6. Remain > n /\ (FitsTail(n) \/ FitsHead(n) \/ FitsGap(n))
  <2>1. CASE es_rd = es_wt
    <3>1. Remain = S /\ S > n
      BY <1>4, <1>5, <2>1 DEF Remain
    <3>2. CASE S - es_wt >= n
      <4>1. FitsTail(n)
        BY <1>4, <2>1, <3>2 DEF FitsTail
      <4> QED BY <3>1, <4>1, <1>4, <1>5
    <3>3. CASE S - es_wt < n
      <4>1. es_rd > n
        BY <1>4, <1>5, <2>1, <3>3
      <4>2. FitsHead(n)
        BY <1>4, <2>1, <3>3, <4>1 DEF FitsHead
      <4> QED BY <3>1, <4>2, <1>4, <1>5
    <3>4. S - es_wt >= n \/ S - es_wt < n
      BY <1>4, <1>5
    <3> QED BY <3>1, <3>2, <3>3, <3>4
  <2>2. CASE es_wt # es_rd /\ es_wt = 0 /\ 2 * es_rd > S
    <3>1. FitsGap(n) /\ Remain > n
      BY <1>4, <1>5, <2>2 DEF Remain, FitsGap
    <3> QED BY <3>1
  <2> QED BY <1>3, <2>1, <2>2
<1> QED BY <1>6 DEF Fits, n

\* check_es_buf never refuses a packet of at most half the ring for ever:
\* once the firmware has drained the ring it is granted.
THEOREM DrainedAccepts == ASSUME ~ClearInside PROVE Spec => []EmptyAccepts
  BY InvAlways, InvEmptyAccepts, PTL

\* The two positions agree exactly when every packet has been taken.
LEMMA InvRemainTold == ASSUME TypeOK, IInv PROVE RemainTold
<1> SUFFICES ASSUME writer = "kernel", w.pc = "idle"
             PROVE  DataRemain = 0 <=> Unread = {}
  BY DEF RemainTold
<1>1. Front = es_wt /\ ~Granting
  BY DEF Front, Granting
<1>2. ASSUME Unread = {} PROVE DataRemain = 0
  <2>1. pkt_rd = pkt_wt
    BY <1>2, NoneUnread
  <2>2. es_rd = es_wt
    BY <1>1, <2>1, Ranges DEF IInv, Drained, Meets
  <2> QED BY <2>2, Ranges DEF DataRemain
<1>3. ASSUME NEW i \in Unread PROVE DataRemain # 0
  <2>1. /\ es_pkt[i].es_rd \in 0..(S - 1) /\ es_pkt[i].size \in Nat
        /\ es_pkt[i].size >= 1
        /\ Key(es_pkt[i].es_rd) + es_pkt[i].size <= Key(es_wt)
    BY <1>1, Ranges DEF IInv, Whole, Unread
  <2> QED BY <2>1, Ranges DEF Key, DataRemain
<1> QED BY <1>2, <1>3

\* The fill level adec_es_buf_data_remain and u32BufferUsed report is zero
\* exactly when the firmware has taken every packet of the demultiplexer.
THEOREM RemainIsTold == ASSUME ~ClearInside PROVE Spec => []RemainTold
  BY InvAlways, InvRemainTold, PTL

\* The slot being filled is not one the firmware may take.
LEMMA WriteSlotFree == ASSUME TypeOK PROVE pkt_wt \notin Unread /\ pkt_wt \in Slots
  BY Ranges DEF Unread, Place, Slots

\* A channel keeps its producer.
LEMMA WriterFixed == ASSUME [Next]_vars PROVE writer' = writer
<1>1. CASE Produce \/ Read
  BY <1>1 DEF Produce, Write, Put, CheckPkt, CheckBuf, Copy, Discard, Advance,
              Publish, Mark, Read, ring
<1>2. CASE StartClear \/ StopClear \/ FlushClear
  BY <1>2 DEF StartClear, StopClear, FlushClear, Clear
<1>3. CASE Steering \/ UNCHANGED vars
  BY <1>3, SteeringKeeps DEF vars, ring
<1> QED BY <1>1, <1>2, <1>3 DEF Next, Control, Carried, Steering

\* The flag follows the writer's turns to the head.
LEMMA FlagStep ==
  ASSUME ~ClearInside, writer = "kernel", TypeOK, IInv, Flagged, [Next]_vars
  PROVE  Flagged'
<1>0. /\ ~Granting => w.head = 0
      /\ Granting => es_pkt[pkt_wt].flag = w.head
      /\ \A i \in Unread : es_pkt[i].flag = es_pkt[i].head
  BY DEF Flagged, FlagMarksHead
<1>1. ASSUME UNCHANGED ring, w'.head = w.head, Granting <=> Granting'
      PROVE  Flagged'
  BY <1>0, <1>1 DEF ring, Unread, Place, Flagged, FlagMarksHead
<1>2. ASSUME NEW n \in Sizes, Write(n) \/ Put(n) PROVE Flagged'
  <2>1. w.pc # "held"
    BY DEF IInv, Sized
  <2>2. UNCHANGED ring /\ w'.head = w.head /\ ~Granting /\ ~Granting'
    BY <1>2, <2>1 DEF Write, Put, TypeOK, Producer, Granting
  <2> QED BY <1>1, <2>2
<1>3. CASE CheckPkt \/ Discard
  <2>1. w.pc # "held"
    BY DEF IInv, Sized
  <2>2. UNCHANGED ring /\ w'.head = w.head /\ ~Granting /\ ~Granting'
    BY <1>3, <2>1 DEF CheckPkt, Discard, TypeOK, Producer, Granting
  <2> QED BY <1>1, <2>2
<1>4. CASE Copy
  <2>1. UNCHANGED ring /\ w'.head = w.head /\ Granting /\ Granting'
    BY <1>4 DEF Copy, TypeOK, Producer, Granting
  <2> QED BY <1>1, <2>1
<1>5. CASE CheckBuf
  <2> DEFINE head == Fits(w.size) /\ FitsHead(w.size)
  <2>1. /\ w.head = 0 /\ UNCHANGED <<pkt_rd, pkt_wt>>
        /\ w'.head = IF head THEN 1 ELSE 0
        /\ Granting' <=> Fits(w.size)
    <3>1. w.pc = "buf" /\ UNCHANGED <<pkt_rd, pkt_wt>>
      BY <1>5 DEF CheckBuf
    <3>2. w.head = 0
      BY <1>0, <3>1 DEF Granting
    <3>3. w'.head = IF head THEN 1 ELSE 0
      BY <1>5, <3>2 DEF CheckBuf, TypeOK, Producer
    <3>4. w'.pc = IF Fits(w.size) THEN "copy" ELSE "idle"
      BY <1>5 DEF CheckBuf, TypeOK, Producer, Granted
    <3> QED BY <3>1, <3>2, <3>3, <3>4 DEF Granting
  <2>2. /\ es_pkt'[pkt_wt].flag = IF head THEN 1 ELSE 0
        /\ \A i \in Slots \ {pkt_wt} : es_pkt'[i] = es_pkt[i]
    BY <1>5, WriteSlotFree DEF CheckBuf, TypeOK, Descriptor, NewFlag
  <2>3. Unread' = Unread
    BY <2>1 DEF Unread, Place
  <2>4. \A i \in Unread' : es_pkt'[i].flag = es_pkt'[i].head
    BY <1>0, <2>2, <2>3, WriteSlotFree DEF Unread
  <2> HIDE DEF head
  <2>5. ~Granting' => w'.head = 0
    BY <2>1 DEF head
  <2> QED BY <2>1, <2>2, <2>4, <2>5 DEF Flagged, FlagMarksHead
<1>6. CASE Advance
  <2>1. /\ UNCHANGED <<pkt_rd, pkt_wt, es_pkt>> /\ w'.head = w.head
        /\ Granting /\ Granting'
    BY <1>6 DEF Advance, TypeOK, Producer, Granting
  <2> QED BY <1>0, <2>1 DEF Unread, Place, Flagged, FlagMarksHead
<1>7. CASE Publish
  <2>1. /\ w'.head = 0 /\ ~Granting' /\ Granting /\ pkt_rd' = pkt_rd
        /\ pkt_wt' = (pkt_wt + 1) % Cnt
        /\ es_pkt'[pkt_wt].flag = es_pkt[pkt_wt].flag
        /\ es_pkt'[pkt_wt].head = w.head
        /\ \A i \in Slots \ {pkt_wt} : es_pkt'[i] = es_pkt[i]
    BY <1>7, WriteSlotFree DEF Publish, TypeOK, Producer, Granting
  <2>2. FreeSlots >= 2
    BY <1>7 DEF Publish, IInv, SlotKept
  <2>3. Unread' = Unread \cup {pkt_wt}
    BY <2>1, <2>2, PublishSlots
  <2>4. \A i \in Unread' : es_pkt'[i].flag = es_pkt'[i].head
    BY <1>0, <2>1, <2>3, WriteSlotFree DEF Unread
  <2> QED BY <2>1, <2>4 DEF Flagged, FlagMarksHead
<1>8. CASE Mark
  <2>1. /\ UNCHANGED <<pkt_rd, pkt_wt>> /\ w'.head = w.head
        /\ ~Granting /\ ~Granting'
        /\ \A i \in Slots : /\ es_pkt'[i].flag = es_pkt[i].flag
                            /\ es_pkt'[i].head = es_pkt[i].head
    BY <1>8 DEF Mark, TypeOK, Producer, Descriptor, Granting
  <2> QED BY <1>0, <2>1 DEF Unread, Place, Flagged, FlagMarksHead
<1>9. CASE Read
  <2>1. UNCHANGED <<pkt_wt, es_pkt, w>> /\ pkt_rd # pkt_wt
        /\ pkt_rd' = (pkt_rd + 1) % Cnt
    BY <1>9 DEF Read
  <2>2. \A i \in Unread' : i \in Unread
    BY <2>1, ReadSlots
  <2> QED BY <1>0, <2>1, <2>2 DEF Flagged, FlagMarksHead, Granting
<1>10. CASE StartClear \/ StopClear \/ FlushClear
  <2>1. Clear /\ w.pc = "idle"
    BY <1>10 DEF StartClear, StopClear, FlushClear, MayClear
  <2>2. w'.pc = "idle" /\ w'.head = 0
    BY <2>1 DEF Clear, TypeOK, Producer
  <2>3. Unread' = {}
    BY <2>1, Ranges DEF Clear, Unread, Place, Slots
  <2> QED BY <2>2, <2>3 DEF Flagged, FlagMarksHead, Granting
<1>11. CASE Steering \/ UNCHANGED vars
  <2>1. UNCHANGED ring /\ w' = w
    BY <1>11, SteeringKeeps DEF vars
  <2>2. w'.head = w.head /\ (Granting <=> Granting')
    BY <2>1 DEF Granting
  <2> QED BY <1>1, <2>1, <2>2
<1> QED BY <1>2, <1>3, <1>4, <1>5, <1>6, <1>7, <1>8, <1>9, <1>10, <1>11
        DEF Next, Produce, Control, Carried, Steering

\* A descriptor's flag tells the firmware truly that the writer went back to
\* the head of the ring, for the demultiplexer's packets.  (A player that
\* discards what it was granted breaks it.)
THEOREM FlagIsTrue == ASSUME ~ClearInside PROVE Spec => []FlagMarksHead
<1>1. Init => Flagged
  <2> SUFFICES ASSUME Init PROVE Flagged
    OBVIOUS
  <2>1. w.pc = "idle" /\ w.head = 0 /\ pkt_rd = 0 /\ pkt_wt = 0
    BY DEF Init
  <2>2. Unread = {}
    BY <2>1, RingAssumption DEF Unread, Place, Slots
  <2> QED BY <2>1, <2>2 DEF Flagged, FlagMarksHead, Granting
<1>2. TypeOK /\ IInv /\ Flagged /\ [Next]_vars => Flagged'
  BY FlagStep, WriterFixed DEF Flagged
<1>3. Flagged => FlagMarksHead
  BY DEF Flagged, FlagMarksHead
<1> QED BY <1>1, <1>2, <1>3, InvAlways, PTL DEF Spec

(***************************************************************************)
(* The refinement of PacketQueue.                                          *)
(***************************************************************************)
\* A control operation under way has left the started state, or is not yet in
\* it: the clears of stop and flush come after.
CtlStatus == ctl # "idle" => status # "STARTED"

\* A descriptor as the abstract queue shows it.
Shown(i) == [start |-> es_pkt[i].es_rd, size |-> es_pkt[i].size]

\* The slot of the k-th packet in line.
Slot(k) == IF pkt_rd + k - 1 < Cnt THEN pkt_rd + k - 1 ELSE pkt_rd + k - 1 - Cnt

\* Going round once more than the ring is long.
LEMMA ModTwice == ASSUME NEW N \in Nat \ {0}, NEW x \in 0..(2 * N - 1)
                  PROVE x % N = IF x < N THEN x ELSE x - N
  BY Z3

\* The queue, slot by slot.
LEMMA QueuedIs ==
  ASSUME TypeOK
  PROVE  /\ Place(pkt_wt) \in 0..(Cnt - 1)
         /\ Queued = [k \in 1..Place(pkt_wt) |-> Shown(Slot(k))]
         /\ \A k \in 1..Place(pkt_wt) : Slot(k) \in Unread /\ Place(Slot(k)) = k - 1
<1>1. Place(pkt_wt) \in 0..(Cnt - 1)
  BY Ranges DEF Place
<1>2. \A k \in 1..Place(pkt_wt) : (pkt_rd + k - 1) % Cnt = Slot(k)
  <2> SUFFICES ASSUME NEW k \in 1..Place(pkt_wt) PROVE (pkt_rd + k - 1) % Cnt = Slot(k)
    OBVIOUS
  <2>1. pkt_rd + k - 1 \in 0..(2 * Cnt - 1) /\ Cnt \in Nat \ {0}
    BY <1>1, Ranges
  <2> DEFINE x == pkt_rd + k - 1
  <2>2. x % Cnt = IF x < Cnt THEN x ELSE x - Cnt
    <3> HIDE DEF x
    <3>1. x \in 0..(2 * Cnt - 1)
      BY <2>1 DEF x
    <3> QED BY <2>1, <3>1, ModTwice
  <2>3. x = pkt_rd + k - 1
    OBVIOUS
  <2>4. Slot(k) = IF x < Cnt THEN x ELSE x - Cnt
    BY <2>1, Ranges DEF Slot
  <2> HIDE DEF x
  <2>5. Slot(k) = x % Cnt
    BY <2>2, <2>4
  <2> QED BY <2>3, <2>5
<1>3. Queued = [k \in 1..Place(pkt_wt) |-> Shown(Slot(k))]
  BY <1>2 DEF Queued, Shown
<1>4. \A k \in 1..Place(pkt_wt) : Slot(k) \in Unread /\ Place(Slot(k)) = k - 1
  <2> SUFFICES ASSUME NEW k \in 1..Place(pkt_wt) PROVE Slot(k) \in Unread /\ Place(Slot(k)) = k - 1
    OBVIOUS
  <2>1. Slot(k) \in Slots /\ Place(Slot(k)) = k - 1
    BY <1>1, Ranges DEF Slot, Place, Slots
  <2> QED BY <1>1, <2>1 DEF Unread
<1> QED BY <1>1, <1>3, <1>4

\* A function on an initial segment of the naturals is a sequence.
LEMMA SegmentSeq ==
  ASSUME NEW T, NEW n \in Nat, NEW f \in [1..n -> T]
  PROVE  f \in Seq(T) /\ Len(f) = n /\ DOMAIN f = 1..n
  OBVIOUS

\* A sequence that grew by one at its end.
LEMMA AppendIs ==
  ASSUME NEW T, NEW n \in Nat, NEW f \in [1..n -> T], NEW g \in [1..(n + 1) -> T],
         \A k \in 1..n : g[k] = f[k]
  PROVE  g = Append(f, g[n + 1])
<1>1. f \in Seq(T) /\ Len(f) = n /\ DOMAIN f = 1..n
  BY SegmentSeq
<1>2. g \in Seq(T) /\ Len(g) = n + 1
  BY SegmentSeq
<1> QED BY <1>1, <1>2

\* A sequence whose elements moved up by one.
LEMMA TailIs ==
  ASSUME NEW T, NEW n \in Nat, NEW f \in [1..(n + 1) -> T], NEW g \in [1..n -> T],
         \A k \in 1..n : g[k] = f[k + 1]
  PROVE  f # << >> /\ g = Tail(f)
<1>1. f \in Seq(T) /\ Len(f) = n + 1 /\ DOMAIN f = 1..(n + 1)
  BY SegmentSeq
<1>2. g \in Seq(T) /\ Len(g) = n /\ DOMAIN g = 1..n
  BY SegmentSeq
<1> QED BY <1>1, <1>2

PacketRec == [start : Nat, size : Nat]

\* The queue is a sequence of packets.
LEMMA QueuedSeq ==
  ASSUME TypeOK
  PROVE  /\ Queued \in [1..Place(pkt_wt) -> PacketRec] /\ Place(pkt_wt) \in Nat
         /\ Len(Queued) = Place(pkt_wt) /\ DOMAIN Queued = 1..Place(pkt_wt)
<1>1. \A i \in Slots : Shown(i) \in PacketRec
  BY Ranges DEF Shown, PacketRec
<1>2. \A k \in 1..Place(pkt_wt) : Slot(k) \in Slots
  BY QueuedIs DEF Unread
<1>3. Queued \in [1..Place(pkt_wt) -> PacketRec]
  BY <1>1, <1>2, QueuedIs
<1>4. Place(pkt_wt) \in Nat
  BY QueuedIs, RingAssumption
<1> QED BY <1>3, <1>4, SegmentSeq

\* What the steps below use of it, in a state and in the next one.
QueueFacts ==
  /\ Place(pkt_wt) \in Nat
  /\ Queued \in [1..Place(pkt_wt) -> PacketRec]
  /\ \A k \in 1..Place(pkt_wt) : Queued[k] = Shown(Slot(k))

LEMMA QueueNow == TypeOK => QueueFacts
  BY QueuedSeq, QueuedIs DEF QueueFacts

LEMMA QueueNext == TypeOK' => QueueFacts'
  BY QueueNow, PTL

\* Functions that agree everywhere are equal.
LEMMA SameFunction ==
  ASSUME NEW D, NEW T, NEW f \in [D -> T], NEW g \in [D -> T], \A x \in D : f[x] = g[x]
  PROVE  f = g
<1>1. f = [x \in D |-> f[x]] /\ g = [x \in D |-> g[x]]
  OBVIOUS
<1>2. [x \in D |-> f[x]] = [x \in D |-> g[x]]
  OBVIOUS
<1> QED BY <1>1, <1>2, Zenon

\* Steps that keep the descriptors' places keep the queue.
LEMMA QueuedSame ==
  ASSUME TypeOK, TypeOK', UNCHANGED <<pkt_rd, pkt_wt>>,
         \A i \in Unread : es_pkt'[i].es_rd = es_pkt[i].es_rd /\ es_pkt'[i].size = es_pkt[i].size
  PROVE  Queued' = Queued
<1>1. Place(pkt_wt)' = Place(pkt_wt) /\ \A k \in 1..Place(pkt_wt) : Slot(k)' = Slot(k)
  BY DEF Place, Slot
<1>2. \A k \in 1..Place(pkt_wt) : Shown(Slot(k))' = Shown(Slot(k))
  BY <1>1, QueuedIs DEF Shown
<1>3. /\ Queued' \in [1..Place(pkt_wt)' -> PacketRec]
      /\ \A k \in 1..Place(pkt_wt)' : Queued'[k] = Shown(Slot(k))'
  BY QueueNext DEF QueueFacts
<1>4. /\ Queued \in [1..Place(pkt_wt) -> PacketRec]
      /\ \A k \in 1..Place(pkt_wt) : Queued[k] = Shown(Slot(k))
  BY QueueNow DEF QueueFacts
<1> DEFINE n == Place(pkt_wt)
<1>5. \A k \in 1..n : Queued'[k] = Queued[k]
  BY <1>1, <1>2, <1>3, <1>4
<1>6. Queued \in [1..n -> PacketRec] /\ Queued' \in [1..n -> PacketRec]
  BY <1>1, <1>3, <1>4
<1> HIDE DEF n
<1> DEFINE D == 1..n
<1> HIDE DEF D
<1>7. \A k \in D : Queued'[k] = Queued[k]
  BY <1>5 DEF D
<1>8. Queued \in [D -> PacketRec] /\ Queued' \in [D -> PacketRec]
  BY <1>6 DEF D
<1> QED BY <1>7, <1>8, SameFunction

\* Publishing a descriptor is the abstract Put: the packet is whole and apart
\* from those in the queue.
LEMMA PublishQueue ==
  ASSUME TypeOK, TypeOK', IInv, Publish PROVE PQ!Put
<1> DEFINE p == [start |-> w.rd, size |-> w.size]
           n == Place(pkt_wt)
<1>1. /\ pkt_rd' = pkt_rd /\ pkt_wt' = (pkt_wt + 1) % Cnt /\ status' = status
      /\ \A i \in Slots \ {pkt_wt} : es_pkt'[i] = es_pkt[i]
      /\ es_pkt'[pkt_wt].es_rd = w.rd /\ es_pkt'[pkt_wt].size = w.size
  BY WriteSlotFree DEF Publish, TypeOK, device
<1>2. FreeSlots >= 2
  BY DEF Publish, IInv, SlotKept
<1>3. /\ pkt_wt \notin Unread /\ n' = n + 1 /\ Unread' = Unread \cup {pkt_wt}
  BY <1>1, <1>2, PublishSlots
<1>4. n \in Nat /\ n < Cnt - 1
  BY <1>2, Ranges DEF Place, FreeSlots
<1>5. Slot(n + 1) = pkt_wt /\ \A k \in 1..(n + 1) : Slot(k)' = Slot(k)
  BY <1>1, Ranges DEF Slot, Place
<1>6. /\ Queued \in [1..n -> PacketRec] /\ Queued' \in [1..(n + 1) -> PacketRec]
      /\ Len(Queued) = n /\ DOMAIN Queued = 1..n
  <2>1. Queued' \in [1..n' -> PacketRec]
    BY QueueNext DEF QueueFacts
  <2> QED BY <1>3, <2>1, QueuedSeq
<1>7. \A k \in 1..n : Queued[k] = Shown(Slot(k)) /\ Slot(k) \in Unread
  BY QueuedIs
<1>8. \A k \in 1..(n + 1) : Queued'[k] = Shown(Slot(k))'
  <2>1. \A k \in 1..n' : Queued'[k] = Shown(Slot(k))'
    BY QueueNext DEF QueueFacts
  <2> QED BY <1>3, <2>1
<1>9. \A k \in 1..n : Queued'[k] = Queued[k]
  <2> SUFFICES ASSUME NEW k \in 1..n PROVE Queued'[k] = Queued[k]
    OBVIOUS
  <2>1. Slot(k) \in Slots \ {pkt_wt} /\ Queued[k] = Shown(Slot(k))
    BY <1>3, <1>7 DEF Unread
  <2>2. k \in 1..(n + 1)
    BY <1>4
  <2>3. Queued'[k] = [start |-> es_pkt'[Slot(k)].es_rd, size |-> es_pkt'[Slot(k)].size]
    BY <1>5, <1>8, <2>2 DEF Shown
  <2> QED BY <1>1, <2>1, <2>3 DEF Shown
<1>10. Queued'[n + 1] = p
  BY <1>1, <1>4, <1>5, <1>8 DEF Shown
<1>11. Queued' = Append(Queued, p)
  <2> HIDE DEF n, p
  <2> QED BY <1>4, <1>6, <1>9, <1>10, AppendIs
<1>12. w.rd = w.at /\ w.at + w.size <= S /\ w.size \in Nat \ {0} /\ Filling /\ w.at \in 0..(S - 1)
  BY Ranges DEF Publish, IInv, Room, Granting, Sized, Filling
<1>13. p \in PQ!Packets /\ p.start + p.size <= S
  BY <1>12, RingAssumption DEF PQ!Packets
<1>14. \A k \in DOMAIN Queued : PQ!Disjoint(p, Queued[k])
  <2> SUFFICES ASSUME NEW k \in 1..n PROVE PQ!Disjoint(p, Queued[k])
    BY <1>6
  <2>1. Apart(es_pkt[Slot(k)].es_rd, es_pkt[Slot(k)].size, w.at, w.size)
    BY <1>7, <1>12, InvIntact DEF Intact
  <2>2. Queued[k] = Shown(Slot(k))
    BY <1>7
  <2> QED BY <1>12, <2>1, <2>2 DEF PQ!Disjoint, Apart, Shown
<1>15. Len(Queued) < Cnt - 1
  BY <1>4, <1>6
<1>16. (status = "STARTED")' = (status = "STARTED")
  BY <1>1
<1> HIDE DEF p, n
<1> QED BY <1>11, <1>13, <1>14, <1>15, <1>16 DEF PQ!Put

\* The firmware's step is the abstract Get.
LEMMA ReadQueue ==
  ASSUME TypeOK, TypeOK', Read PROVE PQ!Get
<1> DEFINE n == Place(pkt_wt)
<1>1. /\ pkt_rd # pkt_wt /\ pkt_wt' = pkt_wt /\ pkt_rd' = (pkt_rd + 1) % Cnt
      /\ es_pkt' = es_pkt /\ status' = status
  BY DEF Read, device
<1>2. n' = n - 1 /\ n \in Nat /\ n' \in Nat
  BY <1>1, ReadSlots, QueueNow, QueueNext DEF QueueFacts
<1>3. pkt_rd' = IF pkt_rd + 1 = Cnt THEN 0 ELSE pkt_rd + 1
  <2>1. pkt_rd + 1 \in 0..Cnt
    BY Ranges
  <2> QED BY <1>1, <2>1, ModStep, Ranges
<1>4. n <= Cnt - 1
  BY QueuedIs, Ranges
<1>5. \A k \in 1..n' : Slot(k)' = Slot(k + 1)
  BY <1>2, <1>3, <1>4, Ranges DEF Slot
<1>6. Queued \in [1..n -> PacketRec] /\ \A k \in 1..n : Queued[k] = Shown(Slot(k))
  BY QueuedSeq, QueuedIs
<1>7. Queued' \in [1..n' -> PacketRec] /\ \A k \in 1..n' : Queued'[k] = Shown(Slot(k))'
  BY QueueNext DEF QueueFacts
<1> HIDE DEF n
<1>8. \A k \in 1..n' : Queued'[k] = Queued[k + 1]
  BY <1>1, <1>2, <1>5, <1>6, <1>7 DEF Shown
<1>9. Queued # << >> /\ Queued' = Tail(Queued)
  <2>1. n = n' + 1
    BY <1>2
  <2> QED BY <1>2, <1>6, <1>7, <1>8, <2>1, TailIs
<1>10. (status = "STARTED")' = (status = "STARTED")
  BY <1>1
<1> QED BY <1>9, <1>10 DEF PQ!Get

\* A clear is the abstract Clear.
LEMMA ClearQueue ==
  ASSUME TypeOK, TypeOK', Clear, status' = status, status # "STARTED" PROVE PQ!Clear
<1>1. pkt_rd' = 0 /\ pkt_wt' = 0
  BY DEF Clear
<1>2. Place(pkt_wt)' = 0
  BY <1>1 DEF Place
<1>3. Queued' \in [1..Place(pkt_wt)' -> PacketRec]
  BY QueueNext DEF QueueFacts
<1>4. Queued' = << >>
  BY <1>2, <1>3
<1> QED BY <1>4 DEF PQ!Clear

\* Every step is one of the abstract queue, or none.
LEMMA RefineStep ==
  ASSUME ~ClearInside, TypeOK, TypeOK', IInv, CtlStatus, [Next]_vars
  PROVE  CtlStatus' /\ [PQ!Next]_<<Queued, (status = "STARTED")>>
<1>1. CASE UNCHANGED <<pkt_rd, pkt_wt, es_pkt>>
  <2>1. Queued' = Queued
    BY <1>1, QueuedSame
  <2>2. [PQ!Next]_<<Queued, (status = "STARTED")>>
    <3>1. CASE (status = "STARTED")' = (status = "STARTED")
      BY <2>1, <3>1
    <3>2. CASE (status = "STARTED")' # (status = "STARTED")
      <4>1. (status = "STARTED")' = ~(status = "STARTED")
        BY <3>2
      <4> QED BY <2>1, <4>1 DEF PQ!Next, PQ!Switch
    <3> QED BY <3>1, <3>2
  <2>3. CASE UNCHANGED device
    BY <2>2, <2>3 DEF CtlStatus, device
  <2>4. CASE Steering
    <3>1. CASE StartCommand \/ StartFailed \/ Run
      BY <2>2, <3>1 DEF CtlStatus, StartCommand, StartFailed, Run, Begin, End
    <3>2. CASE Stop \/ StopCommand \/ Pause \/ PauseCommand \/ Resume
      BY <2>2, <3>2 DEF CtlStatus, Stop, StopCommand, Pause, PauseCommand, Resume, Begin, End
    <3>3. CASE FlushPause \/ FlushCommand \/ FlushFailed \/ FlushResume
      BY <2>2, <3>3 DEF CtlStatus, FlushPause, FlushCommand, FlushFailed, FlushResume, Begin, End
    <3> QED BY <2>2, <2>4, <3>1, <3>2, <3>3 DEF Steering
  <2>5. CASE StartClear \/ StopClear \/ FlushClear
    BY <2>2, <2>5 DEF CtlStatus, StartClear, StopClear, FlushClear, Begin, End
  <2> QED BY <2>2, <2>3, <2>4, <2>5 DEF Next, Produce, Control, Carried, Steering, Write, Put, CheckPkt, CheckBuf,
         Copy, Discard, Advance, Publish, Mark, Read, vars
<1>2. CASE CheckBuf \/ Mark
  <2>1. /\ UNCHANGED <<pkt_rd, pkt_wt, device>>
        /\ \A i \in Slots : es_pkt'[i].es_rd = es_pkt[i].es_rd /\ es_pkt'[i].size = es_pkt[i].size
    BY <1>2 DEF CheckBuf, Mark, TypeOK, Descriptor
  <2>2. Queued' = Queued
    BY <2>1, QueuedSame DEF Unread
  <2> QED BY <2>1, <2>2 DEF CtlStatus, device
<1>3. CASE Publish
  BY <1>3, PublishQueue DEF PQ!Next, CtlStatus, Publish, device
<1>4. CASE Read
  BY <1>4, ReadQueue DEF PQ!Next, CtlStatus, Read, device
<1>5. CASE StartClear \/ StopClear \/ FlushClear
  <2>1. Clear /\ status' = status /\ status # "STARTED" /\ CtlStatus'
    BY <1>5 DEF StartClear, StopClear, FlushClear, CtlStatus, Begin, End
  <2> QED BY <2>1, ClearQueue DEF PQ!Next
<1>6. CASE \/ Steering \/ UNCHANGED vars \/ CheckPkt \/ Copy \/ Discard \/ Advance
           \/ \E n \in Sizes : Write(n) \/ Put(n)
  <2>1. UNCHANGED <<pkt_rd, pkt_wt, es_pkt>>
    BY <1>6, SteeringKeeps DEF vars, CheckPkt, Copy, Discard, Advance, Write, Put, ring
  <2> QED BY <1>1, <2>1
<1> QED BY <1>2, <1>3, <1>4, <1>5, <1>6 DEF Next, Produce, Control, Carried, Steering

\* The two rings, with every pointer update of adec_es_write, Put_ADEC_Buffer,
\* the firmware and adec_es_buf_clear a step of its own, implement PacketQueue:
\* no packet is lost, doubled or reordered, none is dropped while the decoder is
\* started, and a packet that enters is apart from all that are queued.
THEOREM QueueRefined == ASSUME ~ClearInside PROVE Spec => ImplementsPacketQueue
<1>1. Init => CtlStatus /\ PQ!Init
  <2> SUFFICES ASSUME Init PROVE CtlStatus /\ PQ!Init
    OBVIOUS
  <2>1. TypeOK
    BY TypeInit
  <2>2. Place(pkt_wt) = 0
    BY DEF Init, Place
  <2>3. Queued = << >>
    BY <2>1, <2>2, QueuedSeq
  <2> QED BY <2>3 DEF PQ!Init, CtlStatus, Init
<1>2. TypeOK /\ TypeOK' /\ IInv /\ CtlStatus /\ [Next]_vars
      => CtlStatus' /\ [PQ!Next]_<<Queued, (status = "STARTED")>>
  BY RefineStep
<1> QED BY <1>1, <1>2, InvAlways, PTL DEF Spec, ImplementsPacketQueue, PQ!Spec
=============================================================================
