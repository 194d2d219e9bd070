---------------------------- MODULE PacketQueue ----------------------------
(***************************************************************************)
(* What the audio decoder's input buffer promises: the packets handed to   *)
(* it come out once each, in the order they went in, unless the buffer is  *)
(* emptied as a whole, which happens only while the decoder is not         *)
(* started.  A packet is the place of its bytes in memory, so that two     *)
(* packets of one size are told apart while both are queued.  AdecEsBuf is *)
(* shown to implement this specification.                                  *)
(***************************************************************************)
EXTENDS Naturals, Sequences

CONSTANTS Depth,                    \* most packets queued at once
          Length                    \* bytes of the buffer

VARIABLES queue, started

Packets == [start : 0..(Length - 1), size : 1..Length]

Disjoint(p, q) == p.start + p.size <= q.start \/ q.start + q.size <= p.start

Init == queue = << >> /\ started = FALSE

Put == \E p \in Packets :
         /\ Len(queue) < Depth
         /\ p.start + p.size <= Length
         /\ \A i \in DOMAIN queue : Disjoint(p, queue[i])
         /\ queue' = Append(queue, p)
         /\ UNCHANGED started

Get == queue # << >> /\ queue' = Tail(queue) /\ UNCHANGED started

Clear == ~started /\ queue' = << >> /\ UNCHANGED started

Switch == started' = ~started /\ UNCHANGED queue

Next == Put \/ Get \/ Clear \/ Switch

Spec == Init /\ [][Next]_<<queue, started>>
============================================================================
