---------------------------- MODULE FileStream ----------------------------
(***************************************************************************)
(* What a player expects of an opened URL: a file of Size units read from  *)
(* a position that every read advances and every seek sets.  This is the   *)
(* abstract specification SmartHttp is shown to implement: pos is          *)
(* SmartHTTPGlobalContext.off, ret what the last API call returned.        *)
(***************************************************************************)
EXTENDS Integers

CONSTANT Size                       \* length of the file

VARIABLES pos, ret

vars == <<pos, ret>>

None == [kind |-> "none"]
Eof == [kind |-> "eof"]
Data(p, n) == [kind |-> "data", units |-> [i \in 1..n |-> p + i - 1]]

Init == pos = 0 /\ ret = None

Read == \E n \in 1..(Size - pos) : pos' = pos + n /\ ret' = Data(pos, n)

ReadEof == pos = Size /\ ret' = Eof /\ UNCHANGED pos

Seek == \E p \in 0..(Size - 1) : pos' = p /\ ret' = None

Open == pos' = 0 /\ ret' = None

Return == ret' = None /\ UNCHANGED pos

Next == Read \/ ReadEof \/ Seek \/ Open \/ Return

Spec == Init /\ [][Next]_vars
===========================================================================
