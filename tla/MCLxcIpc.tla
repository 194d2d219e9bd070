------------------------------ MODULE MCLxcIpc ------------------------------
(* Instances of LxcIpc for TLC. *)
EXTENDS LxcIpc

CONSTANTS n1, c1, c2, s1, s2, w1, w2, w3, t1, t2, b1, b2, b3, b4, b5

\* One server with a worker for each of two client threads.
NamesTwo == [p \in {c1, c2, s1} |-> n1]
TidsApart == [p \in {c1, c2} |-> IF p = c1 THEN t1 ELSE t2]
TidsShared == [p \in {c1, c2} |-> t1]
BossOne == [w \in {w1, w2} |-> s1]

\* Two servers on one name (or a server and its successor).
NamesServers == [p \in {c1, c2, s1, s2} |-> n1]
BossTwo == [w \in {w1, w2} |-> IF w = w1 THEN s1 ELSE s2]

\* One client, one server, for the buffer memory.
NamesOne == [p \in {c1, s1} |-> n1]
TidsOne == [p \in {c1} |-> t1]
BossMem == [w \in {w1} |-> s1]

NoRequests == {}
\* Sizes in quarter pages, rounded up to one page or two: half a page, one
\* page, one and a half pages.
BothBuffers == {[in |-> 2, out |-> 6], [in |-> 4, out |-> 6], [in |-> 6, out |-> 2]}
\* The event thread of mt_unf_ipc_fs.c gives its buffer back when it is
\* unregistered; the next operation on the handle asks for it again.
GiveBack == {[in |-> 4, out |-> 0], [in |-> 0, out |-> 0]}
=============================================================================
