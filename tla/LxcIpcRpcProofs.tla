--------------------------- MODULE LxcIpcRpcProofs ---------------------------
(***************************************************************************)
(* LxcIpc implements SyncCall: in a system where nothing is killed or       *)
(* interrupted and no client leaves early, each call of the channel is      *)
(* executed once and returns its own result.  Servers may close and open    *)
(* again.                                                                  *)
(***************************************************************************)
EXTENDS LxcIpcSessionProofs

\* The faults that SyncCall leaves out.
Undisturbed == Faults \subseteq {"server_close"}

\* The answer of a call on b exists, posted or not.
Served(b) == buf[b].done > 0 \/ Executed(b)

\* The request of a client that waits is the one posted and the one served.
Data(c) ==
  pc[c] = "calling" =>
    /\ buf[h[c]].do_what.tag = tag[c]
    /\ \A w \in Serving(h[c]) : pc[w] # "woken" => job[w].tag = tag[c]

\* Nobody is killed.
Alive == \A p \in Procs : pc[p] # "crashed"

DataInv == Alive /\ \A c \in Clients : Data(c)

\* The result SyncCall shows.
Result(c) == IF CallState(c) = "out" THEN 0 ELSE buf[h[c]].res

\* What a step may do to a client, as SyncCall sees it.
Untouched(c) == CallState(c)' = CallState(c) /\ tag'[c] = tag[c] /\ Result(c)' = Result(c)

Arrives(c) == /\ CallState(c) = "out" /\ CallState(c)' = "ready"
              /\ tag'[c] = tag[c] /\ Result(c)' = Result(c)
Starts(c) == /\ CallState(c) = "ready" /\ CallState(c)' = "pending"
             /\ tag'[c] = 1 - tag[c] /\ Result(c)' = Result(c)
Executes(c) == /\ CallState(c) = "pending" /\ CallState(c)' = "served"
               /\ tag'[c] = tag[c] /\ Result(c)' = tag[c]
Returns(c) == /\ CallState(c) = "served" /\ CallState(c)' = "ready"
              /\ tag'[c] = tag[c] /\ Result(c)' = Result(c)
Leaves(c) == /\ CallState(c) = "ready" /\ CallState(c)' = "out"
             /\ tag'[c] = 0 /\ Result(c)' = 0

Moves(c) == Untouched(c) \/ Arrives(c) \/ Starts(c) \/ Executes(c) \/ Returns(c) \/ Leaves(c)

\* At most one client moves.
RpcStep ==
  \/ \A c \in Clients : Untouched(c)
  \/ \E d \in Clients : Moves(d) /\ \A c \in Clients \ {d} : Untouched(c)

-----------------------------------------------------------------------------
(* Every step moves at most one client.                                    *)

\* The state SyncCall shows, by where the client is.
LEMMA CallStates ==
  ASSUME NEW c \in Clients
  PROVE  /\ pc[c] \in {"open", "last"} => CallState(c) = "ready"
         /\ pc[c] = "calling" => CallState(c) = IF Served(h[c]) THEN "served" ELSE "pending"
         /\ pc[c] \notin {"open", "last", "calling"} => CallState(c) = "out"
  BY DEF CallState, Served

\* The same after a step, for a client whose handle is then b.
LEMMA NextCallStates ==
  ASSUME NEW c \in Clients, NEW b, h'[c] = b
  PROVE  /\ pc'[c] \in {"open", "last"} => CallState(c)' = "ready"
         /\ pc'[c] = "calling" => CallState(c)' = IF Served(b)' THEN "served" ELSE "pending"
         /\ pc'[c] \notin {"open", "last", "calling"} => CallState(c)' = "out"
  BY DEF CallState, Served, Executed

\* A call has been executed when a worker serving it is past exec.
LEMMA ExecutedServing ==
  ASSUME NEW b
  PROVE  Executed(b) <=> \E w \in Serving(b) : pc[w] \in {"answer", "leave"}
  BY DEF Executed, Serving

LEMMA NextExecutedServing ==
  ASSUME NEW b
  PROVE  Executed(b)' <=> \E w \in Serving(b)' : pc'[w] \in {"answer", "leave"}
  BY DEF Executed, Serving

\* A client at the same place on the same buffer b, whose answer neither comes
\* nor goes and whose request is served by nobody new, is untouched.
LEMMA UntouchedFrame ==
  ASSUME NEW c \in Clients, NEW b, h[c] = b, h'[c] = b, pc'[c] = pc[c], tag'[c] = tag[c],
         Data(c),
         pc[c] \in InSession =>
           /\ buf'[b].res = buf[b].res /\ buf'[b].do_what = buf[b].do_what
           /\ Served(b)' <=> Served(b)
           /\ \A w \in Serving(b)' : pc'[w] # "woken" =>
                \/ w \in Serving(b) /\ pc[w] # "woken" /\ job'[w].tag = job[w].tag
                \/ job'[w].tag = buf[b].do_what.tag
  PROVE  Untouched(c) /\ Data(c)'
<1>1. CallState(c)' = CallState(c)
  BY CallStates, NextCallStates DEF InSession
<1>2. CallState(c) # "out" => pc[c] \in InSession
  BY CallStates DEF InSession
<1>3. Result(c)' = Result(c)
  BY <1>1, <1>2 DEF Result
<1>4. Data(c)'
  <2> SUFFICES ASSUME pc'[c] = "calling"
               PROVE  /\ buf'[b].do_what.tag = tag'[c]
                      /\ \A w \in Serving(b)' : pc'[w] # "woken" => job'[w].tag = tag'[c]
    BY DEF Data, Serving
  <2>1. buf[b].do_what.tag = tag[c] /\ \A w \in Serving(b) : pc[w] # "woken" => job[w].tag = tag[c]
    BY DEF Data
  <2>2. pc[c] \in InSession
    BY DEF InSession
  <2> QED BY <2>1, <2>2
<1> QED BY <1>1, <1>3, <1>4 DEF Untouched

\* A step that leaves the workers on b alone.
LEMMA UntouchedBuffer ==
  ASSUME NEW c \in Clients, NEW b, h[c] = b, h'[c] = b, pc'[c] = pc[c], tag'[c] = tag[c],
         Data(c),
         pc[c] \in InSession =>
           /\ buf'[b].res = buf[b].res /\ buf'[b].do_what = buf[b].do_what
           /\ buf'[b].done = buf[b].done,
         pc[c] \in InSession => \A w \in Workers :
           \/ pc'[w] = pc[w] /\ h'[w] = h[w] /\ job'[w] = job[w]
           \/ w \notin Serving(b) /\ w \notin Serving(b)'
  PROVE  Untouched(c) /\ Data(c)'
<1>1. ASSUME pc[c] \in InSession, NEW w \in Workers
      PROVE  /\ w \in Serving(b)' <=> w \in Serving(b)
             /\ w \in Serving(b) => pc'[w] = pc[w] /\ job'[w] = job[w]
  BY <1>1 DEF Serving
<1>2. pc[c] \in InSession => (Executed(b)' <=> Executed(b))
  <2>1. \A w : w \in Serving(b) \/ w \in Serving(b)' => w \in Workers
    BY DEF Serving
  <2> QED BY <1>1, <2>1, ExecutedServing, NextExecutedServing
<1>3. pc[c] \in InSession => (Served(b)' <=> Served(b))
  BY <1>2 DEF Served
<1>4. \A w \in Serving(b)' : w \in Workers
  BY DEF Serving
<1> QED BY <1>1, <1>3, <1>4, UntouchedFrame

\* The buffers of clients in a session survive close(fd).
LEMMA ReleaseKeeps ==
  ASSUME IInv', ReleaseFile, NEW c \in Clients, pc'[c] \in InSession
  PROVE  buf' = buf
<1>1. c \in Procs /\ ref'[c] = "buffer"
  BY DEF IInv, HandlesConsistent, ClientRef, Procs
<1>2. ~LastFile
  BY <1>1 DEF ReleaseFile
<1> QED BY <1>2 DEF ReleaseFile

\* A step of a client moves that client only.
LEMMA ClientRpc ==
  ASSUME Undisturbed, IInv, IInv', ChannelInv, SessionInv, DataInv,
         NEW d \in Clients, ClientNext(d)
  PROVE  RpcStep /\ DataInv'
<1>1. /\ d \in Procs /\ d \in Users /\ d \notin Workers /\ ClientRef(d)
      /\ NameOf[d] \in Names /\ TidOf[d] \in Tids
      /\ \A c \in Clients : c \in Procs /\ c \in Users
      /\ \A w \in Workers : w \in Procs /\ w \in Users /\ w # d
      /\ buf \in [BufIds -> BufRec] /\ h \in [Users -> BufIds \cup {NoBuf}]
      /\ pc \in [Procs -> ClientPcs \cup ServerPcs \cup WorkerPcs]
      /\ tag \in [Clients -> {0, 1}] /\ pc[d] \in ClientPcs
  BY ConstantsAssumption
  DEF Procs, Users, IInv, TypeOK, HandleTypes, KernelTypes, ControlTypes, DataTypes,
      HandlesConsistent
<1>2. /\ \A c \in Clients : Data(c) /\ Session(c)
      /\ \A c \in Clients : pc[c] \in InSession =>
              ref[c] = "buffer" /\ h[c] \in BufIds /\ buf_cnt[h[c]] > 0
  BY SessionFacts DEF DataInv, SessionInv
\* It remains to look at d, if the buffers of the others keep their data.
<1>3. ASSUME NEW l, l # "crashed", Goto(d, l), job' = job,
             \A p \in Users \ {d} : h'[p] = h[p],
             \A c \in Clients \ {d} : tag'[c] = tag[c],
             \A c \in Clients \ {d} : pc[c] \in InSession => buf'[h[c]] = buf[h[c]],
             Moves(d), Data(d)'
      PROVE  RpcStep /\ DataInv'
  <2>1. pc'[d] = l /\ \A p \in Procs \ {d} : pc'[p] = pc[p]
    BY <1>1, <1>3 DEF Goto
  <2>2. ASSUME NEW c \in Clients, c # d PROVE Untouched(c) /\ Data(c)'
    <3>1. PICK b : b = h[c]
      OBVIOUS
    <3>2. /\ h'[c] = b /\ pc'[c] = pc[c] /\ tag'[c] = tag[c]
          /\ \A w \in Workers : pc'[w] = pc[w] /\ h'[w] = h[w] /\ job'[w] = job[w]
          /\ pc[c] \in InSession => buf'[b] = buf[b]
      BY <1>1, <1>3, <2>1, <2>2, <3>1
    <3> QED BY <1>2, <3>1, <3>2, UntouchedBuffer
  <2>3. Alive'
    BY <1>3, <2>1 DEF DataInv, Alive
  <2> QED BY <1>3, <2>2, <2>3 DEF RpcStep, DataInv
\* A client outside of any session.
<1>4. ASSUME NEW l, l \notin InSession, Goto(d, l), pc[d] \notin InSession, tag'[d] = tag[d]
      PROVE  Moves(d) /\ Data(d)'
  <2>1. pc'[d] = l
    BY <1>1, <1>4 DEF Goto
  <2>2. CallState(d) = "out" /\ CallState(d)' = "out"
    BY <1>4, <2>1, CallStates, NextCallStates DEF InSession
  <2> QED BY <1>4, <2>1, <2>2 DEF Moves, Untouched, Result, Data, InSession
<1>5. CASE OpenFile(d)
  BY <1>3, <1>4, <1>5 DEF OpenFile, data, InSession
<1>6. CASE CloseFile(d)
  <2>1. /\ pc[d] \in {"detached", "failed"} /\ ReleaseFile /\ UNCHANGED <<h, job, tag>>
        /\ \E l \in {"gone", "closed"} : Goto(d, l)
    BY <1>6 DEF CloseFile, data
  <2>2. \A c \in Clients \ {d} : pc[c] \in InSession => buf' = buf
    <3>1. \A c \in Clients \ {d} : pc'[c] = pc[c]
      BY <1>1, <2>1 DEF Goto
    <3> QED BY <2>1, <3>1, ReleaseKeeps
  <2> QED BY <1>3, <1>4, <2>1, <2>2 DEF InSession
<1>7. CASE AttachClient(d)
  <2> DEFINE n == NameOf[d]
             t == TidOf[d]
  <2>1. pc[d] = "file" /\ UNCHANGED <<job, tag>>
    BY <1>7 DEF AttachClient, data
  <2>2. ASSUME h' = [h EXCEPT ![d] = <<n, t, 0>>], buf' = buf, Goto(d, "failed")
        PROVE  RpcStep /\ DataInv'
    BY <1>1, <1>3, <1>4, <2>1, <2>2 DEF InSession
  <2>3. ASSUME NEW i \in FreeSlots(n, t), h' = [h EXCEPT ![d] = <<n, t, i>>],
               buf' = [buf EXCEPT ![<<n, t, i>>] = Buf0], Goto(d, "open")
        PROVE  RpcStep /\ DataInv'
    <3>1. PICK b0 : b0 = <<n, t, i>>
      OBVIOUS
    <3>2. b0 \in BufIds /\ buf_cnt[b0] = 0
      BY <1>1, <3>1 DEF BufIds, FreeSlots
    <3>3. /\ h'[d] = b0 /\ buf'[b0] = Buf0 /\ pc'[d] = "open"
          /\ \A b \in BufIds \ {b0} : buf'[b] = buf[b]
          /\ \A p \in Users \ {d} : h'[p] = h[p]
      BY <1>1, <2>3, <3>1, <3>2 DEF Goto
    <3>4. CallState(d) = "out" /\ CallState(d)' = "ready"
      BY <2>1, <3>3, CallStates, NextCallStates
    <3>5. Moves(d) /\ Data(d)'
      BY <2>1, <3>3, <3>4 DEF Moves, Arrives, Result, Buf0, Data
    <3>6. \A c \in Clients \ {d} : pc[c] \in InSession => buf'[h[c]] = buf[h[c]]
      BY <1>2, <3>2, <3>3
    <3> QED BY <1>3, <2>1, <2>3, <3>3, <3>5, <3>6
  <2> QED BY <1>7, <2>2, <2>3 DEF AttachClient
<1>8. ASSUME NEW q \in Requests, Resize(d, q) PROVE RpcStep /\ DataInv'
  <2>1. UNCHANGED <<buf, h, job, pc, tag>>
    BY <1>8 DEF Resize, kernel, data
  <2>2. ASSUME NEW c \in Clients PROVE Untouched(c) /\ Data(c)'
    <3>1. PICK b : b = h[c]
      OBVIOUS
    <3> QED BY <1>2, <2>1, <3>1, UntouchedBuffer
  <2>3. Alive'
    BY <2>1 DEF DataInv, Alive
  <2> QED BY <2>2, <2>3 DEF RpcStep, DataInv
\* The remaining steps are of a session.
<1>9. ASSUME NEW r, pc[d] \in InSession, buf' = [buf EXCEPT ![h[d]] = r]
      PROVE  /\ buf'[h[d]] = r
             /\ \A c \in Clients \ {d} : pc[c] \in InSession => buf'[h[c]] = buf[h[c]]
  BY <1>1, <1>2, <1>9 DEF ChannelInv, OneClientPerBuffer
<1>10. ASSUME NEW op \in Ops, Call(d, op) PROVE RpcStep /\ DataInv'
  <2>1. PICK b0 : b0 = h[d]
    OBVIOUS
  <2> DEFINE what == [op |-> op, tag |-> 1 - tag[d]]
             r == PostCall(buf[b0], what)
  <2>2. /\ pc[d] = "open" /\ UNCHANGED <<h, job>> /\ Goto(d, "calling")
        /\ buf' = [buf EXCEPT ![b0] = r] /\ tag' = [tag EXCEPT ![d] = 1 - @]
    BY <1>10, <2>1 DEF Call, Post
  <2>3. /\ b0 \in BufIds /\ pc[d] \in InSession /\ buf[b0] \in BufRec
        /\ buf[b0].done = 0 /\ Serving(b0) = {}
    BY <1>1, <1>2, <2>1, <2>2 DEF InSession, Session, SessionOf
  <2>4. r.done = 0 /\ r.do_what = what /\ r.res = buf[b0].res /\ what.tag = 1 - tag[d]
    BY <2>3 DEF PostCall, BufRec
  <2> HIDE DEF r, what
  <2>5. /\ buf'[b0] = r /\ h'[d] = b0 /\ pc'[d] = "calling" /\ tag'[d] = 1 - tag[d]
        /\ \A c \in Clients \ {d} : tag'[c] = tag[c] /\ (pc[c] \in InSession => buf'[h[c]] = buf[h[c]])
        /\ \A w \in Workers : pc'[w] = pc[w] /\ h'[w] = h[w] /\ job'[w] = job[w]
    BY <1>1, <1>9, <2>1, <2>2, <2>3 DEF Goto
  <2>6. Serving(b0)' = {}
    BY <2>3, <2>5 DEF Serving
  <2>7. ~Served(b0)'
    BY <2>4, <2>5, <2>6, NextExecutedServing DEF Served
  <2>8. CallState(d) = "ready" /\ CallState(d)' = "pending"
    BY <2>2, <2>5, <2>7, CallStates, NextCallStates
  <2>9. Moves(d)
    BY <2>1, <2>4, <2>5, <2>8 DEF Moves, Starts, Result
  <2>10. Data(d)'
    BY <2>4, <2>5, <2>6 DEF Data, Serving
  <2> QED BY <1>3, <2>2, <2>5, <2>9, <2>10
<1>11. CASE CallDone(d)
  <2>1. PICK b0 : b0 = h[d]
    OBVIOUS
  <2> DEFINE r == TakeDone(buf[b0])
             l == AfterCall(d)
  <2>2. /\ pc[d] = "calling" /\ UNCHANGED <<h, job, tag>> /\ Goto(d, l)
        /\ buf' = [buf EXCEPT ![b0] = r] /\ buf[b0].done > 0 /\ l \in {"open", "last"}
    BY <1>11, <2>1 DEF CallDone, data, AfterCall
  <2>3. b0 \in BufIds /\ pc[d] \in InSession /\ buf[b0] \in BufRec
    BY <1>1, <1>2, <2>1, <2>2 DEF InSession
  <2>4. r.res = buf[b0].res
    BY <2>3 DEF TakeDone, BufRec
  <2> HIDE DEF r, l
  <2>5. /\ buf'[b0] = r /\ h'[d] = b0 /\ pc'[d] = l
        /\ \A c \in Clients \ {d} : pc[c] \in InSession => buf'[h[c]] = buf[h[c]]
    BY <1>1, <1>9, <2>1, <2>2, <2>3 DEF Goto
  <2>6. CallState(d) = "served" /\ CallState(d)' = "ready"
    BY <2>1, <2>2, <2>5, CallStates, NextCallStates DEF Served
  <2>7. Moves(d)
    BY <2>1, <2>2, <2>4, <2>5, <2>6 DEF Moves, Returns, Result
  <2>8. Data(d)'
    BY <2>2, <2>5 DEF Data
  <2> QED BY <1>3, <2>2, <2>5, <2>7, <2>8
<1>12. CASE CloseClient(d)
  <2>1. PICK b0 : b0 = h[d]
    OBVIOUS
  <2>2. /\ pc[d] = "last" /\ Detach(d, b0) /\ Goto(d, "detached") /\ job' = job
        /\ h' = [h EXCEPT ![d] = NoBuf] /\ tag' = [tag EXCEPT ![d] = 0]
    BY <1>12, <2>1 DEF CloseClient, Fault, Undisturbed
  <2>3. PICK r : buf' = [buf EXCEPT ![b0] = r]
    BY <1>1, <1>2, <2>1, <2>2 DEF Detach, InSession
  <2>4. /\ pc'[d] = "detached" /\ tag'[d] = 0
        /\ \A c \in Clients \ {d} : tag'[c] = tag[c] /\ (pc[c] \in InSession => buf'[h[c]] = buf[h[c]])
        /\ \A p \in Users \ {d} : h'[p] = h[p]
    <3>1. pc[d] \in InSession
      BY <2>2 DEF InSession
    <3>2. \A c \in Clients \ {d} : pc[c] \in InSession => buf'[h[c]] = buf[h[c]]
      BY <1>9, <2>1, <2>3, <3>1
    <3> QED BY <1>1, <2>2, <3>2 DEF Goto
  <2>5. CallState(d) = "ready" /\ CallState(d)' = "out"
    BY <2>2, <2>4, CallStates, NextCallStates
  <2>6. Moves(d) /\ Data(d)'
    BY <2>4, <2>5 DEF Moves, Leaves, Result, Data
  <2> QED BY <1>3, <2>2, <2>4, <2>6
<1>13. ~CallAgain(d) /\ ~CallTimeout(d) /\ ~CallInterrupted(d) /\ ~CrashClient(d)
  <2>1. pc[d] # "again"
    BY <1>2 DEF Session, SessionOf, Undisturbed
  <2> QED BY <2>1 DEF CallAgain, CallTimeout, CallInterrupted, CrashClient, Fault, Undisturbed
<1> QED BY <1>5, <1>6, <1>7, <1>8, <1>10, <1>11, <1>12, <1>13 DEF ClientNext

\* A step of a server moves no client.
LEMMA ServerRpc ==
  ASSUME Undisturbed, IInv, IInv', ChannelInv, SessionInv, DataInv,
         NEW s \in Servers, ServerNext(s)
  PROVE  RpcStep /\ DataInv'
<1>1. /\ s \in Procs /\ s \notin Users /\ \A p \in Users : p \in Procs /\ p # s
      /\ \A c \in Clients : c \in Procs /\ c \in Users /\ c # s /\ c \notin Workers
      /\ \A w \in Workers : w \in Procs /\ w \in Users /\ w # s
      /\ buf \in [BufIds -> BufRec] /\ h \in [Users -> BufIds \cup {NoBuf}]
      /\ pc \in [Procs -> ClientPcs \cup ServerPcs \cup WorkerPcs]
  BY ConstantsAssumption
  DEF Procs, Users, IInv, TypeOK, HandleTypes, KernelTypes, ControlTypes
<1>2. /\ \A c \in Clients : Data(c)
      /\ \A c \in Clients : pc[c] \in InSession => h[c] \in BufIds
  BY SessionFacts DEF DataInv
<1>3. ASSUME \A c \in Clients : pc'[c] = pc[c] /\ h'[c] = h[c], tag' = tag, job' = job,
             \A p \in Procs : pc'[p] # "crashed",
             \A c \in Clients : pc[c] \in InSession =>
               /\ buf'[h[c]].res = buf[h[c]].res /\ buf'[h[c]].do_what = buf[h[c]].do_what
               /\ buf'[h[c]].done = buf[h[c]].done,
             \A w \in Workers : \/ pc'[w] = pc[w] /\ h'[w] = h[w]
                                \/ pc[w] = "idle" /\ pc'[w] = "start"
      PROVE  RpcStep /\ DataInv'
  <2>1. ASSUME NEW c \in Clients PROVE Untouched(c) /\ Data(c)'
    <3>1. PICK b : b = h[c]
      OBVIOUS
    <3>2. \A w \in Workers : \/ pc'[w] = pc[w] /\ h'[w] = h[w] /\ job'[w] = job[w]
                             \/ w \notin Serving(b) /\ w \notin Serving(b)'
      BY <1>3 DEF Serving
    <3> QED BY <1>2, <1>3, <3>1, <3>2, UntouchedBuffer
  <2> QED BY <1>3, <2>1 DEF RpcStep, DataInv, Alive
<1>4. ASSUME NEW l, l # "crashed", Goto(s, l)
      PROVE  /\ \A p \in Users : pc'[p] = pc[p]
             /\ \A p \in Procs : pc'[p] # "crashed"
  BY <1>1, <1>4 DEF Goto, DataInv, Alive
<1>5. CASE OpenFile(s) \/ AttachServer(s) \/ Listen(s) \/ ListenWake(s) \/ CloseServer(s)
  <2>1. UNCHANGED <<buf, h, job, tag>> /\ \E l : l # "crashed" /\ Goto(s, l)
    BY <1>5 DEF OpenFile, AttachServer, Listen, ListenWake, CloseServer, data, kernel
  <2> QED BY <1>1, <1>3, <1>4, <2>1
<1>6. CASE CloseFile(s)
  <2>1. /\ ReleaseFile /\ UNCHANGED <<h, job, tag>>
        /\ \E l : l # "crashed" /\ Goto(s, l)
    BY <1>6 DEF CloseFile, data
  <2>2. /\ \A p \in Users : pc'[p] = pc[p]
        /\ \A p \in Procs : pc'[p] # "crashed"
    BY <1>4, <2>1
  <2>3. \A c \in Clients : pc[c] \in InSession => buf' = buf
    BY <1>1, <2>1, <2>2, ReleaseKeeps
  <2> QED BY <1>1, <1>3, <2>1, <2>2, <2>3
<1>7. CASE ListenPick(s)
  <2>1. UNCHANGED <<job, tag>>
    BY <1>7 DEF ListenPick, data
  <2>2. ASSUME Goto(s, "ready"), UNCHANGED <<buf, h>> PROVE RpcStep /\ DataInv'
    BY <1>1, <1>3, <1>4, <2>1, <2>2
  <2>3. ASSUME NEW b0 \in Unconnected(NameOf[s]), NEW w0 \in IdleWorkers(s),
               buf' = [buf EXCEPT ![b0] = SetConnected(@, 1)],
               h' = [h EXCEPT ![w0] = b0],
               pc' = [pc EXCEPT ![s] = "ready", ![w0] = "start"]
        PROVE  RpcStep /\ DataInv'
    <3>1. w0 \in Workers /\ pc[w0] = "idle" /\ b0 \in BufIds
      BY DEF IdleWorkers, Unconnected
    <3>2. /\ pc'[w0] = "start" /\ \A p \in Users \ {w0} : pc'[p] = pc[p] /\ h'[p] = h[p]
          /\ \A p \in Procs : pc'[p] # "crashed"
      BY <1>1, <2>3, <3>1 DEF DataInv, Alive
    <3>3. \A b \in BufIds : /\ buf'[b].res = buf[b].res /\ buf'[b].do_what = buf[b].do_what
                            /\ buf'[b].done = buf[b].done
      <4>1. ASSUME NEW b \in BufIds PROVE buf[b] \in BufRec /\ buf'[b] \in {buf[b], SetConnected(buf[b], 1)}
        BY <1>1, <2>3, <3>1
      <4> QED BY <4>1 DEF SetConnected, BufRec
    <3> QED BY <1>1, <1>2, <1>3, <2>1, <3>1, <3>2, <3>3
  <2> QED BY <1>7, <2>2, <2>3 DEF ListenPick
<1>8. ~ListenInterrupted(s) /\ ~CrashServer(s)
  BY DEF ListenInterrupted, CrashServer, Fault, Undisturbed
<1> QED BY <1>5, <1>6, <1>7, <1>8 DEF ServerNext

\* A step of a worker moves at most its client, and only by executing its call.
LEMMA WorkerRpc ==
  ASSUME Undisturbed, IInv, IInv', ChannelInv, SessionInv, DataInv,
         NEW w \in Workers, WorkerNext(w)
  PROVE  RpcStep /\ DataInv'
<1>1. /\ w \in Procs /\ w \in Users /\ WorkerRef(w)
      /\ \A c \in Clients : c \in Procs /\ c \in Users /\ c # w
      /\ \A v \in Workers : v \in Procs /\ v \in Users
      /\ buf \in [BufIds -> BufRec] /\ h \in [Users -> BufIds \cup {NoBuf}]
      /\ pc \in [Procs -> ClientPcs \cup ServerPcs \cup WorkerPcs]
      /\ job \in [Workers -> Job] /\ buf_cnt \in [BufIds -> Nat]
      /\ ref \in [Procs -> {"none", "name", "thread", "buffer"}]
      /\ \A c \in Clients : pc[c] \in ClientPcs
  BY ConstantsAssumption
  DEF Procs, Users, IInv, TypeOK, HandleTypes, KernelTypes, ControlTypes, DataTypes,
      HandlesConsistent
<1>2. PICK b0 : b0 = h[w]
  OBVIOUS
<1>3. /\ Attached(w) \/ pc[w] = "answer" => b0 \in BufIds
      /\ b0 \in BufIds => buf[b0] \in BufRec /\ buf[b0].done \in Nat
      /\ Service(w) /\ \A c \in Clients : Data(c) /\ Session(c)
      /\ \A c \in Clients : pc[c] \in InSession => ref[c] = "buffer" /\ h[c] \in BufIds
      /\ tag' = tag
  BY <1>1, <1>2, SessionFacts
  DEF WorkerRef, BufRec, SessionInv, DataInv, WorkerNext, Accept, AcceptRead, AcceptWake,
      AcceptInterrupted, Serve, Done, CloseAccepted, data
\* It remains to look at the client on b0.
<1>4. ASSUME b0 \in BufIds, NEW l, l # "crashed", Goto(w, l),
             \A p \in Users \ {w} : h'[p] = h[p], h'[w] \in {b0, NoBuf},
             \A v \in Workers \ {w} : job'[v] = job[v],
             \A b \in BufIds \ {b0} : buf'[b] = buf[b]
      PROVE  /\ pc'[w] = l
             /\ \A v \in Workers \ {w} : pc'[v] = pc[v] /\ h'[v] = h[v] /\ job'[v] = job[v]
             /\ \A c \in Clients : pc'[c] = pc[c] /\ h'[c] = h[c]
             /\ \A c \in Clients : pc[c] \notin InSession \/ h[c] # b0 => Untouched(c) /\ Data(c)'
             /\ Alive'
  <2>1. /\ pc'[w] = l
        /\ \A v \in Workers \ {w} : pc'[v] = pc[v] /\ h'[v] = h[v] /\ job'[v] = job[v]
        /\ \A c \in Clients : pc'[c] = pc[c] /\ h'[c] = h[c]
        /\ \A p \in Procs : pc'[p] = pc[p] \/ pc'[p] = l
    BY <1>1, <1>4 DEF Goto
  <2>2. Alive'
    BY <1>4, <2>1 DEF Alive, DataInv
  <2>3. ASSUME NEW c \in Clients, pc[c] \notin InSession \/ h[c] # b0
        PROVE  Untouched(c) /\ Data(c)'
    <3>1. PICK b : b = h[c]
      OBVIOUS
    <3>2. pc[c] \in InSession => b \in BufIds \ {b0} /\ b # NoBuf
      BY <1>3, <2>3, <3>1 DEF BufIds, NoBuf
    <3>3. ASSUME pc[c] \in InSession, NEW v \in Workers
          PROVE  \/ pc'[v] = pc[v] /\ h'[v] = h[v] /\ job'[v] = job[v]
                 \/ v \notin Serving(b) /\ v \notin Serving(b)'
      BY <1>2, <1>4, <2>1, <3>2, <3>3 DEF Serving
    <3> QED BY <1>3, <1>4, <2>1, <3>1, <3>2, <3>3, UntouchedBuffer
  <2> QED BY <2>1, <2>2, <2>3
\* Steps that do not execute the call leave that client alone too.
<1>5. ASSUME b0 \in BufIds, NEW l, l # "crashed", Goto(w, l),
             \A p \in Users \ {w} : h'[p] = h[p], h'[w] \in {b0, NoBuf},
             \A v \in Workers \ {w} : job'[v] = job[v],
             \A b \in BufIds \ {b0} : buf'[b] = buf[b],
             \A c \in Clients : pc[c] \in InSession /\ h[c] = b0 =>
               /\ buf'[b0].res = buf[b0].res /\ buf'[b0].do_what = buf[b0].do_what
               /\ Served(b0)' <=> Served(b0),
             w \in Serving(b0)' /\ l # "woken" =>
               \/ w \in Serving(b0) /\ pc[w] # "woken" /\ job'[w].tag = job[w].tag
               \/ job'[w].tag = buf[b0].do_what.tag
      PROVE  RpcStep /\ DataInv'
  <2>1. /\ pc'[w] = l
        /\ \A v \in Workers \ {w} : pc'[v] = pc[v] /\ h'[v] = h[v] /\ job'[v] = job[v]
        /\ \A c \in Clients : pc'[c] = pc[c] /\ h'[c] = h[c]
        /\ \A c \in Clients : pc[c] \notin InSession \/ h[c] # b0 => Untouched(c) /\ Data(c)'
        /\ Alive'
    BY <1>4, <1>5
  <2>2. ASSUME NEW v \in Serving(b0)', pc'[v] # "woken"
        PROVE  \/ v \in Serving(b0) /\ pc[v] # "woken" /\ job'[v].tag = job[v].tag
               \/ job'[v].tag = buf[b0].do_what.tag
    <3>1. v \in Workers
      BY DEF Serving
    <3>2. CASE v = w
      BY <1>5, <2>1, <2>2, <3>2
    <3>3. CASE v # w
      BY <2>1, <2>2, <3>1, <3>3 DEF Serving
    <3> QED BY <3>2, <3>3
  <2>3. ASSUME NEW c \in Clients, pc[c] \in InSession, h[c] = b0 PROVE Untouched(c) /\ Data(c)'
    BY <1>3, <1>5, <2>1, <2>2, <2>3, UntouchedFrame
  <2> QED BY <2>1, <2>3 DEF RpcStep, DataInv
\* The worker's part in the answer.
<1>6. ASSUME b0 \in BufIds, NEW l, Goto(w, l),
             \A v \in Workers \ {w} : pc'[v] = pc[v] /\ h'[v] = h[v] /\ job'[v] = job[v],
             buf'[b0].done = buf[b0].done,
             w \in Serving(b0) /\ pc[w] \in {"answer", "leave"} <=>
               w \in Serving(b0)' /\ l \in {"answer", "leave"}
      PROVE  Served(b0)' <=> Served(b0)
  <2>1. pc'[w] = l
    BY <1>1, <1>6 DEF Goto
  <2>2. \A v \in Workers \ {w} : v \in Serving(b0)' <=> v \in Serving(b0)
    BY <1>6 DEF Serving
  <2>3. \A v : v \in Serving(b0) \/ v \in Serving(b0)' => v \in Workers
    BY DEF Serving
  <2>4. Executed(b0)' <=> Executed(b0)
    BY <1>6, <2>1, <2>2, <2>3, ExecutedServing, NextExecutedServing
  <2> QED BY <1>6, <2>4 DEF Served
<1>7. CASE Accept(w) \/ AcceptRead(w) \/ AcceptWake(w)
  <2>1. PICK l \in {"accepting", "exec", "woken"} : Goto(w, l)
    BY <1>7 DEF Accept, AcceptRead, AcceptWake
  <2>2. /\ b0 \in BufIds /\ h' = h /\ pc[w] \in {"start", "accepting", "woken"}
        /\ \A v \in Workers \ {w} : job'[v] = job[v]
        /\ buf' = buf \/ buf' = [buf EXCEPT ![b0] = TakeCall(buf[b0])]
        /\ pc'[w] = "exec" => job'[w] = buf[b0].do_what
    BY <1>1, <1>2, <1>3, <1>7
    DEF Accept, AcceptRead, AcceptWake, kernel, data, Attached, Goto
  <2>3. /\ buf'[b0].res = buf[b0].res /\ buf'[b0].do_what = buf[b0].do_what
        /\ buf'[b0].done = buf[b0].done
        /\ \A b \in BufIds \ {b0} : buf'[b] = buf[b]
    <3>1. buf'[b0] = buf[b0] \/ buf'[b0] = TakeCall(buf[b0])
      BY <1>1, <2>2
    <3> QED BY <1>1, <1>3, <2>2, <3>1 DEF TakeCall, BufRec
  <2>4. pc'[w] = l /\ \A v \in Workers \ {w} : pc'[v] = pc[v] /\ h'[v] = h[v]
    BY <1>1, <2>1, <2>2 DEF Goto
  <2>5. Served(b0)' <=> Served(b0)
    BY <1>6, <2>1, <2>2, <2>3, <2>4
  <2>6. w \in Serving(b0)' /\ l # "woken" => job'[w].tag = buf[b0].do_what.tag
    <3>1. l = "accepting" => w \notin Serving(b0)'
      BY <2>4 DEF Serving
    <3> QED BY <2>1, <2>2, <2>4, <3>1
  <2> QED BY <1>2, <1>5, <2>1, <2>2, <2>3, <2>5, <2>6
<1>8. CASE Serve(w)
  <2> DEFINE l == IF job[w].op = "close" THEN "leave" ELSE "answer"
             r == StoreResult(buf[b0], job[w].tag)
  <2>1. /\ UNCHANGED <<h, job>> /\ pc[w] = "exec" /\ Attached(w) /\ Goto(w, l)
        /\ buf' = [buf EXCEPT ![b0] = r]
    BY <1>2, <1>8 DEF Serve, Attached, data
  <2>2. b0 \in BufIds /\ r.do_what = buf[b0].do_what /\ r.res = job[w].tag
    BY <1>3, <2>1 DEF StoreResult, BufRec
  <2>3. l \in {"answer", "leave"} /\ (l = "leave" => job[w].op = "close")
    OBVIOUS
  <2> HIDE DEF l, r
  <2>4. buf'[b0] = r /\ \A b \in BufIds \ {b0} : buf'[b] = buf[b]
    BY <1>1, <2>1, <2>2
  <2>5. /\ pc'[w] = l
        /\ \A v \in Workers \ {w} : pc'[v] = pc[v] /\ h'[v] = h[v] /\ job'[v] = job[v]
        /\ \A c \in Clients : pc'[c] = pc[c] /\ h'[c] = h[c]
        /\ \A c \in Clients : pc[c] \notin InSession \/ h[c] # b0 => Untouched(c) /\ Data(c)'
        /\ Alive'
    BY <1>2, <1>4, <2>1, <2>2, <2>3, <2>4
  <2>6. w \in Serving(b0) /\ w \in Serving(b0)'
    BY <1>2, <2>1, <2>3, <2>5 DEF Serving
  <2>7. PICK c0 \in Clients : Waits(c0, b0)
    BY <1>2, <1>3, <2>1 DEF Service, InService
  <2>8. pc[c0] = "calling" /\ h[c0] = b0 /\ ref[c0] = "buffer"
    <3>1. pc[c0] # "crashed"
      BY <1>1 DEF DataInv, Alive
    <3>2. pc[c0] # "again"
      BY <1>3 DEF Session, SessionOf, Undisturbed
    <3> QED BY <2>7, <3>1, <3>2 DEF Waits
  <2>9. \A c \in Clients \ {c0} : Untouched(c) /\ Data(c)'
    <3>1. \A c \in Clients \ {c0} : pc[c] \in InSession => h[c] # b0
      BY <1>3, <2>8 DEF ChannelInv, OneClientPerBuffer
    <3> QED BY <2>5, <3>1
  <2>10. Serving(b0) = {w} /\ buf[b0].done = 0
    <3>1. SessionOf("calling", buf[b0], Serving(b0), Ready(b0))
      BY <1>3, <2>8 DEF Session
    <3> QED BY <1>3, <2>2, <2>6, <3>1 DEF SessionOf
  <2>11. ~Served(b0)
    BY <2>1, <2>10, ExecutedServing DEF Served
  <2>12. Served(b0)'
    BY <2>3, <2>5, <2>6, NextExecutedServing DEF Served
  <2>13. CallState(c0) = "pending" /\ CallState(c0)' = "served"
    BY <2>5, <2>8, <2>11, <2>12, CallStates, NextCallStates
  <2>14. buf[b0].do_what.tag = tag[c0] /\ job[w].tag = tag[c0]
    BY <1>3, <2>1, <2>6, <2>8 DEF Data
  <2>15. Moves(c0)
    BY <1>3, <2>2, <2>4, <2>5, <2>8, <2>13, <2>14 DEF Moves, Executes, Result
  <2>16. Data(c0)'
    <3>1. Serving(b0)' \subseteq Serving(b0) \cup {w}
      BY <2>5 DEF Serving
    <3>2. \A v \in Serving(b0)' : job'[v].tag = tag'[c0]
      BY <1>3, <2>1, <2>10, <2>14, <3>1
    <3> QED BY <1>3, <2>2, <2>4, <2>5, <2>8, <2>14, <3>2 DEF Data, Serving
  <2> QED BY <2>5, <2>9, <2>15, <2>16 DEF RpcStep, DataInv
<1>9. CASE Done(w)
  <2> DEFINE r == PostDone(buf[b0])
  <2>1. /\ pc[w] = "answer" /\ Goto(w, AfterDone(w)) /\ Retire(w, AfterDone(w))
        /\ Found(b0) => buf' = [buf EXCEPT ![b0] = r]
    BY <1>2, <1>9 DEF Done
  <2>2. PICK c0 \in Clients : Waits(c0, b0)
    BY <1>2, <1>3, <2>1 DEF Service, InService
  <2>3. b0 \in BufIds /\ Found(b0)
    BY <1>1, <1>3, <2>1, <2>2, ReferencedFound DEF Waits
  <2>4. r.res = buf[b0].res /\ r.do_what = buf[b0].do_what /\ r.done > 0
    BY <1>3, <2>3 DEF PostDone, BufRec
  <2> HIDE DEF r
  <2>5. /\ buf'[b0] = r /\ \A b \in BufIds \ {b0} : buf'[b] = buf[b]
        /\ \A p \in Users \ {w} : h'[p] = h[p]
        /\ h'[w] \in {b0, NoBuf} /\ pc'[w] = AfterDone(w)
        /\ AfterDone(w) # "idle" => job'[w] = job[w]
        /\ \A v \in Workers \ {w} : job'[v] = job[v]
    BY <1>1, <1>2, <2>1, <2>3 DEF Retire, Goto
  <2>6. w \notin Serving(b0)'
    BY <2>5 DEF Serving, AfterDone
  <2>7. w \in Serving(b0)
    BY <1>2, <2>1 DEF Serving
  <2>8. Served(b0)' /\ Served(b0)
    BY <2>1, <2>4, <2>5, <2>7, ExecutedServing DEF Served
  <2>9. AfterDone(w) # "crashed"
    BY DEF AfterDone
  <2> QED BY <1>5, <2>1, <2>3, <2>4, <2>5, <2>6, <2>8, <2>9
<1>10. CASE CloseAccepted(w)
  <2>1. /\ pc[w] = "leave" /\ Attached(w) /\ Goto(w, AfterLeave(w)) /\ Retire(w, AfterLeave(w))
        /\ Detach(w, b0)
    BY <1>2, <1>10 DEF CloseAccepted, Attached
  <2>2. /\ buf' = [buf EXCEPT ![b0] = IF buf_cnt[b0] - 1 <= 0 THEN Buf0 ELSE SetConnected(@, -1)]
        /\ buf_cnt' = [buf_cnt EXCEPT ![b0] = @ - 1]
        /\ ref' = [ref EXCEPT ![w] = "none"]
    BY <2>1 DEF Detach
  <2>3. /\ b0 \in BufIds /\ h'[w] \in {b0, NoBuf} /\ pc'[w] = AfterLeave(w)
        /\ \A p \in Users \ {w} : h'[p] = h[p]
        /\ AfterLeave(w) # "idle" => h'[w] = b0 /\ job'[w] = job[w]
        /\ \A b \in BufIds \ {b0} : buf'[b] = buf[b]
        /\ \A v \in Workers \ {w} : pc'[v] = pc[v] /\ h'[v] = h[v] /\ job'[v] = job[v]
    BY <1>1, <1>2, <1>3, <2>1, <2>2 DEF Retire, Goto
  <2>4. ASSUME NEW c \in Clients, pc[c] \in InSession, h[c] = b0
        PROVE  /\ buf'[b0].res = buf[b0].res /\ buf'[b0].do_what = buf[b0].do_what
               /\ buf'[b0].done = buf[b0].done
    <3>1. ref'[c] = "buffer" /\ h'[c] = b0
      BY <1>1, <1>3, <2>2, <2>3, <2>4
    <3>2. buf_cnt'[b0] > 0
      BY <1>1, <3>1, NextHeld DEF BuffersHeld
    <3>3. buf'[b0] = SetConnected(buf[b0], -1)
      BY <1>1, <2>2, <2>3, <3>2
    <3> QED BY <1>3, <2>3, <3>3 DEF SetConnected, BufRec
  <2>5. /\ w \in Serving(b0) <=> job[w].op = "close"
        /\ w \in Serving(b0)' <=> job[w].op = "close"
        /\ AfterLeave(w) = "answer" <=> job[w].op = "close"
        /\ AfterLeave(w) \in {"answer", "idle"}
    BY <1>2, <2>1, <2>3 DEF Serving, AfterLeave
  <2>6. ASSUME NEW c \in Clients, pc[c] \in InSession, h[c] = b0 PROVE Served(b0)' <=> Served(b0)
    BY <1>6, <2>1, <2>3, <2>4, <2>5, <2>6
  <2>7. w \in Serving(b0)' => w \in Serving(b0) /\ job'[w].tag = job[w].tag
    BY <2>3, <2>5
  <2> QED BY <1>5, <2>1, <2>3, <2>4, <2>5, <2>6, <2>7
<1>11. ~AcceptInterrupted(w)
  BY DEF AcceptInterrupted, Fault, Undisturbed
<1> QED BY <1>7, <1>8, <1>9, <1>10, <1>11 DEF WorkerNext

-----------------------------------------------------------------------------
(* The refinement.                                                         *)

\* A step that moves at most one client is a step of SyncCall, or none.
LEMMA RpcRefined ==
  ASSUME IInv, IInv', RpcStep
  PROVE  [Rpc!Next]_(Rpc!vars)
<1> DEFINE st == [c \in Clients |-> CallState(c)]
           stn == [c \in Clients |-> CallState(c)']
           rs == [c \in Clients |-> Result(c)]
           rsn == [c \in Clients |-> Result(c)']
<1>1. tag \in [Clients -> {0, 1}] /\ tag' \in [Clients -> {0, 1}]
  BY DEF IInv, TypeOK, DataTypes
<1>2. CASE \A c \in Clients : Untouched(c)
  <2>1. stn = st /\ tag' = tag /\ rsn = rs
    BY <1>1, <1>2 DEF Untouched
  <2> QED BY <2>1 DEF Rpc!vars, Result
<1>3. ASSUME NEW d \in Clients, Moves(d), \A c \in Clients \ {d} : Untouched(c)
      PROVE  [Rpc!Next]_(Rpc!vars)
  <2>1. /\ stn = [st EXCEPT ![d] = CallState(d)']
        /\ tag' = [tag EXCEPT ![d] = tag'[d]]
        /\ rsn = [rs EXCEPT ![d] = Result(d)']
    BY <1>1, <1>3 DEF Untouched
  <2>2. CASE Untouched(d)
    BY <1>2, <1>3, <2>2
  <2>3. st[d] = CallState(d) /\ rs[d] = Result(d)
    OBVIOUS
  <2>4. ASSUME tag'[d] = tag[d] PROVE tag' = tag
    BY <1>1, <2>1, <2>4
  <2>5. ASSUME Result(d)' = Result(d) PROVE rsn = rs
    BY <2>1, <2>3, <2>5
  <2>6. CASE Arrives(d)
    BY <2>1, <2>3, <2>4, <2>5, <2>6 DEF Arrives, Rpc!Next, Rpc!Enter, Result
  <2>7. CASE Starts(d)
    BY <1>1, <2>1, <2>3, <2>5, <2>7 DEF Starts, Rpc!Next, Rpc!Start, Result
  <2>8. CASE Executes(d)
    BY <2>1, <2>3, <2>4, <2>8 DEF Executes, Rpc!Next, Rpc!Execute, Result
  <2>9. CASE Returns(d)
    BY <2>1, <2>3, <2>4, <2>5, <2>9 DEF Returns, Rpc!Next, Rpc!Return, Result
  <2>10. CASE Leaves(d)
    BY <1>1, <2>1, <2>3, <2>10 DEF Leaves, Rpc!Next, Rpc!Leave, Result
  <2> QED BY <1>3, <2>2, <2>6, <2>7, <2>8, <2>9, <2>10 DEF Moves
<1> QED BY <1>2, <1>3 DEF RpcStep

\* The channel implements SyncCall: each call of each client is executed exactly
\* once, between its start and its return, for the request it posted, and the
\* client finds that result; a token left in `call` or `done` by an earlier call
\* or an earlier session on the same buffer never answers a later one.
THEOREM CallsExecuteExactlyOnce == ASSUME Undisturbed PROVE Spec => ExactlyOnce
<1>1. Init => DataInv /\ Rpc!Init
  <2> SUFFICES ASSUME Init PROVE DataInv /\ Rpc!Init
    OBVIOUS
  <2>1. /\ \A c \in Clients : pc[c] = "closed" /\ tag[c] = 0
        /\ \A p \in Procs : pc[p] # "crashed"
        /\ tag = [c \in Clients |-> 0]
    BY ConstantsAssumption DEF Init, Procs
  <2>2. \A c \in Clients : CallState(c) = "out"
    BY <2>1, CallStates
  <2> QED BY <2>1, <2>2 DEF DataInv, Alive, Data, Rpc!Init
<1>2. IInv /\ ChannelInv /\ SessionInv /\ DataInv /\ [Next]_vars =>
        DataInv' /\ [Rpc!Next]_(Rpc!vars)
  <2> SUFFICES ASSUME IInv, ChannelInv, SessionInv, DataInv, [Next]_vars
               PROVE  DataInv' /\ [Rpc!Next]_(Rpc!vars)
    OBVIOUS
  <2>1. IInv'
    BY InvStep
  <2>2. RpcStep /\ DataInv'
    <3>1. CASE UNCHANGED vars
      <4>1. UNCHANGED <<buf, h, job, pc, tag>>
        BY <3>1 DEF vars, kernel, data
      <4>2. ASSUME NEW c \in Clients PROVE Untouched(c) /\ Data(c)'
        <5>1. PICK b : b = h[c]
          OBVIOUS
        <5> QED BY <4>1, <5>1, UntouchedBuffer DEF DataInv
      <4>3. Alive'
        BY <4>1 DEF DataInv, Alive
      <4> QED BY <4>2, <4>3 DEF RpcStep, DataInv
    <3> QED BY <2>1, <3>1, ClientRpc, ServerRpc, WorkerRpc DEF Next
  <2> QED BY <2>1, <2>2, RpcRefined
<1>3. Orderly
  BY DEF Undisturbed, Orderly
<1>4. Spec => []SessionInv
  BY <1>3, Sessions, PTL
<1>5. Spec => Rpc!Init /\ [][Rpc!Next]_(Rpc!vars)
  BY <1>1, <1>2, <1>4, Invariance, Connections, PTL DEF Spec
<1> QED BY <1>5 DEF ExactlyOnce, Rpc!Spec
=============================================================================
