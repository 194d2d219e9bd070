------------------------- MODULE LxcIpcSessionProofs -------------------------
(***************************************************************************)
(* Proofs about the sessions of LxcIpc, for clients that stay until their  *)
(* last call has been answered: which of call, service and answer exist at *)
(* each place of a client, and that a listener that consumed a post finds  *)
(* a buffer.  They rest on LxcIpcProofs and LxcIpcChannelProofs.           *)
(***************************************************************************)
EXTENDS LxcIpcChannelProofs

\* No client leaves before its session is over, by itself or after a timeout,
\* and a call that a signal may repeat is the last one of its session.
Orderly ==
  /\ "timeout" \notin Faults /\ "early_close" \notin Faults
  /\ "signal" \notin Faults \/ "work" \notin Ops

-----------------------------------------------------------------------------
(* Where clients and workers are.                                          *)

\* A server listens on as long as one of its workers runs, and a client whose
\* ATTACH failed has no buffer.
Places ==
  /\ \A w \in Workers : pc[w] \notin {"idle", "crashed"} => pc[BossOf[w]] \in Listening
  /\ \A c \in Clients : pc[c] \in {"failed", "gone"} => ref[c] # "buffer"

\* A step of a client moves no worker and no server.
LEMMA ClientPlaces ==
  ASSUME IInv, Places, NEW c \in Clients, ClientNext(c)
  PROVE  Places'
<1>1. /\ c \in Procs /\ c \notin Workers /\ c \notin Servers /\ ClientRef(c)
      /\ \A d \in Clients : d \in Procs
      /\ \A w \in Workers : w \in Procs /\ w # c /\ BossOf[w] \in Procs /\ BossOf[w] # c
      /\ pc \in [Procs -> ClientPcs \cup ServerPcs \cup WorkerPcs]
      /\ ref \in [Procs -> {"none", "name", "thread", "buffer"}]
  BY ConstantsAssumption DEF IInv, TypeOK, ControlTypes, HandleTypes, Procs, HandlesConsistent
<1>2. ASSUME NEW l, Goto(c, l), \A d \in Clients \ {c} : ref[d] # "buffer" => ref'[d] # "buffer",
             l \in {"failed", "gone"} => ref'[c] # "buffer"
      PROVE  Places'
  <2>1. pc'[c] = l /\ \A p \in Procs \ {c} : pc'[p] = pc[p]
    BY <1>1, <1>2 DEF Goto
  <2> QED BY <1>1, <1>2, <2>1 DEF Places
<1>3. ASSUME ReleaseFile PROVE \A p \in Procs : ref'[p] = ref[p] \/ ref'[p] = "none"
  BY <1>3 DEF ReleaseFile
<1>4. CASE OpenFile(c)
  BY <1>2, <1>4 DEF OpenFile
<1>5. CASE AttachClient(c)
  <2>1. \/ Goto(c, "open") /\ ref' = [ref EXCEPT ![c] = "buffer"]
        \/ Goto(c, "failed") /\ ref' = [ref EXCEPT ![c] = "thread"]
    BY <1>5 DEF AttachClient
  <2> QED BY <1>1, <1>2, <2>1
<1>6. CASE CloseFile(c)
  BY <1>1, <1>2, <1>3, <1>6 DEF CloseFile, Places
<1>7. ASSUME NEW q \in Requests, Resize(c, q) PROVE Places'
  BY <1>7 DEF Resize, Places
<1>8. ASSUME NEW op \in Ops, Call(c, op) PROVE Places'
  BY <1>2, <1>8 DEF Call, Post
<1>9. CASE CallAgain(c)
  BY <1>2, <1>9 DEF CallAgain, Post
<1>10. CASE CallDone(c) \/ CallTimeout(c) \/ CallInterrupted(c)
  BY <1>2, <1>10 DEF CallDone, CallTimeout, CallInterrupted, AfterCall
<1>11. CASE CloseClient(c)
  BY <1>1, <1>2, <1>11 DEF CloseClient, Detach
<1>12. CASE CrashClient(c)
  BY <1>1, <1>2, <1>3, <1>12 DEF CrashClient
<1> QED BY <1>4, <1>5, <1>6, <1>7, <1>8, <1>9, <1>10, <1>11, <1>12 DEF ClientNext

\* A server stops listening only when its workers are gone.
LEMMA ServerPlaces ==
  ASSUME IInv, Places, NEW s \in Servers, ServerNext(s)
  PROVE  Places'
<1>1. /\ s \in Procs
      /\ \A c \in Clients : c \in Procs /\ c # s /\ c \notin Workers
      /\ \A w \in Workers : w \in Procs /\ w # s /\ w \notin Clients
                             /\ BossOf[w] \in Procs /\ BossOf[w] \in Servers
      /\ \A r \in Servers : r \in Procs /\ r \notin Workers
      /\ pc \in [Procs -> ClientPcs \cup ServerPcs \cup WorkerPcs]
      /\ ref \in [Procs -> {"none", "name", "thread", "buffer"}]
  BY ConstantsAssumption DEF IInv, TypeOK, ControlTypes, HandleTypes, Procs
<1>2. ASSUME NEW l, Goto(s, l), \A c \in Clients : ref[c] # "buffer" => ref'[c] # "buffer",
             \/ l \in Listening
             \/ pc[s] \notin Listening
             \/ \A w \in Workers : BossOf[w] = s => pc[w] \in {"idle", "crashed"}
      PROVE  Places'
  <2>1. pc'[s] = l /\ \A p \in Procs \ {s} : pc'[p] = pc[p]
    BY <1>1, <1>2 DEF Goto
  <2> QED BY <1>1, <1>2, <2>1 DEF Places
<1>3. ASSUME ReleaseFile PROVE \A p \in Procs : ref'[p] = ref[p] \/ ref'[p] = "none"
  BY <1>3 DEF ReleaseFile
<1> USE DEF Listening
<1>4. CASE OpenFile(s)
  BY <1>2, <1>4 DEF OpenFile
<1>5. CASE AttachServer(s)
  BY <1>1, <1>2, <1>5 DEF AttachServer
<1>6. CASE CloseFile(s)
  BY <1>1, <1>2, <1>3, <1>6 DEF CloseFile
<1>7. CASE Listen(s) \/ ListenWake(s) \/ ListenInterrupted(s)
  BY <1>2, <1>7 DEF Listen, ListenWake, ListenInterrupted
<1>8. CASE ListenPick(s)
  <2>1. ASSUME NEW w \in IdleWorkers(s), pc' = [pc EXCEPT ![s] = "ready", ![w] = "start"],
               ref' = [ref EXCEPT ![w] = "buffer"]
        PROVE  Places'
    <3>1. w \in Workers /\ BossOf[w] = s
      BY DEF IdleWorkers
    <3>2. /\ pc'[s] = "ready" /\ pc'[w] = "start"
          /\ \A p \in Procs \ {s, w} : pc'[p] = pc[p]
          /\ \A c \in Clients : ref'[c] = ref[c] /\ c # w
      BY <1>1, <2>1, <3>1
    <3> QED BY <1>1, <3>1, <3>2 DEF Places
  <2>2. ASSUME Goto(s, "ready"), ref' = ref PROVE Places'
    BY <1>2, <2>2
  <2> QED BY <1>8, <2>1, <2>2 DEF ListenPick
<1>9. CASE CloseServer(s)
  BY <1>1, <1>2, <1>9 DEF CloseServer
<1>10. CASE CrashServer(s)
  <2>1. /\ \A w \in Workers : pc'[w] = IF BossOf[w] = s THEN "crashed" ELSE pc[w]
        /\ \A r \in Servers : r # s => pc'[r] = pc[r]
        /\ \A c \in Clients : pc'[c] = pc[c]
    BY <1>1, <1>10 DEF CrashServer
  <2>2. \A c \in Clients : ref'[c] = ref[c] \/ ref'[c] = "none"
    BY <1>1, <1>3, <1>10 DEF CrashServer
  <2> QED BY <1>1, <2>1, <2>2 DEF Places
<1> QED BY <1>4, <1>5, <1>6, <1>7, <1>8, <1>9, <1>10 DEF ServerNext

\* A worker that runs was running.
LEMMA WorkerPlaces ==
  ASSUME IInv, Places, NEW w \in Workers, WorkerNext(w)
  PROVE  Places'
<1>1. /\ w \in Procs
      /\ \A c \in Clients : c \in Procs /\ c # w
      /\ \A v \in Workers : v \in Procs /\ BossOf[v] \in Procs /\ BossOf[v] # w
      /\ pc \in [Procs -> ClientPcs \cup ServerPcs \cup WorkerPcs]
      /\ ref \in [Procs -> {"none", "name", "thread", "buffer"}]
  BY ConstantsAssumption DEF IInv, TypeOK, ControlTypes, HandleTypes, Procs
<1>2. /\ pc[w] \notin {"idle", "crashed"} /\ (\E l : Goto(w, l))
      /\ ref' = ref \/ ref' = [ref EXCEPT ![w] = "none"]
  BY DEF WorkerNext, Accept, AcceptWake, AcceptRead, AcceptInterrupted, Serve, Done,
         CloseAccepted, Detach
<1>3. /\ \A p \in Procs \ {w} : pc'[p] = pc[p]
      /\ \A c \in Clients : ref'[c] = ref[c]
  BY <1>1, <1>2 DEF Goto
<1> QED BY <1>1, <1>2, <1>3 DEF Places

\* Servers outlive their workers.
LEMMA PlacesStep == IInv /\ Places /\ [Next]_vars => Places'
<1>1. ASSUME Places, UNCHANGED vars PROVE Places'
  BY <1>1 DEF vars, Places
<1> QED BY <1>1, ClientPlaces, ServerPlaces, WorkerPlaces DEF Next

-----------------------------------------------------------------------------
(* The sessions.                                                           *)

\* Workers on b that wait for its next call.
Ready(b) == {w \in Workers : h[w] = b /\ pc[w] \in {"start", "accepting"}}

\* No call of the buffer with record r and waiting workers R will be taken:
\* none is posted, or, when signals may have posted it again, the worker that
\* would take it is gone.
Spent(r, R) == IF "signal" \in Faults THEN r.connected # 0 /\ R = {} ELSE r.call = 0

\* A client at l, its buffer's record r, the workers S serving it and R waiting
\* for it: a call is posted, being served or answered, never two of them.
SessionOf(l, r, S, R) ==
  /\ l = "open" => r.call = 0 /\ r.done = 0 /\ S = {}
  /\ l = "last" => r.done = 0 /\ S = {} /\ Spent(r, R) /\ r.connected # 0
  /\ l \in {"calling", "again"} =>
       /\ r.done <= 1
       /\ r.done = 1 => S = {}
       /\ r.done = 1 \/ S # {} => Spent(r, R)
       /\ \A v, w \in S : v = w
       /\ "signal" \notin Faults => r.call <= 1
       /\ r.do_what.op \in Ops
  /\ l = "again" => "signal" \in Faults

Session(c) == SessionOf(pc[c], buf[h[c]], Serving(h[c]), Ready(h[c]))

\* An answered buffer was taken by a listener; what is posted is a request.
BufferOf(r) == /\ r.done > 0 => r.connected # 0
               /\ r.call > 0 => r.do_what.op \in Ops

\* A client that keeps buffer b until it is answered, or for good.
Waits(c, b) == ref[c] = "buffer" /\ h[c] = b /\ pc[c] \in {"calling", "again", "crashed"}

InService(w) ==
  pc[w] \in {"woken", "exec", "answer"} \/ (pc[w] = "leave" /\ job[w].op = "close")

\* A worker that has a call, or can take one, has a client that waits for it.
Service(w) ==
  /\ InService(w) => buf[h[w]].connected # 0
  /\ InService(w) \/ (pc[w] \in {"start", "accepting"} /\ buf[h[w]].call > 0)
       => \E c \in Clients : Waits(c, h[w])
  /\ pc[w] = "woken" => buf[h[w]].do_what.op \in Ops
  /\ pc[w] \in {"exec", "answer", "leave"} => job[w].op \in Ops

SessionInv ==
  /\ \A c \in Clients : Session(c)
  /\ \A b \in BufIds : BufferOf(buf[b])
  /\ \A w \in Workers : Service(w)

\* What the proofs about one step use of the invariants.
LEMMA SessionFacts ==
  ASSUME IInv, ChannelInv, SessionInv
  PROVE  /\ \A c \in Clients : pc[c] \in InSession =>
              ref[c] = "buffer" /\ h[c] \in BufIds /\ buf_cnt[h[c]] > 0
         /\ \A c \in Clients : ref[c] = "buffer" => h[c] \in BufIds /\ buf_cnt[h[c]] > 0
         /\ \A w \in Workers : ref[w] = "buffer" =>
              h[w] \in BufIds /\ buf_cnt[h[w]] > 0 /\ buf[h[w]].connected # 0
         /\ \A w \in Workers : pc[w] \in {"start", "accepting", "woken", "exec", "leave"} =>
              ref[w] = "buffer"
         /\ \A w \in Workers : InService(w) => h[w] \in BufIds /\ buf_cnt[h[w]] > 0
<1>1. /\ \A c \in Clients : pc[c] \in InSession => ref[c] = "buffer"
      /\ \A w \in Workers : pc[w] \in {"start", "accepting", "woken", "exec", "leave"} =>
              ref[w] = "buffer"
  BY DEF IInv, HandlesConsistent, ClientRef, WorkerRef, Attached
<1>2. /\ \A c \in Clients : ref[c] = "buffer" => h[c] \in BufIds /\ buf_cnt[h[c]] > 0
      /\ \A w \in Workers : ref[w] = "buffer" => h[w] \in BufIds /\ buf_cnt[h[w]] > 0
  BY HeldLive DEF Users
<1>3. \A w \in Workers : ref[w] = "buffer" => buf[h[w]].connected # 0
  BY DEF ChannelInv, WorkersTaken
<1>4. \A w \in Workers : InService(w) => h[w] \in BufIds /\ buf_cnt[h[w]] > 0
  BY <1>2 DEF SessionInv, Service, Waits
<1> QED BY <1>1, <1>2, <1>3, <1>4

\* A step of client d that leaves every buffer outside B alone, where no other
\* client has a buffer of B: only d and the workers on B, or those d waited for,
\* remain to be looked at.
LEMMA ClientSessionFrame ==
  ASSUME IInv, ChannelInv, SessionInv, NEW d \in Clients, NEW B,
         \A w \in Workers : pc'[w] = pc[w] /\ h'[w] = h[w] /\ job'[w] = job[w],
         \A c \in Clients \ {d} : pc'[c] = pc[c] /\ h'[c] = h[c] /\ ref'[c] = ref[c],
         \A b \in BufIds \ B : buf'[b] = buf[b],
         \A c \in Clients \ {d} : pc[c] \in InSession => h[c] \notin B,
         Session(d)',
         \A b \in BufIds \cap B : BufferOf(buf'[b]),
         \A w \in Workers : Waits(d, h[w]) \/ h[w] \in B => Service(w)'
  PROVE  SessionInv'
<1>1. ASSUME NEW c \in Clients, c # d PROVE Session(c)'
  <2>1. pc'[c] = pc[c] /\ h'[c] = h[c]
    BY <1>1
  <2>2. Serving(h[c])' = Serving(h[c]) /\ Ready(h[c])' = Ready(h[c])
    BY <2>1 DEF Serving, Ready
  <2>3. CASE pc[c] \in InSession
    <3>1. buf'[h'[c]] = buf[h[c]]
      BY <1>1, <2>1, <2>3, SessionFacts
    <3> QED BY <2>1, <2>2, <3>1 DEF Session, SessionInv
  <2>4. CASE pc[c] \notin InSession
    BY <2>1, <2>4 DEF Session, SessionOf, InSession
  <2> QED BY <2>3, <2>4
<1>2. \A b \in BufIds : BufferOf(buf'[b])
  BY DEF SessionInv
<1>3. ASSUME NEW w \in Workers PROVE Service(w)'
  <2>1. CASE Waits(d, h[w]) \/ h[w] \in B
    BY <2>1
  <2>2. CASE ~Waits(d, h[w]) /\ h[w] \notin B
    <3>1. Service(w)
      BY DEF SessionInv
    <3>2. pc[w] \in {"start", "accepting", "woken", "exec", "leave"} \/ InService(w)
            => h[w] \in BufIds
      BY SessionFacts
    <3>3. pc[w] \in {"start", "accepting", "woken", "exec", "leave"} \/ InService(w)
            => buf'[h'[w]] = buf[h[w]]
      BY <2>2, <3>2
    <3>4. ASSUME NEW c \in Clients, Waits(c, h[w]) PROVE Waits(c, h[w])'
      BY <2>2, <3>4 DEF Waits
    <3>5. InService(w)' <=> InService(w)
      BY DEF InService
    <3> QED BY <3>1, <3>3, <3>4, <3>5 DEF Service, InService
  <2> QED BY <2>1, <2>2
<1> QED BY <1>1, <1>2, <1>3 DEF SessionInv

\* The same with one buffer.
LEMMA ClientSessionAt ==
  ASSUME IInv, ChannelInv, SessionInv, NEW d \in Clients, NEW b0 \in BufIds,
         \A w \in Workers : pc'[w] = pc[w] /\ h'[w] = h[w] /\ job'[w] = job[w],
         \A c \in Clients \ {d} : pc'[c] = pc[c] /\ h'[c] = h[c] /\ ref'[c] = ref[c],
         \A b \in BufIds \ {b0} : buf'[b] = buf[b],
         \A c \in Clients \ {d} : pc[c] \in InSession => h[c] # b0,
         Session(d)', BufferOf(buf'[b0]),
         \A w \in Workers : Waits(d, h[w]) \/ h[w] = b0 => Service(w)'
  PROVE  SessionInv'
<1> DEFINE B == {b0}
<1>1. /\ \A b \in BufIds \ B : buf'[b] = buf[b]
      /\ \A c \in Clients \ {d} : pc[c] \in InSession => h[c] \notin B
      /\ \A b \in BufIds \cap B : BufferOf(buf'[b])
      /\ \A w \in Workers : Waits(d, h[w]) \/ h[w] \in B => Service(w)'
  OBVIOUS
<1> HIDE DEF B
<1> QED BY <1>1, ClientSessionFrame

\* Sessions depend on nothing else; workers may be killed.
LEMMA SessionSame ==
  ASSUME SessionInv, UNCHANGED <<buf, h, job>>,
         \A p \in Clients : pc'[p] = pc[p] /\ ref'[p] = ref[p],
         \A w \in Workers : pc'[w] = pc[w] \/ pc'[w] = "crashed"
  PROVE  SessionInv'
<1>1. ASSUME NEW c \in Clients PROVE Session(c)'
  <2>1. Serving(h[c])' \subseteq Serving(h[c]) /\ Ready(h[c])' \subseteq Ready(h[c])
    BY DEF Serving, Ready
  <2>2. \A S, R, T, U : /\ SessionOf(pc[c], buf[h[c]], S, R)
                        /\ T \subseteq S /\ U \subseteq R
                        => SessionOf(pc[c], buf[h[c]], T, U)
    BY DEF SessionOf, Spent
  <2>3. SessionOf(pc[c], buf[h[c]], Serving(h[c]), Ready(h[c]))
    BY DEF SessionInv, Session
  <2>4. SessionOf(pc[c], buf[h[c]], Serving(h[c])', Ready(h[c])')
    BY <2>1, <2>2, <2>3
  <2> QED BY <2>4 DEF Session
<1>2. \A w \in Workers : Service(w)'
  BY DEF SessionInv, Service, InService, Waits
<1> QED BY <1>1, <1>2 DEF SessionInv

\* After the last close nobody is in a session or works for one.
LEMMA LastSession ==
  ASSUME IInv', Places', ReleaseFile, LastFile
  PROVE  SessionInv'
<1>1. /\ \A c \in Clients : ref'[c] = "none" /\ c \in Procs
      /\ \A s \in Servers : ref'[s] = "none"
      /\ buf' = [b \in BufIds |-> Buf0]
  BY DEF ReleaseFile, Procs
<1>2. \A c \in Clients : pc'[c] \notin InSession
  BY <1>1 DEF IInv, HandlesConsistent, ClientRef
<1>3. \A s \in Servers : pc'[s] \notin Listening
  BY <1>1 DEF IInv, HandlesConsistent, ServerRef
<1>4. \A w \in Workers : pc'[w] \in {"idle", "crashed"}
  BY <1>3, ConstantsAssumption DEF Places
<1>5. \A c \in Clients : Session(c)'
  BY <1>2 DEF Session, SessionOf, InSession
<1>6. \A b \in BufIds : BufferOf(buf'[b])
  BY <1>1 DEF BufferOf, Buf0
<1>7. \A w \in Workers : Service(w)'
  BY <1>4 DEF Service, InService
<1> QED BY <1>5, <1>6, <1>7 DEF SessionInv

\* A step of client d that writes no buffer and keeps d's handle: d's new place
\* is compatible with its buffer, and d still waits if it did.
LEMMA ClientSessionMoves ==
  ASSUME IInv, ChannelInv, SessionInv, NEW d \in Clients, NEW l, Goto(d, l),
         UNCHANGED <<buf, job>>,
         \A p \in Users \ {d} : h'[p] = h[p] /\ ref'[p] = ref[p],
         \/ l \notin InSession
         \/ h'[d] = h[d] /\ SessionOf(l, buf[h[d]], Serving(h[d]), Ready(h[d])),
         \A b : Waits(d, b) => Waits(d, b)'
  PROVE  SessionInv'
<1>1. /\ \A w \in Workers : w \in Users /\ w \in Procs /\ w # d
      /\ \A c \in Clients : c \in Users /\ c \in Procs
      /\ pc \in [Procs -> ClientPcs \cup ServerPcs \cup WorkerPcs]
  BY ConstantsAssumption DEF IInv, TypeOK, ControlTypes, Users, Procs
<1>2. pc'[d] = l /\ \A p \in Procs \ {d} : pc'[p] = pc[p]
  BY <1>1 DEF Goto
<1>3. /\ \A w \in Workers : pc'[w] = pc[w] /\ h'[w] = h[w] /\ job'[w] = job[w]
      /\ \A c \in Clients \ {d} : pc'[c] = pc[c] /\ h'[c] = h[c] /\ ref'[c] = ref[c]
  BY <1>1, <1>2
<1>4. Session(d)'
  <2>1. CASE l \notin InSession
    BY <1>2, <2>1 DEF Session, SessionOf, InSession
  <2>2. CASE h'[d] = h[d] /\ SessionOf(l, buf[h[d]], Serving(h[d]), Ready(h[d]))
    <3>1. Serving(h[d])' = Serving(h[d]) /\ Ready(h[d])' = Ready(h[d])
      BY <1>3, <2>2 DEF Serving, Ready
    <3> QED BY <1>2, <2>2, <3>1 DEF Session
  <2> QED BY <2>1, <2>2
<1>5. ASSUME NEW w \in Workers, Waits(d, h[w]) PROVE Service(w)'
  <2>1. Service(w) /\ (InService(w)' <=> InService(w)) /\ buf'[h'[w]] = buf[h[w]]
    BY <1>3 DEF SessionInv, InService
  <2>2. Waits(d, h[w])'
    BY <1>3, <1>5 DEF Waits
  <2> QED BY <1>3, <2>1, <2>2 DEF Service
<1> DEFINE B == {}
<1>6. /\ \A b \in BufIds \ B : buf'[b] = buf[b]
      /\ \A c \in Clients \ {d} : pc[c] \in InSession => h[c] \notin B
      /\ \A b \in BufIds \cap B : BufferOf(buf'[b])
      /\ \A w \in Workers : Waits(d, h[w]) \/ h[w] \in B => Service(w)'
  BY <1>5
<1> HIDE DEF B
<1> QED BY <1>3, <1>4, <1>6, ClientSessionFrame

\* Every step of a client keeps the sessions.
LEMMA ClientSessions ==
  ASSUME Orderly, IInv, IInv', ChannelInv, Places', SessionInv, NEW d \in Clients, ClientNext(d)
  PROVE  SessionInv'
<1>1. /\ d \in Procs /\ d \in Users /\ d \notin Workers /\ ClientRef(d)
      /\ NameOf[d] \in Names /\ TidOf[d] \in Tids
      /\ \A w \in Workers : w \in Users /\ w \in Procs /\ w # d
      /\ \A c \in Clients : c \in Users /\ c \in Procs
      /\ \A p \in Users : p \in Procs
      /\ buf \in [BufIds -> BufRec] /\ h \in [Users -> BufIds \cup {NoBuf}]
      /\ ref \in [Procs -> {"none", "name", "thread", "buffer"}]
      /\ pc \in [Procs -> ClientPcs \cup ServerPcs \cup WorkerPcs]
  BY ConstantsAssumption
  DEF Procs, Users, IInv, HandlesConsistent, TypeOK, HandleTypes, KernelTypes, ControlTypes
<1>2. /\ Session(d)
      /\ pc[d] \in InSession => ref[d] = "buffer" /\ h[d] \in BufIds
      /\ \A c \in Clients \ {d} : pc[c] \in InSession /\ ref[d] = "buffer" => h[c] # h[d]
  BY SessionFacts DEF SessionInv, ChannelInv, OneClientPerBuffer
<1>3. \A l : Goto(d, l) => pc'[d] = l /\ \A p \in Procs \ {d} : pc'[p] = pc[p]
  BY <1>1 DEF Goto
<1>4. CASE OpenFile(d)
  <2>1. Goto(d, "file") /\ UNCHANGED <<buf, job, h, ref>> /\ pc[d] = "closed"
    BY <1>4 DEF OpenFile, data
  <2> QED BY <2>1, ClientSessionMoves DEF InSession, Waits
<1>5. ASSUME NEW l \in {"gone", "closed", "crashed"}, Goto(d, l), ReleaseFile, h' = h, job' = job,
             pc[d] \in {"detached", "failed"} \/ l = "crashed"
      PROVE  SessionInv'
  <2>1. CASE LastFile
    BY <1>5, <2>1, LastSession
  <2>2. CASE ~LastFile
    <3>1. buf' = buf /\ ref' = ref
      BY <2>2, <1>5 DEF ReleaseFile
    <3>2. \A b : Waits(d, b) => Waits(d, b)'
      BY <1>3, <1>5, <3>1 DEF Waits
    <3> QED BY <1>5, <3>1, <3>2, ClientSessionMoves DEF InSession
  <2> QED BY <2>1, <2>2
<1>6. CASE CloseFile(d)
  BY <1>5, <1>6 DEF CloseFile, data
<1>7. CASE CrashClient(d)
  BY <1>5, <1>7 DEF CrashClient, data
<1>8. ASSUME NEW q \in Requests, Resize(d, q) PROVE SessionInv'
  BY <1>8, SessionSame DEF Resize, kernel, data
<1>9. CASE CallInterrupted(d)
  <2>1. Goto(d, "again") /\ UNCHANGED <<buf, job, h, ref>> /\ pc[d] = "calling"
        /\ "signal" \in Faults
    BY <1>9 DEF CallInterrupted, data, kernel, Fault
  <2>2. SessionOf("again", buf[h[d]], Serving(h[d]), Ready(h[d]))
    BY <1>2, <2>1 DEF Session, SessionOf
  <2>3. \A b : Waits(d, b) => Waits(d, b)'
    BY <1>3, <2>1 DEF Waits
  <2> QED BY <2>1, <2>2, <2>3, ClientSessionMoves
<1>10. ~CallTimeout(d)
  BY DEF CallTimeout, Fault, Orderly
<1>11. CASE AttachClient(d)
  <2> DEFINE n == NameOf[d]
             t == TidOf[d]
  <2>1. job' = job /\ pc[d] = "file"
    BY <1>11 DEF AttachClient, data
  <2>2. ASSUME h' = [h EXCEPT ![d] = <<n, t, 0>>], ref' = [ref EXCEPT ![d] = "thread"],
               buf' = buf, Goto(d, "failed")
        PROVE  SessionInv'
    <3>1. \A p \in Users \ {d} : h'[p] = h[p] /\ ref'[p] = ref[p]
      BY <1>1, <2>2
    <3>2. \A b : ~Waits(d, b)
      BY <2>1 DEF Waits
    <3> QED BY <2>1, <2>2, <3>1, <3>2, ClientSessionMoves DEF InSession
  <2>3. ASSUME NEW i \in FreeSlots(n, t), h' = [h EXCEPT ![d] = <<n, t, i>>],
               buf' = [buf EXCEPT ![<<n, t, i>>] = Buf0],
               ref' = [ref EXCEPT ![d] = "buffer"], Goto(d, "open")
        PROVE  SessionInv'
    <3>1. PICK b0 : b0 = <<n, t, i>>
      OBVIOUS
    <3>2. b0 \in BufIds /\ buf_cnt[b0] = 0
      BY <1>1, <3>1 DEF BufIds, FreeSlots
    <3>3. /\ h'[d] = b0 /\ buf'[b0] = Buf0 /\ pc'[d] = "open"
          /\ \A b \in BufIds \ {b0} : buf'[b] = buf[b]
          /\ \A p \in Users \ {d} : pc'[p] = pc[p] /\ h'[p] = h[p] /\ ref'[p] = ref[p]
      BY <1>1, <1>3, <2>3, <3>1, <3>2
    <3>4. /\ \A w \in Workers : pc'[w] = pc[w] /\ h'[w] = h[w] /\ job'[w] = job[w]
          /\ \A c \in Clients \ {d} : pc'[c] = pc[c] /\ h'[c] = h[c] /\ ref'[c] = ref[c]
      BY <1>1, <2>1, <3>3
    <3>5. /\ \A w \in Workers : InService(w) => h[w] # b0
          /\ \A w \in Workers : pc[w] \in {"start", "accepting", "woken", "exec", "leave"} =>
                h[w] # b0
          /\ \A c \in Clients \ {d} : pc[c] \in InSession => h[c] # b0
      BY <3>2, SessionFacts
    <3>6. Session(d)'
      <4>1. Serving(b0)' = {}
        BY <3>4, <3>5 DEF Serving, InService
      <4>2. Serving(h[d])' = {}
        BY <3>3, <4>1 DEF Serving
      <4> QED BY <3>3, <4>2 DEF Session, SessionOf, Buf0
    <3>7. BufferOf(buf'[b0])
      BY <3>3 DEF BufferOf, Buf0
    <3>8. \A w \in Workers : ~Waits(d, h[w])
      BY <2>1 DEF Waits
    <3>9. \A w \in Workers : h[w] = b0 => Service(w)'
      BY <3>4, <3>5 DEF Service, InService, SessionInv
    <3> QED BY <3>2, <3>3, <3>4, <3>5, <3>6, <3>7, <3>8, <3>9, ClientSessionAt
  <2> QED BY <1>11, <2>2, <2>3 DEF AttachClient
\* The remaining steps write d's own buffer.
<1>12. ASSUME NEW l, NEW r, Goto(d, l), pc[d] \in InSession, buf' = [buf EXCEPT ![h[d]] = r],
              UNCHANGED <<h, job, ref>>,
              SessionOf(l, r, Serving(h[d]), Ready(h[d])), BufferOf(r),
              r.connected = buf[h[d]].connected,
              \/ l = "calling" /\ r.do_what.op \in Ops
              \/ Serving(h[d]) = {} /\ (Ready(h[d]) = {} \/ r.call = 0)
       PROVE  SessionInv'
  <2>1. PICK b0 : b0 = h[d]
    OBVIOUS
  <2>2. b0 \in BufIds /\ ref[d] = "buffer"
    BY <1>2, <1>12, <2>1
  <2>3. /\ h'[d] = b0 /\ buf'[b0] = r /\ pc'[d] = l /\ ref'[d] = "buffer"
        /\ \A b \in BufIds \ {b0} : buf'[b] = buf[b]
        /\ \A w \in Workers : pc'[w] = pc[w] /\ h'[w] = h[w] /\ job'[w] = job[w]
        /\ \A c \in Clients \ {d} : pc'[c] = pc[c] /\ h'[c] = h[c] /\ ref'[c] = ref[c]
    BY <1>1, <1>3, <1>12, <2>1, <2>2
  <2>4. \A c \in Clients \ {d} : pc[c] \in InSession => h[c] # b0
    BY <1>2, <2>1, <2>2
  <2>5. Session(d)'
    <3>1. Serving(h[d])' = Serving(h[d]) /\ Ready(h[d])' = Ready(h[d])
      BY <2>1, <2>3 DEF Serving, Ready
    <3> QED BY <1>12, <2>3, <3>1 DEF Session
  <2>6. ASSUME NEW w \in Workers, h[w] = b0 PROVE Service(w)'
    <3>1. Service(w) /\ (InService(w)' <=> InService(w)) /\ buf'[h'[w]] = r
      BY <2>3, <2>6 DEF SessionInv, InService
    <3>2. CASE l = "calling" /\ r.do_what.op \in Ops
      <4>1. Waits(d, h[w])'
        BY <2>3, <2>6, <3>2 DEF Waits
      <4> QED BY <1>12, <2>1, <2>3, <2>6, <3>1, <3>2, <4>1 DEF Service
    <3>3. CASE Serving(h[d]) = {} /\ (Ready(h[d]) = {} \/ r.call = 0)
      <4>1. ~InService(w) /\ (pc[w] \notin {"start", "accepting"} \/ r.call = 0)
        BY <2>1, <2>6, <3>3 DEF InService, Serving, Ready
      <4> QED BY <1>12, <2>3, <3>1, <4>1 DEF Service, InService
    <3> QED BY <1>12, <3>2, <3>3
  <2>7. \A w \in Workers : Waits(d, h[w]) => h[w] = b0
    BY <2>1 DEF Waits
  <2> QED BY <1>12, <2>2, <2>3, <2>4, <2>5, <2>6, <2>7, ClientSessionAt
<1>13. pc[d] \in InSession =>
         /\ BufferOf(buf[h[d]]) /\ buf[h[d]] \in BufRec
         /\ buf[h[d]].call \in Nat /\ buf[h[d]].done \in Nat
  BY <1>1, <1>2 DEF SessionInv, BufRec
<1>14. ASSUME NEW what, what.op \in Ops, Post(d, what),
              pc[d] = "open" \/ (pc[d] = "again" /\ "signal" \in Faults)
       PROVE  SessionInv'
  <2> DEFINE r == PostCall(buf[h[d]], what)
  <2>1. /\ Goto(d, "calling") /\ pc[d] \in InSession /\ UNCHANGED <<h, job, ref>>
        /\ buf' = [buf EXCEPT ![h[d]] = r]
    BY <1>14 DEF Post, InSession
  <2>2. /\ r.connected = buf[h[d]].connected /\ r.done = buf[h[d]].done
        /\ r.call = buf[h[d]].call + 1 /\ r.do_what = what
    BY <1>13, <2>1 DEF PostCall, BufRec
  <2> HIDE DEF r
  <2>3. SessionOf("calling", r, Serving(h[d]), Ready(h[d]))
    BY <1>2, <1>13, <1>14, <2>1, <2>2 DEF Session, SessionOf, Spent
  <2>4. BufferOf(r)
    BY <1>13, <1>14, <2>1, <2>2 DEF BufferOf
  <2> QED BY <1>12, <1>14, <2>1, <2>2, <2>3, <2>4
<1>15. ASSUME NEW op \in Ops, Call(d, op) PROVE SessionInv'
  BY <1>14, <1>15 DEF Call
<1>16. CASE CallAgain(d)
  <2>1. pc[d] = "again" /\ Post(d, buf[h[d]].do_what)
    BY <1>16 DEF CallAgain
  <2>2. buf[h[d]].do_what.op \in Ops /\ "signal" \in Faults
    BY <1>2, <2>1 DEF Session, SessionOf
  <2> QED BY <1>14, <2>1, <2>2
<1>17. CASE CallDone(d)
  <2> DEFINE r == TakeDone(buf[h[d]])
  <2>1. /\ Goto(d, AfterCall(d)) /\ pc[d] \in InSession /\ UNCHANGED <<h, job, ref>>
        /\ buf' = [buf EXCEPT ![h[d]] = r] /\ buf[h[d]].done > 0 /\ pc[d] = "calling"
    BY <1>17 DEF CallDone, InSession, data
  <2>2. /\ r.connected = buf[h[d]].connected /\ r.done = buf[h[d]].done - 1
        /\ r.call = buf[h[d]].call /\ r.do_what = buf[h[d]].do_what
    BY <1>13, <2>1 DEF TakeDone, BufRec
  <2> HIDE DEF r
  <2>3. /\ r.done = 0 /\ Serving(h[d]) = {} /\ Spent(r, Ready(h[d]))
        /\ buf[h[d]].do_what.op \in Ops /\ r.connected # 0
    BY <1>2, <1>13, <2>1, <2>2 DEF Session, SessionOf, Spent, BufferOf
  <2>4. SessionOf(AfterCall(d), r, Serving(h[d]), Ready(h[d]))
    <3>1. CASE buf[h[d]].do_what.op = "work"
      BY <2>3, <3>1 DEF SessionOf, AfterCall, Spent, Orderly
    <3>2. CASE buf[h[d]].do_what.op # "work"
      BY <2>3, <3>2 DEF SessionOf, AfterCall
    <3> QED BY <3>1, <3>2
  <2>5. BufferOf(r)
    BY <1>13, <2>1, <2>2, <2>3 DEF BufferOf
  <2>6. Ready(h[d]) = {} \/ r.call = 0
    BY <2>3 DEF Spent
  <2> QED BY <1>12, <2>1, <2>2, <2>3, <2>4, <2>5, <2>6
<1>18. CASE CloseClient(d)
  <2>1. PICK b0 : b0 = h[d]
    OBVIOUS
  <2>2. /\ pc[d] = "last" /\ Detach(d, b0) /\ Goto(d, "detached") /\ job' = job
        /\ h' = [h EXCEPT ![d] = NoBuf]
    BY <1>18, <2>1 DEF CloseClient, Fault, Orderly
  <2>3. b0 \in BufIds /\ ref[d] = "buffer" /\ buf[b0] \in BufRec
    BY <1>1, <1>2, <2>1, <2>2 DEF InSession
  <2>4. /\ pc'[d] = "detached"
        /\ buf' = [buf EXCEPT ![b0] = IF buf_cnt[b0] - 1 <= 0 THEN Buf0 ELSE SetConnected(@, -1)]
        /\ ref' = [ref EXCEPT ![d] = "none"]
    BY <1>3, <2>2 DEF Detach
  <2>5. /\ \A b \in BufIds \ {b0} : buf'[b] = buf[b]
        /\ \A w \in Workers : pc'[w] = pc[w] /\ h'[w] = h[w] /\ job'[w] = job[w]
        /\ \A c \in Clients \ {d} : pc'[c] = pc[c] /\ h'[c] = h[c] /\ ref'[c] = ref[c]
    BY <1>1, <1>3, <2>2, <2>3, <2>4
  <2>6. \A c \in Clients \ {d} : pc[c] \in InSession => h[c] # b0
    BY <1>2, <2>1, <2>3
  <2>7. Session(d)'
    BY <2>4 DEF Session, SessionOf
  <2>8. /\ buf[b0].done = 0 /\ Serving(b0) = {} /\ Spent(buf[b0], Ready(b0))
        /\ BufferOf(buf[b0])
    BY <1>2, <1>13, <2>1, <2>2 DEF Session, SessionOf, InSession
  <2>9. /\ buf'[b0].done = 0
        /\ \/ buf'[b0].call = 0
           \/ /\ buf'[b0].call = buf[b0].call
              /\ buf'[b0].do_what = buf[b0].do_what
    <3>1. buf'[b0] = Buf0 \/ buf'[b0] = SetConnected(buf[b0], -1)
      BY <1>1, <2>3, <2>4
    <3> QED BY <2>3, <2>8, <3>1 DEF Buf0, SetConnected, BufRec
  <2>10. BufferOf(buf'[b0])
    BY <2>8, <2>9 DEF BufferOf
  <2>11. ASSUME NEW w \in Workers, h[w] = b0 PROVE Service(w)'
    <3>1. ~InService(w) /\ (pc[w] \notin {"start", "accepting"} \/ buf'[b0].call = 0)
      BY <2>8, <2>9, <2>11 DEF InService, Serving, Ready, Spent
    <3> QED BY <2>5, <2>11, <3>1 DEF Service, InService, SessionInv
  <2>12. \A w \in Workers : ~Waits(d, h[w])
    BY <2>2 DEF Waits
  <2> QED BY <2>3, <2>5, <2>6, <2>7, <2>10, <2>11, <2>12, ClientSessionAt
<1> QED
  BY <1>4, <1>6, <1>7, <1>8, <1>9, <1>10, <1>11, <1>15, <1>16, <1>17, <1>18 DEF ClientNext

\* Every step of a server keeps the sessions.
LEMMA ServerSessions ==
  ASSUME IInv, IInv', ChannelInv, Places, Places', SessionInv, NEW s \in Servers, ServerNext(s)
  PROVE  SessionInv'
<1>1. /\ s \in Procs /\ s \notin Users
      /\ \A p \in Users : p \in Procs /\ p # s
      /\ \A c \in Clients : c \in Users /\ c \notin Workers
      /\ \A w \in Workers : w \in Users /\ w \notin Clients
      /\ buf \in [BufIds -> BufRec] /\ h \in [Users -> BufIds \cup {NoBuf}]
      /\ ref \in [Procs -> {"none", "name", "thread", "buffer"}]
      /\ pc \in [Procs -> ClientPcs \cup ServerPcs \cup WorkerPcs]
  BY ConstantsAssumption
  DEF Procs, Users, IInv, TypeOK, HandleTypes, KernelTypes, ControlTypes
<1>2. \A l : Goto(s, l) => \A p \in Users : pc'[p] = pc[p]
  BY <1>1 DEF Goto
<1>3. ASSUME ReleaseFile, UNCHANGED <<h, job>>, \A c \in Clients : pc'[c] = pc[c],
             \A w \in Workers : pc'[w] = pc[w] \/ pc'[w] = "crashed"
      PROVE  SessionInv'
  <2>1. CASE LastFile
    BY <1>3, <2>1, LastSession
  <2>2. CASE ~LastFile
    BY <1>3, <2>2, SessionSame DEF ReleaseFile
  <2> QED BY <2>1, <2>2
<1>4. CASE OpenFile(s) \/ AttachServer(s) \/ Listen(s) \/ ListenWake(s) \/ ListenInterrupted(s)
           \/ CloseServer(s)
  <2>1. UNCHANGED <<buf, h, job>> /\ \E l : Goto(s, l)
    BY <1>4
    DEF OpenFile, AttachServer, Listen, ListenWake, ListenInterrupted, CloseServer, data, kernel
  <2>2. \A p \in Users : ref'[p] = ref[p]
    BY <1>1, <1>4
    DEF OpenFile, AttachServer, Listen, ListenWake, ListenInterrupted, CloseServer
  <2> QED BY <1>1, <1>2, <2>1, <2>2, SessionSame
<1>5. CASE CloseFile(s)
  <2>1. ReleaseFile /\ UNCHANGED <<h, job>> /\ \E l : Goto(s, l)
    BY <1>5 DEF CloseFile, data
  <2> QED BY <1>1, <1>2, <1>3, <2>1
<1>6. CASE CrashServer(s)
  <2>1. /\ \A c \in Clients : pc'[c] = pc[c]
        /\ \A w \in Workers : pc'[w] = pc[w] \/ pc'[w] = "crashed"
    BY <1>1, <1>6 DEF CrashServer
  <2> QED BY <1>3, <1>6, <2>1 DEF CrashServer, data
<1>7. CASE ListenPick(s)
  <2>1. job' = job
    BY <1>7 DEF ListenPick, data
  <2>2. ASSUME Goto(s, "ready"), UNCHANGED <<buf, h, ref>> PROVE SessionInv'
    BY <1>1, <1>2, <2>1, <2>2, SessionSame
  <2>3. ASSUME NEW b0 \in Unconnected(NameOf[s]), NEW w0 \in IdleWorkers(s),
               buf' = [buf EXCEPT ![b0] = SetConnected(@, 1)],
               h' = [h EXCEPT ![w0] = b0],
               ref' = [ref EXCEPT ![w0] = "buffer"],
               pc' = [pc EXCEPT ![s] = "ready", ![w0] = "start"]
        PROVE  SessionInv'
    <3>1. /\ w0 \in Workers /\ pc[w0] = "idle"
          /\ b0 \in BufIds /\ buf_cnt[b0] > 0 /\ buf[b0].connected = 0
      BY DEF IdleWorkers, Unconnected
    <3>2. /\ pc'[w0] = "start" /\ h'[w0] = b0
          /\ \A p \in Users \ {w0} : pc'[p] = pc[p] /\ h'[p] = h[p] /\ ref'[p] = ref[p]
          /\ \A b \in BufIds \ {b0} : buf'[b] = buf[b]
          /\ buf'[b0] = SetConnected(buf[b0], 1)
      BY <1>1, <2>3, <3>1
    <3>3. /\ \A c \in Clients : pc'[c] = pc[c] /\ h'[c] = h[c] /\ ref'[c] = ref[c]
          /\ \A w \in Workers \ {w0} : pc'[w] = pc[w] /\ h'[w] = h[w]
      BY <1>1, <3>1, <3>2
    <3>4. /\ buf'[b0].connected = 1 /\ buf'[b0].call = buf[b0].call
          /\ buf'[b0].done = buf[b0].done /\ buf'[b0].do_what = buf[b0].do_what
      BY <1>1, <3>1, <3>2 DEF SetConnected, BufRec
    <3>5. \A b : Serving(b)' = Serving(b) /\ (b # b0 => Ready(b)' = Ready(b))
      BY <2>1, <3>1, <3>2, <3>3 DEF Serving, Ready
    <3>6. BufferOf(buf[b0]) /\ buf[b0].done = 0 /\ Serving(b0) = {}
      <4>1. BufferOf(buf[b0]) /\ buf[b0].done \in Nat
        BY <1>1, <3>1 DEF SessionInv, BufRec
      <4>2. \A w \in Workers : InService(w) => h[w] # b0
        BY <3>1 DEF SessionInv, Service
      <4> QED BY <3>1, <4>1, <4>2 DEF BufferOf, Serving, InService
    <3>7. ASSUME NEW c \in Clients PROVE Session(c)'
      <4>1. Session(c)
        BY DEF SessionInv
      <4>2. CASE pc[c] \notin InSession
        BY <3>3, <4>2 DEF Session, SessionOf, InSession
      <4>3. CASE pc[c] \in InSession /\ h[c] # b0
        <5>1. h[c] \in BufIds
          BY <4>3, SessionFacts
        <5>2. buf'[h'[c]] = buf[h[c]]
          BY <3>2, <3>3, <4>3, <5>1
        <5>3. Serving(h[c])' = Serving(h[c]) /\ Ready(h[c])' = Ready(h[c])
          BY <2>1, <3>1, <3>2, <3>3, <4>3 DEF Serving, Ready
        <5> QED BY <3>3, <4>1, <5>2, <5>3 DEF Session
      <4>4. CASE pc[c] \in InSession /\ h[c] = b0
        <5>1. Serving(h[c])' = {}
          BY <2>1, <3>1, <3>2, <3>3, <3>6, <4>4 DEF Serving
        <5>2. /\ buf'[h'[c]].call = buf[b0].call /\ buf'[h'[c]].done = 0
              /\ buf'[h'[c]].do_what = buf[b0].do_what /\ pc[c] # "last"
          BY <3>1, <3>3, <3>4, <3>6, <4>1, <4>4 DEF Session, SessionOf
        <5>3. SessionOf(pc[c], buf[b0], {}, Ready(b0))
          BY <3>6, <4>1, <4>4 DEF Session
        <5> HIDE DEF Ready
        <5> QED BY <3>3, <5>1, <5>2, <5>3 DEF Session, SessionOf
      <4> QED BY <4>2, <4>3, <4>4
    <3>8. \A b \in BufIds : BufferOf(buf'[b])
      BY <3>2, <3>4, <3>6 DEF SessionInv, BufferOf
    <3>9. ASSUME NEW w \in Workers, w # w0 PROVE Service(w)'
      <4>1. Service(w) /\ (InService(w)' <=> InService(w))
        BY <2>1, <3>3, <3>9 DEF SessionInv, InService
      <4>2. InService(w) \/ pc[w] \in {"start", "accepting", "woken", "exec", "leave"}
              => h[w] \in BufIds /\ h[w] # b0
        BY <3>1, <4>1, SessionFacts DEF Service
      <4>3. InService(w) \/ pc[w] \in {"start", "accepting", "woken", "exec", "leave"}
              => buf'[h'[w]] = buf[h[w]]
        BY <3>2, <3>3, <3>9, <4>2
      <4>4. (\E c \in Clients : Waits(c, h[w])) => (\E c \in Clients : Waits(c, h[w])')
        BY <3>3, <3>9 DEF Waits
      <4> QED BY <2>1, <3>3, <3>9, <4>1, <4>3, <4>4 DEF Service, InService
    <3>10. Service(w0)'
      <4>1. ASSUME buf'[b0].call > 0 PROVE \E c \in Clients : Waits(c, h[w0])'
        <5>1. PICK p \in Users : ref[p] = "buffer" /\ h[p] = b0
          BY <3>1, LiveHeld
        <5>2. p \in Clients
          BY <3>1, <5>1, SessionFacts DEF Users
        <5>3. Session(p) /\ pc[p] \in ClientPcs /\ ClientRef(p)
          BY <5>2 DEF SessionInv, IInv, TypeOK, ControlTypes, HandlesConsistent
        <5>4. pc[p] \in {"calling", "again", "crashed"}
          BY <3>1, <3>4, <4>1, <5>1, <5>2, <5>3
          DEF Session, SessionOf, ClientPcs, ClientRef, Places
        <5> QED BY <3>2, <3>3, <5>1, <5>2, <5>4 DEF Waits
      <4> QED BY <3>2, <4>1 DEF Service, InService
    <3> QED BY <3>7, <3>8, <3>9, <3>10 DEF SessionInv
  <2> QED BY <1>7, <2>2, <2>3 DEF ListenPick
<1> QED BY <1>4, <1>5, <1>6, <1>7 DEF ServerNext

\* A step of worker w on buffer b0 that writes no other buffer: the client on b0
\* and the worker itself remain to be looked at.
LEMMA WorkerSessionFrame ==
  ASSUME IInv, ChannelInv, SessionInv, NEW w \in Workers, NEW b0 \in BufIds, h[w] = b0,
         h'[w] \in {b0, NoBuf},
         \A v \in Workers \ {w} : pc'[v] = pc[v] /\ h'[v] = h[v] /\ job'[v] = job[v],
         \A c \in Clients : pc'[c] = pc[c] /\ h'[c] = h[c] /\ ref'[c] = ref[c],
         \A b \in BufIds \ {b0} : buf'[b] = buf[b],
         \/ /\ buf[b0].connected # 0 => buf'[b0].connected # 0
            /\ buf[b0].call = 0 => buf'[b0].call = 0
            /\ buf'[b0].do_what = buf[b0].do_what
         \/ /\ ref[w] = "buffer"
            /\ \A c \in Clients : ref[c] = "buffer" => h[c] # b0,
         \A c \in Clients : pc[c] \in InSession /\ h[c] = b0 =>
           SessionOf(pc[c], buf'[b0], Serving(b0)', Ready(b0)'),
         BufferOf(buf'[b0]), Service(w)'
  PROVE  SessionInv'
<1>1. b0 # NoBuf /\ buf[b0].call \in Nat
  <2>1. b0 # NoBuf
    BY DEF BufIds, NoBuf
  <2>2. buf[b0].call \in Nat
    BY DEF IInv, TypeOK, KernelTypes, BufRec
  <2> QED BY <2>1, <2>2
<1>2. ASSUME NEW c \in Clients PROVE Session(c)'
  <2>1. PICK b : b = h[c]
    OBVIOUS
  <2>2. CASE pc[c] \notin InSession
    BY <2>2 DEF Session, SessionOf, InSession
  <2>3. CASE pc[c] \in InSession /\ b # b0
    <3>1. b \in BufIds /\ b # NoBuf
      BY <2>1, <2>3, SessionFacts DEF BufIds, NoBuf
    <3>2. buf'[b] = buf[b] /\ h'[c] = b
      BY <2>1, <2>3, <3>1
    <3>3. Serving(b)' = Serving(b) /\ Ready(b)' = Ready(b)
      BY <2>3, <3>1 DEF Serving, Ready
    <3>4. SessionOf(pc[c], buf[b], Serving(b), Ready(b))
      BY <2>1 DEF SessionInv, Session
    <3>5. SessionOf(pc'[c], buf'[b], Serving(b)', Ready(b)')
      BY <3>2, <3>3, <3>4
    <3> QED BY <3>2, <3>5 DEF Session, Serving, Ready
  <2>4. CASE pc[c] \in InSession /\ b = b0
    <3>1. SessionOf(pc'[c], buf'[b0], Serving(b0)', Ready(b0)') /\ h'[c] = b0
      BY <2>1, <2>4
    <3> QED BY <3>1 DEF Session, Serving, Ready
  <2> QED BY <2>2, <2>3, <2>4
<1>3. \A b \in BufIds : BufferOf(buf'[b])
  BY DEF SessionInv
<1>4. ASSUME NEW v \in Workers, v # w PROVE Service(v)'
  <2>1. Service(v) /\ (InService(v)' <=> InService(v))
    BY <1>4 DEF SessionInv, InService
  <2>2. /\ InService(v) \/ pc[v] \in {"start", "accepting", "woken", "exec", "leave"}
              => h[v] \in BufIds
        /\ pc[v] \in {"start", "accepting", "woken", "exec", "leave"} => ref[v] = "buffer"
    BY SessionFacts
  <2>3. (\E c \in Clients : Waits(c, h[v])) => (\E c \in Clients : Waits(c, h[v])')
    BY <1>4 DEF Waits
  <2>4. CASE h[v] # b0
    <3>1. InService(v) \/ pc[v] \in {"start", "accepting", "woken", "exec", "leave"}
              => buf'[h'[v]] = buf[h[v]]
      BY <1>4, <2>2, <2>4
    <3> QED BY <1>4, <2>1, <2>3, <3>1 DEF Service, InService
  <2>5. CASE /\ h[v] = b0
             /\ buf[b0].connected # 0 => buf'[b0].connected # 0
             /\ buf[b0].call = 0 => buf'[b0].call = 0
             /\ buf'[b0].do_what = buf[b0].do_what
    <3>1. h'[v] = b0 /\ (buf'[b0].call > 0 => buf[b0].call > 0)
      BY <1>1, <1>4, <2>5
    <3> QED BY <1>4, <2>1, <2>3, <2>5, <3>1 DEF Service, InService
  <2>6. CASE /\ h[v] = b0 /\ ref[w] = "buffer"
             /\ \A c \in Clients : ref[c] = "buffer" => h[c] # b0
    <3>1. ~InService(v)
      BY <2>1, <2>6 DEF Service, Waits
    <3>2. pc[v] \notin {"start", "accepting", "woken", "exec", "leave"}
      BY <1>4, <2>2, <2>6 DEF ChannelInv, OneWorkerPerBuffer
    <3>3. pc[v] # "answer"
      BY <3>1 DEF InService
    <3> QED BY <1>4, <2>1, <3>1, <3>2, <3>3 DEF Service
  <2> QED BY <2>4, <2>5, <2>6
<1> QED BY <1>2, <1>3, <1>4 DEF SessionInv

\* Every step of a worker keeps the sessions.
LEMMA WorkerSessions ==
  ASSUME Orderly, IInv, IInv', ChannelInv, SessionInv, NEW w \in Workers, WorkerNext(w)
  PROVE  SessionInv'
<1>1. /\ w \in Procs /\ w \in Users /\ WorkerRef(w)
      /\ \A c \in Clients : c \in Procs /\ c \in Users /\ c # w
      /\ \A v \in Workers : v \in Procs /\ v \in Users
      /\ buf \in [BufIds -> BufRec] /\ h \in [Users -> BufIds \cup {NoBuf}]
      /\ ref \in [Procs -> {"none", "name", "thread", "buffer"}]
      /\ pc \in [Procs -> ClientPcs \cup ServerPcs \cup WorkerPcs]
      /\ job \in [Workers -> Job] /\ buf_cnt \in [BufIds -> Nat]
  BY ConstantsAssumption
  DEF Procs, Users, IInv, TypeOK, HandleTypes, KernelTypes, ControlTypes, DataTypes,
      HandlesConsistent
<1>2. PICK b0 : b0 = h[w]
  OBVIOUS
<1>3. /\ Attached(w) => b0 \in BufIds /\ ref[w] = "buffer" /\ buf[b0].connected # 0
      /\ pc[w] = "answer" => b0 \in BufIds
      /\ b0 \in BufIds => buf[b0] \in BufRec /\ buf[b0].call \in Nat /\ buf[b0].done \in Nat
      /\ Service(w)
      /\ b0 \in BufIds => BufferOf(buf[b0])
      /\ \A c \in Clients : h[c] = b0 => SessionOf(pc[c], buf[b0], Serving(b0), Ready(b0))
      /\ \A c \in Clients : pc[c] \in InSession => ref[c] = "buffer"
  BY <1>1, <1>2, SessionFacts
  DEF WorkerRef, BufRec, SessionInv, Session, Attached, ChannelInv, WorkersTaken
<1>4. ASSUME NEW l, Goto(w, l)
      PROVE  /\ pc'[w] = l /\ \A p \in Procs \ {w} : pc'[p] = pc[p]
             /\ \A c \in Clients : pc'[c] = pc[c]
             /\ \A v \in Workers \ {w} : pc'[v] = pc[v]
  BY <1>1, <1>4 DEF Goto
\* Steps between the two posts.
<1>5. ASSUME NEW l, Goto(w, l), Attached(w), UNCHANGED <<h, ref>>,
             \A v \in Workers \ {w} : job'[v] = job[v],
             NEW r, buf' = [buf EXCEPT ![b0] = r],
             r.call = buf[b0].call, r.done = buf[b0].done, r.connected = buf[b0].connected,
             r.do_what = buf[b0].do_what,
             InService(w) => InService(w)',
             \/ pc[w] \in {"start", "accepting"} /\ l \in {"start", "accepting"}
             \/ /\ l \notin {"start", "accepting"} /\ InService(w)
                /\ job'[w].op \in Ops /\ l \in {"exec", "answer", "leave"}
      PROVE  SessionInv'
  <2>1. /\ b0 \in BufIds /\ buf'[b0] = r /\ h'[w] = b0
        /\ \A b \in BufIds \ {b0} : buf'[b] = buf[b]
        /\ \A v \in Workers \ {w} : pc'[v] = pc[v] /\ h'[v] = h[v] /\ job'[v] = job[v]
        /\ \A c \in Clients : pc'[c] = pc[c] /\ h'[c] = h[c] /\ ref'[c] = ref[c]
    BY <1>1, <1>2, <1>3, <1>4, <1>5
  <2>2. InService(w)' <=> InService(w)
    BY <1>4, <1>5 DEF InService
  <2>3. Serving(b0)' = Serving(b0)
    <3>1. ASSUME NEW v \in Workers PROVE v \in Serving(b0)' <=> v \in Serving(b0)
      BY <1>2, <2>1, <2>2, <3>1 DEF Serving, InService
    <3> QED BY <3>1 DEF Serving
  <2>4. Ready(b0)' = Ready(b0)
    <3>1. ASSUME NEW v \in Workers PROVE v \in Ready(b0)' <=> v \in Ready(b0)
      BY <1>2, <1>4, <1>5, <2>1 DEF Ready, InService
    <3> QED BY <3>1 DEF Ready
  <2>5. \A c \in Clients : h[c] = b0 => SessionOf(pc[c], r, Serving(b0), Ready(b0))
    BY <1>3, <1>5 DEF SessionOf, Spent
  <2>6. BufferOf(r)
    BY <1>3, <1>5, <2>1 DEF BufferOf
  <2>7. (\E c \in Clients : Waits(c, h[w])) => (\E c \in Clients : Waits(c, h[w])')
    BY <1>2, <2>1 DEF Waits
  <2>8. Service(w)'
    BY <1>2, <1>3, <1>4, <1>5, <2>1, <2>2, <2>7 DEF Service
  <2> QED BY <1>2, <1>5, <2>1, <2>3, <2>4, <2>5, <2>6, <2>8, WorkerSessionFrame
<1>6. CASE Accept(w) \/ AcceptInterrupted(w)
  <2>1. /\ UNCHANGED <<buf, h, ref, job>> /\ pc[w] \in {"start", "accepting"} /\ Attached(w)
        /\ \E l \in {"start", "accepting"} : Goto(w, l)
    BY <1>6 DEF Accept, AcceptInterrupted, kernel, data, Attached
  <2>2. ~InService(w)
    BY <2>1 DEF InService
  <2>3. buf' = [buf EXCEPT ![b0] = buf[b0]]
    BY <1>1, <2>1
  <2> QED BY <1>5, <2>1, <2>2, <2>3
<1>7. CASE AcceptRead(w)
  <2>1. /\ UNCHANGED <<buf, h, ref>> /\ pc[w] = "woken" /\ Attached(w) /\ Goto(w, "exec")
        /\ job' = [job EXCEPT ![w] = buf[b0].do_what]
    BY <1>2, <1>7 DEF AcceptRead, kernel, Attached
  <2>2. buf[b0].do_what.op \in Ops
    BY <1>2, <1>3, <2>1 DEF Service
  <2>3. /\ InService(w) /\ InService(w)'
        /\ job'[w] = buf[b0].do_what
        /\ \A v \in Workers \ {w} : job'[v] = job[v]
    BY <1>1, <1>4, <2>1 DEF InService
  <2>4. buf' = [buf EXCEPT ![b0] = buf[b0]]
    BY <1>1, <2>1
  <2> QED BY <1>5, <2>1, <2>2, <2>3, <2>4
<1>8. CASE Serve(w)
  <2> DEFINE l == IF job[w].op = "close" THEN "leave" ELSE "answer"
             r == StoreResult(buf[b0], job[w].tag)
  <2>1. /\ UNCHANGED <<h, ref, job>> /\ pc[w] = "exec" /\ Attached(w) /\ Goto(w, l)
        /\ buf' = [buf EXCEPT ![b0] = r]
    BY <1>2, <1>8 DEF Serve, Attached, data
  <2>2. InService(w) /\ InService(w)' /\ job'[w].op \in Ops
    BY <1>3, <1>4, <2>1 DEF InService, Service
  <2>3. /\ r.call = buf[b0].call /\ r.done = buf[b0].done /\ r.connected = buf[b0].connected
        /\ r.do_what = buf[b0].do_what
    BY <1>3, <2>1 DEF StoreResult, BufRec
  <2>4. l \in {"answer", "leave"}
    OBVIOUS
  <2> HIDE DEF l, r
  <2> QED BY <1>5, <2>1, <2>2, <2>3, <2>4
<1>9. CASE AcceptWake(w)
  <2> DEFINE r == TakeCall(buf[b0])
  <2>1. /\ UNCHANGED <<h, ref, job>> /\ pc[w] = "accepting" /\ Attached(w) /\ Goto(w, "woken")
        /\ buf' = [buf EXCEPT ![b0] = r] /\ buf[b0].call > 0
    BY <1>2, <1>9 DEF AcceptWake, Attached, data
  <2>2. /\ r.call = buf[b0].call - 1 /\ r.done = buf[b0].done
        /\ r.connected = buf[b0].connected /\ r.do_what = buf[b0].do_what
    BY <1>3, <2>1 DEF TakeCall, BufRec
  <2> HIDE DEF r
  <2>3. /\ b0 \in BufIds /\ buf'[b0] = r /\ h'[w] = b0 /\ pc'[w] = "woken"
        /\ \A b \in BufIds \ {b0} : buf'[b] = buf[b]
        /\ \A v \in Workers \ {w} : pc'[v] = pc[v] /\ h'[v] = h[v] /\ job'[v] = job[v]
        /\ \A c \in Clients : pc'[c] = pc[c] /\ h'[c] = h[c] /\ ref'[c] = ref[c]
    BY <1>1, <1>2, <1>3, <1>4, <2>1
  <2>4. Ready(b0)' = {} /\ w \in Ready(b0)
    <3>1. \A v \in Workers : h[v] = b0 /\ pc[v] \in {"start", "accepting"} => v = w
      BY <1>2, <1>3, <2>1, SessionFacts DEF ChannelInv, OneWorkerPerBuffer
    <3> QED BY <1>2, <2>1, <2>3, <3>1 DEF Ready
  <2>5. Serving(b0)' \subseteq Serving(b0) \cup {w}
    BY <2>1, <2>3 DEF Serving
  <2>6. ASSUME NEW c \in Clients, pc[c] \in InSession, h[c] = b0
        PROVE  SessionOf(pc[c], r, Serving(b0)', Ready(b0)')
    <3>1. SessionOf(pc[c], buf[b0], Serving(b0), Ready(b0))
      BY <1>3, <2>6
    <3>2. ~Spent(buf[b0], Ready(b0))
      BY <1>3, <2>1, <2>3, <2>4 DEF Spent
    <3>3. /\ pc[c] \in {"calling", "again"} /\ Serving(b0) = {} /\ buf[b0].done = 0
      BY <1>3, <2>1, <2>3, <2>6, <3>1, <3>2 DEF SessionOf, InSession
    <3>4. Spent(r, Ready(b0)')
      BY <1>3, <2>1, <2>2, <2>3, <2>4, <3>1, <3>3 DEF Spent, SessionOf
    <3>5. \A u, v \in Serving(b0)' : u = v
      BY <2>5, <3>3
    <3> QED BY <1>3, <2>1, <2>2, <2>3, <3>1, <3>3, <3>4, <3>5 DEF SessionOf
  <2>7. BufferOf(r)
    BY <1>3, <2>1, <2>2, <2>3 DEF BufferOf
  <2>8. Service(w)'
    <3>1. \E c \in Clients : Waits(c, b0)
      BY <1>2, <1>3, <2>1 DEF Service
    <3>2. \E c \in Clients : Waits(c, h[w])'
      BY <2>3, <3>1 DEF Waits
    <3>3. buf[b0].do_what.op \in Ops
      BY <1>3, <2>1, <2>3 DEF BufferOf
    <3> QED BY <1>3, <2>1, <2>2, <2>3, <3>2, <3>3 DEF Service
  <2>9. /\ buf[b0].connected # 0 => buf'[b0].connected # 0
        /\ buf[b0].call = 0 => buf'[b0].call = 0
        /\ buf'[b0].do_what = buf[b0].do_what
    BY <2>1, <2>2, <2>3
  <2> QED BY <1>2, <2>3, <2>6, <2>7, <2>8, <2>9, WorkerSessionFrame
<1>10. CASE Done(w)
  <2> DEFINE r == PostDone(buf[b0])
  <2>1. /\ pc[w] = "answer" /\ ref' = ref /\ Goto(w, AfterDone(w)) /\ Retire(w, AfterDone(w))
        /\ Found(b0) => buf' = [buf EXCEPT ![b0] = r]
    BY <1>2, <1>10 DEF Done
  <2>2. PICK c0 \in Clients : Waits(c0, b0)
    BY <1>2, <1>3, <2>1 DEF Service, InService
  <2>3. b0 \in BufIds /\ Found(b0) /\ buf[b0].connected # 0 /\ job[w].op \in Ops
    BY <1>1, <1>2, <1>3, <2>1, <2>2, ReferencedFound DEF Service, InService, Waits
  <2>4. /\ r.call = buf[b0].call /\ r.done = buf[b0].done + 1
        /\ r.connected = buf[b0].connected /\ r.do_what = buf[b0].do_what
    BY <1>3, <2>3 DEF PostDone, BufRec
  <2> HIDE DEF r
  <2>5. /\ buf'[b0] = r /\ h'[w] \in {b0, NoBuf} /\ pc'[w] = AfterDone(w)
        /\ AfterDone(w) # "idle" => h'[w] = b0 /\ job'[w] = job[w]
        /\ \A b \in BufIds \ {b0} : buf'[b] = buf[b]
        /\ \A v \in Workers \ {w} : pc'[v] = pc[v] /\ h'[v] = h[v] /\ job'[v] = job[v]
        /\ \A c \in Clients : pc'[c] = pc[c] /\ h'[c] = h[c] /\ ref'[c] = ref[c]
    BY <1>1, <1>2, <1>4, <2>1, <2>3 DEF Retire
  <2>6. /\ Serving(b0)' \subseteq Serving(b0) \ {w}
        /\ Ready(b0)' \subseteq Ready(b0) \cup {v \in {w} : "signal" \notin Faults}
        /\ w \in Serving(b0)
    <3>1. w \notin Serving(b0)'
      BY <2>5 DEF Serving, AfterDone
    <3>2. \A v \in Workers \ {w} : /\ v \in Serving(b0)' => v \in Serving(b0)
                                   /\ v \in Ready(b0)' => v \in Ready(b0)
      BY <2>5 DEF Serving, Ready
    <3>3. w \in Ready(b0)' => "signal" \notin Faults
      BY <2>3, <2>5, ConstantsAssumption DEF Ready, AfterDone, Orderly
    <3>4. w \in Serving(b0)
      BY <1>2, <2>1 DEF Serving
    <3> QED BY <3>1, <3>2, <3>3, <3>4 DEF Serving, Ready
  <2>7. ASSUME NEW c \in Clients, pc[c] \in InSession, h[c] = b0
        PROVE  SessionOf(pc[c], r, Serving(b0)', Ready(b0)')
    <3>1. SessionOf(pc[c], buf[b0], Serving(b0), Ready(b0))
      BY <1>3, <2>7
    <3>2. pc[c] \in {"calling", "again"}
      BY <2>6, <2>7, <3>1 DEF SessionOf, InSession
    <3>3. Spent(buf[b0], Ready(b0)) /\ buf[b0].done = 0
      BY <1>3, <2>3, <2>6, <3>1, <3>2 DEF SessionOf
    <3>4. Serving(b0)' = {}
      BY <2>6, <3>1, <3>2 DEF SessionOf
    <3>5. Spent(r, Ready(b0)')
      BY <2>4, <2>6, <3>3 DEF Spent
    <3> QED BY <1>3, <2>3, <2>4, <3>1, <3>2, <3>3, <3>4, <3>5 DEF SessionOf
  <2>8. BufferOf(r)
    BY <1>3, <2>3, <2>4 DEF BufferOf
  <2>9. Service(w)'
    <3>1. Waits(c0, b0)'
      BY <2>2, <2>5 DEF Waits
    <3>2. pc'[w] \in {"start", "idle"} \/ (pc'[w] = "leave" /\ job'[w] = job[w] /\ job[w].op = "once")
      BY <2>5 DEF AfterDone
    <3>3. pc'[w] # "idle" => h'[w] = b0
      BY <2>5
    <3>4. pc'[w] # "idle" => \E c \in Clients : Waits(c, h[w])'
      BY <3>1, <3>3 DEF Waits
    <3> QED BY <2>3, <3>2, <3>4 DEF Service, InService
  <2>10. /\ buf[b0].connected # 0 => buf'[b0].connected # 0
         /\ buf[b0].call = 0 => buf'[b0].call = 0
         /\ buf'[b0].do_what = buf[b0].do_what
    BY <2>4, <2>5
  <2> QED BY <1>2, <2>3, <2>5, <2>7, <2>8, <2>9, <2>10, WorkerSessionFrame
<1>11. CASE CloseAccepted(w)
  <2>1. /\ pc[w] = "leave" /\ Attached(w) /\ Goto(w, AfterLeave(w)) /\ Retire(w, AfterLeave(w))
        /\ Detach(w, b0)
    BY <1>2, <1>11 DEF CloseAccepted, Attached
  <2>2. /\ buf' = [buf EXCEPT ![b0] = IF buf_cnt[b0] - 1 <= 0 THEN Buf0 ELSE SetConnected(@, -1)]
        /\ buf_cnt' = [buf_cnt EXCEPT ![b0] = @ - 1]
        /\ ref' = [ref EXCEPT ![w] = "none"]
    BY <2>1 DEF Detach
  <2>3. /\ b0 \in BufIds /\ ref[w] = "buffer" /\ job[w].op \in Ops
        /\ h'[w] \in {b0, NoBuf} /\ pc'[w] = AfterLeave(w)
        /\ AfterLeave(w) # "idle" => h'[w] = b0 /\ job'[w] = job[w]
        /\ \A b \in BufIds \ {b0} : buf'[b] = buf[b]
        /\ \A v \in Workers \ {w} : pc'[v] = pc[v] /\ h'[v] = h[v] /\ job'[v] = job[v]
        /\ \A c \in Clients : pc'[c] = pc[c] /\ h'[c] = h[c] /\ ref'[c] = ref[c]
    BY <1>1, <1>2, <1>3, <1>4, <2>1, <2>2 DEF Retire, Service
  <2>4. \/ /\ buf'[b0] = SetConnected(buf[b0], -1)
        \/ /\ buf'[b0] = Buf0
           /\ \A c \in Clients : ref[c] = "buffer" => h[c] # b0
    <3>1. \A c \in Clients : ref'[c] = "buffer" => buf_cnt'[h'[c]] > 0
      BY <1>1, NextHeld DEF BuffersHeld
    <3>2. buf_cnt'[b0] = buf_cnt[b0] - 1 /\ buf_cnt[b0] \in Nat
      BY <1>1, <2>2, <2>3
    <3>3. CASE buf_cnt[b0] - 1 <= 0
      BY <1>1, <2>2, <2>3, <3>1, <3>2, <3>3
    <3>4. CASE ~(buf_cnt[b0] - 1 <= 0)
      BY <1>1, <2>2, <2>3, <3>4
    <3> QED BY <3>3, <3>4
  <2>5. buf'[b0] = SetConnected(buf[b0], -1) =>
          /\ buf'[b0].call = buf[b0].call /\ buf'[b0].done = buf[b0].done
          /\ buf'[b0].do_what = buf[b0].do_what /\ buf'[b0].connected # 0
    BY <1>3, <2>3 DEF SetConnected, BufRec
  <2>6. Serving(b0)' = Serving(b0) /\ Ready(b0)' = Ready(b0)
    <3>1. w \in Serving(b0) <=> job[w].op = "close"
      BY <1>2, <2>1 DEF Serving
    <3>2. w \in Serving(b0)' <=> job[w].op = "close"
      BY <2>3 DEF Serving, AfterLeave
    <3>3. w \notin Ready(b0) /\ w \notin Ready(b0)'
      BY <2>1, <2>3 DEF Ready, AfterLeave
    <3>4. \A v \in Workers \ {w} : /\ v \in Serving(b0)' <=> v \in Serving(b0)
                                   /\ v \in Ready(b0)' <=> v \in Ready(b0)
      BY <2>3 DEF Serving, Ready
    <3>5. \A v : v \in Serving(b0) \/ v \in Serving(b0)' \/ v \in Ready(b0) \/ v \in Ready(b0)'
             => v \in Workers
      BY DEF Serving, Ready
    <3> QED BY <3>1, <3>2, <3>3, <3>4, <3>5
  <2>7. ASSUME NEW c \in Clients, pc[c] \in InSession, h[c] = b0
        PROVE  SessionOf(pc[c], buf'[b0], Serving(b0)', Ready(b0)')
    <3>1. SessionOf(pc[c], buf[b0], Serving(b0), Ready(b0))
      BY <1>3, <2>7
    <3>2. buf'[b0] = SetConnected(buf[b0], -1)
      BY <1>3, <2>4, <2>7
    <3> HIDE DEF Serving, Ready
    <3> QED BY <2>5, <2>6, <3>1, <3>2 DEF SessionOf, Spent
  <2>8. BufferOf(buf'[b0])
    BY <1>3, <2>3, <2>4, <2>5 DEF BufferOf, Buf0
  <2>9. Service(w)'
    <3>1. CASE job[w].op = "close"
      <4>1. PICK c0 \in Clients : Waits(c0, b0)
        BY <1>2, <1>3, <2>1, <3>1 DEF Service, InService
      <4>2. /\ pc'[w] = "answer" /\ h'[w] = b0 /\ job'[w] = job[w]
            /\ buf'[b0].connected # 0
        BY <2>3, <2>4, <2>5, <3>1, <4>1 DEF AfterLeave, Waits
      <4>3. Waits(c0, h[w])'
        BY <2>3, <4>1, <4>2 DEF Waits
      <4> QED BY <2>3, <4>2, <4>3 DEF Service
    <3>2. CASE job[w].op # "close"
      <4>1. pc'[w] = "idle"
        BY <2>3, <3>2 DEF AfterLeave
      <4> QED BY <4>1 DEF Service, InService
    <3> QED BY <3>1, <3>2
  <2>10. \/ /\ buf[b0].connected # 0 => buf'[b0].connected # 0
            /\ buf[b0].call = 0 => buf'[b0].call = 0
            /\ buf'[b0].do_what = buf[b0].do_what
         \/ /\ ref[w] = "buffer"
            /\ \A c \in Clients : ref[c] = "buffer" => h[c] # b0
    BY <2>3, <2>4, <2>5
  <2> QED BY <1>2, <2>3, <2>7, <2>8, <2>9, <2>10, WorkerSessionFrame
<1> QED BY <1>6, <1>7, <1>8, <1>9, <1>10, <1>11 DEF WorkerNext

\* Every step keeps the sessions.
LEMMA SessionInvStep ==
  ASSUME Orderly
  PROVE  IInv /\ ChannelInv /\ Places /\ SessionInv /\ [Next]_vars => SessionInv'
<1> SUFFICES ASSUME IInv, ChannelInv, Places, SessionInv, [Next]_vars PROVE SessionInv'
  OBVIOUS
<1>1. IInv' /\ Places'
  BY InvStep, PlacesStep
<1>2. CASE UNCHANGED vars
  BY <1>2, SessionSame DEF vars, kernel, data
<1> QED BY <1>1, <1>2, ClientSessions, ServerSessions, WorkerSessions DEF Next

\* Nobody is in a session at first.
LEMMA SessionInit == Init => Places /\ SessionInv
<1> SUFFICES ASSUME Init PROVE Places /\ SessionInv
  OBVIOUS
<1>1. /\ \A c \in Clients : pc[c] = "closed" /\ ref[c] = "none"
      /\ \A w \in Workers : pc[w] = "idle"
      /\ \A b \in BufIds : buf[b] = Buf0
  BY ConstantsAssumption DEF Init, Procs
<1>2. Places
  BY <1>1 DEF Places
<1>3. \A c \in Clients : Session(c)
  BY <1>1 DEF Session, SessionOf
<1>4. \A b \in BufIds : BufferOf(buf[b])
  BY <1>1 DEF BufferOf, Buf0
<1>5. \A w \in Workers : Service(w)
  BY <1>1 DEF Service, InService
<1> QED BY <1>2, <1>3, <1>4, <1>5 DEF SessionInv

\* A call of a session is posted, being served or answered, never two of them,
\* and a worker that has taken one has a client waiting for it, whatever is
\* killed or interrupted.
THEOREM Sessions == ASSUME Orderly PROVE Spec => [](Places /\ SessionInv)
<1>1. IInv /\ ChannelInv /\ Places /\ SessionInv /\ [Next]_vars => Places' /\ SessionInv'
  BY PlacesStep, SessionInvStep
<1> QED BY <1>1, SessionInit, Invariance, Connections, PTL DEF Spec

-----------------------------------------------------------------------------
(* A listener that consumed a post finds a buffer.                         *)

\* The posts of a name and the listeners that consumed one are exactly the
\* buffers that wait.
AttachExact ==
  \A n \in Names : Cardinality(Unconnected(n)) = attach[n] + Cardinality(Woken(n))

\* A name that nobody references has no listener on its way to the scan.
NamesHeld == \A s \in Servers : pc[s] = "woken" => name_cnt[NameOf[s]] # 0

LEMMA NextNamed == IInv' => NamesHeld'
<1>1. IInv => NamesHeld
  <2> SUFFICES ASSUME IInv, NEW s \in Servers, pc[s] = "woken" PROVE name_cnt[NameOf[s]] # 0
    BY DEF NamesHeld
  <2>1. NameOf[s] \in Names /\ s \in NameHolders(NameOf[s])
    BY ConstantsAssumption DEF IInv, HandlesConsistent, ServerRef, Listening, NameHolders
  <2>2. Cardinality(NameHolders(NameOf[s])) # 0
    BY <2>1, HoldersFinite, FS_EmptySet
  <2> QED BY <2>1, <2>2 DEF IInv, RefCountsExact
<1> QED BY <1>1, PTL

\* No step leaves a post without a buffer, or a buffer without a post.
LEMMA ExactStep ==
  ASSUME Orderly, IInv, IInv', ChannelInv, SessionInv, AttachExact, ChannelStep
  PROVE  AttachExact'
<1> SUFFICES ASSUME NEW n \in Names
             PROVE  Cardinality(Unconnected(n)') = attach'[n] + Cardinality(Woken(n)')
  BY DEF AttachExact, Unconnected, Woken
<1> DEFINE Exact == Cardinality(Unconnected(n)') = attach'[n] + Cardinality(Woken(n)')
<1>1. /\ attach \in [Names -> Nat] /\ attach[n] \in Nat
      /\ buf_cnt \in [BufIds -> Nat] /\ buf \in [BufIds -> BufRec]
  BY DEF IInv, TypeOK, KernelTypes
<1>2. /\ IsFiniteSet(Unconnected(n)) /\ IsFiniteSet(Woken(n))
      /\ Cardinality(Unconnected(n)) \in Nat /\ Cardinality(Woken(n)) \in Nat
  BY UnconnectedFinite, WokenFinite, FS_CardinalityType
<1>3. Cardinality(Unconnected(n)) = attach[n] + Cardinality(Woken(n))
  BY DEF AttachExact
<1>4. ASSUME name_cnt'[n] = 0, attach'[n] = 0 PROVE Exact
  <2>1. \A b \in BufIds : buf_cnt'[b] > 0 => name_cnt'[b[1]] # 0
    BY NextHeld DEF BuffersHeld
  <2>2. Unconnected(n)' = {}
    BY <1>4, <2>1 DEF Unconnected
  <2>3. \A s \in Servers : pc'[s] = "woken" => name_cnt'[NameOf[s]] # 0
    BY NextNamed DEF NamesHeld
  <2>4. Woken(n)' = {}
    BY <1>4, <2>3 DEF Woken
  <2> QED BY <1>4, <2>2, <2>4, FS_EmptySet
<1>5. CASE Stays
  <2>1. Unconnected(n)' = Unconnected(n)
    BY <1>5 DEF Stays, Unconnected
  <2>2. \/ attach'[n] = attach[n] /\ Woken(n)' = Woken(n)
        \/ \E s \in Servers \ Woken(n) :
             /\ attach[n] > 0 /\ attach'[n] = attach[n] - 1
             /\ Woken(n)' = Woken(n) \cup {s}
        \/ Unconnected(n) = {} /\ Woken(n) # {}
        \/ attach'[n] = 0 /\ name_cnt'[n] = 0
    BY <1>5 DEF Stays
  <2>3. ASSUME NEW s \in Servers \ Woken(n), attach'[n] = attach[n] - 1,
               Woken(n)' = Woken(n) \cup {s}
        PROVE  Exact
    <3>1. Cardinality(Woken(n)') = Cardinality(Woken(n)) + 1
      BY <1>2, <2>3, FS_AddElement
    <3> QED BY <1>1, <1>2, <1>3, <2>1, <2>3, <3>1
  <2>4. ~(Unconnected(n) = {} /\ Woken(n) # {})
    <3>1. Cardinality(Woken(n)) = 0 => Woken(n) = {}
      BY <1>2, FS_EmptySet
    <3>2. Unconnected(n) = {} => Cardinality(Unconnected(n)) = 0
      BY FS_EmptySet
    <3> QED BY <1>1, <1>2, <1>3, <3>1, <3>2
  <2> QED BY <1>3, <1>4, <2>1, <2>2, <2>3, <2>4
<1>6. ASSUME NEW c \in Clients, NEW b \in BufIds, Enters(c, b) PROVE Exact
  <2>1. Woken(n)' = Woken(n) /\ b[1] \in Names
    BY <1>6 DEF Enters, BufIds
  <2>2. CASE b[1] # n
    <3>1. Unconnected(n)' = Unconnected(n) /\ attach'[n] = attach[n]
      BY <1>1, <1>6, <2>2 DEF Enters, Unconnected
    <3> QED BY <1>3, <2>1, <3>1
  <2>3. CASE b[1] = n
    <3>1. /\ Unconnected(n)' = Unconnected(n) \cup {b} /\ b \notin Unconnected(n)
          /\ attach'[n] = attach[n] + 1
      BY <1>1, <1>6, <2>3 DEF Enters, Unconnected, Buf0
    <3>2. Cardinality(Unconnected(n)') = Cardinality(Unconnected(n)) + 1
      BY <1>2, <3>1, FS_AddElement
    <3> QED BY <1>1, <1>2, <1>3, <2>1, <3>1, <3>2
  <2> QED BY <2>2, <2>3
<1>7. ASSUME NEW s \in Servers, NEW w \in Workers, NEW b \in BufIds, Takes(s, w, b) PROVE Exact
  <2>1. Woken(n)' = Woken(n) \ {s} /\ attach' = attach /\ b[1] \in Names
    BY <1>7 DEF Takes, BufIds
  <2>2. buf'[b].connected = 1 /\ \A x \in BufIds \ {b} : buf'[x] = buf[x] /\ buf_cnt'[x] = buf_cnt[x]
    BY <1>1, <1>7 DEF Takes, SetConnected, BufRec
  <2>3. CASE b[1] # n
    <3>1. Unconnected(n)' = Unconnected(n)
      BY <2>2, <2>3 DEF Unconnected
    <3>2. s \notin Woken(n)
      BY <1>7, <2>3 DEF Takes, Woken
    <3>3. Woken(n)' = Woken(n)
      BY <2>1, <3>2
    <3> QED BY <1>3, <2>1, <3>1, <3>3
  <2>4. CASE b[1] = n
    <3>1. Unconnected(n)' = Unconnected(n) \ {b} /\ b \in Unconnected(n)
      BY <1>7, <2>2, <2>4 DEF Takes, Unconnected
    <3>2. Cardinality(Unconnected(n)') = Cardinality(Unconnected(n)) - 1
      BY <1>2, <3>1, FS_RemoveElement
    <3>3. s \in Woken(n)
      BY <1>7, <2>4 DEF Takes
    <3>4. Cardinality(Woken(n)') = Cardinality(Woken(n)) - 1
      BY <1>2, <2>1, <3>3, FS_RemoveElement
    <3> QED BY <1>1, <1>2, <1>3, <2>1, <3>2, <3>4
  <2> QED BY <2>3, <2>4
<1>8. ASSUME NEW p \in Users, NEW b \in BufIds, Quits(p, b) PROVE Exact
  <2>1. buf[b].connected # 0
    <3>1. CASE p \in Workers
      BY <1>8, <3>1 DEF Quits, ChannelInv, WorkersTaken
    <3>2. CASE p \in Clients /\ p \notin Workers
      <4>1. pc[p] = "last" /\ h[p] = b
        BY <1>8, <3>2 DEF Quits, Orderly
      <4> QED BY <3>2, <4>1 DEF SessionInv, Session, SessionOf
    <3> QED BY <3>1, <3>2 DEF Users
  <2>2. \A x \in BufIds \ {b} : buf'[x] = buf[x] /\ buf_cnt'[x] = buf_cnt[x]
    BY <1>1, <1>8 DEF Quits
  <2>3. buf_cnt'[b] > 0 => buf'[b].connected = -1
    BY <1>1, <1>8 DEF Quits, SetConnected, BufRec
  <2>4. Unconnected(n)' = Unconnected(n)
    BY <2>1, <2>2, <2>3 DEF Unconnected
  <2>5. /\ Woken(n)' = Woken(n)
        /\ attach'[n] = attach[n] \/ (attach'[n] = 0 /\ name_cnt'[n] = 0)
    BY <1>8 DEF Quits
  <2> QED BY <1>3, <1>4, <2>4, <2>5
<1>9. CASE Empties
  <2>1. attach'[n] = 0 /\ name_cnt'[n] = 0
    BY <1>9 DEF Empties
  <2> QED BY <1>4, <2>1
<1> QED BY <1>5, <1>6, <1>7, <1>8, <1>9 DEF ChannelStep

\* While no client leaves a session before it is over, LISTEN's -ENODEV does not
\* happen: a listener that has consumed a post finds a buffer nobody has taken,
\* however many listeners and sessions interleave and whatever is killed.
THEOREM ListenAlwaysFinds == ASSUME Orderly PROVE Spec => []ListenFinds
<1>1. Init => AttachExact
  <2> SUFFICES ASSUME Init PROVE AttachExact
    OBVIOUS
  <2>1. \A n \in Names : Unconnected(n) = {} /\ attach[n] = 0 /\ Woken(n) = {}
    BY ConstantsAssumption DEF Init, Unconnected, Woken, Procs
  <2> QED BY <2>1, FS_EmptySet DEF AttachExact
<1>2. IInv /\ ChannelInv /\ SessionInv /\ AttachExact /\ [Next]_vars => AttachExact'
  BY InvStep, ChannelSteps, ExactStep
<1>3. IInv /\ AttachExact => ListenFinds
  <2> SUFFICES ASSUME IInv, AttachExact, NEW s \in Servers, pc[s] = "woken"
               PROVE  \E b \in BufIds : b[1] = NameOf[s] /\ buf_cnt[b] > 0 /\ buf[b].connected = 0
    BY DEF ListenFinds
  <2> DEFINE n == NameOf[s]
  <2>1. n \in Names /\ s \in Woken(n) /\ attach[n] \in Nat
    BY ConstantsAssumption DEF Woken, IInv, TypeOK, KernelTypes
  <2>2. Cardinality(Woken(n)) \in Nat /\ Cardinality(Woken(n)) # 0
    BY <2>1, WokenFinite, FS_CardinalityType, FS_EmptySet
  <2>3. Cardinality(Unconnected(n)) # 0
    BY <2>1, <2>2 DEF AttachExact
  <2>4. Unconnected(n) # {}
    BY <2>3, FS_EmptySet
  <2> QED BY <2>4 DEF Unconnected
<1> QED BY <1>1, <1>2, <1>3, Invariance, Connections, Sessions, PTL DEF Spec
=============================================================================
