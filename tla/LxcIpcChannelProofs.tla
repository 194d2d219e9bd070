------------------------- MODULE LxcIpcChannelProofs -------------------------
(***************************************************************************)
(* Proofs about who is connected to whom in LxcIpc: which buffers wait for *)
(* a listener, which worker serves them, and whether a waiting client is   *)
(* still owed an answer.  They rest on the reference counters of           *)
(* LxcIpcProofs.                                                           *)
(***************************************************************************)
EXTENDS LxcIpcProofs

-----------------------------------------------------------------------------
(* What a step may do to the connections.  Every step of the channel is    *)
(* one of five: only three of them move a buffer between free, waiting for *)
(* a listener and taken.                                                   *)

\* Listeners of name n that have consumed a post and have yet to scan.
Woken(n) == {s \in Servers : NameOf[s] = n /\ pc[s] = "woken"}

\* Nobody's buffer changes; at most a listener consumes a post, finds nothing,
\* or a name that nobody holds any more loses its posts.
Stays ==
  /\ buf_cnt' = buf_cnt
  /\ \A b \in BufIds : buf'[b].connected = buf[b].connected
  /\ \A p \in Users : ref'[p] = "buffer" <=> ref[p] = "buffer"
  /\ \A p \in Users : ref[p] = "buffer" => h'[p] = h[p]
  /\ \A n \in Names :
       \/ attach'[n] = attach[n] /\ Woken(n)' = Woken(n)
       \/ \E s \in Servers \ Woken(n) :
            /\ attach[n] > 0 /\ attach'[n] = attach[n] - 1
            /\ Woken(n)' = Woken(n) \cup {s}
       \/ Unconnected(n) = {} /\ Woken(n) # {}
       \/ attach'[n] = 0 /\ name_cnt'[n] = 0

\* Client c gets the free buffer b, and its name a post.
Enters(c, b) ==
  /\ ref[c] # "buffer" /\ buf_cnt[b] = 0
  /\ buf_cnt' = [buf_cnt EXCEPT ![b] = 1]
  /\ buf' = [buf EXCEPT ![b] = Buf0]
  /\ h' = [h EXCEPT ![c] = b]
  /\ ref' = [ref EXCEPT ![c] = "buffer"]
  /\ attach' = [attach EXCEPT ![b[1]] = @ + 1]
  /\ \A n \in Names : Woken(n)' = Woken(n)

\* Listener s connects its worker w to the waiting buffer b.
Takes(s, w, b) ==
  /\ ref[w] # "buffer" /\ buf_cnt[b] > 0 /\ buf[b].connected = 0
  /\ b[1] = NameOf[s] /\ s \in Woken(b[1])
  /\ buf_cnt' = [buf_cnt EXCEPT ![b] = @ + 1]
  /\ buf' = [buf EXCEPT ![b] = SetConnected(@, 1)]
  /\ h' = [h EXCEPT ![w] = b]
  /\ ref' = [ref EXCEPT ![w] = "buffer"]
  /\ attach' = attach
  /\ \A n \in Names : Woken(n)' = Woken(n) \ {s}

\* User p gives its buffer b up: a worker, a client whose session is over, or
\* one that leaves early.
Quits(p, b) ==
  /\ p \in Workers \/ pc[p] = "last" \/ "early_close" \in Faults
  /\ ref[p] = "buffer" /\ h[p] = b /\ buf_cnt[b] > 0
  /\ buf_cnt' = [buf_cnt EXCEPT ![b] = @ - 1]
  /\ buf' = [buf EXCEPT ![b] = IF buf_cnt[b] - 1 <= 0 THEN Buf0 ELSE SetConnected(@, -1)]
  /\ ref' = [ref EXCEPT ![p] = "none"]
  /\ \A q \in Users \ {p} : h'[q] = h[q]
  /\ \A n \in Names : Woken(n)' = Woken(n)
  /\ \A n \in Names : \/ attach'[n] = attach[n]
                      \/ attach'[n] = 0 /\ name_cnt'[n] = 0

\* The device is closed for the last time.
Empties ==
  /\ buf_cnt' = [b \in BufIds |-> 0]
  /\ buf' = [b \in BufIds |-> Buf0]
  /\ ref' = [p \in Procs |-> "none"]
  /\ attach' = [n \in Names |-> 0]
  /\ name_cnt' = [n \in Names |-> 0]

\* A step of the channel as its connections see it.
ChannelStep ==
  \/ Stays
  \/ \E c \in Clients, b \in BufIds : Enters(c, b)
  \/ \E s \in Servers, w \in Workers, b \in BufIds : Takes(s, w, b)
  \/ \E p \in Users, b \in BufIds : Quits(p, b)
  \/ Empties

\* The updates of a buffer, except SetConnected, leave `connected` alone.
LEMMA ConnectedKept ==
  ASSUME NEW r \in BufRec
  PROVE  /\ \A j : PostCall(r, j).connected = r.connected
         /\ \A v : StoreResult(r, v).connected = r.connected
         /\ TakeCall(r).connected = r.connected
         /\ TakeDone(r).connected = r.connected
         /\ PostDone(r).connected = r.connected
  BY DEF BufRec, PostCall, StoreResult, TakeCall, TakeDone, PostDone

\* A step that writes one buffer's other fields, or none, connects nobody.
LEMMA StaysQuiet ==
  ASSUME IInv, UNCHANGED <<buf_cnt, ref, attach>>,
         \A b \in BufIds : buf'[b].connected = buf[b].connected,
         \A p \in Users : ref[p] = "buffer" => h'[p] = h[p],
         \A s \in Servers : pc'[s] = "woken" <=> pc[s] = "woken"
  PROVE  Stays
<1>1. \A n \in Names : Woken(n)' = Woken(n)
  BY DEF Woken
<1> QED BY <1>1 DEF Stays

\* Moving p to l wakes no listener.
LEMMA GotoWoken ==
  ASSUME IInv, NEW p \in Procs, NEW l, Goto(p, l), pc[p] # "woken" \/ p \notin Servers,
         l # "woken" \/ p \notin Servers
  PROVE  \A s \in Servers : pc'[s] = "woken" <=> pc[s] = "woken"
  BY DEF IInv, TypeOK, ControlTypes, Goto, Procs

\* close(fd) changes no connection, or ends them all.
LEMMA ReleaseStep ==
  ASSUME IInv, ReleaseFile, h' = h,
         \A s \in Servers : pc'[s] = "woken" <=> pc[s] = "woken"
  PROVE  ChannelStep
<1>1. CASE LastFile
  BY <1>1 DEF ReleaseFile, Empties, ChannelStep
<1>2. CASE ~LastFile
  BY <1>2, StaysQuiet DEF ReleaseFile, ChannelStep
<1> QED BY <1>1, <1>2

\* DETACH of a handle is a Quits step.
LEMMA DetachStep ==
  ASSUME IInv, NEW p \in Users, h[p] \in BufIds, ref[p] = "buffer", Found(h[p]),
         p \in Workers \/ pc[p] = "last" \/ "early_close" \in Faults,
         Detach(p, h[p]), \A q \in Users \ {p} : h'[q] = h[q],
         \A s \in Servers : pc'[s] = "woken" <=> pc[s] = "woken"
  PROVE  ChannelStep
<1> DEFINE b == h[p]
<1>1. b[1] \in Names /\ attach \in [Names -> Nat] /\ name_cnt \in [Names -> Nat]
  BY DEF BufIds, IInv, TypeOK, KernelTypes
<1>2. \A n \in Names : \/ attach'[n] = attach[n]
                       \/ attach'[n] = 0 /\ name_cnt'[n] = 0
  BY <1>1 DEF Detach, Found
<1>3. \A n \in Names : Woken(n)' = Woken(n)
  BY DEF Woken
<1>4. /\ buf_cnt' = [buf_cnt EXCEPT ![b] = @ - 1]
      /\ buf' = [buf EXCEPT ![b] = IF buf_cnt[b] - 1 <= 0 THEN Buf0 ELSE SetConnected(@, -1)]
      /\ ref' = [ref EXCEPT ![p] = "none"]
      /\ buf_cnt[b] > 0
  BY DEF Detach, Found
<1>5. Quits(p, b)
  BY <1>2, <1>3, <1>4 DEF Quits
<1> QED BY <1>5 DEF ChannelStep

\* Every step of a client is one of the five.
LEMMA ClientChannel ==
  ASSUME IInv, NEW c \in Clients, ClientNext(c)
  PROVE  ChannelStep
<1> USE DEF IInv
<1>1. /\ c \in Procs /\ c \in Users /\ c \notin Servers /\ ClientRef(c)
      /\ NameOf[c] \in Names /\ TidOf[c] \in Tids
      /\ buf \in [BufIds -> BufRec] /\ h \in [Users -> BufIds \cup {NoBuf}]
      /\ ref \in [Procs -> {"none", "name", "thread", "buffer"}]
  BY ConstantsAssumption DEF Procs, Users, HandlesConsistent, TypeOK, HandleTypes, KernelTypes
<1>2. \A l : Goto(c, l) => \A s \in Servers : pc'[s] = "woken" <=> pc[s] = "woken"
  BY <1>1, GotoWoken
<1>3. CASE OpenFile(c)
  BY <1>2, <1>3, StaysQuiet DEF OpenFile, ChannelStep
<1>4. CASE AttachClient(c)
  <2> DEFINE n == NameOf[c]
             t == TidOf[c]
  <2>1. ref[c] = "none"
    BY <1>1, <1>4 DEF AttachClient, ClientRef
  <2>2. ASSUME NEW i \in FreeSlots(n, t),
               h' = [h EXCEPT ![c] = <<n, t, i>>],
               buf_cnt' = [buf_cnt EXCEPT ![<<n, t, i>>] = 1],
               buf' = [buf EXCEPT ![<<n, t, i>>] = Buf0],
               attach' = PostAttach(n),
               ref' = [ref EXCEPT ![c] = "buffer"],
               Goto(c, "open")
        PROVE  ChannelStep
    <3> DEFINE b == <<n, t, i>>
    <3>1. b \in BufIds /\ buf_cnt[b] = 0 /\ b[1] = n
      BY <1>1 DEF BufIds, FreeSlots
    <3>2. \A m \in Names : Woken(m)' = Woken(m)
      BY <1>2, <2>2 DEF Woken
    <3>3. attach' = [attach EXCEPT ![b[1]] = @ + 1]
      BY <2>2, <3>1 DEF PostAttach
    <3> HIDE DEF b
    <3>4. Enters(c, b)
      BY <2>1, <2>2, <3>1, <3>2, <3>3 DEF Enters, b
    <3> QED BY <3>1, <3>4 DEF ChannelStep
  <2>3. ASSUME Goto(c, "failed"), ref' = [ref EXCEPT ![c] = "thread"],
               h' = [h EXCEPT ![c] = <<n, t, 0>>],
               UNCHANGED <<buf_cnt, buf, attach>>
        PROVE  ChannelStep
    <3>1. \A m \in Names : Woken(m)' = Woken(m)
      BY <1>2, <2>3 DEF Woken
    <3>2. \A p \in Users : /\ ref'[p] = "buffer" <=> ref[p] = "buffer"
                           /\ ref[p] = "buffer" => h'[p] = h[p]
      BY <1>1, <2>1, <2>3 DEF Users, Procs
    <3> QED BY <2>3, <3>1, <3>2 DEF Stays, ChannelStep
  <2> QED BY <1>4, <2>2, <2>3 DEF AttachClient
<1>5. CASE CloseFile(c)
  BY <1>2, <1>5, ReleaseStep DEF CloseFile
<1>6. ASSUME NEW q \in Requests, Resize(c, q) PROVE ChannelStep
  BY <1>6, StaysQuiet DEF Resize, kernel, ChannelStep
<1>7. pc[c] \in InSession => h[c] \in BufIds /\ ref[c] = "buffer"
  BY <1>1 DEF ClientRef
<1>8. ASSUME NEW what, Post(c, what), pc[c] \in InSession PROVE ChannelStep
  <2>1. \A b \in BufIds : buf'[b].connected = buf[b].connected
    BY <1>1, <1>7, <1>8, ConnectedKept DEF Post
  <2> QED BY <1>2, <1>8, <2>1, StaysQuiet DEF Post, ChannelStep
<1>9. ASSUME NEW op \in Ops, Call(c, op) PROVE ChannelStep
  BY <1>8, <1>9 DEF Call, InSession
<1>10. CASE CallAgain(c)
  BY <1>8, <1>10 DEF CallAgain, InSession
<1>11. CASE CallDone(c)
  <2>1. \A b \in BufIds : buf'[b].connected = buf[b].connected
    BY <1>1, <1>7, <1>11, ConnectedKept DEF CallDone, InSession
  <2> QED BY <1>2, <1>11, <2>1, StaysQuiet DEF CallDone, ChannelStep
<1>12. CASE CallTimeout(c) \/ CallInterrupted(c)
  BY <1>2, <1>12, StaysQuiet DEF CallTimeout, CallInterrupted, kernel, ChannelStep
<1>13. CASE CloseClient(c)
  <2>1. h[c] \in BufIds /\ ref[c] = "buffer"
    BY <1>7, <1>13 DEF CloseClient, InSession
  <2>2. /\ Found(h[c]) /\ Detach(c, h[c]) /\ Goto(c, "detached")
        /\ \A q \in Users \ {c} : h'[q] = h[q]
        /\ pc[c] = "last" \/ "early_close" \in Faults
    BY <1>1, <1>13 DEF CloseClient, Fault
  <2> QED BY <1>1, <1>2, <2>1, <2>2, DetachStep
<1>14. CASE CrashClient(c)
  BY <1>2, <1>14, ReleaseStep DEF CrashClient
<1> QED BY <1>3, <1>4, <1>5, <1>6, <1>9, <1>10, <1>11, <1>12, <1>13, <1>14 DEF ClientNext

\* Every step of a server is one of the five.
LEMMA ServerChannel ==
  ASSUME IInv, NEW s \in Servers, ServerNext(s)
  PROVE  ChannelStep
<1> USE DEF IInv
<1>1. /\ s \in Procs /\ s \notin Users /\ ServerRef(s) /\ NameOf[s] \in Names
      /\ attach \in [Names -> Nat] /\ name_cnt \in [Names -> Nat]
      /\ ref \in [Procs -> {"none", "name", "thread", "buffer"}]
      /\ pc \in [Procs -> ClientPcs \cup ServerPcs \cup WorkerPcs]
      /\ \A p \in Users : p \in Procs
      /\ \A p \in Servers : p \in Procs
  BY ConstantsAssumption
  DEF Procs, Users, HandlesConsistent, TypeOK, HandleTypes, KernelTypes, ControlTypes
<1>2. \A l : Goto(s, l) /\ pc[s] # "woken" /\ l # "woken" =>
               \A r \in Servers : pc'[r] = "woken" <=> pc[r] = "woken"
  BY <1>1, GotoWoken
<1>3. CASE OpenFile(s)
  BY <1>2, <1>3, StaysQuiet DEF OpenFile, ChannelStep
<1>4. CASE AttachServer(s)
  <2>1. \A m \in Names : Woken(m)' = Woken(m)
    BY <1>2, <1>4 DEF AttachServer, Woken
  <2>2. \A p \in Users : ref'[p] = ref[p]
    BY <1>1, <1>4 DEF AttachServer
  <2> QED BY <1>4, <2>1, <2>2 DEF AttachServer, Stays, ChannelStep
<1>5. CASE CloseFile(s)
  BY <1>2, <1>5, ReleaseStep DEF CloseFile
<1>6. CASE Listen(s) \/ ListenInterrupted(s)
  BY <1>2, <1>6, StaysQuiet DEF Listen, ListenInterrupted, kernel, ChannelStep
<1>7. CASE ListenWake(s)
  <2>1. /\ attach[NameOf[s]] > 0 /\ attach' = [attach EXCEPT ![NameOf[s]] = @ - 1]
        /\ pc[s] = "waiting" /\ pc' = [pc EXCEPT ![s] = "woken"]
        /\ UNCHANGED <<buf_cnt, buf, ref, h>>
    BY <1>7 DEF ListenWake, AttachPosted, Goto
  <2>2. /\ s \notin Woken(NameOf[s])
        /\ Woken(NameOf[s])' = Woken(NameOf[s]) \cup {s}
        /\ \A m \in Names \ {NameOf[s]} : Woken(m)' = Woken(m)
    BY <1>1, <2>1 DEF Woken
  <2>3. attach'[NameOf[s]] = attach[NameOf[s]] - 1
        /\ \A m \in Names \ {NameOf[s]} : attach'[m] = attach[m]
    BY <1>1, <2>1
  <2> QED BY <2>1, <2>2, <2>3 DEF Stays, ChannelStep
<1>8. CASE ListenPick(s)
  <2> DEFINE n == NameOf[s]
  <2>1. pc[s] = "woken" /\ attach' = attach
    BY <1>8 DEF ListenPick
  <2>2. ASSUME NEW b \in Unconnected(n), NEW w \in IdleWorkers(s),
               buf' = [buf EXCEPT ![b] = SetConnected(@, 1)],
               buf_cnt' = [buf_cnt EXCEPT ![b] = @ + 1],
               h' = [h EXCEPT ![w] = b],
               ref' = [ref EXCEPT ![w] = "buffer"],
               pc' = [pc EXCEPT ![s] = "ready", ![w] = "start"]
        PROVE  ChannelStep
    <3>1. /\ w \in Workers /\ ref[w] # "buffer" /\ b \in BufIds /\ b[1] = n
          /\ buf_cnt[b] > 0 /\ buf[b].connected = 0
      BY DEF IdleWorkers, Unconnected, HandlesConsistent, WorkerRef
    <3>2. s \in Woken(b[1]) /\ \A m \in Names : Woken(m)' = Woken(m) \ {s}
      BY <1>1, <2>1, <2>2, <3>1, ConstantsAssumption DEF Woken, Procs
    <3>3. Takes(s, w, b)
      BY <2>1, <2>2, <3>1, <3>2 DEF Takes
    <3> QED BY <3>1, <3>3 DEF ChannelStep
  <2>3. ASSUME Unconnected(n) = {}, Goto(s, "ready"), UNCHANGED <<buf, buf_cnt, h, ref>>
        PROVE  ChannelStep
    <3>1. s \in Woken(n) /\ \A m \in Names \ {n} : Woken(m)' = Woken(m)
      BY <1>1, <2>1, <2>3 DEF Woken, Goto
    <3> QED BY <2>1, <2>3, <3>1 DEF Stays, ChannelStep
  <2> QED BY <1>8, <2>2, <2>3 DEF ListenPick
<1>9. CASE CloseServer(s)
  <2>1. \A m \in Names : Woken(m)' = Woken(m)
    BY <1>2, <1>9 DEF CloseServer, Woken
  <2>2. \A m \in Names : \/ attach'[m] = attach[m]
                         \/ attach'[m] = 0 /\ name_cnt'[m] = 0
    <3>1. /\ name_cnt[NameOf[s]] > 0
          /\ name_cnt' = [name_cnt EXCEPT ![NameOf[s]] = @ - 1]
          /\ attach' = IF name_cnt[NameOf[s]] - 1 <= 0
                         THEN [attach EXCEPT ![NameOf[s]] = 0] ELSE attach
      BY <1>9 DEF CloseServer
    <3> QED BY <1>1, <3>1
  <2>3. UNCHANGED <<buf_cnt, buf, h>> /\ \A p \in Users : ref'[p] = ref[p]
    BY <1>1, <1>9 DEF CloseServer
  <2> QED BY <2>1, <2>2, <2>3 DEF Stays, ChannelStep
<1>10. CASE CrashServer(s)
  <2>1. \A r \in Servers : pc'[r] = "woken" <=> pc[r] = "woken"
    BY <1>1, <1>10, ConstantsAssumption DEF CrashServer
  <2> QED BY <1>10, <2>1, ReleaseStep DEF CrashServer
<1> QED BY <1>3, <1>4, <1>5, <1>6, <1>7, <1>8, <1>9, <1>10 DEF ServerNext

\* Every step of a worker is one of the five.
LEMMA WorkerChannel ==
  ASSUME IInv, NEW w \in Workers, WorkerNext(w)
  PROVE  ChannelStep
<1> USE DEF IInv
<1>1. /\ w \in Procs /\ w \in Users /\ w \notin Servers /\ WorkerRef(w)
      /\ buf \in [BufIds -> BufRec] /\ h \in [Users -> BufIds \cup {NoBuf}]
  BY ConstantsAssumption DEF Procs, Users, HandlesConsistent, TypeOK, HandleTypes, KernelTypes
<1>2. \A l : Goto(w, l) => \A s \in Servers : pc'[s] = "woken" <=> pc[s] = "woken"
  BY <1>1, GotoWoken
<1>3. Attached(w) => h[w] \in BufIds /\ ref[w] = "buffer"
  BY <1>1 DEF WorkerRef
<1>4. CASE Accept(w) \/ AcceptInterrupted(w) \/ AcceptRead(w)
  BY <1>2, <1>4, StaysQuiet DEF Accept, AcceptInterrupted, AcceptRead, kernel, ChannelStep
<1>5. CASE AcceptWake(w)
  <2>1. \A b \in BufIds : buf'[b].connected = buf[b].connected
    BY <1>1, <1>3, <1>5, ConnectedKept DEF AcceptWake, Attached
  <2> QED BY <1>2, <1>5, <2>1, StaysQuiet DEF AcceptWake, ChannelStep
<1>6. CASE Serve(w)
  <2>1. \A b \in BufIds : buf'[b].connected = buf[b].connected
    BY <1>1, <1>3, <1>6, ConnectedKept DEF Serve, Attached
  <2> QED BY <1>2, <1>6, <2>1, StaysQuiet DEF Serve, ChannelStep
<1>7. CASE Done(w)
  <2>1. h[w] \in BufIds
    BY <1>1, <1>7 DEF Done, WorkerRef
  <2>2. \A b \in BufIds : buf'[b].connected = buf[b].connected
    BY <1>1, <1>7, <2>1, ConnectedKept DEF Done
  <2>3. UNCHANGED <<buf_cnt, ref, attach>> /\ pc[w] = "answer" /\ Goto(w, AfterDone(w))
        /\ Retire(w, AfterDone(w))
    BY <1>7 DEF Done
  <2>4. \A p \in Users : ref[p] = "buffer" => h'[p] = h[p]
    BY <1>1, <2>3 DEF Retire, AfterDone, WorkerRef
  <2> QED BY <1>2, <2>2, <2>3, <2>4, StaysQuiet DEF ChannelStep
<1>8. CASE CloseAccepted(w)
  <2>1. h[w] \in BufIds /\ ref[w] = "buffer"
    BY <1>3, <1>8 DEF CloseAccepted, Attached
  <2>2. /\ Found(h[w]) /\ Detach(w, h[w]) /\ Goto(w, AfterLeave(w))
        /\ \A q \in Users \ {w} : h'[q] = h[q]
    BY <1>1, <1>8 DEF CloseAccepted, Retire
  <2> QED BY <1>1, <1>2, <2>1, <2>2, DetachStep
<1> QED BY <1>4, <1>5, <1>6, <1>7, <1>8 DEF WorkerNext

\* Every step of the channel is one of the five.
LEMMA ChannelSteps == IInv /\ [Next]_vars => ChannelStep
<1> SUFFICES ASSUME IInv, [Next]_vars PROVE ChannelStep
  OBVIOUS
<1>1. CASE UNCHANGED vars
  BY <1>1, StaysQuiet DEF vars, kernel, ChannelStep
<1> QED BY <1>1, ClientChannel, ServerChannel, WorkerChannel DEF Next

-----------------------------------------------------------------------------
(* Connections.                                                            *)

\* A worker works on a buffer its listener has taken, and each buffer has one
\* client.
WorkersTaken == \A w \in Workers : ref[w] = "buffer" => buf[h[w]].connected # 0

OneClientPerBuffer ==
  \A c, d \in Clients : ref[c] = "buffer" /\ ref[d] = "buffer" /\ h[c] = h[d] => c = d

ChannelInv == WorkersTaken /\ OneWorkerPerBuffer /\ OneClientPerBuffer /\ NoLostAttach

\* The invariant of LxcIpcProofs is kept by every step.
LEMMA InvStep == IInv /\ [Next]_vars => IInv'
  BY TypeStep, FilesStep, HandlesStep, CountsStep DEF IInv

\* The buffer of a user that references one is live, and no free buffer is
\* referenced.
LEMMA HeldLive ==
  ASSUME IInv
  PROVE  \A p \in Users : ref[p] = "buffer" =>
           h[p] \in BufIds /\ buf_cnt[h[p]] \in Nat /\ buf_cnt[h[p]] > 0
<1> SUFFICES ASSUME NEW p \in Users, ref[p] = "buffer"
             PROVE  h[p] \in BufIds /\ buf_cnt[h[p]] \in Nat /\ buf_cnt[h[p]] > 0
  OBVIOUS
<1>1. h[p] \in BufIds
  BY DEF IInv, HandlesConsistent, ClientRef, WorkerRef, Users
<1>2. Found(h[p])
  BY <1>1, ReferencedFound
<1> QED BY <1>1, <1>2 DEF Found, IInv, TypeOK, KernelTypes

\* A live buffer has a holder.
LEMMA LiveHeld ==
  ASSUME IInv, NEW b \in BufIds, buf_cnt[b] > 0
  PROVE  \E p \in Users : ref[p] = "buffer" /\ h[p] = b
<1>1. Cardinality(BufHolders(b)) # 0
  BY DEF IInv, RefCountsExact
<1>2. BufHolders(b) # {}
  BY <1>1, FS_EmptySet
<1> QED BY <1>2 DEF BufHolders

\* While a buffer of a name is live, so is the name.
LEMMA LiveNamed ==
  ASSUME IInv, NEW b \in BufIds, buf_cnt[b] > 0
  PROVE  name_cnt[b[1]] # 0
<1>1. PICK p \in Users : ref[p] = "buffer" /\ h[p] = b
  BY LiveHeld
<1>2. Found(h[p])
  BY <1>1, ReferencedFound
<1>3. name_cnt[b[1]] \in Nat
  BY DEF IInv, TypeOK, KernelTypes, BufIds
<1> QED BY <1>1, <1>2, <1>3 DEF Found

\* The buffers that wait for a listener are finitely many: each has a holder.
LEMMA UnconnectedFinite == ASSUME IInv, NEW n PROVE IsFiniteSet(Unconnected(n))
<1> DEFINE T == {h[p] : p \in Users}
           f == [p \in Users |-> h[p]]
<1>1. IsFiniteSet(Users)
  BY ConstantsAssumption, FS_Union DEF Users
<1>2. f \in Surjection(Users, T)
  BY DEF Surjection
<1>3. IsFiniteSet(T)
  BY <1>1, <1>2, FS_Surjection
<1>4. Unconnected(n) \in SUBSET T
  BY LiveHeld DEF Unconnected
<1> QED BY <1>3, <1>4, FS_Subset

\* So are the listeners.
LEMMA WokenFinite == \A n : IsFiniteSet(Woken(n))
<1>1. \A n : Woken(n) \in SUBSET Servers
  BY DEF Woken
<1> QED BY <1>1, ConstantsAssumption, FS_Subset

\* The same after the step.
BuffersHeld ==
  /\ \A p \in Users : ref[p] = "buffer" =>
       h[p] \in BufIds /\ buf_cnt[h[p]] \in Nat /\ buf_cnt[h[p]] > 0
  /\ \A b \in BufIds : buf_cnt[b] > 0 => name_cnt[b[1]] # 0

LEMMA NextHeld == IInv' => BuffersHeld'
<1>1. IInv => BuffersHeld
  BY HeldLive, LiveNamed DEF BuffersHeld
<1> QED BY <1>1, PTL

\* No step connects a second worker or a second client to a buffer.
LEMMA OneEachStep ==
  ASSUME IInv, WorkersTaken, OneWorkerPerBuffer, OneClientPerBuffer, ChannelStep
  PROVE  WorkersTaken' /\ OneWorkerPerBuffer' /\ OneClientPerBuffer'
<1> USE DEF WorkersTaken, OneWorkerPerBuffer, OneClientPerBuffer
<1>1. /\ \A p \in Users : ref[p] = "buffer" =>
            h[p] \in BufIds /\ buf_cnt[h[p]] \in Nat /\ buf_cnt[h[p]] > 0
      /\ \A c \in Clients : c \in Users /\ c \in Procs /\ c \notin Workers
      /\ \A w \in Workers : w \in Users /\ w \in Procs /\ w \notin Clients
  BY HeldLive, ConstantsAssumption DEF Users, Procs
<1>2. /\ ref \in [Procs -> {"none", "name", "thread", "buffer"}]
      /\ h \in [Users -> BufIds \cup {NoBuf}] /\ buf \in [BufIds -> BufRec]
      /\ buf_cnt \in [BufIds -> Nat]
  BY DEF IInv, TypeOK, HandleTypes, KernelTypes
<1>3. CASE Stays
  BY <1>1, <1>3 DEF Stays
<1>4. ASSUME NEW c \in Clients, NEW b \in BufIds, Enters(c, b)
      PROVE  WorkersTaken' /\ OneWorkerPerBuffer' /\ OneClientPerBuffer'
  <2>1. /\ \A p \in Users \ {c} : ref'[p] = ref[p] /\ h'[p] = h[p]
        /\ ref'[c] = "buffer" /\ h'[c] = b
        /\ \A x \in BufIds \ {b} : buf'[x] = buf[x]
    BY <1>1, <1>2, <1>4 DEF Enters, Users, Procs
  <2>2. \A p \in Users : ref[p] = "buffer" => h[p] # b
    BY <1>1, <1>4 DEF Enters
  <2> QED BY <1>1, <2>1, <2>2
<1>5. ASSUME NEW s \in Servers, NEW w \in Workers, NEW b \in BufIds, Takes(s, w, b)
      PROVE  WorkersTaken' /\ OneWorkerPerBuffer' /\ OneClientPerBuffer'
  <2>1. /\ \A p \in Users \ {w} : ref'[p] = ref[p] /\ h'[p] = h[p]
        /\ ref'[w] = "buffer" /\ h'[w] = b
        /\ \A x \in BufIds \ {b} : buf'[x] = buf[x]
        /\ buf'[b].connected = 1
    BY <1>1, <1>2, <1>5 DEF Takes, Users, Procs, SetConnected, BufRec
  <2>2. \A v \in Workers : ref[v] = "buffer" => h[v] # b
    BY <1>5 DEF Takes
  <2> QED BY <1>1, <2>1, <2>2
<1>6. ASSUME NEW p \in Users, NEW b \in BufIds, Quits(p, b)
      PROVE  WorkersTaken' /\ OneWorkerPerBuffer' /\ OneClientPerBuffer'
  <2>1. /\ \A q \in Users \ {p} : ref'[q] = ref[q] /\ h'[q] = h[q]
        /\ ref'[p] = "none"
        /\ \A x \in BufIds \ {b} : buf'[x] = buf[x]
    BY <1>1, <1>2, <1>6 DEF Quits, Users, Procs
  <2>2. OneWorkerPerBuffer' /\ OneClientPerBuffer'
    BY <1>1, <2>1
  <2>3. ASSUME NEW w \in Workers, ref'[w] = "buffer" PROVE buf'[h'[w]].connected # 0
    <3>1. w # p /\ ref[w] = "buffer" /\ h'[w] = h[w]
      BY <1>1, <2>1, <2>3
    <3>2. CASE h[w] # b
      BY <1>1, <2>1, <2>3, <3>1, <3>2
    <3>3. CASE h[w] = b
      <4>1. w \in BufHolders(b) /\ p \in BufHolders(b) /\ IsFiniteSet(BufHolders(b))
            /\ buf_cnt[b] = Cardinality(BufHolders(b))
        BY <1>1, <1>6, <3>1, <3>3, HoldersFinite DEF BufHolders, Quits, IInv, RefCountsExact
      <4>2. buf_cnt[b] # 1
        BY <3>1, <4>1, FS_Singleton
      <4>3. buf'[b] = SetConnected(buf[b], -1)
        BY <1>2, <1>6, <4>2 DEF Quits
      <4> QED BY <1>2, <3>1, <3>3, <4>3 DEF SetConnected, BufRec
    <3> QED BY <3>2, <3>3
  <2> QED BY <2>2, <2>3
<1>7. CASE Empties
  BY <1>1, <1>7 DEF Empties
<1> QED BY <1>3, <1>4, <1>5, <1>6, <1>7 DEF ChannelStep

\* No step leaves a waiting buffer without a post.
LEMMA AttachStep ==
  ASSUME IInv, IInv', NoLostAttach, ChannelStep
  PROVE  NoLostAttach'
<1> SUFFICES ASSUME NEW n \in Names
             PROVE  Cardinality(Unconnected(n)') <= attach'[n] + Cardinality(Woken(n)')
  BY DEF NoLostAttach, Unconnected, Woken
<1>1. /\ attach \in [Names -> Nat] /\ attach' \in [Names -> Nat]
      /\ attach[n] \in Nat /\ attach'[n] \in Nat
      /\ buf_cnt \in [BufIds -> Nat] /\ buf \in [BufIds -> BufRec]
  BY DEF IInv, TypeOK, KernelTypes
<1>2. /\ IsFiniteSet(Unconnected(n)) /\ IsFiniteSet(Woken(n)) /\ IsFiniteSet(Woken(n)')
      /\ Cardinality(Unconnected(n)) \in Nat /\ Cardinality(Woken(n)) \in Nat
      /\ Cardinality(Woken(n)') \in Nat
  <2>1. IsFiniteSet(Unconnected(n)) /\ IsFiniteSet(Woken(n))
    BY UnconnectedFinite, WokenFinite
  <2>2. Woken(n)' \in SUBSET Servers
    BY DEF Woken
  <2>3. IsFiniteSet(Woken(n)')
    BY <2>2, ConstantsAssumption, FS_Subset
  <2> QED BY <2>1, <2>3, FS_CardinalityType
<1>3. Cardinality(Unconnected(n)) <= attach[n] + Cardinality(Woken(n))
  BY DEF NoLostAttach, Unconnected, Woken
<1>4. ASSUME Unconnected(n)' = {} PROVE Cardinality(Unconnected(n)') <= attach'[n] + Cardinality(Woken(n)')
  BY <1>1, <1>2, <1>4, FS_EmptySet
<1>5. ASSUME name_cnt'[n] = 0 PROVE Unconnected(n)' = {}
  <2>1. \A b \in BufIds : buf_cnt'[b] > 0 => name_cnt'[b[1]] # 0
    BY NextHeld DEF BuffersHeld
  <2> QED BY <1>5, <2>1 DEF Unconnected
<1>6. CASE Stays
  <2>1. Unconnected(n)' = Unconnected(n)
    BY <1>6 DEF Stays, Unconnected
  <2>2. \/ attach'[n] = attach[n] /\ Woken(n)' = Woken(n)
        \/ \E s \in Servers \ Woken(n) :
             /\ attach[n] > 0 /\ attach'[n] = attach[n] - 1
             /\ Woken(n)' = Woken(n) \cup {s}
        \/ Unconnected(n) = {}
        \/ name_cnt'[n] = 0
    BY <1>6 DEF Stays
  <2>3. ASSUME NEW s \in Servers \ Woken(n), attach'[n] = attach[n] - 1,
               Woken(n)' = Woken(n) \cup {s}
        PROVE  Cardinality(Unconnected(n)') <= attach'[n] + Cardinality(Woken(n)')
    <3>1. Cardinality(Woken(n)') = Cardinality(Woken(n)) + 1
      BY <1>2, <2>3, FS_AddElement
    <3> QED BY <1>1, <1>2, <1>3, <2>1, <2>3, <3>1
  <2> QED BY <1>3, <1>4, <1>5, <2>1, <2>2, <2>3
<1>7. ASSUME NEW c \in Clients, NEW b \in BufIds, Enters(c, b)
      PROVE  Cardinality(Unconnected(n)') <= attach'[n] + Cardinality(Woken(n)')
  <2>1. Woken(n)' = Woken(n) /\ b[1] \in Names
    BY <1>7 DEF Enters, BufIds
  <2>2. CASE b[1] # n
    <3>1. Unconnected(n)' = Unconnected(n) /\ attach'[n] = attach[n]
      BY <1>1, <1>7, <2>2 DEF Enters, Unconnected
    <3> QED BY <1>3, <2>1, <3>1
  <2>3. CASE b[1] = n
    <3>1. /\ Unconnected(n)' = Unconnected(n) \cup {b} /\ b \notin Unconnected(n)
          /\ attach'[n] = attach[n] + 1
      BY <1>1, <1>7, <2>3 DEF Enters, Unconnected, Buf0
    <3>2. Cardinality(Unconnected(n)') = Cardinality(Unconnected(n)) + 1
      BY <1>2, <3>1, FS_AddElement
    <3> QED BY <1>1, <1>2, <1>3, <2>1, <3>1, <3>2
  <2> QED BY <2>2, <2>3
<1>8. ASSUME NEW s \in Servers, NEW w \in Workers, NEW b \in BufIds, Takes(s, w, b)
      PROVE  Cardinality(Unconnected(n)') <= attach'[n] + Cardinality(Woken(n)')
  <2>1. Woken(n)' = Woken(n) \ {s} /\ attach' = attach /\ b[1] \in Names
    BY <1>8 DEF Takes, BufIds
  <2>2. buf'[b].connected = 1 /\ \A x \in BufIds \ {b} : buf'[x] = buf[x] /\ buf_cnt'[x] = buf_cnt[x]
    BY <1>1, <1>8 DEF Takes, SetConnected, BufRec
  <2>3. CASE b[1] # n
    <3>1. Unconnected(n)' = Unconnected(n)
      BY <2>2, <2>3 DEF Unconnected
    <3>2. s \notin Woken(n)
      BY <1>8, <2>3 DEF Takes, Woken
    <3>3. Woken(n)' = Woken(n)
      BY <2>1, <3>2
    <3> QED BY <1>3, <2>1, <3>1, <3>3
  <2>4. CASE b[1] = n
    <3>1. Unconnected(n)' = Unconnected(n) \ {b} /\ b \in Unconnected(n)
      BY <1>8, <2>2, <2>4 DEF Takes, Unconnected
    <3>2. Cardinality(Unconnected(n)') = Cardinality(Unconnected(n)) - 1
      BY <1>2, <3>1, FS_RemoveElement
    <3>3. s \in Woken(n)
      BY <1>8, <2>4 DEF Takes
    <3>4. Cardinality(Woken(n)') = Cardinality(Woken(n)) - 1
      BY <1>2, <2>1, <3>3, FS_RemoveElement
    <3> QED BY <1>1, <1>2, <1>3, <2>1, <3>2, <3>4
  <2> QED BY <2>3, <2>4
<1>9. ASSUME NEW p \in Users, NEW b \in BufIds, Quits(p, b)
      PROVE  Cardinality(Unconnected(n)') <= attach'[n] + Cardinality(Woken(n)')
  <2>1. \A x \in BufIds \ {b} : buf'[x] = buf[x] /\ buf_cnt'[x] = buf_cnt[x]
    BY <1>1, <1>9 DEF Quits
  <2>2. buf_cnt'[b] > 0 => buf'[b].connected = -1
    BY <1>1, <1>9 DEF Quits, SetConnected, BufRec
  <2>3. Unconnected(n)' \in SUBSET Unconnected(n)
    BY <2>1, <2>2 DEF Unconnected
  <2>4. Cardinality(Unconnected(n)') <= Cardinality(Unconnected(n))
        /\ Cardinality(Unconnected(n)') \in Nat
    BY <1>2, <2>3, FS_Subset, FS_CardinalityType
  <2>5. Woken(n)' = Woken(n) /\ (attach'[n] = attach[n] \/ name_cnt'[n] = 0)
    BY <1>9 DEF Quits
  <2> QED BY <1>1, <1>2, <1>3, <1>4, <1>5, <2>4, <2>5
<1>10. CASE Empties
  <2>1. Unconnected(n)' = {}
    BY <1>10 DEF Empties, Unconnected
  <2> QED BY <1>4, <2>1
<1> QED BY <1>6, <1>7, <1>8, <1>9, <1>10 DEF ChannelStep

\* Every step keeps the connections.
LEMMA ChannelInvStep == IInv /\ ChannelInv /\ [Next]_vars => ChannelInv'
  BY InvStep, ChannelSteps, OneEachStep, AttachStep DEF ChannelInv

\* Nobody is connected at first.
LEMMA ChannelInvInit == Init => ChannelInv
<1> SUFFICES ASSUME Init PROVE ChannelInv
  OBVIOUS
<1>1. \A p \in Clients \cup Workers : ref[p] # "buffer"
  BY DEF Init, Procs
<1>2. \A n \in Names : /\ Unconnected(n) = {} /\ attach[n] = 0
                        /\ Woken(n) = {}
  BY ConstantsAssumption DEF Init, Unconnected, Woken, Procs
<1>3. NoLostAttach
  <2>1. \A n \in Names : Cardinality(Unconnected(n)) <= attach[n] + Cardinality(Woken(n))
    BY <1>2, FS_EmptySet
  <2> QED BY <2>1 DEF NoLostAttach, Unconnected, Woken
<1> QED BY <1>1, <1>3 DEF ChannelInv, WorkersTaken, OneWorkerPerBuffer, OneClientPerBuffer

\* Who is connected to whom is an inductive invariant.
THEOREM Connections == Spec => []ChannelInv
<1>1. IInv /\ ChannelInv /\ [Next]_vars => ChannelInv'
  BY ChannelInvStep
<1> QED BY <1>1, ChannelInvInit, Invariance, PTL DEF Spec

\* Two listeners never accept the same client, however their waits on the
\* name's completion interleave and whatever fails.
THEOREM OneWorkerEach == Spec => []OneWorkerPerBuffer
<1>1. ChannelInv => OneWorkerPerBuffer
  BY DEF ChannelInv
<1> QED BY <1>1, Connections, PTL

\* A client that attached is never overlooked: LISTEN's completion has a post,
\* or a listener on its way to the scan, for each buffer that waits, also after
\* kills, early closes, the end of a name and the last close of the device.
THEOREM AttachNeverLost == Spec => []NoLostAttach
<1>1. ChannelInv => NoLostAttach
  BY DEF ChannelInv
<1> QED BY <1>1, Connections, PTL

\* DETACH marks a buffer -1 for good: no step of LISTEN or ATTACH makes a
\* closed connection look open or new while the buffer lives.
THEOREM ClosedStaysClosed == Spec => ConnectionNeverReopens
<1> DEFINE Same == \A b \in BufIds :
                     buf_cnt[b] > 0 /\ buf_cnt'[b] > 0 /\ buf[b].connected = -1
                       => buf'[b].connected = -1
<1>1. IInv /\ [Next]_vars => Same
  <2> SUFFICES ASSUME IInv, ChannelStep PROVE Same
    BY ChannelSteps
  <2>1. buf_cnt \in [BufIds -> Nat] /\ buf \in [BufIds -> BufRec]
    BY DEF IInv, TypeOK, KernelTypes
  <2>2. CASE Stays
    BY <2>2 DEF Stays
  <2>3. ASSUME NEW c \in Clients, NEW b \in BufIds, Enters(c, b) PROVE Same
    BY <2>1, <2>3 DEF Enters
  <2>4. ASSUME NEW s \in Servers, NEW w \in Workers, NEW b \in BufIds, Takes(s, w, b)
        PROVE  Same
    BY <2>1, <2>4 DEF Takes
  <2>5. ASSUME NEW p \in Users, NEW b \in BufIds, Quits(p, b) PROVE Same
    BY <2>1, <2>5 DEF Quits, SetConnected, BufRec
  <2>6. CASE Empties
    BY <2>6 DEF Empties
  <2> QED BY <2>2, <2>3, <2>4, <2>5, <2>6 DEF ChannelStep
<1>2. IInv /\ [Next]_vars => [Same]_vars
  BY <1>1
<1> HIDE DEF Same
<1>3. Spec => [][Same]_vars
  BY <1>2, Invariance, PTL DEF Spec
<1> QED BY <1>3 DEF ConnectionNeverReopens, Same

-----------------------------------------------------------------------------
(* A waiting client is owed an answer.                                     *)

\* A call of buffer b is posted, being served or answered, or its worker was
\* killed.
Owed(b) ==
  \/ buf[b].call > 0
  \/ buf[b].done > 0
  \/ Serving(b) # {}
  \/ \E w \in Workers : pc[w] = "crashed" /\ h[w] = b

CallersOwed == \A c \in Clients : pc[c] = "calling" => Owed(h[c])

\* The workers serving a buffer are finitely many, so the sum of NoLostCall is
\* positive exactly when one of its terms is.
LEMMA OwedMeansCounted == IInv => (CallersOwed <=> NoLostCall)
<1> SUFFICES ASSUME IInv, NEW c \in Clients, pc[c] = "calling"
             PROVE  Owed(h[c]) <=>
                      \/ buf[h[c]].call + buf[h[c]].done + Cardinality(Serving(h[c])) >= 1
                      \/ \E w \in Workers : pc[w] = "crashed" /\ h[w] = h[c]
  BY DEF CallersOwed, NoLostCall
<1> DEFINE b == h[c]
<1>1. b \in BufIds
  BY DEF IInv, HandlesConsistent, ClientRef, InSession
<1>2. buf[b].call \in Nat /\ buf[b].done \in Nat
  BY <1>1 DEF IInv, TypeOK, KernelTypes, BufRec
<1>3. Serving(b) \in SUBSET Workers
  BY DEF Serving
<1>4. IsFiniteSet(Serving(b))
  BY <1>3, ConstantsAssumption, FS_Subset
<1>5. Cardinality(Serving(b)) \in Nat /\ (Cardinality(Serving(b)) = 0 <=> Serving(b) = {})
  BY <1>4, FS_CardinalityType, FS_EmptySet
<1> QED BY <1>2, <1>5 DEF Owed

\* A step that takes neither a post nor a worker away from b, except by killing
\* the worker, leaves what is owed.
LEMMA OwedKept ==
  ASSUME NEW b, Owed(b),
         buf[b].call > 0 => buf'[b].call > 0,
         buf[b].done > 0 => buf'[b].done > 0,
         \A w \in Workers : pc[w] = "crashed" => pc'[w] = "crashed" /\ h'[w] = h[w],
         \A w \in Serving(b) : w \in Serving(b)' \/ (pc'[w] = "crashed" /\ h'[w] = b)
  PROVE  Owed(b)'
<1>1. \A w \in Serving(b) : w \in Workers
  BY DEF Serving
<1> QED BY <1>1 DEF Owed

\* The updates of a buffer's completions and flags.
LEMMA TokensKept ==
  ASSUME NEW r \in BufRec
  PROVE  /\ \A j : /\ PostCall(r, j).call > 0
                   /\ PostCall(r, j).done = r.done
         /\ \A v : /\ StoreResult(r, v).call = r.call /\ StoreResult(r, v).done = r.done
                   /\ SetConnected(r, v).call = r.call /\ SetConnected(r, v).done = r.done
         /\ TakeCall(r).done = r.done
         /\ TakeDone(r).call = r.call
         /\ PostDone(r).call = r.call /\ PostDone(r).done > 0
  BY DEF BufRec, PostCall, StoreResult, SetConnected, TakeCall, TakeDone, PostDone

\* close(fd), last or not, leaves a client in its call its buffer.
LEMMA ReleaseOwed ==
  ASSUME IInv, IInv', CallersOwed, ReleaseFile, h' = h, job' = job,
         \A c \in Clients : pc'[c] = "calling" => pc[c] = "calling",
         \A w \in Workers : pc'[w] = pc[w] \/ pc'[w] = "crashed"
  PROVE  CallersOwed'
<1> SUFFICES ASSUME NEW c \in Clients, pc'[c] = "calling" PROVE Owed(h[c])'
  BY DEF CallersOwed
<1>1. c \in Users /\ ref'[c] = "buffer"
  BY DEF Users, IInv, HandlesConsistent, ClientRef, InSession
<1>2. buf_cnt'[h'[c]] > 0 /\ h'[c] \in BufIds
  BY <1>1, NextHeld DEF BuffersHeld
<1>3. ~LastFile
  BY <1>2 DEF ReleaseFile
<1>4. buf' = buf
  BY <1>3 DEF ReleaseFile
<1>5. \A w \in Serving(h[c]) : w \in Serving(h[c])' \/ (pc'[w] = "crashed" /\ h'[w] = h[c])
  BY DEF Serving
<1>6. Owed(h[c])
  BY DEF CallersOwed
<1> DEFINE b == h[c]
<1>7. Owed(b)'
  BY <1>4, <1>5, <1>6, OwedKept
<1> QED BY <1>7

\* No step of a client takes an answer another client waits for.
LEMMA ClientOwed ==
  ASSUME IInv, IInv', OneClientPerBuffer, CallersOwed, NEW d \in Clients, ClientNext(d)
  PROVE  CallersOwed'
<1>1. /\ d \in Procs /\ d \in Users /\ d \notin Workers /\ NameOf[d] \in Names
      /\ TidOf[d] \in Tids /\ ClientRef(d)
      /\ \A c \in Clients : c \in Users /\ c \in Procs
      /\ \A w \in Workers : w \in Users /\ w \in Procs /\ w # d
      /\ buf \in [BufIds -> BufRec] /\ h \in [Users -> BufIds \cup {NoBuf}]
      /\ pc \in [Procs -> ClientPcs \cup ServerPcs \cup WorkerPcs]
  BY ConstantsAssumption
  DEF Procs, Users, IInv, HandlesConsistent, TypeOK, HandleTypes, KernelTypes, ControlTypes
<1>2. \A c \in Clients : pc[c] = "calling" =>
        ref[c] = "buffer" /\ h[c] \in BufIds /\ buf_cnt[h[c]] > 0
  BY <1>1, HeldLive DEF IInv, HandlesConsistent, ClientRef, InSession
\* What is left to show: the buffer of a client that was already waiting keeps
\* its tokens.
<1>3. ASSUME NEW l, Goto(d, l), job' = job,
             \A p \in Users \ {d} : h'[p] = h[p],
             l = "calling" => h' = h /\ buf'[h[d]].call > 0,
             \A c \in Clients \ {d} : pc[c] = "calling" =>
               /\ buf[h[c]].call > 0 => buf'[h[c]].call > 0
               /\ buf[h[c]].done > 0 => buf'[h[c]].done > 0
      PROVE  CallersOwed'
  <2>1. pc'[d] = l /\ \A p \in Procs \ {d} : pc'[p] = pc[p]
    BY <1>1, <1>3 DEF Goto
  <2>2. ASSUME NEW c \in Clients, c # d, pc'[c] = "calling" PROVE Owed(h[c])'
    <3>1. PICK b : b = h[c]
      OBVIOUS
    <3>2. Owed(b) /\ h'[c] = b
      BY <1>1, <1>3, <2>1, <2>2, <3>1 DEF CallersOwed
    <3>3. \A w \in Workers : pc'[w] = pc[w] /\ h'[w] = h[w]
      BY <1>1, <1>3, <2>1
    <3>4. \A w \in Serving(b) : w \in Serving(b)'
      BY <1>3, <3>3 DEF Serving
    <3>5. /\ buf[b].call > 0 => buf'[b].call > 0
          /\ buf[b].done > 0 => buf'[b].done > 0
      BY <1>1, <1>3, <2>1, <2>2, <3>1
    <3>6. Owed(b)'
      BY <3>2, <3>3, <3>4, <3>5, OwedKept DEF Owed, Serving
    <3> QED BY <3>2, <3>6 DEF Owed, Serving
  <2>3. pc'[d] = "calling" => Owed(h[d])'
    BY <1>3, <2>1 DEF Owed
  <2> QED BY <2>2, <2>3 DEF CallersOwed
<1>4. CASE OpenFile(d)
  BY <1>3, <1>4 DEF OpenFile, data
<1>5. CASE AttachClient(d)
  <2> DEFINE n == NameOf[d]
             t == TidOf[d]
  <2>1. job' = job
    BY <1>5 DEF AttachClient, data
  <2>2. ASSUME NEW i \in FreeSlots(n, t), h' = [h EXCEPT ![d] = <<n, t, i>>],
               buf' = [buf EXCEPT ![<<n, t, i>>] = Buf0], Goto(d, "open")
        PROVE  CallersOwed'
    <3>1. buf_cnt[<<n, t, i>>] = 0
      BY DEF FreeSlots
    <3>2. \A b \in BufIds : buf_cnt[b] > 0 => buf'[b] = buf[b]
      BY <1>1, <2>2, <3>1
    <3> QED BY <1>1, <1>2, <1>3, <2>1, <2>2, <3>2
  <2>3. ASSUME h' = [h EXCEPT ![d] = <<n, t, 0>>], buf' = buf, Goto(d, "failed")
        PROVE  CallersOwed'
    BY <1>1, <1>3, <2>1, <2>3
  <2> QED BY <1>5, <2>2, <2>3 DEF AttachClient
<1>6. ASSUME NEW l, l # "calling", Goto(d, l), ReleaseFile, h' = h, job' = job PROVE CallersOwed'
  <2>1. pc'[d] = l /\ \A p \in Procs \ {d} : pc'[p] = pc[p]
    BY <1>1, <1>6 DEF Goto
  <2> QED BY <1>1, <1>6, <2>1, ReleaseOwed
<1>7. CASE CloseFile(d)
  BY <1>6, <1>7 DEF CloseFile, data
<1>8. CASE CrashClient(d)
  BY <1>6, <1>8 DEF CrashClient, data
<1>9. ASSUME NEW q \in Requests, Resize(d, q) PROVE CallersOwed'
  <2>1. UNCHANGED <<buf, h, job, pc>>
    BY <1>9 DEF Resize, kernel, data
  <2>2. \A b : Owed(b)' <=> Owed(b)
    BY <2>1 DEF Owed, Serving
  <2> QED BY <2>1, <2>2 DEF CallersOwed, Owed, Serving
<1>10. ASSUME NEW what, Post(d, what), pc[d] \in InSession PROVE CallersOwed'
  <2>1. h[d] \in BufIds
    BY <1>1, <1>10 DEF ClientRef
  <2>2. /\ buf'[h[d]].call > 0
        /\ \A b \in BufIds : /\ buf[b].call > 0 => buf'[b].call > 0
                             /\ buf'[b].done = buf[b].done
    BY <1>1, <1>10, <2>1, TokensKept DEF Post
  <2> QED BY <1>2, <1>3, <1>10, <2>2 DEF Post
<1>11. ASSUME NEW op \in Ops, Call(d, op) PROVE CallersOwed'
  BY <1>10, <1>11 DEF Call, InSession
<1>12. CASE CallAgain(d)
  BY <1>10, <1>12 DEF CallAgain, InSession
<1>13. CASE CallDone(d)
  <2>1. h[d] \in BufIds /\ ref[d] = "buffer"
    BY <1>2, <1>13 DEF CallDone
  <2>2. \A b \in BufIds : b # h[d] => buf'[b] = buf[b]
    BY <1>1, <1>13 DEF CallDone
  <2>3. \A c \in Clients \ {d} : pc[c] = "calling" => buf'[h[c]] = buf[h[c]]
    BY <1>2, <2>1, <2>2 DEF OneClientPerBuffer
  <2> QED BY <1>3, <1>13, <2>3 DEF CallDone, AfterCall, data
<1>14. CASE CallTimeout(d) \/ CallInterrupted(d)
  BY <1>3, <1>14 DEF CallTimeout, CallInterrupted, AfterCall, data, kernel
<1>15. CASE CloseClient(d)
  <2>1. h[d] \in BufIds /\ ref[d] = "buffer"
    BY <1>1, <1>15 DEF CloseClient, ClientRef, InSession
  <2>2. \A b \in BufIds : b # h[d] => buf'[b] = buf[b]
    BY <1>1, <1>15 DEF CloseClient, Detach
  <2>3. \A c \in Clients \ {d} : pc[c] = "calling" => buf'[h[c]] = buf[h[c]]
    BY <1>2, <2>1, <2>2 DEF OneClientPerBuffer
  <2>4. Goto(d, "detached") /\ job' = job /\ \A p \in Users \ {d} : h'[p] = h[p]
    BY <1>1, <1>15 DEF CloseClient
  <2> QED BY <1>3, <2>3, <2>4
<1> QED
  BY <1>4, <1>5, <1>7, <1>8, <1>9, <1>11, <1>12, <1>13, <1>14, <1>15 DEF ClientNext

\* No step of a server takes an answer a client waits for, except by killing
\* the worker.
LEMMA ServerOwed ==
  ASSUME IInv, IInv', CallersOwed, NEW s \in Servers, ServerNext(s)
  PROVE  CallersOwed'
<1>1. /\ s \in Procs /\ s \notin Workers /\ s \notin Clients
      /\ \A c \in Clients : c \in Users /\ c \in Procs /\ c \notin Workers /\ c # s
      /\ \A w \in Workers : w \in Users /\ w \in Procs /\ w \notin Clients /\ w # s
      /\ buf \in [BufIds -> BufRec] /\ h \in [Users -> BufIds \cup {NoBuf}]
      /\ pc \in [Procs -> ClientPcs \cup ServerPcs \cup WorkerPcs]
  BY ConstantsAssumption
  DEF Procs, Users, IInv, TypeOK, HandleTypes, KernelTypes, ControlTypes
<1>2. \A c \in Clients : pc[c] = "calling" => h[c] \in BufIds
  BY DEF IInv, HandlesConsistent, ClientRef, InSession
<1>3. ASSUME UNCHANGED <<buf, h, job>>, \A p \in Procs : p # s => pc'[p] = pc[p]
      PROVE  CallersOwed'
  <2>1. \A p \in Clients \cup Workers : pc'[p] = pc[p]
    BY <1>1, <1>3
  <2>2. \A b : Owed(b)' <=> Owed(b)
    BY <1>3, <2>1 DEF Owed, Serving
  <2> QED BY <1>3, <2>1, <2>2 DEF CallersOwed, Owed, Serving
<1>4. \A l : Goto(s, l) => \A p \in Procs : p # s => pc'[p] = pc[p]
  BY <1>1 DEF Goto
<1>5. CASE OpenFile(s) \/ AttachServer(s) \/ Listen(s) \/ ListenWake(s) \/ ListenInterrupted(s)
           \/ CloseServer(s)
  BY <1>3, <1>4, <1>5
  DEF OpenFile, AttachServer, Listen, ListenWake, ListenInterrupted, CloseServer, data, kernel
<1>6. CASE CloseFile(s)
  <2>1. \E l : Goto(s, l)
    BY <1>6 DEF CloseFile
  <2>2. \A p \in Clients \cup Workers : pc'[p] = pc[p]
    BY <1>1, <1>4, <2>1
  <2> QED BY <1>6, <2>2, ReleaseOwed DEF CloseFile, data
<1>7. CASE CrashServer(s)
  <2>1. \A c \in Clients : pc'[c] = "calling" => pc[c] = "calling"
    BY <1>1, <1>7 DEF CrashServer
  <2>2. \A w \in Workers : pc'[w] = pc[w] \/ pc'[w] = "crashed"
    BY <1>1, <1>7 DEF CrashServer
  <2> QED BY <1>7, <2>1, <2>2, ReleaseOwed DEF CrashServer, data
<1>8. CASE ListenPick(s)
  <2>1. ASSUME NEW b0 \in Unconnected(NameOf[s]), NEW w \in IdleWorkers(s),
               buf' = [buf EXCEPT ![b0] = SetConnected(@, 1)],
               h' = [h EXCEPT ![w] = b0],
               pc' = [pc EXCEPT ![s] = "ready", ![w] = "start"],
               job' = job
        PROVE  CallersOwed'
    <3>1. w \in Workers /\ pc[w] = "idle"
      BY DEF IdleWorkers
    <3>2. /\ pc'[w] = "start" /\ \A p \in Procs \ {s, w} : pc'[p] = pc[p]
          /\ \A p \in Users \ {w} : h'[p] = h[p]
      BY <1>1, <2>1, <3>1
    <3>3. \A b \in BufIds : buf'[b].call = buf[b].call /\ buf'[b].done = buf[b].done
      BY <1>1, <2>1, TokensKept
    <3>4. \A b : \A v \in Serving(b) : v \in Serving(b)'
      BY <1>1, <2>1, <3>1, <3>2 DEF Serving
    <3>5. \A v \in Workers : pc[v] = "crashed" => pc'[v] = "crashed" /\ h'[v] = h[v]
      BY <1>1, <3>1, <3>2
    <3>6. \A b \in BufIds : Owed(b) => Owed(b)'
      BY <3>3, <3>4, <3>5, OwedKept DEF Owed, Serving
    <3>7. \A c \in Clients : pc'[c] = pc[c] /\ h'[c] = h[c]
      BY <1>1, <3>1, <3>2
    <3> QED BY <1>2, <3>6, <3>7 DEF CallersOwed, Owed, Serving
  <2>2. ASSUME Goto(s, "ready"), UNCHANGED <<buf, h, job>> PROVE CallersOwed'
    BY <1>3, <1>4, <2>2
  <2> QED BY <1>8, <2>1, <2>2 DEF ListenPick, data
<1> QED BY <1>5, <1>6, <1>7, <1>8 DEF ServerNext

\* A worker takes a call only to serve it, and leaves only with an answer.
LEMMA WorkerOwed ==
  ASSUME IInv, IInv', CallersOwed, NEW w \in Workers, WorkerNext(w)
  PROVE  CallersOwed'
<1>1. /\ w \in Procs /\ w \in Users /\ w \notin Clients /\ WorkerRef(w)
      /\ \A c \in Clients : c \in Users /\ c \in Procs /\ c # w
      /\ \A v \in Workers : v \in Users /\ v \in Procs
      /\ buf \in [BufIds -> BufRec] /\ h \in [Users -> BufIds \cup {NoBuf}]
      /\ pc \in [Procs -> ClientPcs \cup ServerPcs \cup WorkerPcs]
      /\ job \in [Workers -> Job]
  BY ConstantsAssumption
  DEF Procs, Users, IInv, HandlesConsistent, TypeOK, HandleTypes, KernelTypes, ControlTypes,
      DataTypes
<1>2. \A c \in Clients : pc'[c] = "calling" =>
        c \in Users /\ h'[c] \in BufIds /\ buf_cnt'[h'[c]] > 0
  <2>1. \A c \in Clients : pc'[c] = "calling" => c \in Users /\ ref'[c] = "buffer"
    BY <1>1 DEF IInv, HandlesConsistent, ClientRef, InSession
  <2> QED BY <2>1, NextHeld DEF BuffersHeld
\* What is left to show: what the worker takes from its buffer it serves or
\* answers.
<1>3. ASSUME NEW l, Goto(w, l), pc[w] # "crashed",
             \A p \in Users \ {w} : h'[p] = h[p],
             \A v \in Workers \ {w} : job'[v] = job[v],
             \A b \in BufIds : buf_cnt'[b] > 0 =>
               /\ buf[b].call > 0 => buf'[b].call > 0 \/ w \in Serving(b)'
               /\ buf[b].done > 0 => buf'[b].done > 0
               /\ w \in Serving(b) => w \in Serving(b)' \/ buf'[b].done > 0
      PROVE  CallersOwed'
  <2>1. pc'[w] = l /\ \A p \in Procs \ {w} : pc'[p] = pc[p]
    BY <1>1, <1>3 DEF Goto
  <2>2. SUFFICES ASSUME NEW c \in Clients, pc'[c] = "calling" PROVE Owed(h[c])'
    BY DEF CallersOwed
  <2>3. PICK b : b = h[c]
    OBVIOUS
  <2>4. Owed(b) /\ h'[c] = b /\ b \in BufIds /\ buf_cnt'[b] > 0
    BY <1>1, <1>2, <1>3, <2>1, <2>2, <2>3 DEF CallersOwed
  <2>5. \A v \in Workers \ {w} : pc'[v] = pc[v] /\ h'[v] = h[v] /\ job'[v] = job[v]
    BY <1>1, <1>3, <2>1
  <2>6. \A v \in Serving(b) : v # w => v \in Serving(b)'
    BY <2>5 DEF Serving
  <2>7. \A v \in Workers : pc[v] = "crashed" => pc'[v] = "crashed" /\ h'[v] = h[v]
    BY <1>3, <2>5
  <2>8. Owed(b)'
    <3>1. CASE buf[b].call > 0
      BY <1>3, <2>4, <3>1 DEF Owed, Serving
    <3>2. CASE buf[b].done > 0
      BY <1>3, <2>4, <3>2 DEF Owed, Serving
    <3>3. CASE Serving(b) # {}
      BY <1>3, <2>4, <2>6, <3>3 DEF Owed, Serving
    <3>4. ASSUME NEW v \in Workers, pc[v] = "crashed", h[v] = b PROVE Owed(b)'
      BY <2>7, <3>4 DEF Owed
    <3> QED BY <2>4, <3>1, <3>2, <3>3, <3>4 DEF Owed
  <2> QED BY <2>4, <2>8 DEF Owed, Serving
<1>4. Attached(w) => h[w] \in BufIds
  BY <1>1 DEF WorkerRef
<1>5. \A l : Goto(w, l) => pc'[w] = l
  BY <1>1 DEF Goto
<1>6. CASE Accept(w) \/ AcceptInterrupted(w) \/ AcceptRead(w)
  <2>1. /\ UNCHANGED <<buf, h>> /\ pc[w] # "crashed" /\ (\E l : Goto(w, l))
        /\ \A v \in Workers \ {w} : job'[v] = job[v]
    BY <1>1, <1>6 DEF Accept, AcceptInterrupted, AcceptRead, kernel, data
  <2>2. \A b : w \in Serving(b) => w \in Serving(b)'
    BY <1>5, <1>6, <2>1 DEF Accept, AcceptInterrupted, AcceptRead, Serving
  <2> QED BY <1>3, <2>1, <2>2
<1>7. CASE AcceptWake(w)
  <2>1. /\ h' = h /\ job' = job /\ pc[w] = "accepting" /\ Goto(w, "woken")
        /\ buf' = [buf EXCEPT ![h[w]] = TakeCall(@)] /\ h[w] \in BufIds
    BY <1>4, <1>7 DEF AcceptWake, data, Attached
  <2>2. /\ \A b \in BufIds : b # h[w] => buf'[b] = buf[b]
        /\ buf'[h[w]].done = buf[h[w]].done
    BY <1>1, <2>1, TokensKept
  <2>3. \A b : h[w] = b => w \in Serving(b)'
    BY <1>5, <2>1 DEF Serving
  <2>4. \A b : w \notin Serving(b)
    BY <2>1 DEF Serving
  <2> QED BY <1>3, <2>1, <2>2, <2>3, <2>4
<1>8. CASE Serve(w)
  <2>1. /\ h' = h /\ job' = job /\ pc[w] = "exec"
        /\ Goto(w, IF job[w].op = "close" THEN "leave" ELSE "answer")
        /\ buf' = [buf EXCEPT ![h[w]] = StoreResult(@, job[w].tag)] /\ h[w] \in BufIds
    BY <1>4, <1>8 DEF Serve, data, Attached
  <2>2. \A b \in BufIds : buf'[b].call = buf[b].call /\ buf'[b].done = buf[b].done
    BY <1>1, <2>1, TokensKept
  <2>3. \A b : w \in Serving(b) => w \in Serving(b)'
    BY <1>5, <2>1 DEF Serving
  <2> QED BY <1>3, <2>1, <2>2, <2>3
<1>9. CASE Done(w)
  <2>1. /\ pc[w] = "answer" /\ h[w] \in BufIds /\ Goto(w, AfterDone(w)) /\ Retire(w, AfterDone(w))
        /\ UNCHANGED <<name_cnt, tid_cnt, buf_cnt>>
        /\ \/ Found(h[w]) /\ buf' = [buf EXCEPT ![h[w]] = PostDone(@)]
           \/ ~Found(h[w]) /\ buf' = buf
    BY <1>1, <1>9 DEF Done, WorkerRef
  <2>2. /\ \A p \in Users \ {w} : h'[p] = h[p]
        /\ \A v \in Workers \ {w} : job'[v] = job[v]
    BY <1>1, <2>1 DEF Retire
  <2>3. \A b \in BufIds : buf'[b].call = buf[b].call /\ (buf[b].done > 0 => buf'[b].done > 0)
    BY <1>1, <2>1, TokensKept
  <2>4. buf_cnt'[h[w]] > 0 => buf'[h[w]].done > 0
    <3>1. buf_cnt'[h[w]] > 0 => Found(h[w])
      <4>1. ASSUME buf_cnt[h[w]] > 0 PROVE Found(h[w])
        <5>1. \E p \in Users : ref[p] = "buffer" /\ h[p] = h[w]
          BY <2>1, <4>1, LiveHeld
        <5> QED BY <2>1, <5>1, ReferencedFound
      <4> QED BY <2>1, <4>1
    <3> QED BY <1>1, <2>1, <3>1, TokensKept
  <2>5. \A b : w \in Serving(b) => b = h[w]
    BY DEF Serving
  <2> QED BY <1>3, <2>1, <2>2, <2>3, <2>4, <2>5
<1>10. CASE CloseAccepted(w)
  <2>1. /\ pc[w] = "leave" /\ h[w] \in BufIds /\ Goto(w, AfterLeave(w)) /\ Retire(w, AfterLeave(w))
        /\ Detach(w, h[w])
    BY <1>4, <1>10 DEF CloseAccepted, Attached
  <2>2. /\ \A p \in Users \ {w} : h'[p] = h[p]
        /\ \A v \in Workers \ {w} : job'[v] = job[v]
    BY <1>1, <2>1 DEF Retire
  <2>3. \A b \in BufIds : buf_cnt'[b] > 0 => /\ buf'[b].call = buf[b].call
                                              /\ buf'[b].done = buf[b].done
    <3>1. /\ buf_cnt' = [buf_cnt EXCEPT ![h[w]] = @ - 1]
          /\ buf' = [buf EXCEPT ![h[w]] = IF buf_cnt[h[w]] - 1 <= 0 THEN Buf0
                                                                ELSE SetConnected(@, -1)]
      BY <2>1 DEF Detach
    <3>2. buf_cnt \in [BufIds -> Nat]
      BY DEF IInv, TypeOK, KernelTypes
    <3>3. \A b \in BufIds : b # h[w] => buf'[b] = buf[b]
      BY <1>1, <3>1
    <3>4. buf_cnt'[h[w]] > 0 => buf'[h[w]] = SetConnected(buf[h[w]], -1)
      BY <1>1, <2>1, <3>1, <3>2
    <3>5. buf[h[w]] \in BufRec
      BY <1>1, <2>1
    <3> QED BY <3>3, <3>4, <3>5, TokensKept
  <2>4. \A b : w \in Serving(b) => w \in Serving(b)'
    BY <1>5, <2>1 DEF Serving, AfterLeave, Retire
  <2> QED BY <1>3, <2>1, <2>2, <2>3, <2>4
<1> QED BY <1>6, <1>7, <1>8, <1>9, <1>10 DEF WorkerNext

\* A client that waits in CALL is owed an answer, whatever timeouts, signals,
\* early closes and shutdowns came before: the call it posted is not consumed
\* without a worker that serves it, and only a kill of that worker takes the
\* answer away.
THEOREM CallNeverLost == Spec => []NoLostCall
<1>1. Init => CallersOwed
  BY ConstantsAssumption DEF Init, CallersOwed, Procs
<1>2. IInv /\ ChannelInv /\ CallersOwed /\ [Next]_vars => CallersOwed'
  <2> SUFFICES ASSUME IInv, ChannelInv, CallersOwed, [Next]_vars PROVE CallersOwed'
    OBVIOUS
  <2>1. IInv' /\ OneClientPerBuffer
    BY InvStep DEF ChannelInv
  <2>2. ASSUME UNCHANGED vars PROVE CallersOwed'
    BY <2>2 DEF vars, kernel, data, CallersOwed, Owed, Serving
  <2> QED BY <2>1, <2>2, ClientOwed, ServerOwed, WorkerOwed DEF Next
<1>3. IInv /\ CallersOwed => NoLostCall
  BY OwedMeansCounted
<1> QED BY <1>1, <1>2, <1>3, Invariance, Connections, PTL DEF Spec
=============================================================================
