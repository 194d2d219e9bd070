------------------------------ MODULE SyncCall ------------------------------
(***************************************************************************)
(* What lxc_ipc_open_client, lxc_ipc_call and lxc_ipc_close promise a       *)
(* client: each call is executed exactly once, between its start and its   *)
(* return, and the result the client finds is the result of that call.     *)
(***************************************************************************)
EXTENDS Naturals

CONSTANT Clients

VARIABLES st,      \* "out", "ready", "pending" or "served"
          request, \* the request of the call under way
          result   \* the result the client would find

vars == <<st, request, result>>

Init ==
  /\ st = [c \in Clients |-> "out"]
  /\ request = [c \in Clients |-> 0]
  /\ result = [c \in Clients |-> 0]

Enter(c) ==
  /\ st[c] = "out"
  /\ st' = [st EXCEPT ![c] = "ready"]
  /\ UNCHANGED <<request, result>>

Start(c) ==
  /\ st[c] = "ready"
  /\ st' = [st EXCEPT ![c] = "pending"]
  /\ request' = [request EXCEPT ![c] = 1 - @]
  /\ UNCHANGED result

Execute(c) ==
  /\ st[c] = "pending"
  /\ st' = [st EXCEPT ![c] = "served"]
  /\ result' = [result EXCEPT ![c] = request[c]]
  /\ UNCHANGED request

Return(c) ==
  /\ st[c] = "served"
  /\ st' = [st EXCEPT ![c] = "ready"]
  /\ UNCHANGED <<request, result>>

Leave(c) ==
  /\ st[c] = "ready"
  /\ st' = [st EXCEPT ![c] = "out"]
  /\ request' = [request EXCEPT ![c] = 0]
  /\ result' = [result EXCEPT ![c] = 0]

Next == \E c \in Clients : Enter(c) \/ Start(c) \/ Execute(c) \/ Return(c) \/ Leave(c)

Spec == Init /\ [][Next]_vars
=============================================================================
