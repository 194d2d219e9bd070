---------------------------- MODULE MCSmartHttp ----------------------------
(***************************************************************************)
(* Instances of SmartHttp for TLC: the windows in which another thread may *)
(* run.  See the head of SmartHttp for what each window is.                *)
(***************************************************************************)
EXTENDS SmartHttp

NoWindow == {}
IdleOnly == {"idle"}
LeaveAndIdle == {"leave", "idle"}
NotIdle == Windows \ {"idle"}
============================================================================
