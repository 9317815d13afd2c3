--------------------------- MODULE MCLocalProcess ---------------------------
(***************************************************************************)
(* Small targets, schedules and failures for checking LocalProcess.        *)
(***************************************************************************)
EXTENDS LocalProcess, TLC

Two == {1, 2}

(* A job and a service, either first: one asserts that its process runs and has
   a reset command, one is probed and reports failures, one lacks its reset. *)
MCManifests ==
  {[kind |-> <<"job", "service">>, assertion |-> <<"none", "process">>,
    reset |-> "command", leaves |-> <<"none", "piped">>, reports |-> {}],
   [kind |-> <<"service", "job">>, assertion |-> <<"probe", "none">>,
    reset |-> "none", leaves |-> <<"quiet", "none">>, reports |-> {1}],
   [kind |-> <<"service", "service">>, assertion |-> <<"none", "none">>,
    reset |-> "missing", leaves |-> <<"none", "none">>, reports |-> {}]}

(* No delay, one, and one of a workload that does not exist. *)
MCSchedules == {{}, {2}, {3}}

AnySpawn == {"started", "failed", "threw"}

(* Enough for the documented claims: a service that reports a failure. *)
OneService ==
  {[kind |-> <<"service", "service">>, assertion |-> <<"none", "none">>,
    reset |-> "none", leaves |-> <<"quiet", "none">>, reports |-> {1}]}
NoDelay == {{}}
Started == {"started"}
=============================================================================
