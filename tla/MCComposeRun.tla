---------------------------- MODULE MCComposeRun ----------------------------
(***************************************************************************)
(* Small Compose files and schedules for checking ComposeRun.              *)
(***************************************************************************)
EXTENDS ComposeRun, TLC

CONSTANTS db, api

TwoServices == {db, api}

(* Every set of delayed starts: none of them takes the path of one command. *)
AnyDelayed == SUBSET Services

(* No readiness delay, one, and a loop of two. *)
SomeHeld == {<< >>, <<db>>, <<db, api>>}
=============================================================================
