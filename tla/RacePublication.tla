-------------------------- MODULE RacePublication --------------------------
(***************************************************************************)
(* What DSRD promises of a published race, with nothing of how discovery   *)
(* works.  The README (section "When DSRD publishes a race") lists gates:  *)
(* the healthy baselines pass, the failing schedule is confirmed, the      *)
(* minimized one shows the same failure as often, and an independent       *)
(* replay reproduces it.  A discovery collects evidence in any order the   *)
(* gates allow and closes once, with a publication or with none.           *)
(***************************************************************************)
EXTENDS Naturals

CONSTANTS
  Dims,             \* perturbable (workload, phase) pairs
  Schedules,        \* functions from Dims to delays, 0 where nothing is delayed
  BaselineRuns,     \* healthy baselines a publication needs
  ConfirmationRuns, \* matching failures it needs of each of its schedules
  ReplayRuns        \* reproductions it needs

VARIABLES
  baselines,   \* healthy baseline runs seen
  sightings,   \* for each schedule, its runs that showed the race's failure
  replays,     \* independent replays that reproduced the race
  status,      \* "running" until the discovery returns
  published    \* <<original, minimized>> once published, << >> before

vars == <<baselines, sightings, replays, status, published>>

(* s delays nothing for longer than t does. *)
AtMost(s, t) == \A d \in Dims : s[d] <= t[d]

Init ==
  /\ baselines = 0
  /\ sightings = [s \in Schedules |-> 0]
  /\ replays = 0
  /\ status = "running"
  /\ published = << >>

PassBaseline ==
  /\ status = "running"
  /\ baselines' = baselines + 1
  /\ UNCHANGED <<sightings, replays, status, published>>

(* No failure counts for a race before the target is known to be healthy. *)
Sight(s) ==
  /\ status = "running"
  /\ baselines >= BaselineRuns
  /\ sightings' = [sightings EXCEPT ![s] = @ + 1]
  /\ UNCHANGED <<baselines, replays, status, published>>

(* Only a schedule that has shown the race often enough is replayed. *)
Reproduce(s) ==
  /\ status = "running"
  /\ sightings[s] >= ConfirmationRuns
  /\ replays' = replays + 1
  /\ UNCHANGED <<baselines, sightings, status, published>>

Publish(original, minimized) ==
  /\ status = "running"
  /\ baselines >= BaselineRuns
  /\ sightings[original] >= ConfirmationRuns
  /\ sightings[minimized] >= ConfirmationRuns
  /\ AtMost(minimized, original)
  /\ replays >= ReplayRuns
  /\ status' = "found_failure"
  /\ published' = <<original, minimized>>
  /\ UNCHANGED <<baselines, sightings, replays>>

Withhold ==
  /\ status = "running"
  /\ status' \notin {"running", "found_failure"}
  /\ UNCHANGED <<baselines, sightings, replays, published>>

Next ==
  \/ PassBaseline
  \/ \E s \in Schedules : Sight(s) \/ Reproduce(s)
  \/ \E s, t \in Schedules : Publish(s, t)
  \/ Withhold

Spec == Init /\ [][Next]_vars

=============================================================================
