---------------------------- MODULE IsolatedRuns ----------------------------
(***************************************************************************)
(* What a discovery relies on when it compares runs with one another, with *)
(* nothing of how a platform works: ExecutionPlatform.run                  *)
(* (packages/contracts) answers a run once, and an answer it counts as     *)
(* evidence comes from a run that is over.  Nothing of that run is at work *)
(* then or later, so nothing of it can show in the evidence of the next.   *)
(* A run that answers with an error promises no such thing.                *)
(***************************************************************************)

CONSTANTS
  Runs,
  Statuses,  \* what a run may answer
  Evidence   \* the answers a discovery concludes something from

VARIABLES
  answer,    \* what each run has answered, "none" so far
  atWork     \* the runs something of which is alive, or may still start

vars == <<answer, atWork>>

Init == answer = [r \in Runs |-> "none"] /\ atWork = {}

(* The runs that may be at work, given what has been answered. *)
Open(answers) == {r \in Runs : answers[r] \notin Evidence}

(* Parts of runs start and end as they like; one that is being stopped may
   take others with it. *)
Stir ==
  /\ atWork' \in SUBSET Open(answer)
  /\ UNCHANGED answer

Answer(r, s) ==
  /\ answer[r] = "none"
  /\ answer' = [answer EXCEPT ![r] = s]
  /\ atWork' \in SUBSET Open(answer')

Next == Stir \/ \E r \in Runs, s \in Statuses : Answer(r, s)

Spec == Init /\ [][Next]_vars

=============================================================================
