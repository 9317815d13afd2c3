---------------------------- MODULE LocalProcess ----------------------------
(***************************************************************************)
(* Runs of a local-process target on one LocalProcessExecutionPlatform     *)
(* (packages/runtime/src/local-process-platform.ts).  A run stops what is  *)
(* left of earlier ones, runs the reset command, spawns every workload     *)
(* after its start delay, waits for the jobs under a timer, probes         *)
(* readiness, lets the proof oracle judge, and stops and resets again.     *)
(*                                                                         *)
(* The operating system is external: a process exits when it likes, may    *)
(* leave descendants in its group, and its "close" event comes once it is  *)
(* dead and nobody holds its output.  activeChildren is shared by all runs *)
(* of the platform, and an unhandled rejection ends the host process.      *)
(***************************************************************************)
EXTENDS ProofOracle, FiniteSets

(* Descendants that hold the output of their process, or do not. *)
Kin == {"none", "piped", "quiet"}

CONSTANTS
  Runs,        \* calls of run, numbered in the order they are made
  Workloads,   \* positions in the manifest
  Manifests,   \* what a target may be: its manifest, the descendants each of
               \* its processes leaves in its group, and the workloads that
               \* print a structured failure ("reports")
  Schedules,   \* sets of workloads a schedule may delay, unknown ones included
  Spawns,      \* what spawn may come to: "started", "failed", "threw"
  Parallel     \* how many runs may be in flight at once

ASSUME LocalProcessAssumption ==
  /\ Runs \subseteq Nat /\ IsFiniteSet(Runs)
  /\ Workloads \subseteq Nat \ {None} /\ Workloads # {} /\ IsFiniteSet(Workloads)
  /\ Manifests \subseteq [kind : [Workloads -> Kinds],
                          assertion : [Workloads -> Assertions],
                          reset : {"none", "command", "missing"},
                          leaves : [Workloads -> Kin], reports : SUBSET Workloads]
  /\ Schedules \subseteq SUBSET Nat
  /\ Spawns \subseteq {"started", "failed", "threw"}
  /\ Parallel \in Nat

VARIABLES
  manifest,  \* the target's manifest
  host,      \* the process DSRD runs in: "up" or "down"
  phase,     \* where each run is
  delayed,   \* the workloads its schedule delays
  start,     \* how far the start of each workload of each run is
  leader,    \* its process: "none", "alive", or the code it exited with
  kin,       \* the descendants it has left alive in its group
  seen,      \* what the states of the run show of it
  answer,    \* the readiness observed
  targets,   \* the children the run is stopping
  signalled, \* children DSRD has sent a signal
  resets,    \* reset commands of the run that have succeeded
  result     \* what run returns

vars == <<manifest, host, phase, delayed, start, leader, kin, seen, answer, targets, signalled, resets, result>>

target == <<manifest, delayed>>
processes == <<start, leader, kin, seen>>
stopping == <<targets, signalled>>

Children == Runs \X Workloads
Phases == {"idle", "opening", "openingReap", "preparing", "executing", "probing",
           "closing", "closingReap", "clearing", "returned"}

NoResult == Verdict("none", None, "none")
Rejected == Verdict("throws", None, "none")
ExecutionError == Verdict("execution_error", None, "none")
Verdicts == [status : {"none", "throws", "execution_error", "healthy",
                       "inconclusive", "workload_failure"},
             workload : Workloads \cup {None},
             category : {"none", "structured_failure", "unexpected_exit",
                         "readiness_failed"}]

Kind(w) == manifest.kind[w]
Jobs == {w \in Workloads : Kind(w) = "job"}
InFlight == {r \in Runs : phase[r] \notin {"idle", "returned"}}

(* activeChildren: a child is deleted on its "close". *)
Active == {c \in Children : seen[c] = "running"}

-----------------------------------------------------------------------------
(* Judging. *)

(* What the states of the run show: an exit with its code, once closed. *)
StateOf(c) == IF seen[c] = "none" THEN "missing"
              ELSE IF seen[c] = "running" THEN "running" ELSE leader[c]

(* A line is kept as "<workload>: <text>": no bar splits the workload off, and
   a JSON body no longer opens the line. *)
Line(w) == [container |-> None, names |-> w, body |-> "failure", opens |-> FALSE]
Lines(r) ==
  LET printing == {w \in manifest.reports : start[<<r, w>>] = "started"}
  IN IF printing = {} THEN << >> ELSE <<Line(Min(printing))>>

Judgement(r, answers) ==
  Evaluate(manifest.kind, manifest.assertion, FirstReport(Lines(r)),
           [w \in Workloads |-> StateOf(<<r, w>>)], answers)

-----------------------------------------------------------------------------
(* Stopping: SIGTERM to the group of every active child, 100 ms, SIGKILL to
   the groups still alive, and a wait for each child's exit. *)

StopBegins(r, at) ==
  /\ phase' = [phase EXCEPT ![r] = at]
  /\ targets' = [targets EXCEPT ![r] = Active]
  /\ signalled' = signalled \cup Active

(* Mutant of Closing: what is still to run is left to the next run to stop. *)
ClosingWithoutStop(r, verdict) ==
  /\ phase' = [phase EXCEPT ![r] = "clearing"]
  /\ result' = [result EXCEPT ![r] = verdict]
  /\ UNCHANGED <<stopping>>

(* Whatever run has come to, its finally block follows. *)
Closing(r, verdict) ==
  /\ StopBegins(r, "closing")
  /\ result' = [result EXCEPT ![r] = verdict]

(* Mutant of GraceEnds: nothing is killed. *)
GraceEndsWithoutKill(r) ==
  /\ host = "up" /\ phase[r] \in {"opening", "closing"}
  /\ phase' = [phase EXCEPT ![r] = IF @ = "opening" THEN "openingReap" ELSE "closingReap"]
  /\ UNCHANGED <<target, processes, stopping, host, answer, resets, result>>

GraceEnds(r) ==
  /\ host = "up" /\ phase[r] \in {"opening", "closing"}
  /\ phase' = [phase EXCEPT ![r] = IF @ = "opening" THEN "openingReap" ELSE "closingReap"]
  /\ targets' = [targets EXCEPT ![r] = {c \in @ : leader[c] = "alive"}]
  /\ leader' = [c \in Children |-> IF c \in targets'[r] THEN "nonzero" ELSE leader[c]]
  /\ kin' = [c \in Children |-> IF c \in targets[r] THEN "none" ELSE kin[c]]
  /\ UNCHANGED <<target, host, start, seen, answer, signalled, resets, result>>

(* Mutant of Reaped: stopping is followed by the reset before the run. *)
ReapedIntoReset(r) ==
  /\ host = "up" /\ phase[r] \in {"openingReap", "closingReap"}
  /\ targets[r] \cap Active = {}
  /\ phase' = [phase EXCEPT ![r] = "preparing"]
  /\ targets' = [targets EXCEPT ![r] = {}]
  /\ UNCHANGED <<target, processes, host, answer, signalled, resets, result>>

(* Mutant of Reaped: the run is judged by the states its cleanup leaves. *)
ReapedThenJudged(r) ==
  /\ host = "up" /\ phase[r] \in {"openingReap", "closingReap"}
  /\ targets[r] \cap Active = {}
  /\ phase' = [phase EXCEPT ![r] = IF @ = "openingReap" THEN "preparing" ELSE "clearing"]
  /\ targets' = [targets EXCEPT ![r] = {}]
  /\ result' = [result EXCEPT ![r] = IF @ \in {NoResult, ExecutionError} THEN @
                                      ELSE Judgement(r, answer[r])]
  /\ UNCHANGED <<target, processes, host, answer, signalled, resets>>

Reaped(r) ==
  /\ host = "up" /\ phase[r] \in {"openingReap", "closingReap"}
  /\ targets[r] \cap Active = {}
  /\ phase' = [phase EXCEPT ![r] = IF @ = "openingReap" THEN "preparing" ELSE "clearing"]
  /\ targets' = [targets EXCEPT ![r] = {}]
  /\ UNCHANGED <<target, processes, host, answer, signalled, resets, result>>

-----------------------------------------------------------------------------
(* The run. *)

Called(r) ==
  /\ host = "up" /\ phase[r] = "idle" /\ \A q \in Runs : q < r => phase[q] # "idle"
  /\ Cardinality(InFlight) < Parallel

(* The manifest cannot be read, or is not one: run throws. *)
ManifestRejected(r) ==
  /\ Called(r)
  /\ phase' = [phase EXCEPT ![r] = "returned"]
  /\ result' = [result EXCEPT ![r] = Rejected]
  /\ UNCHANGED <<processes, target, stopping, host, answer, resets>>

Valid(s) == s \subseteq Workloads

(* validateSchedule rejects before the try; a required reset that the manifest
   does not give ends the run before anything is touched. *)
Begins(r) ==
  /\ Called(r)
  /\ \E s \in Schedules :
       /\ delayed' = [delayed EXCEPT ![r] = s]
       /\ IF ~Valid(s) \/ manifest.reset = "missing"
            THEN /\ phase' = [phase EXCEPT ![r] = "returned"]
                 /\ result' = [result EXCEPT ![r] = IF Valid(s) THEN ExecutionError
                                                     ELSE Rejected]
                 /\ UNCHANGED <<stopping>>
            ELSE StopBegins(r, "opening") /\ UNCHANGED result
  /\ UNCHANGED <<processes, manifest, host, answer, resets>>

ResetSucceeds(r) ==
  /\ host = "up" /\ phase[r] \in {"preparing", "clearing"}
  /\ resets' = [resets EXCEPT ![r] = IF manifest.reset = "command" THEN @ + 1 ELSE @]
  /\ IF phase[r] = "clearing"
       THEN phase' = [phase EXCEPT ![r] = "returned"] /\ UNCHANGED start
       ELSE /\ phase' = [phase EXCEPT ![r] = "executing"]
            /\ start' = [c \in Children |-> IF c[1] = r THEN "waiting" ELSE start[c]]
  /\ UNCHANGED <<target, stopping, host, leader, kin, seen, answer, result>>

(* Mutant of ResetFails: a failure of the last reset is not looked at. *)
ResetFailsUnnoticed(r) ==
  /\ host = "up" /\ phase[r] \in {"preparing", "clearing"} /\ manifest.reset = "command"
  /\ IF phase[r] = "preparing"
       THEN Closing(r, ExecutionError)
       ELSE phase' = [phase EXCEPT ![r] = "returned"] /\ UNCHANGED <<stopping, result>>
  /\ UNCHANGED <<target, processes, host, answer, resets>>

(* A reset that fails before the run skips it, one that fails after it voids
   its result. *)
ResetFails(r) ==
  /\ host = "up" /\ phase[r] \in {"preparing", "clearing"} /\ manifest.reset = "command"
  /\ IF phase[r] = "preparing"
       THEN Closing(r, ExecutionError)
       ELSE /\ phase' = [phase EXCEPT ![r] = "returned"]
            /\ result' = [result EXCEPT ![r] = ExecutionError]
            /\ UNCHANGED <<stopping>>
  /\ UNCHANGED <<target, processes, host, answer, resets>>

Threw(r) == \E w \in Workloads : start[<<r, w>>] = "threw"
Failed(r) == \E w \in Workloads : start[<<r, w>>] = "failed"
Waiting(r, ws) == {w \in ws : start[<<r, w>>] = "waiting"}
(* Mutant of AllStarted: only the starts of jobs are waited for. *)
AllStartedOfJobs(r) == Waiting(r, Jobs) = {} /\ ~Threw(r)

AllStarted(r) == Waiting(r, Workloads) = {} /\ ~Threw(r)

(* A rejected waitForExit is handled only if it is a job's and the run gets to
   await all completions before the event loop turns. *)
Unhandled(r) ==
  \E w \in Workloads :
    /\ start'[<<r, w>>] = "failed"
    /\ \/ Kind(w) = "service" \/ phase[r] # "executing"
       \/ \E v \in Workloads : \/ start'[<<r, v>>] = "threw"
                               \/ v \in delayed[r] /\ start'[<<r, v>>] = "waiting"

(* A workload without a delay starts before any delay ends; one with a delay
   starts whatever has become of its run. *)
Spawn(r, w) ==
  LET c == <<r, w>> IN
  /\ host = "up" /\ start[c] = "waiting"
  /\ w \in delayed[r] => Waiting(r, Workloads \ delayed[r]) = {}
  /\ \E outcome \in Spawns :
       /\ start' = [start EXCEPT ![c] = outcome]
       /\ IF outcome = "started"
            THEN /\ leader' = [leader EXCEPT ![c] = "alive"]
                 /\ seen' = [seen EXCEPT ![c] = "running"]
                 /\ kin' = [kin EXCEPT ![c] = manifest.leaves[w]]
            ELSE UNCHANGED <<leader, seen, kin>>
  /\ host' = IF Unhandled(r) THEN "down" ELSE "up"
  /\ UNCHANGED <<target, stopping, phase, answer, resets, result>>

Unanswered(answers) ==
  {w \in Workloads : manifest.assertion[w] = "probe" /\ answers[w] = "none"}

(* Once every probe has answered the states are read and judged, in one turn. *)
Conclude(r, answers) ==
  /\ answer' = [answer EXCEPT ![r] = answers]
  /\ IF Unanswered(answers) # {}
       THEN phase' = [phase EXCEPT ![r] = "probing"] /\ UNCHANGED <<stopping, result>>
       ELSE Closing(r, Judgement(r, answers))

(* A process assertion is answered by the state, before any probe is. *)
AssertedAnswers(r) ==
  [w \in Workloads |->
     IF manifest.assertion[w] # "process" THEN "none"
     ELSE IF StateOf(<<r, w>>) = "running" THEN "ready" ELSE "unhealthy"]

JobsEnd(r) ==
  /\ host = "up" /\ phase[r] = "executing" /\ AllStarted(r) /\ ~Failed(r)
  /\ \A w \in Jobs : seen[<<r, w>>] = "exited"
  /\ Conclude(r, AssertedAnswers(r))
  /\ UNCHANGED <<target, processes, host, resets>>

(* The timer covers the jobs only, and starts when all workloads have. *)
TimesOut(r) ==
  /\ host = "up" /\ phase[r] = "executing" /\ AllStarted(r) /\ ~Failed(r)
  /\ \E w \in Jobs : seen[<<r, w>>] # "exited"
  /\ Closing(r, ExecutionError)
  /\ UNCHANGED <<target, processes, host, answer, resets>>

(* A start that threw ends the run at once, a job that could not be spawned
   when all starts are done. *)
StartsReject(r) ==
  /\ host = "up" /\ phase[r] = "executing" /\ Waiting(r, Workloads \ delayed[r]) = {}
  /\ Threw(r) \/ (Failed(r) /\ Waiting(r, Workloads) = {})
  /\ Closing(r, ExecutionError)
  /\ UNCHANGED <<target, processes, host, answer, resets>>

(* Whoever is left of the workload, in whatever run, may answer a probe. *)
Listening(w) == \E r \in Runs : leader[<<r, w>>] = "alive" \/ kin[<<r, w>>] # "none"

Probed(r, w) ==
  /\ host = "up" /\ phase[r] = "probing" /\ w \in Unanswered(answer[r])
  /\ \E a \in {"timeout"} \cup (IF Listening(w) THEN {"ready"} ELSE {}) :
       Conclude(r, [answer[r] EXCEPT ![w] = a])
  /\ UNCHANGED <<target, processes, host, resets>>

-----------------------------------------------------------------------------
(* The processes, while there is a host to see them. *)

Exits(c) ==
  /\ host = "up" /\ leader[c] = "alive"
  /\ \E code \in {"zero", "nonzero"} : leader' = [leader EXCEPT ![c] = code]
  /\ UNCHANGED <<target, stopping, host, phase, start, kin, seen, answer, resets, result>>

DescendantsExit(c) ==
  /\ host = "up" /\ kin[c] # "none"
  /\ kin' = [kin EXCEPT ![c] = "none"]
  /\ UNCHANGED <<target, stopping, host, phase, start, leader, seen, answer, resets, result>>

Closes(c) ==
  /\ host = "up" /\ seen[c] = "running" /\ leader[c] # "alive" /\ kin[c] # "piped"
  /\ seen' = [seen EXCEPT ![c] = "exited"]
  /\ UNCHANGED <<target, stopping, host, phase, start, leader, kin, answer, resets, result>>

-----------------------------------------------------------------------------
Init ==
  /\ manifest \in Manifests /\ host = "up"
  /\ phase = [r \in Runs |-> "idle"] /\ delayed = [r \in Runs |-> {}]
  /\ start = [c \in Children |-> "none"] /\ leader = [c \in Children |-> "none"]
  /\ kin = [c \in Children |-> "none"] /\ seen = [c \in Children |-> "none"]
  /\ answer = [r \in Runs |-> [w \in Workloads |-> "none"]]
  /\ targets = [r \in Runs |-> {}] /\ signalled = {}
  /\ resets = [r \in Runs |-> 0] /\ result = [r \in Runs |-> NoResult]

(* What the host does of its own accord, by its timers and its event loop. *)
Proceeds(r) ==
  \/ GraceEnds(r) \/ Reaped(r) \/ ResetSucceeds(r) \/ ResetFails(r)
  \/ JobsEnd(r) \/ TimesOut(r) \/ StartsReject(r)
  \/ \E w \in Workloads : Spawn(r, w) \/ Probed(r, w)

Finished == (host = "down" \/ \A r \in Runs : phase[r] = "returned") /\ UNCHANGED vars

Next ==
  \/ \E r \in Runs : ManifestRejected(r) \/ Begins(r) \/ Proceeds(r)
  \/ \E c \in Children : Exits(c) \/ DescendantsExit(c) \/ Closes(c)
  \/ Finished

Spec == Init /\ [][Next]_vars

(* Timers fire, a reset command ends, and a close that is due is delivered.
   Nothing is assumed of the target's processes. *)
FairSpec ==
  /\ Spec
  /\ \A r \in Runs : WF_vars(Proceeds(r))
  /\ \A c \in Children : WF_vars(Closes(c))

-----------------------------------------------------------------------------
(* What must hold. *)

(* Every variable of the platform and its runs keeps its type. *)
TypeOK ==
  /\ manifest \in Manifests /\ host \in {"up", "down"}
  /\ phase \in [Runs -> Phases] /\ delayed \in [Runs -> Schedules \cup {{}}]
  /\ start \in [Children -> {"none", "waiting"} \cup Spawns]
  /\ leader \in [Children -> {"none", "alive", "zero", "nonzero"}]
  /\ kin \in [Children -> Kin]
  /\ seen \in [Children -> {"none", "running", "exited"}]
  /\ answer \in [Runs -> [Workloads -> Answers]]
  /\ targets \in [Runs -> SUBSET Children] /\ signalled \in SUBSET Children
  /\ resets \in [Runs -> 0..2] /\ result \in [Runs -> Verdicts]

IsVerdict(r) == result[r].status \in {"healthy", "inconclusive", "workload_failure"}

(* A process, or a descendant that holds its output. *)
Alive(c) == leader[c] = "alive" \/ kin[c] = "piped"

(* The processes a run has spawned are dead when it returns, and so is whoever
   holds their output, whether it timed out, failed to reset or was judged,
   unless a start of it threw. *)
NoProcessOutlivesItsRun ==
  \A c \in Children : phase[c[1]] = "returned" /\ ~Threw(c[1]) => ~Alive(c)

(* While runs do not overlap (Parallel = 1), a crash reported as the target's is
   one DSRD has not brought about by stopping the process itself. *)
CrashIsTheTargetsOwn ==
  \A r \in Runs :
    result[r].category = "unexpected_exit" => <<r, result[r].workload>> \notin signalled

(* A run whose state could not be reset, before it or after it, yields no
   verdict. *)
VerdictHasItsResets ==
  \A r \in Runs : phase[r] = "returned" /\ IsVerdict(r) /\ manifest.reset = "command"
                    => resets[r] = 2

(* At the moment a run is found healthy every job of it has closed with 0, and
   no service of it has been seen to exit or has not answered its assertion. *)
HealthyWasSeenWhole ==
  [][\A r \in Runs : result'[r] = Healthy /\ result[r] # Healthy =>
       \A w \in Workloads :
         /\ StateOf(<<r, w>>) = IF w \in Jobs THEN "zero" ELSE "running"
         /\ manifest.assertion[w] # "none" => answer'[r][w] = "ready"]_vars

(* A run returns whatever its processes do: jobs and probes have timers, and
   processes that ignore SIGTERM are killed. *)
RunsReturn ==
  \A r \in Runs : phase[r] = "opening" ~> phase[r] = "returned" \/ host = "down"

(* For what comes after it, a run is what it has returned and whether one of its
   processes is alive, holds output, or is still to be spawned. *)
Contract == INSTANCE IsolatedRuns WITH
  Statuses <- {"throws", "execution_error", "healthy", "inconclusive", "workload_failure"},
  Evidence <- {"healthy", "inconclusive", "workload_failure"},
  answer <- [r \in Runs |-> IF phase[r] = "returned" THEN result[r].status ELSE "none"],
  atWork <- {r \in Runs : \E w \in Workloads :
               Alive(<<r, w>>) \/ start[<<r, w>>] = "waiting"}

(* The platform implements what a discovery relies on: each run returns once, and
   one that returns a verdict has no process left and none to come, whatever runs
   beside it (run's finally block, over the children of all runs). *)
AreIsolated == Contract!Spec

-----------------------------------------------------------------------------
(* What documents of the repository say, and the code does not. *)

(* docs/outcomes.md:12, a command or platform failure is an execution_error. *)
SpawnFailureIsReported == host = "up"

=============================================================================
