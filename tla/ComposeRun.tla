----------------------------- MODULE ComposeRun -----------------------------
(***************************************************************************)
(* One physical run of a schedule on a Compose target:                     *)
(* DockerRuntimeController.runSchedule (packages/runtime/src/              *)
(* runtime-controller.ts) with the docker commands it issues and the proof *)
(* observer it hands the evidence to.                                      *)
(*                                                                         *)
(* Two coroutines run at once.  The controller prepares and resets the     *)
(* stack, races the execution against a timer, drains what is in flight,   *)
(* clears readiness delays and stops the stack.  The execution applies the *)
(* readiness delays, starts the services (one command, or one coroutine    *)
(* each when a start is delayed), collects evidence and observes; when the *)
(* timer wins it goes on until it notices the abort signal.  Docker itself *)
(* is external: a command settles when it likes, and a container may start *)
(* at any moment while the command that asks for it is alive.              *)
(***************************************************************************)
EXTENDS Naturals, Sequences, FiniteSets, Functions

CONSTANTS
  Services,     \* the services of the Compose file
  Delayed,      \* the sets of services a schedule may delay the start of
  Held,         \* the sequences of services whose readiness it may delay
  PortsMayClash \* docker may refuse a start because a host port is taken

ASSUME ComposeAssumption ==
  /\ Services # {} /\ IsFiniteSet(Services)
  /\ Delayed \subseteq SUBSET Services
  /\ Held \subseteq Seq(Services)
  /\ PortsMayClash \in BOOLEAN

VARIABLES
  delayed,    \* services this schedule delays the start of
  ready,      \* readiness delays it asks for, in order
  phase,      \* where the controller is
  exec,       \* where the execution is
  applied,    \* readiness delays applied by the execution
  held,       \* services whose readiness is being delayed in the target
  start,      \* how far the start of each service is
  up,         \* containers of this attempt that exist
  aborted,    \* observationAbort: the execution must stop
  cancelled,  \* startIndependently's own signal
  evidence,   \* what the last logs and service states show
  refreshed,  \* the observer has refreshed its evidence
  outcome,    \* how the execution ended: a status, or the kind of its error
  failure,    \* runFailure: << >>, or the kinds of the errors it holds
  cleanup,    \* errors of clearing and stopping
  result      \* the status returned and its diagnostic code

vars == <<delayed, ready, phase, exec, applied, held, start, up, aborted,
          cancelled, evidence, refreshed, outcome, failure, cleanup, result>>

schedule == <<delayed, ready>>
signals == <<aborted, cancelled>>
observed == <<evidence, refreshed>>
verdict == <<failure, cleanup, result>>

Phases == {"discover", "prepare", "reset", "racing", "draining", "clearing",
           "stopping", "returned"}
Executions == {"none", "applying", "starting", "logs", "states", "observing",
               "polling", "settled"}
Starts == {"idle", "waiting", "command", "started", "failed"}
ErrorKinds == {"timeout", "drain", "port", "operation", "aborted", "aggregate"}
Evidence == [structured : BOOLEAN, exited : BOOLEAN, complete : BOOLEAN]
Nothing == [structured |-> FALSE, exited |-> FALSE, complete |-> FALSE]
ErrorCodes == {"run_timeout", "compose_operation_drain_timeout",
               "host_port_conflict", "runtime_operation_failed"}
Results ==
  [status : {"none", "throws", "healthy", "workload_failure"}, code : {"none"}]
    \cup [status : {"execution_error"}, code : ErrorCodes]
NoResult == [status |-> "none", code |-> "none"]

-----------------------------------------------------------------------------
(* Errors.  An AggregateError inside another hides what it holds. *)

Element(f) == IF Len(f) = 1 THEN f[1] ELSE "aggregate"

Joined(f, g) ==
  IF f = << >> THEN g ELSE IF g = << >> THEN f ELSE <<Element(f), Element(g)>>

(* Mutant of Code: the drain's error is looked for first. *)
CodeOfDrainFirst(f) ==
  IF "drain" \in Range(f) THEN "compose_operation_drain_timeout"
  ELSE IF "timeout" \in Range(f) THEN "run_timeout"
  ELSE "runtime_operation_failed"

Code(f) ==
  IF "timeout" \in Range(f) THEN "run_timeout"
  ELSE IF "drain" \in Range(f) THEN "compose_operation_drain_timeout"
  ELSE IF "port" \in Range(f) THEN "host_port_conflict"
  ELSE "runtime_operation_failed"

OperationErrors == {"operation"} \cup (IF PortsMayClash THEN {"port"} ELSE {})

-----------------------------------------------------------------------------
(* The execution. *)

Independently == delayed # {}

Pending == {s \in Services : start[s] \in {"waiting", "command"}}

(* The tracked promises: the starts as a whole, or one collecting command. *)
InFlight == exec \in {"starting", "logs", "states"}

Settle(o) == exec' = "settled" /\ outcome' = o

(* Without a delayed start one "up" names all services. *)
BeginStarts ==
  IF aborted
    THEN Settle("aborted") /\ UNCHANGED start
    ELSE /\ exec' = "starting"
         /\ start' = [s \in Services |-> IF Independently THEN "waiting" ELSE "command"]
         /\ UNCHANGED outcome

(* What the proof makes of the evidence, and what the observer does with it. *)
Classify(e) ==
  IF e.structured \/ e.exited THEN "workload_failure"
  ELSE IF e.complete THEN "healthy" ELSE "inconclusive"

(* Mutant of Concludes: a refreshed run without a verdict is concluded too. *)
ConcludesOnceRefreshed == Classify(evidence) = "healthy" \/ refreshed

Concludes == Classify(evidence) = "healthy" \/ (refreshed /\ evidence.exited)

(* Logs only grow; a container that exited may have been restarted. *)
Shown(e) ==
  /\ evidence.structured => e.structured
  /\ e.structured \/ e.exited => up # {}
  /\ e.complete => up = Services /\ ~e.exited

Init ==
  /\ delayed \in Delayed /\ ready \in Held
  /\ phase = "discover" /\ exec = "none"
  /\ applied = 0 /\ held = {}
  /\ start = [s \in Services |-> "idle"] /\ up = {}
  /\ aborted = FALSE /\ cancelled = FALSE
  /\ evidence = Nothing /\ refreshed = FALSE
  /\ outcome = "none" /\ failure = << >> /\ cleanup = << >>
  /\ result = NoResult

(* Mutant of DelayApplied: the first delay applied is enough to start. *)
DelayAppliedOnce ==
  /\ exec = "applying" /\ applied < Len(ready)
  /\ applied' = applied + 1
  /\ held' = held \cup {ready[applied + 1]}
  /\ BeginStarts
  /\ UNCHANGED <<schedule, phase, up, signals, observed, verdict>>

(* The loop over readiness delays looks at no signal between two of them. *)
DelayApplied ==
  /\ exec = "applying" /\ applied < Len(ready)
  /\ applied' = applied + 1
  /\ held' = held \cup {ready[applied + 1]}
  /\ IF applied' = Len(ready) THEN BeginStarts ELSE UNCHANGED <<exec, start, outcome>>
  /\ UNCHANGED <<schedule, phase, up, signals, observed, verdict>>

DelayRefused ==
  /\ exec = "applying" /\ applied < Len(ready)
  /\ Settle("operation")
  /\ UNCHANGED <<schedule, phase, applied, held, start, up, signals, observed, verdict>>

(* Mutant of WaitEnds: the wait is not followed by throwIfAborted. *)
WaitEndsUnchecked(s) ==
  /\ exec = "starting" /\ start[s] = "waiting"
  /\ start' = [start EXCEPT ![s] = "command"]
  /\ UNCHANGED <<schedule, phase, exec, applied, held, up, signals, observed,
                 outcome, verdict>>

(* A start's delay ends, or the cancellation ends it. *)
WaitEnds(s) ==
  /\ exec = "starting" /\ start[s] = "waiting"
  /\ start' = [start EXCEPT ![s] = IF cancelled THEN "failed" ELSE "command"]
  /\ UNCHANGED <<schedule, phase, exec, applied, held, up, signals, observed,
                 outcome, verdict>>

(* Docker: a container of a living "up" command starts. *)
ContainerStarts(s) ==
  /\ start[s] = "command" /\ s \notin up
  /\ up' = up \cup {s}
  /\ UNCHANGED <<schedule, phase, exec, applied, held, start, signals, observed,
                 outcome, verdict>>

(* The services one command starts. *)
CommandOf(s) == IF Independently THEN {s} ELSE Services

(* A command killed by the abort closes too, and is rejected. *)
StartSucceeds(s) ==
  /\ exec = "starting" /\ start[s] = "command" /\ ~cancelled
  /\ CommandOf(s) \subseteq up
  /\ start' = [t \in Services |-> IF t \in CommandOf(s) THEN "started" ELSE start[t]]
  /\ UNCHANGED <<schedule, phase, exec, applied, held, up, signals, observed,
                 outcome, verdict>>

(* Mutant of StartFails: the last of the starts to fail names the error. *)
StartFailsLastNamed(s) ==
  /\ exec = "starting" /\ start[s] = "command"
  /\ start' = [t \in Services |-> IF t \in CommandOf(s) THEN "failed" ELSE start[t]]
  /\ cancelled' = TRUE
  /\ \E kind \in OperationErrors : outcome' = IF cancelled THEN "aborted" ELSE kind
  /\ UNCHANGED <<schedule, phase, exec, applied, held, up, aborted, observed, verdict>>

(* The first failure cancels the other starts and names the error; the rest
   are waited for. *)
StartFails(s) ==
  /\ exec = "starting" /\ start[s] = "command"
  /\ start' = [t \in Services |-> IF t \in CommandOf(s) THEN "failed" ELSE start[t]]
  /\ cancelled' = TRUE
  /\ \E kind \in OperationErrors :
       outcome' = IF cancelled THEN IF outcome = "none" THEN "aborted" ELSE outcome
                  ELSE kind
  /\ UNCHANGED <<schedule, phase, exec, applied, held, up, aborted, observed, verdict>>

(* Mutant of StartsSettle: the first failure settles the starts. *)
StartsSettleEarly ==
  /\ exec = "starting"
  /\ Pending = {} \/ \E s \in Services : start[s] = "failed"
  /\ IF cancelled
       THEN Settle(IF outcome = "none" THEN "aborted" ELSE outcome)
       ELSE exec' = "logs" /\ UNCHANGED outcome
  /\ UNCHANGED <<schedule, phase, applied, held, start, up, signals, observed, verdict>>

StartsSettle ==
  /\ exec = "starting" /\ Pending = {}
  /\ IF cancelled
       THEN Settle(IF outcome = "none" THEN "aborted" ELSE outcome)
       ELSE exec' = "logs" /\ UNCHANGED outcome
  /\ UNCHANGED <<schedule, phase, applied, held, start, up, signals, observed, verdict>>

LogsCollected ==
  /\ exec = "logs"
  /\ IF aborted THEN Settle("aborted") ELSE exec' = "states" /\ UNCHANGED outcome
  /\ UNCHANGED <<schedule, phase, applied, held, start, up, signals, observed, verdict>>

StatesListed ==
  /\ exec = "states"
  /\ IF aborted
       THEN Settle("aborted") /\ UNCHANGED evidence
       ELSE /\ exec' = "observing"
            /\ evidence' \in {e \in Evidence : Shown(e)}
            /\ UNCHANGED outcome
  /\ UNCHANGED <<schedule, phase, applied, held, start, up, signals, refreshed, verdict>>

CollectionFails ==
  /\ exec \in {"logs", "states"}
  /\ Settle(IF aborted THEN "aborted" ELSE "operation")
  /\ UNCHANGED <<schedule, phase, applied, held, start, up, signals, observed, verdict>>

(* The observer classifies, concludes, or refreshes: at once the first time,
   after a poll interval from then on. *)
ObserverConcludes ==
  /\ exec = "observing" /\ ~aborted /\ Concludes
  /\ Settle(Classify(evidence))
  /\ UNCHANGED <<schedule, phase, applied, held, start, up, signals, observed, verdict>>

ObserverRefreshes ==
  /\ exec = "observing" /\ ~aborted /\ ~Concludes
  /\ exec' = IF refreshed THEN "polling" ELSE "logs"
  /\ refreshed' = TRUE
  /\ UNCHANGED <<schedule, phase, applied, held, start, up, signals, evidence,
                 outcome, verdict>>

PollEnds ==
  /\ exec = "polling" /\ ~aborted
  /\ exec' = "logs"
  /\ UNCHANGED <<schedule, phase, applied, held, start, up, signals, observed,
                 outcome, verdict>>

ObserverAborts ==
  /\ exec \in {"observing", "polling"} /\ aborted
  /\ Settle("aborted")
  /\ UNCHANGED <<schedule, phase, applied, held, start, up, signals, observed, verdict>>

Execution ==
  \/ DelayApplied \/ DelayRefused
  \/ \E s \in Services : WaitEnds(s) \/ ContainerStarts(s)
  \/ \E s \in Services : StartSucceeds(s) \/ StartFails(s)
  \/ StartsSettle \/ LogsCollected \/ StatesListed \/ CollectionFails
  \/ ObserverConcludes \/ ObserverRefreshes \/ PollEnds \/ ObserverAborts

-----------------------------------------------------------------------------
(* The controller. *)

(* ComposeExecutionPlatform discovers the services first, and rejects if that
   fails. *)
Discovers ==
  /\ phase = "discover"
  /\ \/ phase' = "prepare" /\ UNCHANGED result
     \/ phase' = "returned" /\ result' = [status |-> "throws", code |-> "none"]
  /\ UNCHANGED <<schedule, exec, applied, held, start, up, signals, observed,
                 outcome, failure, cleanup>>

(* Pull, build and "down" before the run: a failure skips to the draining. *)
Prepares ==
  /\ phase = "prepare"
  /\ \/ phase' = "reset" /\ UNCHANGED <<failure, signals>>
     \/ phase' = "draining" /\ failure' = <<"operation">> /\ aborted' = TRUE /\ cancelled' = TRUE
  /\ UNCHANGED <<schedule, exec, applied, held, start, up, observed, outcome,
                 cleanup, result>>

Resets ==
  /\ phase = "reset"
  /\ phase' = "racing"
  /\ IF ready = << >> THEN BeginStarts ELSE exec' = "applying" /\ UNCHANGED <<start, outcome>>
  /\ UNCHANGED <<schedule, applied, held, up, signals, observed, verdict>>

ResetFails ==
  /\ phase = "reset"
  /\ phase' = "draining" /\ failure' = <<"operation">>
  /\ aborted' = TRUE /\ cancelled' = TRUE
  /\ UNCHANGED <<schedule, exec, applied, held, start, up, observed, outcome,
                 cleanup, result>>

(* The execution settles before the timer: its error becomes the failure. *)
ExecutionWins ==
  /\ phase = "racing" /\ exec = "settled"
  /\ phase' = "draining"
  /\ failure' = IF outcome \in ErrorKinds THEN <<outcome>> ELSE << >>
  /\ aborted' = TRUE /\ cancelled' = TRUE
  /\ UNCHANGED <<schedule, exec, applied, held, start, up, observed, outcome,
                 cleanup, result>>

TimeoutFires ==
  /\ phase = "racing" /\ exec # "settled"
  /\ phase' = "draining"
  /\ failure' = <<"timeout">>
  /\ aborted' = TRUE /\ cancelled' = TRUE
  /\ UNCHANGED <<schedule, exec, applied, held, start, up, observed, outcome,
                 cleanup, result>>

Drained ==
  /\ phase = "draining" /\ ~InFlight
  /\ phase' = "clearing"
  /\ UNCHANGED <<schedule, exec, applied, held, start, up, signals, observed,
                 outcome, verdict>>

(* Mutant of DrainTimesOut: only an execution that settled is drained with a
   timer. *)
DrainTimesOutUnlessFailed ==
  /\ phase = "draining" /\ InFlight /\ failure = << >>
  /\ phase' = "clearing"
  /\ failure' = Joined(failure, <<"drain">>)
  /\ UNCHANGED <<schedule, exec, applied, held, start, up, signals, observed,
                 outcome, cleanup, result>>

DrainTimesOut ==
  /\ phase = "draining" /\ InFlight
  /\ phase' = "clearing"
  /\ failure' = Joined(failure, <<"drain">>)
  /\ UNCHANGED <<schedule, exec, applied, held, start, up, signals, observed,
                 outcome, cleanup, result>>

(* Both steps of the cleanup are taken, whatever the first one's outcome. *)
Clears ==
  /\ phase = "clearing"
  /\ phase' = "stopping"
  /\ \/ held' = {} /\ UNCHANGED cleanup
     \/ Held # {<< >>} /\ cleanup' = <<"operation">> /\ UNCHANGED held
  /\ UNCHANGED <<schedule, exec, applied, start, up, signals, observed, outcome,
                 failure, result>>

(* Mutant of Returned: an error of the cleanup is dropped. *)
ReturnedWithoutCleanup(f, errors) ==
  IF f = << >> THEN [status |-> outcome, code |-> "none"]
  ELSE [status |-> "execution_error", code |-> Code(Joined(f, errors))]

Returned(f, errors) ==
  IF Joined(f, errors) = << >> THEN [status |-> outcome, code |-> "none"]
  ELSE [status |-> "execution_error", code |-> Code(Joined(f, errors))]

Stops ==
  /\ phase = "stopping"
  /\ phase' = "returned"
  /\ \/ up' = {} /\ UNCHANGED cleanup
     \/ cleanup' = Append(cleanup, "operation") /\ UNCHANGED up
  /\ result' = Returned(failure, cleanup')
  /\ UNCHANGED <<schedule, exec, applied, held, start, signals, observed, outcome,
                 failure>>

Controller ==
  \/ Discovers \/ Prepares \/ Resets \/ ResetFails \/ ExecutionWins \/ TimeoutFires
  \/ Drained \/ DrainTimesOut \/ Clears \/ Stops

(* The promise of runSchedule is settled; the execution may still be going. *)
Settled == phase = "returned" /\ UNCHANGED vars

Next == Execution \/ Controller \/ Settled

Spec == Init /\ [][Next]_vars

(* The commands the controller waits for without a timer settle, and timers
   fire.  Nothing is assumed of the execution: it may hang anywhere. *)
FairSpec == Spec /\ WF_vars(Controller)

-----------------------------------------------------------------------------
(* What must hold of every run. *)

(* Every variable of a run keeps its type. *)
TypeOK ==
  /\ delayed \in Delayed /\ ready \in Held
  /\ phase \in Phases /\ exec \in Executions
  /\ applied \in Nat
  /\ held \in SUBSET Services /\ up \in SUBSET Services
  /\ start \in [Services -> Starts]
  /\ aborted \in BOOLEAN /\ cancelled \in BOOLEAN /\ refreshed \in BOOLEAN
  /\ evidence \in Evidence
  /\ outcome \in {"none", "healthy", "workload_failure"} \cup ErrorKinds
  /\ failure \in Seq(ErrorKinds) /\ cleanup \in Seq(ErrorKinds)
  /\ result \in Results

IsEvidence == result.status \in {"healthy", "workload_failure"}

(* What the observer looks at, and so any healthy run or failure, comes from
   the schedule asked for: every readiness delay was applied before the first
   service started, and every service was started (executeSchedule). *)
EvidenceIsOfTheSchedule ==
  exec \in {"logs", "states", "observing", "polling"} \/ IsEvidence =>
    applied = Len(ready) /\ \A s \in Services : start[s] = "started"

(* Once the run is over, no start of it is pending, unless draining timed out:
   a start that fails waits for its siblings, a timeout for all of them. *)
AttemptIsOver ==
  phase = "returned" /\ "drain" \notin Range(failure) => ~InFlight /\ Pending = {}

TimedOut == failure # << >> /\ failure[1] = "timeout"

(* A timeout is diagnosed as such even if the drain or the cleanup fails too;
   if both do, the nested AggregateError hides it. *)
TimeoutIsDiagnosed ==
  phase = "returned" /\ TimedOut /\ (Len(failure) = 1 \/ cleanup = << >>) =>
    result.code = "run_timeout"

(* A start refused for a taken host port cancels the other starts, which fail in
   their turn: whatever they then report and whatever the cleanup adds, the run is
   diagnosed as that conflict, unless the timer overtakes it. *)
ConflictIsDiagnosed ==
  [](outcome = "port" =>
       [](phase = "returned" => TimedOut \/ result.code = "host_port_conflict"))

(* Once cancelled, by a timeout or a sibling's failure, no start is issued. *)
NoStartOnceCancelled ==
  [][\A s \in Services :
       cancelled /\ start[s] # "command" => start'[s] # "command"]_vars

(* A run returns, wherever a start, a docker command of the execution, a
   readiness delay or the observer hangs. *)
RunReturns == <>(phase = "returned")

(* For what comes after it, a run is its answer and whether anything of it is
   still at work: the execution, a start, a container or a readiness delay. *)
Runs == {1}
AtWork == \/ exec \notin {"none", "settled"} \/ Pending # {}
          \/ up # {} \/ held # {}

Contract == INSTANCE IsolatedRuns WITH
  Statuses <- {"throws", "healthy", "workload_failure", "execution_error"},
  Evidence <- {"healthy", "workload_failure"},
  answer <- [r \in Runs |-> result.status],
  atWork <- {r \in Runs : AtWork}

(* A Compose run implements what a discovery relies on: it answers once, and a
   healthy run or a failure is over for good, although a timer may have left
   the execution behind and a cleanup may fail (runSchedule). *)
IsIsolated == Contract!Spec

-----------------------------------------------------------------------------
(* What documents of the repository say, and the code does not. *)

(* docs/superpowers/plans/2026-09-12-portable-compose-engine.md:125, "Clear
   injected readiness delays ... in every outcome". *)
ReadinessDelaysAreCleared == phase = "returned" /\ cleanup = << >> => held = {}

=============================================================================
