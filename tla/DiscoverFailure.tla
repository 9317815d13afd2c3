-------------------------- MODULE DiscoverFailure --------------------------
(***************************************************************************)
(* discoverFailure (packages/scheduler/src/orchestrator.ts) with the       *)
(* search (search.ts) and the minimizer (minimize.ts) it drives: one       *)
(* sequential coroutine that asks a platform for physical runs, one at a   *)
(* time, and decides after each answer what to run next or what to return. *)
(*                                                                         *)
(* What a run shows is up to the target.  platform maps each schedule to   *)
(* the results it may give; a set with several members is a target whose   *)
(* startup is not deterministic, which is what the confidence gates of     *)
(* the code are for.  Each action below is one awaited run with everything *)
(* the code does before the next await, or a loop or phase ending.         *)
(***************************************************************************)
EXTENDS Naturals, Sequences, FiniteSets, FiniteSetsExt

CONSTANTS
  NumDims,          \* perturbable (workload, phase) pairs, in perturbation order
  Delays,           \* every delay a schedule may hold, 0 for "not perturbed"
  DelayOptions,     \* options.delayOptionsMs, the delays the minimizer may try
  Candidates,       \* the schedules of the candidate stages, in stage order
  Failures,         \* what a failed run reports: [reason, signature, events]
  NoFailure, NoReason, NoSignature,
  Platforms,        \* the targets considered: functions from schedules to results
  BaselineRuns, ConfirmationRuns, ReplayRuns,
  Budgeted, MaxSchedules,   \* options.maxSchedules is given, and its value
  Options           \* the callers' options considered, records of OptionFields

Dims == 1 .. NumDims
Schedules == [Dims -> Delays]
Baseline == [d \in Dims |-> 0]
Perturbed(s) == {d \in Dims : s[d] > 0}

NonFailures == {"healthy", "execution_error", "inconclusive", "cancelled", "throws"}

(* A physical RunResult; reset is the diagnostic local_process_reset_required,
   and status "throws" a platform call that rejects. *)
RunResults ==
  [status : {"workload_failure"}, failure : Failures, reset : {FALSE}]
    \cup [status : NonFailures, failure : {NoFailure}, reset : BOOLEAN]

(* staged: candidateStages is given, not candidates.  verified: artifactV3 is
   given, so a v3 artifact is published.  canReplay: replaySchedule is given.
   provenanceValid: the artifact will pass its schema. *)
OptionFields == [staged : BOOLEAN, verified : BOOLEAN, canReplay : BOOLEAN,
                 provenanceValid : BOOLEAN]

ASSUME DiscoveryAssumption ==
  /\ NumDims \in Nat
  /\ Delays \subseteq Nat /\ 0 \in Delays
  /\ DelayOptions \subseteq Delays
  /\ Candidates \in Seq(Schedules)
  /\ Platforms \subseteq [Schedules -> SUBSET RunResults]
  /\ NoFailure \notin Failures
  /\ BaselineRuns \in Nat \ {0}
  /\ ConfirmationRuns \in Nat \ {0}
  /\ ReplayRuns \in Nat \ {0}
  /\ MaxSchedules \in Nat
  /\ Budgeted \in BOOLEAN
  /\ Options \subseteq OptionFields

VARIABLES
  options,      \* the caller's options, fixed for a discovery
  platform,     \* the target's possible answers, fixed for a discovery
  phase,        \* where the coroutine is
  executions,   \* physical runs counted against the budget
  baselines,    \* healthy baseline runs
  seen,         \* candidate schedules tested by the search
  explored,     \* exploredCandidateSchedules, assigned when the search returns
  failing,      \* searchResult.failingSchedule
  expected,     \* searchResult's reason and signature
  repeats,      \* runs done by the current confirmFailure loop
  best,         \* the minimizer's current perturbations
  pending,      \* perturbations the current minimizer pass has yet to visit
  floor,        \* delays up to here were tried for the current perturbation
  attempt,      \* which of runReproducibly's two runs comes next
  minimizedRun, \* failure shown by the last run of the minimized schedule
  replays,      \* replays that reproduced the artifact
  status,       \* "running", then the status returned
  reported,     \* exploredCandidateSchedules as returned
  sightings     \* history: matching failures seen of each schedule

vars == <<options, platform, phase, executions, baselines, seen, explored, failing,
          expected, repeats, best, pending, floor, attempt, minimizedRun,
          replays, status, reported, sightings>>

given == <<options, platform>>
searchVars == <<seen, explored, failing, expected>>
minimizeVars == <<best, pending, floor, attempt, minimizedRun>>
resultVars == <<status, reported>>

Phases == {"baseline", "search", "confirm", "remove", "lower", "final",
           "verify", "publish", "replay", "done"}

Statuses == {"running", "found_failure", "no_failure", "target_unhealthy",
             "needs_configuration", "execution_error", "inconclusive",
             "cancelled", "throws"}

-----------------------------------------------------------------------------
(* What the run of a schedule tells. *)

(* confirmFailure's test and matchesFailure: same reason and, when the search
   saw one, same signature. *)
Matches(r) ==
  /\ r.status = "workload_failure"
  /\ r.failure.reason = expected.reason
  /\ expected.signature # NoSignature => r.failure.signature = expected.signature

(* replayFailure compares the replay with the artifact: with the evidence of
   the minimized run, and in v3 the signature the search found. *)
HasOrderedEvidence(required, events) ==
  \E at \in [DOMAIN required -> DOMAIN events] :
    /\ \A i, j \in DOMAIN required : i < j => at[i] < at[j]
    /\ \A i \in DOMAIN required : events[at[i]] = required[i]

Reproduces(r) ==
  /\ r.status = "workload_failure"
  /\ minimizedRun.reason # NoReason => r.failure.reason = minimizedRun.reason
  /\ HasOrderedEvidence(minimizedRun.events, r.failure.events)
  /\ options.verified => r.failure.signature = expected.signature

(* Mutant of TerminalStatus: the physical status is returned as it is. *)
PhysicalStatus(r) == r.status

(* terminalStatus: what a baseline that is not healthy means. *)
TerminalStatus(r) ==
  CASE r.status = "workload_failure" -> "target_unhealthy"
    [] r.status # "workload_failure" /\ r.reset -> "needs_configuration"
    [] ~r.reset /\ r.status \in {"execution_error", "cancelled"} -> r.status
    [] OTHER -> "inconclusive"

-----------------------------------------------------------------------------
(* What the coroutine runs next. *)

(* Candidates given without stages are searched without their empty schedule. *)
Planned ==
  {i \in DOMAIN Candidates : options.staged \/ Perturbed(Candidates[i]) # {}}

(* scheduleKey identifies schedules with the same perturbations and delays. *)
Untested == {i \in Planned : Candidates[i] \notin seen}

(* Mutant of SearchOver: a repeated candidate ends the search. *)
SearchOverAtRepeat ==
  \/ Untested = {}
  \/ \E i, j \in Planned : /\ i < j /\ Candidates[i] = Candidates[j]
                           /\ \A k \in Untested : j < k

SearchOver ==
  \/ Untested = {}
  \/ Budgeted /\ Cardinality(seen) >= MaxSchedules

Current == Min(pending)

LowerDelays == {d \in DelayOptions : floor < d /\ d < best[Current]}

(* Mutant of NextLower: the delays are tried from the largest down. *)
LargestLower == Max(LowerDelays)

NextLower == Min(LowerDelays)

Trial ==
  CASE phase = "baseline" -> Baseline
    [] phase = "search"   -> Candidates[Min(Untested)]
    [] phase = "confirm"  -> failing
    [] phase = "remove"   -> [best EXCEPT ![Current] = 0]
    [] phase = "lower"    -> [best EXCEPT ![Current] = NextLower]
    [] OTHER              -> best

(* Mutant of ConfirmationRepeats: one confirmation too few. *)
ConfirmationRepeatsShort == ConfirmationRuns - 2

(* The failing run of the search counts as the first confirmation. *)
ConfirmationRepeats == ConfirmationRuns - 1

(* The coroutine is about to call runSchedule. *)
NeedsRun ==
  \/ phase \in {"baseline", "final"}
  \/ phase = "search" /\ ~SearchOver
  \/ phase = "confirm" /\ repeats < ConfirmationRepeats
  \/ phase = "remove" /\ pending # {}
  \/ phase = "lower" /\ pending # {} /\ LowerDelays # {}
  \/ phase = "verify" /\ repeats < ConfirmationRuns

(* Mutant of WithinBudget: the last run of the budget is never made. *)
BudgetShort == Budgeted => executions + 1 < MaxSchedules

WithinBudget == Budgeted => executions < MaxSchedules

(* One physical run: the wrapper runSchedule counts it and the target answers. *)
Run(r) ==
  /\ WithinBudget
  /\ r \in platform[Trial]
  /\ r.status # "throws"
  /\ executions' = executions + 1
  /\ UNCHANGED given

Sighted(r) ==
  sightings' = IF Matches(r) THEN [sightings EXCEPT ![Trial] = @ + 1] ELSE sightings

Goto(p) == phase' = p /\ UNCHANGED resultVars

Return(s, n) == phase' = "done" /\ status' = s /\ reported' = n

-----------------------------------------------------------------------------
Init ==
  /\ options \in Options
  /\ platform \in Platforms
  /\ phase = "baseline"
  /\ executions = 0 /\ baselines = 0
  /\ seen = {} /\ explored = 0
  /\ failing = Baseline /\ expected = NoFailure
  /\ repeats = 0
  /\ best = Baseline /\ pending = {} /\ floor = 0
  /\ attempt = 1 /\ minimizedRun = NoFailure
  /\ replays = 0
  /\ status = "running" /\ reported = 0
  /\ sightings = [s \in Schedules |-> 0]

(* The baseline loop stops at the first run that is not healthy. *)
BaselinePasses == \E r \in platform[Baseline] :
  /\ phase = "baseline"
  /\ Run(r)
  /\ r.status = "healthy"
  /\ baselines' = baselines + 1
  /\ Goto(IF baselines + 1 = BaselineRuns THEN "search" ELSE "baseline")
  /\ UNCHANGED <<searchVars, repeats, minimizeVars, replays, sightings>>

BaselineFails == \E r \in platform[Baseline] :
  /\ phase = "baseline"
  /\ Run(r)
  /\ r.status # "healthy"
  /\ Return(TerminalStatus(r), 0)
  /\ UNCHANGED <<baselines, searchVars, repeats, minimizeVars, replays, sightings>>

(* searchCandidateStages, one candidate after the other. *)
CandidatePasses ==
  /\ phase = "search" /\ ~SearchOver
  /\ \E r \in platform[Trial] : Run(r) /\ r.status = "healthy"
  /\ seen' = seen \cup {Trial}
  /\ UNCHANGED <<phase, baselines, explored, failing, expected, repeats,
                 minimizeVars, replays, resultVars, sightings>>

CandidateFails ==
  /\ phase = "search" /\ ~SearchOver
  /\ \E r \in platform[Trial] :
       /\ Run(r)
       /\ r.status = "workload_failure"
       /\ expected' = r.failure
  /\ seen' = seen \cup {Trial}
  /\ explored' = Cardinality(seen')
  /\ failing' = Trial
  /\ sightings' = [sightings EXCEPT ![Trial] = 1]
  /\ Goto("confirm")
  /\ UNCHANGED <<baselines, repeats, minimizeVars, replays>>

(* A result that is neither healthy nor a failure ends the search with it. *)
CandidateUnusable ==
  /\ phase = "search" /\ ~SearchOver
  /\ seen' = seen \cup {Trial}
  /\ explored' = Cardinality(seen')
  /\ \E r \in platform[Trial] :
       /\ Run(r)
       /\ r.status \notin {"healthy", "workload_failure"}
       /\ Return(r.status, explored')
  /\ UNCHANGED <<baselines, failing, expected, repeats, minimizeVars, replays, sightings>>

(* Mutant of SearchEnds: the scope is reported before the search assigns it. *)
SearchEndsUnassigned ==
  /\ phase = "search" /\ SearchOver
  /\ explored' = Cardinality(seen)
  /\ Return("no_failure", explored)
  /\ UNCHANGED <<given, executions, baselines, seen, failing, expected,
                 repeats, minimizeVars, replays, sightings>>

SearchEnds ==
  /\ phase = "search" /\ SearchOver
  /\ explored' = Cardinality(seen)
  /\ Return("no_failure", explored')
  /\ UNCHANGED <<given, executions, baselines, seen, failing, expected,
                 repeats, minimizeVars, replays, sightings>>

(* confirmFailure, of the failing schedule or of the minimized one. *)
Confirming == phase \in {"confirm", "verify"} /\ NeedsRun

ConfirmationMatches ==
  /\ Confirming
  /\ \E r \in platform[Trial] : Run(r) /\ Matches(r) /\ Sighted(r)
  /\ repeats' = repeats + 1
  /\ UNCHANGED <<phase, baselines, searchVars, minimizeVars, replays, resultVars>>

ConfirmationMismatches ==
  /\ Confirming
  /\ \E r \in platform[Trial] : Run(r) /\ ~Matches(r)
  /\ Return("inconclusive", explored)
  /\ UNCHANGED <<baselines, searchVars, repeats, minimizeVars, replays, sightings>>

(* A v3 artifact needs a signature; without one the race stays unpublished. *)
SignatureMissing ==
  /\ phase = "confirm" /\ ~NeedsRun
  /\ options.verified /\ expected.signature = NoSignature
  /\ Return("inconclusive", explored)
  /\ UNCHANGED <<given, executions, baselines, searchVars, repeats,
                 minimizeVars, replays, sightings>>

MinimizerStarts ==
  /\ phase = "confirm" /\ ~NeedsRun
  /\ options.verified => expected.signature # NoSignature
  /\ best' = failing
  /\ pending' = Perturbed(failing)
  /\ Goto("remove")
  /\ UNCHANGED <<given, executions, baselines, searchVars, repeats, floor,
                 attempt, minimizedRun, replays, sightings>>

(* runReproducibly: a first run that matches asks for a second one, and the
   second must match too.  A first run that does not match is returned as it
   is, so another failure than the race's still reads as a failure. *)
FirstMatches ==
  /\ phase \in {"remove", "lower", "final"} /\ NeedsRun
  /\ attempt = 1
  /\ \E r \in platform[Trial] : Run(r) /\ Matches(r) /\ Sighted(r)
  /\ attempt' = 2
  /\ UNCHANGED <<phase, baselines, searchVars, repeats, best, pending, floor,
                 minimizedRun, replays, resultVars>>

Settles(r) == attempt = 2 \/ ~Matches(r)

(* Mutant of Fails: whatever is not an error counts as a failure. *)
FailsUnlessError(r) == r.status # "execution_error"

Fails(r) == IF attempt = 1 THEN r.status = "workload_failure" ELSE Matches(r)

RemovalTried ==
  /\ phase = "remove" /\ pending # {}
  /\ \E r \in platform[Trial] :
       /\ Run(r) /\ Settles(r) /\ Sighted(r)
       /\ best' = IF Fails(r) THEN Trial ELSE best
  /\ pending' = pending \ {Current}
  /\ attempt' = 1
  /\ UNCHANGED <<phase, baselines, searchVars, repeats, floor, minimizedRun,
                 replays, resultVars>>

RemovalEnds ==
  /\ phase = "remove" /\ pending = {}
  /\ pending' = Perturbed(best)
  /\ floor' = 0
  /\ Goto("lower")
  /\ UNCHANGED <<given, executions, baselines, searchVars, repeats, best,
                 attempt, minimizedRun, replays, sightings>>

(* Mutant of NextFloor: a delay that did not fail is tried once more. *)
SameFloor == floor

NextFloor == Trial[Current]

(* The first lower delay that still fails is kept and ends the perturbation. *)
LoweringTried ==
  /\ phase = "lower" /\ pending # {} /\ LowerDelays # {}
  /\ \E r \in platform[Trial] :
       /\ Run(r) /\ Settles(r) /\ Sighted(r)
       /\ IF Fails(r)
            THEN best' = Trial /\ pending' = pending \ {Current} /\ floor' = 0
            ELSE floor' = NextFloor /\ UNCHANGED <<best, pending>>
  /\ attempt' = 1
  /\ UNCHANGED <<phase, baselines, searchVars, repeats, minimizedRun, replays,
                 resultVars>>

LoweringGivesUp ==
  /\ phase = "lower" /\ pending # {} /\ LowerDelays = {}
  /\ pending' = pending \ {Current}
  /\ floor' = 0
  /\ UNCHANGED <<given, phase, executions, baselines, searchVars, repeats,
                 best, attempt, minimizedRun, replays, resultVars, sightings>>

LoweringEnds ==
  /\ phase = "lower" /\ pending = {}
  /\ Goto("final")
  /\ UNCHANGED <<given, executions, baselines, searchVars, repeats,
                 minimizeVars, replays, sightings>>

(* Mutant of AfterFinalRun: the minimized schedule is not confirmed. *)
AlwaysPublish == "publish"

AfterFinalRun == IF options.verified THEN "verify" ELSE "publish"

(* The run of the minimized schedule whose evidence the artifact will carry. *)
FinalRunFails ==
  /\ phase = "final"
  /\ \E r \in platform[Trial] :
       /\ Run(r) /\ Settles(r) /\ Sighted(r)
       /\ Fails(r)
       /\ minimizedRun' = r.failure
  /\ repeats' = 0
  /\ attempt' = 1
  /\ Goto(AfterFinalRun)
  /\ UNCHANGED <<baselines, searchVars, best, pending, floor, replays>>

FinalRunUnstable ==
  /\ phase = "final"
  /\ \E r \in platform[Trial] : Run(r) /\ Settles(r) /\ ~Fails(r)
  /\ Return("inconclusive", explored)
  /\ UNCHANGED <<baselines, searchVars, repeats, minimizeVars, replays, sightings>>

VerificationEnds ==
  /\ phase = "verify" /\ ~NeedsRun
  /\ Goto("publish")
  /\ UNCHANGED <<given, executions, baselines, searchVars, repeats,
                 minimizeVars, replays, sightings>>

(* The artifact is built, then replayed where the platform can replay. *)
ReplayMissing ==
  /\ phase = "publish" /\ options.verified /\ ~options.canReplay
  /\ Return("inconclusive", explored)
  /\ UNCHANGED <<given, executions, baselines, searchVars, repeats,
                 minimizeVars, replays, sightings>>

ArtifactRejected ==
  /\ phase = "publish" /\ (options.verified => options.canReplay)
  /\ ~options.provenanceValid
  /\ Return("execution_error", explored)
  /\ UNCHANGED <<given, executions, baselines, searchVars, repeats,
                 minimizeVars, replays, sightings>>

ArtifactCreated ==
  /\ phase = "publish" /\ (options.verified => options.canReplay)
  /\ options.provenanceValid
  /\ IF options.canReplay THEN Goto("replay") ELSE Return("found_failure", explored)
  /\ UNCHANGED <<given, executions, baselines, searchVars, repeats,
                 minimizeVars, replays, sightings>>

ReplaysNeeded == IF options.verified THEN ReplayRuns ELSE 1

(* Replays bypass the wrapper that counts physical runs. *)
ReplayMatches ==
  /\ phase = "replay" /\ replays < ReplaysNeeded
  /\ \E r \in platform[best] : Reproduces(r)
  /\ replays' = replays + 1
  /\ UNCHANGED <<given, phase, executions, baselines, searchVars, repeats,
                 minimizeVars, resultVars, sightings>>

ReplayDiffers ==
  /\ phase = "replay" /\ replays < ReplaysNeeded
  /\ \E r \in platform[best] : r.status # "throws" /\ ~Reproduces(r)
  /\ Return("inconclusive", explored)
  /\ UNCHANGED <<given, executions, baselines, searchVars, repeats,
                 minimizeVars, replays, sightings>>

(* Mutant of ReplaysEnd: one replay more than the loop makes is waited for. *)
ReplaysEndLate ==
  /\ phase = "replay" /\ replays > ReplaysNeeded
  /\ Return("found_failure", explored)
  /\ UNCHANGED <<given, executions, baselines, searchVars, repeats,
                 minimizeVars, replays, sightings>>

ReplaysEnd ==
  /\ phase = "replay" /\ replays >= ReplaysNeeded
  /\ Return("found_failure", explored)
  /\ UNCHANGED <<given, executions, baselines, searchVars, repeats,
                 minimizeVars, replays, sightings>>

(* The wrapper throws ExecutionBudgetExhausted, caught at the end. *)
BudgetExhausted ==
  /\ NeedsRun /\ ~WithinBudget
  /\ Return("inconclusive", explored)
  /\ UNCHANGED <<given, executions, baselines, searchVars, repeats,
                 minimizeVars, replays, sightings>>

(* A platform call rejects: discoverFailure rejects with the same error. *)
PlatformThrows ==
  /\ \/ NeedsRun /\ WithinBudget /\ executions' = executions + 1
     \/ phase = "replay" /\ replays < ReplaysNeeded /\ UNCHANGED executions
  /\ \E r \in platform[Trial] : r.status = "throws"
  /\ Return("throws", explored)
  /\ UNCHANGED <<given, baselines, searchVars, repeats, minimizeVars,
                 replays, sightings>>

Returned == phase = "done" /\ UNCHANGED vars

Step ==
  \/ BaselinePasses \/ BaselineFails
  \/ CandidatePasses \/ CandidateFails \/ CandidateUnusable \/ SearchEnds
  \/ ConfirmationMatches \/ ConfirmationMismatches \/ SignatureMissing
  \/ MinimizerStarts \/ FirstMatches
  \/ RemovalTried \/ RemovalEnds
  \/ LoweringTried \/ LoweringGivesUp \/ LoweringEnds
  \/ FinalRunFails \/ FinalRunUnstable
  \/ VerificationEnds \/ ReplayMissing \/ ArtifactRejected \/ ArtifactCreated
  \/ ReplayMatches \/ ReplayDiffers \/ ReplaysEnd
  \/ BudgetExhausted \/ PlatformThrows

Next == Step \/ Returned

Spec == Init /\ [][Next]_vars

(* An awaited platform call settles, and Node then resumes the coroutine. *)
FairSpec == Spec /\ WF_vars(Step)

-----------------------------------------------------------------------------
(* What must hold of every discovery. *)

(* Every variable of discoverFailure keeps its type, at any platform. *)
TypeOK ==
  /\ options \in Options
  /\ platform \in Platforms
  /\ phase \in Phases
  /\ executions \in Nat /\ baselines \in Nat /\ repeats \in Nat /\ replays \in Nat
  /\ explored \in Nat /\ reported \in Nat
  /\ seen \in SUBSET Schedules /\ IsFiniteSet(seen)
  /\ failing \in Schedules /\ best \in Schedules
  /\ expected \in Failures \cup {NoFailure}
  /\ minimizedRun \in Failures \cup {NoFailure}
  /\ pending \in SUBSET Dims
  /\ floor \in Delays
  /\ attempt \in {1, 2}
  /\ status \in Statuses
  /\ sightings \in [Schedules -> Nat]

Returns(s) == phase = "done" /\ status = s

(* Gates 1 to 5 of "When DSRD publishes a race" in README.md: when the code
   returns a v3 artifact, the baseline has passed BaselineRuns times, both the
   failing and the minimized schedule have shown the race's failure
   ConfirmationRuns times, and ReplayRuns replays reproduced it, whatever the
   minimizer accepted on the way. *)
PublishedRaceIsSupported ==
  Returns("found_failure") /\ options.verified =>
    /\ baselines >= BaselineRuns
    /\ sightings[failing] >= ConfirmationRuns
    /\ sightings[best] >= ConfirmationRuns
    /\ replays >= ReplayRuns

(* no_failure is never an accident of deduplication or of the budget: every
   candidate of the plan was run, and can be healthy. *)
NoFailureIsExhaustive ==
  Returns("no_failure") =>
    \A i \in Planned :
      /\ Candidates[i] \in seen
      /\ \E r \in platform[Candidates[i]] : r.status = "healthy"

(* The plan and the search together (candidates.ts, search.ts): no_failure says
   that every way to delay the target by the listed options was tested healthy,
   whatever was repeated, cut or dropped on the way. *)
NoFailureCoversTheGrid ==
  Returns("no_failure") =>
    \A s \in [Dims -> DelayOptions] :
      s \in seen \cup {Baseline} /\ \E r \in platform[s] : r.status = "healthy"

(* The scope a conclusive result reports is the set of distinct candidates the
   search ran, whatever the confirmations and the minimizer ran after it. *)
ConclusiveScopeIsReported ==
  Returns("no_failure") \/ Returns("found_failure") => reported = Cardinality(seen)

(* A reproducible target answers a schedule always the same way, has one
   failure, and is not cured of it by a longer delay. *)
AlwaysHealthy(s) == \A r \in platform[s] : r.status = "healthy"
AlwaysFails(s) == \A r \in platform[s] : r.status = "workload_failure"

Shows(f) ==
  \E s \in Schedules : \E r \in platform[s] :
    r.status = "workload_failure" /\ r.failure = f

Reproducible ==
  /\ \A s \in Schedules : AlwaysHealthy(s) \/ AlwaysFails(s)
  /\ \A s, t \in Schedules :
       AlwaysHealthy(t) /\ (\A d \in Dims : s[d] <= t[d]) => AlwaysHealthy(s)
  /\ \A f, g \in Failures : Shows(f) /\ Shows(g) =>
       f.reason = g.reason /\ f.signature = g.signature

(* Of a reproducible target the published schedule always fails and is minimal:
   taking away one perturbation, or lowering one delay to an option, makes the
   target healthy (minimize.ts, its two passes over changing perturbations). *)
PublishedScheduleIsMinimal ==
  Returns("found_failure") /\ Reproducible =>
    /\ AlwaysFails(best)
    /\ \A d \in Perturbed(best) :
         \A shorter \in {0} \cup {n \in DelayOptions : n < best[d]} :
           AlwaysHealthy([best EXCEPT ![d] = shorter])

(* The runs of a schedule show the events of one another, as replayFailure asks. *)
SteadyEvidence ==
  \A s \in Schedules : \A q, r \in platform[s] :
    q.status = "workload_failure" /\ r.status = "workload_failure" =>
      HasOrderedEvidence(q.failure.events, r.failure.events)

(* Nothing but the runs stands in the way of an artifact: it passes its schema,
   one with version 3 has a replay and a signature, and replays are comparable. *)
Publishable ==
  /\ options.provenanceValid
  /\ options.verified =>
       options.canReplay /\ \A f \in Failures : Shows(f) => f.signature # NoSignature
  /\ options.canReplay => SteadyEvidence

BudgetIsSpent == Budgeted /\ executions >= MaxSchedules

(* A failure that is there is not missed: a discovery of a reproducible target
   that is healthy undelayed and fails at a candidate ends with a publication,
   and only a spent budget can keep it from one. *)
FailureIsFound ==
  /\ phase = "done" /\ \E i \in Planned : AlwaysFails(Candidates[i])
  /\ Reproducible /\ AlwaysHealthy(Baseline) /\ Publishable
  => status = "found_failure" \/ (status = "inconclusive" /\ BudgetIsSpent)

(* Such a target's failure is found: if a candidate fails and the baseline does
   not, the discovery ends with a published race. *)
ReproducibleFailureIsFound ==
  (AlwaysHealthy(Baseline) /\ \E i \in Planned : AlwaysFails(Candidates[i]))
    ~> Returns("found_failure")

(* No loop of the code goes round for ever, whatever the target answers: a step
   goes on to a later phase or gets nearer to the end of its own, the minimizer
   by visiting a perturbation, by trying a longer one of its lower delays, or by
   a second run.  With finitely many dimensions, delays and candidates a
   discovery therefore takes finitely many steps. *)
PhaseOrder == <<"baseline", "search", "confirm", "remove", "lower", "final",
                "verify", "publish", "replay", "done">>

EntersLaterPhase ==
  \E i, j \in DOMAIN PhaseOrder :
    i < j /\ phase = PhaseOrder[i] /\ phase' = PhaseOrder[j]

NearsPhaseEnd ==
  \/ phase = "baseline" /\ baselines < baselines' /\ baselines' < BaselineRuns
  \/ phase = "search" /\ Untested' \subseteq Untested /\ Untested' # Untested
  \/ phase \in {"confirm", "verify"} /\ repeats < repeats' /\ repeats' <= ConfirmationRuns
  \/ phase \in {"remove", "lower"} /\ pending' \subseteq pending /\ pending' # pending
  \/ /\ phase = "lower" /\ pending' = pending
     /\ floor < floor' /\ floor' \in DelayOptions
  \/ /\ phase \in {"remove", "lower", "final"} /\ attempt < attempt'
     /\ UNCHANGED <<pending, floor>>
  \/ phase = "replay" /\ replays < replays' /\ replays' <= ReplaysNeeded

EveryStepAdvances ==
  [][EntersLaterPhase \/ (phase' = phase /\ NearsPhaseEnd)]_vars

(* Nothing but the loops themselves bounds a discovery without --max-runs: of any
   target it asks, before the replays, at most one run for each distinct candidate,
   the repeats of the gates, two for each perturbation the minimizer would remove,
   and two for each shorter option it would lower a perturbation to. *)
Tested == {Candidates[i] : i \in DOMAIN Candidates}
LowerOptions == {n \in DelayOptions : n > 0 /\ \E d \in Delays : n < d}
LoweringRuns == 2 * Cardinality(LowerOptions)

UpToRemoval == BaselineRuns + Cardinality(Tested) + ConfirmationRepeats
UpToLowering == UpToRemoval + 2 * NumDims
UpToFinal == UpToLowering + LoweringRuns * NumDims
MostRuns == UpToFinal + 2 + (IF options.verified THEN ConfirmationRuns ELSE 0)

RunsAreBounded == executions <= MostRuns

(* Every discovery returns, at a target that answers however it likes. *)
DiscoveryReturns == <>(phase = "done")

(* A v3 discovery implements the publication promise. *)
Promise == INSTANCE RacePublication WITH
  published <- IF status = "found_failure" THEN <<failing, best>> ELSE << >>

KeepsPromise == Promise!Spec

-----------------------------------------------------------------------------
(* What documents and tests of the repository say, and the code does not. *)

(* docs/superpowers/specs/2026-09-01-reliable-compose-race-detection-design.md:
   102, "The final minimized schedule must reproduce the same race_failure
   category": the reason and events of a v3 artifact come from a run that
   showed the race's failure. *)
ArtifactEvidenceIsOfTheRace ==
  Returns("found_failure") /\ options.verified =>
    /\ minimizedRun.reason = expected.reason
    /\ minimizedRun.signature = expected.signature

=============================================================================
