# DSRD in TLA+

DSRD (Distributed Startup Race Debugger) looks for startup races: it runs a
target (a Compose project, a set of local processes, a Kubernetes namespace)
under schedules that delay the start or the readiness of its workloads, and
publishes a failure it can reproduce as a proof artifact. This directory holds
TLA+ modules of the parts of DSRD that decide what is run, what a run shows and
what is published; TLC configurations that check them on small instances; and
theorems, with proofs TLAPS checks, that hold for every instance.

`PROJECT.json` is the index: components, runs, the lines each definition
models, hazards with the properties that cover them, divergences between the
code and its documents, mutants that show each property can fail, and theorems.

Paths below are relative to `src/packages/` unless they start with `docs/` or
`README.md`, which are the repository's.

## Inventory

Everything runs in one Node process, so code between two `await`s is atomic;
what is concurrent are coroutines, timers, child processes and the target.

| Component | Source | State | Operations | Hard behaviour |
|---|---|---|---|---|
| Discovery orchestrator | `scheduler/src/orchestrator.ts` | phase, budget counter, baseline/confirmation/replay counters, failing and minimized schedule, the failure seen | `discoverFailure`, `confirmFailure`, `runReproducibly`, `replayFailure` | a target that changes its mind, a budget that runs out anywhere |
| Candidate search | `scheduler/src/search.ts` | keys seen, explored count | `searchCandidateStages` | overlapping stages, two limits |
| Minimizer | `scheduler/src/minimize.ts` | current perturbations, loop positions | `minimizeSchedule` | greedy loops over flaky answers |
| Candidate planners | `scheduler/src/candidates.ts` | none (pure) | `generateCandidates`, `generateAdaptiveCandidateStages` | overlapping stages of a product of delays |
| Proof artifact | `scheduler/src/artifact.ts`, `contracts/src/` | none (pure) | `createFailureArtifact...`, schema checks | which run's evidence it carries |
| Compose run controller | `runtime/src/runtime-controller.ts`, `docker-compose-client.ts`, `command-runner.ts` | abort signals, operations in flight, timers, the containers of the attempt | `runSchedule` | execution racing a timer, cancellation, draining, cleanup |
| Compose platform | `runtime/src/compose-platform.ts` | none | `discover`, `run`, `replay` | discovery before every run |
| Proof oracle | `proof/src/oracle/evaluate.ts` | none (pure) | `evaluateWorkloadRun` | a run that failed in several ways, evidence that is missing |
| Proof observers | `proof/src/runtime-proof-observer.ts`, `compose-proof-observer.ts`, `kubernetes-proof-observer.ts` | evidence, `refreshed` | `evaluate` | logs and states read at different times |
| Log evidence, timeline | `proof/src/logs/parse.ts`, `timeline.ts` | none (pure) | `parseLogEvidence`, `buildWorkloadTimeline` | which line counts, and of which workload |
| Local process platform | `runtime/src/local-process-platform.ts`, `local-process-manifest.ts` | children alive | `reset`, `run`, `replay` | spawn failures, process groups, shared children, two resets |
| Kubernetes platform | `runtime/src/kubernetes-platform.ts` | the namespace | `resetNamespace`, `runSchedule` | no timer, no cleanup after a run, pods that outlive their resource |
| Platform router | `scheduler/src/default-platform.ts` | platforms per Compose file, workloads shared by runs | `discover`, `reset`, `run`, `replay` | shared mutable workloads |
| Onboarding, workspace | `scheduler/src/onboarding.ts`, `discovery/src/` | an owned clone | `inspect`, `prepare`, `search`, `disposeRepository` | errors between acquire and dispose |
| API run service | `api/src/run-service.ts`, `run-store.ts`, `app.ts`, `main.ts`, `production.ts` | runs, subscribers | `start`, `publish`, `subscribe`, search requests | terminal events, reconnections, methods handed over unbound |
| Web client | `web/src/App.tsx`, `api.ts` | the run followed, what is shown | `start`, `subscribeRun`, `getRun` | events it does not listen to |
| Command line | `scheduler/src/cli.ts`, `presentation.ts`, `prompt.ts` | | | formatting |

How they interact: the CLI and the API build a platform router and call
`discoverFailure` (directly through `runSharedDiscovery`, or from onboarding,
which adds the provenance a v3 artifact needs). `discoverFailure` drives search
and minimizer, and awaits one platform call at a time; each call is one run of
a schedule. Each platform brings up the target and hands what it sees to a proof
observer, whose oracle returns the verdict `discoverFailure` decides on. The API
keeps each search as a run in its store and streams its progress to the page.

What makes each correct, and what is therefore checked:

- orchestrator: nothing is published without the evidence the documented gates
  ask for; `no_failure` means every candidate ran, and with the planner every
  combination of the listed delays; it makes a bounded number of runs, and returns;
- minimizer: the result is below the failing schedule and, for a target that
  answers consistently, locally minimal;
- Compose run: evidence is of the schedule asked for, a run that counts leaves
  nothing behind, a cancelled run starts nothing, the first error names the run,
  every run returns;
- oracle: a run is healthy only with complete evidence, and the signature names
  a workload there is evidence against;
- local processes: no child outlives its run, a reported crash is not DSRD's own
  kill, a verdict has its resets, a run returns;
- Kubernetes: a verdict is about the pods and the workloads of the run that
  gives it, follows every apply and no error, and is given once the target has
  decided it;
- onboarding: an owned clone is there, frozen, while it is used, and let go of
  before the search ends, on every path;
- API: each run reaches one terminal phase, a report exists exactly of completed
  runs, and the page that follows a run comes to show it.

## Modules

| Module | Models |
|---|---|
| `RacePublication` | what DSRD promises of a published race, without how it is found |
| `IsolatedRuns` | what a discovery relies on of a platform's runs, without how they are made |
| `DiscoverFailure` | `discoverFailure` with search and minimizer |
| `CandidatePlans` | the planners, as operators on sequences, and what each plan is for |
| `MCDiscoverFailure` | small targets, candidates and option sets; the adaptive plan as candidates |
| `ComposeRun`, `MCComposeRun` | one physical run on Compose: controller, execution, docker, observer |
| `ProofOracle` | log lines and the verdict on what was observed |
| `LocalProcess`, `MCLocalProcess` | runs of one local-process target, with their processes |
| `KubernetesRun`, `MCKubernetesRun` | runs of Kubernetes targets on the default platform, with the cluster |
| `Onboarding` | the search of a repository and its workspace |
| `ApiService`, `MCApiService` | the API and the page, on top of `Onboarding` |
| `CandidatePlansProofs`, `DiscoverFailureProofs`, `DiscoverOutcomeProofs`, `ComposeRunProofs`, `ProofOracleProofs`, `LocalProcessProofs`, `KubernetesRunProofs`, `ApiServiceProofs` | the theorems |

`LocalProcess` and `KubernetesRun` extend `ProofOracle`: the verdict of a run is
the oracle's. `ApiService` extends `Onboarding`: a search posted to the API is
taken through its steps. `DiscoverFailure` sees a platform only as answers; the
three platform modules say what an answer may rest on, and two of them implement
`IsolatedRuns`.

### DiscoverFailure

One coroutine. Each action is one awaited platform call with everything the
code does before the next one (`BaselinePasses`, `CandidateFails`,
`RemovalTried`, `ReplayMatches`...), or a loop or phase that ends
(`SearchEnds`, `RemovalEnds`, `LoweringEnds`). `phase` stands for the place in
the function. A schedule is a function from dimensions (a workload and a phase
it can be delayed in) to delays, 0 where it does not perturb: `scheduleKey`
identifies exactly the candidates this identifies. `Trial` is the schedule the
code would run next, `NeedsRun` says that it is about to, `Run` is the counting
wrapper with the answer of the target.

The target is `platform`, a function from schedules to the *set* of results it
may give: a singleton is a deterministic target, a larger set a flaky one. It is
chosen once, in `Init`, out of `Platforms`, and no property assumes more of it
than it says. A result holds a status, what the failure shows (reason,
signature, ordered events) and whether the target asked for a reset; a rejected
promise is the status "throws".

`runReproducibly` is modelled as written: its first run is handed back when it
does not match the race, so a different failure reads as a failure. This one
line is behind two of the divergences below.

`sightings` is a history variable: the matching failures seen of each schedule.
The candidates are a constant here; `discover_budget` takes them from
`CandidatePlans`.

### RacePublication

The promise that `DiscoverFailure` implements: sightings count only after the
baseline has passed, replays only of a schedule seen often enough, and a pair of
schedules is published only with the baseline, the confirmations of both and the
replays, the second below the first. It knows nothing of phases, budget or
minimizer. The refinement maps `published` to the failing and the minimized
schedule of a `found_failure`, and every other variable to itself.

### IsolatedRuns

A discovery compares answers of runs with one another, so that it needs more of
`ExecutionPlatform.run` (`contracts/src/index.ts`) than each answer: a run is
answered once, and an answer that is evidence comes from a run that is over, of
which nothing is at work then or later. Of a run that ended in an error nothing is
promised.

`ComposeRun` implements it (`IsIsolated`) with `atWork` an execution that goes on, a
start not yet settled, a container or a readiness delay. That it does is not obvious
where a timer leaves the execution behind, or a drain that timed out leaves a start:
such runs have to end in an error. `LocalProcess` implements it (`AreIsolated`) with
`atWork` a live process, a descendant that holds its output, or a spawn still to come,
for any number of runs beside one another; descendants that have left their output are
not counted, since those that outlive their process are unknown to the platform (see
"Divergences"). `KubernetesRun` does not implement it: there is no cleanup after a
run, and what keeps runs apart is the reset before the next one, which is what
`VerdictIsOfItsOwnPods` is about.

### ComposeRun

Two coroutines and the outside world. `phase` is where `runSchedule` is: it
prepares, resets, races the execution with a timer, drains what is in flight,
clears readiness delays, stops the stack, returns. `exec` is where
`executeSchedule` is: it applies the readiness delays one by one, starts the
services (one command for all, or a coroutine per service when some start is
delayed), collects logs, lists states, observes. After a timeout the execution
goes on by itself until it looks at the abort signal; both continue in any
interleaving, also after the run has returned.

`start` follows each service; `cancelled` is the signal of
`startIndependently`, `aborted` that of the run. Docker is external: a command
settles when it likes, well or badly, or never, and a container comes up at any
moment while its command is alive (`ContainerStarts`). A killed command settles
with a rejection, as in `command-runner.ts`. `evidence` keeps of logs and states
what the verdict depends on: a structured failure event, a non-zero exit, and
whether every workload shows as it should. Errors are kinds; `Joined` and `Code`
follow the nesting of `AggregateError` and the one level `executionError` looks
into. A run whose discovery rejects ends with status "throws", the status
`DiscoverFailure` gives a rejected call.

### CandidatePlans

Pure operators: a plan is a sequence of schedules in the order the code yields
them. `PlansAreExact` says what each stage is for: the isolated one has each
schedule that delays at most one dimension once, the pairwise one each that delays
exactly two, the full one the grid, and the plain plan the grid with what the
options repeat. It is proved for any number of dimensions and any list
(`PlannedExactly`); before that, `MCDiscoverFailure` evaluates it for up to three
dimensions and five lists (`SmallPlansAreExact`: with a zero, without, unsorted,
with repetitions), together with the length of the plain plan. The loops of the code
are recursive functions here, `Set` and `filter` one of them (`Distinct`).
`Combinations` are the values as the generators yield them, `Product` the schedules
made of them. `discover_budget` has its plan written out, since TLC would compute it
at every use; `PlannedByTheCode` has TLC compare it with `Adaptive` when the run
starts. All schedules are functions over `Dims` for TLC too, whose sets may
hold a schedule twice when it is a tuple in one place and a function in another.

### ProofOracle

`Evaluate` is `evaluateWorkloadRun` with its order: a reported failure, a
non-zero exit, a readiness that failed, everything as it should be, else
inconclusive. `About`, `IsFailureEvent` and `FirstReport` are what
`parseLogEvidence` and the oracle make of log lines: only an event in a JSON body
counts, and only if the body opens the line. Lines are records of what decides,
never text.

### LocalProcess

Several runs on one platform object. `phase` is where `run` is: the first
`stopChildren` ("opening"), waiting for the exits ("openingReap"), the reset
("preparing"), spawning and jobs ("executing"), probes, then the finally block
("closing", "closingReap", "clearing"). A child is a pair of run and workload with
its process (`leader`), the descendants left in its group, holding its output or
not (`kin`), and what the run's states show (`seen`), which follow the "close"
event. `activeChildren` is `Active`, over all runs. A process exits when it likes,
and its close comes only when nobody holds its output. `host` goes down at an
unhandled rejection; `Unhandled` says when a spawn failure has no handler.
`Parallel` is how many runs may be in flight: the CLI has one.

### KubernetesRun

`phase` follows one run through the router's wrapper and the executor; every
kubectl command succeeds or fails (`CommandFails`, `ApplyFails`), and the applies
are coroutines of their own that go on after the run was rejected. Of each
workload the cluster has the present pod and one left by a deleted resource,
each marked with the run that made it; `PodsListed` keeps either, as the code
keeps the last listed. `known` is the router's `kubernetesWorkloads`.

### Onboarding and ApiService

`Onboarding` is one search: acquisition as three git commands and the freezing of
the tree, preparation with its early returns, the discovery as one step (it is
`DiscoverFailure`'s), and the disposal. In `ApiService` a run is an upload, whose
discovery is a choice of outcomes, or such a search. `bound` says whether `search`
was handed over with its service: `main.ts` does not, and both are modelled, so
that the properties speak of the search itself. `conn` and `chan` are the page's
event stream, `shown` what the page shows. A page whose stream ends or drops
reports a lost connection; the browser then connects again. On a terminal event it
listens to, the page closes the stream and asks for the record (`conn` is then
"fetching"): the record arrives (`Fetched`), or the request fails (`FetchFails`),
which nothing catches or repeats, and the page keeps the screen it has.

## Runs

| Run | Question | Instance |
|---|---|---|
| `discover_verified` | Is what is published supported, is the promise kept, does every step advance, are the runs bounded and does discovery return, at any target? | two dimensions, delays 0, 1, 2, any answer at any time, two failures that differ in their signature and events only |
| `discover_budget` | With a budget, is `no_failure` exhaustive, over the grid too, is the scope reported, is a failure that is there found unless the budget is spent? | three dimensions, the adaptive plan of the options 0, 1, 1, a budget of 12, all option sets, any answer at any time or a target that fails from one or two schedules up |
| `discover_repeatable` | Is a reproducible failure found, and made minimal? | three dimensions, delays 0 to 3, every target that fails from one or two schedules up |
| `compose_run` | What does the evidence of a run rest on, what does a run leave behind, which error names it, does it implement `IsolatedRuns` and return? | two services, every set of delayed starts, no, one or two readiness delays |
| `local_process` | What is left running, what does a verdict rest on, do the runs implement `IsolatedRuns` and return? | two runs, three manifests of two workloads (job and service, probed, without its required reset), no delay, one, or one of an unknown workload |
| `kubernetes_run` | Whose pods and workloads is a verdict about, which commands does it follow, and is a decided run judged? | two runs, a service and a job in a namespace or the job alone without one |
| `api_service` | What is held, stored, streamed and shown of a run? | one run of either kind, wired either way, every folder of up to two Compose files and one manifest, three dropped connections, a request for the record that may fail |

The other runs end in a violation: see "Divergences".

Bounds, and why they are enough. Two dimensions with three delays already give
the minimizer both of its loops with a restart and a lower delay that fails;
three dimensions are used where minimality is the question, since a removal can
then change what a later removal sees, and where the stages of the plan are, since
with two the pairs are all there is. Confirmations and replays are 2, so that "the
first counts" and "off by one" differ. The budget of 12 is a little more than two
baseline runs and the distinct candidates take, so `no_failure` is reached, and a
failure met on the way runs out of budget inside the confirmations, in each loop
of the minimizer, in the final run or in the verification, depending on the
candidate. Minimality is checked with four delays, since only then a delay has two
lower ones to choose from. `MonotonePlatforms` are all upward closed sets of
failing schedules with one or two minimal elements. Two services are enough for
a start that fails while its sibling waits, runs or has succeeded; two
readiness delays for a timeout between them. Two runs of a platform are what one
needs to leave something to another, and two workloads what it takes for one to
fail while the other goes on. A run of the API shares nothing with another but
the count of drops, so one is enough; three drops let a stream be lost while
connecting, while open and after its end. In `discover_verified` the longest
candidate comes last, so that a discovery may need exactly the runs `RunsAreBounded`
allows: with one run less TLC refutes it. `MaxDrops` is the only cap on something
the program does not bound.

Deadlock is checked where the model ends in stuttering of its own (discovery,
Compose, local processes); a Kubernetes cluster without runs and an API without
requests may stop, so it is not checked there.

### Fairness

`DiscoverFailure!FairSpec` is weak fairness of `Step`: an awaited call settles
and Node resumes the coroutine. A platform call that hangs is the platform
models' business. `ReproducibleFailureIsFound` and `DiscoveryReturns` use it.

`ComposeRun!FairSpec` is weak fairness of the *controller only*: timers fire, and
`prepare`, `reset`, clearing and stopping, which the code awaits without a
timer, settle. Nothing is assumed of the execution, so `RunReturns` says that a
start, a collecting command, a readiness adapter or an observer that hangs does
not hang the run. That a hanging `prepare` or `stopStack` does is visible in the
code (`runtime-controller.ts:79`, `:346`) and listed as a hazard.

`LocalProcess!FairSpec`: timers fire, the event loop turns, a reset command ends
(it has no timer), and a close that is due is delivered. Nothing is assumed of the
target's processes: `RunsReturn` holds because they are killed.

`KubernetesRun!FairSpec`: kubectl commands end, timers fire, pods of deleted
resources go. Nothing is assumed of the pods a run made, so `JudgedOnceDecided`
has as its premise that the pods stay as they are to be judged.

`ApiService!FairSpec`: a discovery ends, git is killed by its timer, and the
network delivers between drops, of which there are finitely many. A request for a
record settles, but nothing is assumed of how: `OutcomesAreShown` names its failure.

## Properties

Each property's comment says which code it is about. The ones that say most:

- `PublishedRaceIsSupported`, `KeepsPromise`: the gates of README.md, "When DSRD
  publishes a race", for a target that answers however it likes. They hold
  although the minimizer may move to a schedule that never showed the race,
  since the final confirmation refuses it.
- `NoFailureIsExhaustive`: neither deduplication nor a limit can turn an untested
  candidate into `no_failure`. The search's own limit (`search.ts:54`) never ends
  a search: the baseline is charged to the same number, so the wrapper throws
  first.
- `FailureIsFound`: a failure of a `Reproducible` target that some candidate shows, and
  the baseline does not, is published unless the budget is spent (`BudgetIsSpent`):
  `no_failure`, and every way to give up on what was found, is then out of the
  question. `Publishable` names what else it takes: provenance the schema accepts and,
  for v3, a signature, a replay and runs whose events match.
- `PublishedScheduleIsMinimal`: what is published of a `Reproducible` target fails
  always, and one pass of removals followed by one pass of lowerings is enough to
  make it minimal. `Reproducible` is: every schedule fails always or never, delaying
  longer never cures a failure, and there is one failure to be seen. Each of the three
  is needed: the two passes look at every perturbation once, and `runReproducibly`
  hands back a run of another failure.
- `EveryStepAdvances`: whatever the target answers, a step reaches a later phase or
  comes nearer the end of its own, so that no loop runs for ever.
- `RunsAreBounded`: without `--max-runs` nothing counts the runs of a discovery but its
  loops. They add up to one for each distinct candidate, the repeats of the gates, and
  two for each perturbation and each shorter option the minimizer tries; what the
  target answers, and in which order, does not matter. The replays are on top: there
  are at most `ReplayRuns` (`ReplaysNeeded`).
- `EvidenceIsOfTheSchedule`: a healthy run or a failure comes from the schedule asked
  for.
- `IsIsolated`, `AreIsolated`: an answer that counts is final, and nothing of its run
  can show in the next one, wherever timers, drains and cleanups interleave (README.md,
  "A cleanup failure is an `execution_error`").
- `AttemptIsOver`, `NoStartOnceCancelled`: a failing or timed out start takes
  its siblings with it before the run goes on.
- `TimeoutIsDiagnosed`: a timeout stays `run_timeout` whatever one more error is
  added; with both a drain and a cleanup error it does not (the property says so).
- `ConflictIsDiagnosed`: a taken host port is what the run reports, although the starts
  it cancels fail after it and the cleanup may fail too. It is stated of behaviours, as
  what the execution has met is to stay so until the run returns.
- `NoFailureCoversTheGrid`: plan, search and budget together.
- `VerdictFollowsItsCommands`: no verdict of a run in which a kubectl command failed,
  and none before every apply has been made, though applies wait out delays of their
  own.
- `NoProcessOutlivesItsRun`, `CrashIsTheTargetsOwn`: what `stopChildren` kills is
  dead when the run returns, and, while runs do not overlap, never what a verdict calls
  a crash.
- `HealthyWasSeenWhole`: probes answer while processes exit, yet a healthy run has
  every service up and every job done in the moment it is judged.
- `VerdictIsOfItsOwnPods`, `JudgedByItsOwnWorkloads`: deleting the namespace is what
  keeps pods of the run before out of the listing; assigning the workloads before
  each run is what keeps another target's out of the verdict.
- `StreamsAreCurrent`, `OutcomesAreShown`: writing the progress and subscribing in
  one turn loses no event, over any interleaving with drops and reconnections. What
  is shown takes one request more, whose failure is the exception.
- `WorkspaceOutlivesItsUse`, `EndedSearchHoldsNoClone`: the clone is there exactly
  as long as it is needed.

Every property of a passing run has a mutant: a definition changed the way a bug
would change the code, under which TLC finds the property violated.

## Divergences

Where the code and a document of the repository disagree, a run shows it for
those that matter most:

| Run | The code | The document |
|---|---|---|
| `api_search` | every repository search of the API ends in error: `search` reads `this.prepare` and is handed over unbound (`api/src/main.ts:12`) | docs/operations.md:21 |
| `api_compose_upload` | every uploaded Compose project ends in `execution_error`: its observer is given no workloads (`api/src/production.ts:11`) | README.md:308 |
| `local_spawn_failure` | a service whose command is missing takes the host process down (`runtime/src/local-process-platform.ts:143`) | docs/outcomes.md:12 |
| `discover_artifact_evidence` | a v3 artifact may carry reason and events of another failure than its signature | docs/superpowers/specs/2026-09-01-reliable-compose-race-detection-design.md:102 |
| `compose_readiness_cleared` | a readiness delay is applied after the cleanup | docs/superpowers/plans/2026-09-12-portable-compose-engine.md:125 |

Others were met while modelling and have no run. They are part of the models as
the code has them, or named in a comment of the module.

Discovery:

- the minimizer accepts a schedule on one run of another failure
  (`orchestrator.ts:126`; README.md:39); the final confirmation then refuses it;
- `found_failure` with a v2 artifact, whose minimized schedule has no
  confirmation (`orchestrator.ts:143`; docs/outcomes.md:7);
- a baseline that passes and then fails is `target_unhealthy`
  (`orchestrator.ts:80`; docs/outcomes.md:9);
- replays are not charged to the budget (`orchestrator.ts:190`; `cli.ts:114`);
- a failure of the empty candidate is published as a race (`candidates.ts:59`;
  docs/superpowers/specs/2026-09-12-scalable-debugger-architecture.md:187);
- the explored scope is 0 when the budget runs out inside the search
  (`orchestrator.ts:205`).

Compose:

- a structured failure without an exit is polled until the timeout
  (`proof/src/runtime-proof-observer.ts:68`;
  docs/superpowers/specs/2026-09-01-reliable-compose-race-detection-design.md:78);
- after a drain timeout a start still alive may bring a container up behind the
  stack's `down` (`runtime-controller.ts:112`): `AttemptIsOver` excepts that case.

Local processes:

- `activeChildren` is shared: with `Parallel = 2` TLC refutes
  `CrashIsTheTargetsOwn`, as a run kills the processes of another (docs/operations.md:11,
  "Cleanup is exact");
- workloads that were still waiting when another start threw are spawned after
  the cleanup, and outlive the run: `NoProcessOutlivesItsRun` excepts that case;
- descendants that have left their output and outlive their leader are not
  stopped (README.md:349): the child is no longer active;
- a structured failure event is never recognised, since lines are kept as
  `<workload>: <text>` (docs/outcomes.md:17). The same holds of Kubernetes logs.

Kubernetes:

- with `Parallel = 2` TLC refutes `JudgedByItsOwnWorkloads`;
- without a namespace of its own, a target may be judged by a terminating pod of
  the run before, and one rejected run's late apply makes pods in the next;
- of several pods of a workload the last listed counts;
- a workload without the label, never ready, or evicted is polled for ever;
- a namespace named by the caller is deleted (README.md:351).

API and page:

- the page listens to three of nine terminal events; after another it shows
  `CONNECTION_TO_DEBUG_CORE_LOST` and the browser reconnects for ever;
- a page whose one request for a run's record fails stays on the exploring screen
  (`FetchFails`, `web/src/App.tsx:55`), where network errors are to be rendered as
  execution failures (docs/superpowers/specs/2026-08-30-frontend-api-design.md:80):
  with the invariant `conn[r] = "unfetched" => shown[r] = "lost"` TLC shows it;
- leaving a run does not close its subscription;
- the report of disposing a workspace is dropped (docs/operations.md:13), and an
  upload's temporary directory is not removed after its run.

## Theorems

TLC checks instances; these hold for every value of the constants that satisfies
the assumption of the module: `DiscoveryAssumption` (any number of dimensions, any
delays that include 0, any candidates, any targets), `ComposeAssumption` (any finite
nonempty set of services, any schedules), `LocalProcessAssumption` (any finite runs
and workloads, any manifests), `KubernetesAssumption` (any targets, any labels),
`OnboardingAssumption` and `ApiAssumption` (any runs, folders, drops).

`DiscoverFailureProofs`:

- `TypeCorrect`, by induction on the actions. It rests on `LeastElement`: the
  least element of a nonempty set of naturals exists, so `Trial` is a schedule.
- `PublicationIsSupported`. The property speaks of the last state only; the
  induction needs what each phase has already gathered. `Evidence` is that: the
  baseline is complete once the search starts, sightings are all zero until
  then, the failing schedule has `1 + repeats` sightings while it is confirmed and
  `ConfirmationRuns` from then on, the minimized one has `repeats` while it is
  verified. `EvidenceKept` shows each step keeps it: sightings only grow
  (`SeenGrows`, `SightingCounts`), and `best` no longer changes after the
  minimizer, which is where confirmations of it start to count.
- `MinimizationReduces`: from the minimizer's start on, its schedule stays below the
  failing one (`MinimizerOnlyReduces`, a strengthening that `DiscoveryKeepsPromise`
  needs); `TrialIsBelow` shows that a trial never delays longer.
- `DiscoveryKeepsPromise`: a step maps to a baseline pass, a sighting, a replay, a
  publication, a refusal or a stutter of `RacePublication`, given `Evidence` and
  `MinimizerOnlyReduces`. It assumes that every caller asks for a v3 artifact:
  without it the promise is not kept, since v2 artifacts are published unverified.

- `NoFailureIsProved` and `ScopeIsReported`, by `SearchScope` and the budget, which is
  kept (`BudgetIsRespected`). Its part `RunsAreCharged`
  (the executions counted are at least the baselines and the schedules seen) is what
  makes `no_failure` exhaustive: with a baseline behind it, a search that has reached
  its own limit would have spent the budget before (`SearchOverIsExhaustion`), so it
  ends only where no planned schedule is left.
- `GridIsCovered` assumes that the plan has the grid (`GridIsPlanned`). The empty
  schedule is no candidate to the search, so that `BaselineWasHealthy` is needed: the
  baseline has shown it healthy.

`CandidatePlansProofs`: `PlannedExactly`, for any dimensions and any list of delays.
What a loop over lists yields takes induction, and the library's induction theorems
take an operator, which no prover here can instantiate. So the induction is on sets:
a set with 0 and with the successor of each member has every natural (`Induction`,
from the least element of its complement, as `<` on the naturals is well founded). By
it, a step function makes a function on the naturals (`Recursion`), a loop of the
model has the value its steps make (`Loop`), and a list of lists put end to end lists
the union of what its parts list, each thing once if the parts are apart
(`FlattenCovers`). With these each plan is taken from the inside out: the options
(`DistinctLists`), the combinations (`ProductCovers`), one dimension
(`IsolatedLists`), a pair (`PairLists`), all pairs (`PairwiseLists`). What remains is
counting: a schedule delays at most one dimension when it is empty or an `Alone`
(`AtMostOne`), two when it is a `Both` of a pair (`ExactlyTwo`).

`DiscoverOutcomeProofs`, on the invariants of `DiscoverFailureProofs`:

- `MinimalityIsReached`, by `Minimality`: the target shows one failure, so that a run
  that does not match the race is healthy (`OneFailure`, `RejectedIsHealthy`); a
  perturbation the first pass has kept cannot be taken away (`RemovalOrder`), and
  that stays so while others are removed or lowered, since what was healthy stays so
  with less (`HealthyKept`); the second pass adds that no lower option up to the
  floor fails (`LoweringOrder`); at its end this is minimality, and the schedule no
  longer changes (`MinimalOnceLowered`). That it fails is a part of `Completeness`.
- `FailuresAreFound`, by `Completeness`: the schedule found and the one the minimizer
  has always fail (`FailingFails`, `BestFails`), what is expected of them is what the
  target shows (`ExpectedIsShown`), the evidence kept is a run of the minimized
  schedule (`EvidenceIsShown`), and only a platform that can replay is asked to
  (`ReplayIsPossible`). Each way to return something else is then refuted in turn
  (`FailureFoundKept`); the search returning `no_failure` is, by `SearchScope`.
- `NoFailureIsFinal`: under `GridIsPlanned`, `no_failure` of a reproducible target
  means that nothing up to the longest option fails, at delays between the options
  neither.
- `PlannedSearchIsFinal` puts the two components together: with the candidates of
  either planner (`PlannedFrom`), `GridIsPlanned` is a fact (`PlannersPlanTheGrid`,
  from `PlannedExactly`), so that `NoFailureCoversTheGrid` and the theorem above hold
  of discoveries as the code sets them up.
- `SimplestIsFound`: with the adaptive plan the search finds the simplest failure the
  options allow. It needs the order of the search (`FoundInOrder`: whatever is planned
  before the schedule it found was tested, and could be healthy) and that of the plan
  (`SimplerIsEarlier`: what delays one or two dimensions is planned before what
  delays more, though the full stage has both again).
- `DiscoveryAdvances`: the safety half of `DiscoveryReturns`. The dimensions, the
  delays and the candidates are finite, so a discovery takes finitely many steps; that
  it takes the next one is the fairness TLC checks `DiscoveryReturns` under.
- `DiscoveryIsBounded`, of a finite set of options: `RunsAreBounded` for any dimensions,
  candidates and targets. `Spending` bounds the executions by phase: a distinct
  candidate is charged once, a perturbation costs two runs to remove and two for each
  lower option, as `runReproducibly` runs twice; that an option is tried once rests on
  `NextLower` rising (`LoweringRoom`).

`ComposeRunProofs`: one inductive invariant, `TypeOK /\ Order`, gives all of
`EvidenceIsAsked`, `CancelledStartsNothing`, `AttemptEnds`, `TimeoutIsShown` and the
refinement `RunIsIsolated`. `Order` has four parts, one for
each thing the properties leave unsaid: when each signal is set relative to the
controller's place (`ControllerOrder`); that the starts are idle before the last
readiness delay, and all done once evidence is collected (`StartOrder`); that only the
observer gives a verdict and nothing changes it (`OutcomeOrder`); and that without an
error there is a verdict, a clean target, and nothing in flight (`CleanupOrder`). It
is needed because the execution goes on after the controller has left it: that a late
readiness delay cannot reach a run that counts as evidence holds only since an
execution still applying delays is no verdict. In `RunIsIsolated` an answer is given
once (`AnsweredOnce`), and one that is evidence is given by a run at rest, which stays
so (`EvidenceIsAtRest`). `ConflictIsShown` adds `ConflictOrder`: after a refused port the
execution only waits for its starts, so there is nothing to drain, the controller takes
the conflict over as the one failure unless it has timed out, and the cleanup adds
errors of operations only, which do not hide it (`ConflictShows`).

`ClassifyIsTheOracle` justifies the abstraction of evidence in `ComposeRun`: for any
workloads, log lines and states, the three facts it keeps give the status that
`ProofOracle!Evaluate` gives, as no readiness is passed (`compose-proof-observer.ts`).

`ProofOracleProofs`, for any workloads and any evidence. `VerdictIsGrounded`: a
failure has its evidence, on the workload it names, and a healthy verdict has all
of it. `VerdictIsOfTheFirst`: which verdict it is when several things went wrong. A
reported failure comes before a non-zero exit, that before a readiness that failed,
and of several workloads the first listed is named; healthy and inconclusive are
what is left, with and without the evidence.

`LocalProcessProofs`. `Order` has two parts. `ProcessOrder` ties a process to how far
its start and its run are: none before the start, alive (or its output held) only
while its close is to come, and neither once the run's group has been killed; it needs
that a start that threw stays so (`ThrownStays`), since only then a spawn can follow
the cleanup. `ResetOrder` counts resets by phase. They give `ProcessesAreStopped`,
`VerdictsAreReset` and, with the lemma that only `Conclude` makes a verdict healthy,
`HealthyIsWhole`. `CrashesAreOwn` assumes `Parallel <= 1` and adds to the invariant
that at most one run is in flight (`AtMostOne`) and that none of its processes has
been signalled before it is judged (`SignalOrder`). `RunsAreIsolated` is the
refinement of `IsolatedRuns`, for any number of runs at once: a run whose verdict
counts has no start waiting when it gets it (`VerdictStarts`), so that nothing is
spawned after its processes were stopped (`VerdictIsAtRest`).

`KubernetesRunProofs`. `ResultOrder` (no result before the return, errors are
rejections) and `ApplyOrder` (how far each apply is, by phase) give
`VerdictsFollowCommands`. `JudgedByOwn` and `PodsAreOwn` assume
`Parallel <= 1`: `WorkloadOrder` says that the shared variable is the run's from its
listing on, `PodOrder` that pods of its workloads were made, since its reset, by
itself or by rejected runs whose applies were under way. `JudgementIsTheOracle`: a run
judged by its own workloads gets the oracle's verdict on the states it listed, in full.

`ApiServiceProofs`. `StoreOrder` relates a run's kind, its search and its phase,
`CloneOrder` the clone to the place of the search, `StreamOrder` the events under
way to the phase: a terminal event is the last of its channel and the phase itself.
`StreamsAreCurrent` is part of the induction. `EndsOnce` is an action property from
the same invariant.

Only model-checked: liveness (`DiscoveryReturns`, `ReproducibleFailureIsFound`,
`RunReturns`, `RunsReturn`, `JudgedOnceDecided`, `RunsEnd`, `OutcomesAreShown`), which
is out of the prover's reach; of the first two, `DiscoveryAdvances` and
`FailuresAreFound` are the part that is about single steps and states. Also the
length of the plain plan in `SmallPlansAreExact`, a power the prover does not
calculate with. Every other property of a passing run is stated by a theorem.

## Not modelled

- The text of logs, reports and artifacts, digests, redaction, argument parsing
  and prompts (`cli.ts`, `presentation.ts`, `prompt.ts`, `redaction.ts`), HTML: no
  property speaks of them. The timeline's sorting is of the same kind.
- Time. A timer may fire at any moment after it is set, a wait may end at any
  moment; that covers every duration, and no property is about one.
- docker, kubectl, git, sockets and the operating system beyond what the code
  asks of them and may get back.
- What is detected in a repository (`discovery/src/inspect.ts`, `select.ts`,
  `config.ts`) and in a resolved Compose file: parsing, whose outcome is a choice in
  `Onboarding` and a constant in `ComposeRun`. `inspect` by itself is acquisition
  and disposal, whose steps `search` has.
- The API's `inspect` and `replay` requests, which keep no state.

## Open

- A contract for Kubernetes runs, weaker than `IsolatedRuns`: what the reset of a run
  owes it, of the pods the run before has left. `VerdictIsOfItsOwnPods` says it of
  the verdict only.
- What the order of the adaptive plan says of the schedule that is *published*:
  `SimplestIsFound` is about the one the search finds, and the minimizer then only
  removes and lowers (`MinimizationReduces`).
