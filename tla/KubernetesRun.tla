--------------------------- MODULE KubernetesRun ---------------------------
(***************************************************************************)
(* Runs of Kubernetes targets on the default platform: the wrapper of the  *)
(* router (packages/scheduler/src/default-platform.ts), the executor that  *)
(* deletes, applies and lists with kubectl (packages/runtime/src/          *)
(* kubernetes-platform.ts), and the proof observer, which has no timer.    *)
(*                                                                         *)
(* The cluster is external: a pod starts, becomes ready or not, ends and   *)
(* is restarted as it likes.  Of several pods of a workload the code keeps *)
(* the last one listed; pod is the present one, left a pod of a deleted    *)
(* resource that has not gone yet.  An evicted pod, exited without a code, *)
(* counts for nothing, like one that is not ready: they are one state.     *)
(***************************************************************************)
EXTENDS ProofOracle, FiniteSets

CONSTANTS
  Runs,        \* calls of run, numbered in the order they are made
  Workloads,   \* names of resources
  Targets,     \* manifests: [workloads, namespaced : has it a namespace of its own]
  WorkloadKind,\* "job" or "service"
  Labelled,    \* workloads whose resource has the label dsrd.workload
  Schedules,   \* sets of workloads a schedule delays
  Parallel     \* how many runs may be in flight at once

ASSUME KubernetesAssumption ==
  /\ Runs \subseteq Nat \ {0} /\ IsFiniteSet(Runs)
  /\ Workloads \subseteq Nat \ {None} /\ IsFiniteSet(Workloads)
  /\ Targets \subseteq [workloads : SUBSET Workloads, namespaced : BOOLEAN]
  /\ WorkloadKind \in [Workloads -> Kinds]
  /\ Labelled \subseteq Workloads
  /\ Schedules \subseteq SUBSET Nat
  /\ Parallel \in Nat

VARIABLES
  pod,     \* the present pod of each workload, and the run that made it
  left,    \* what is left of the one before
  known,   \* kubernetesWorkloads, shared by all runs of the platform
  target,  \* the target of each run
  delayed, \* the workloads its schedule delays
  phase,   \* where it is
  apply,   \* how far its kubectl apply of each workload is
  snap,    \* the states it has listed last
  judges,  \* the workloads its observer judges by
  again,   \* whether it has listed more than once
  errors,  \* whether a kubectl command of it has failed
  result   \* what it returns

vars == <<pod, left, known, target, delayed, phase, apply, snap, judges, again, errors, result>>
cluster == <<pod, left>>
asked == <<target, delayed>>
observation == <<snap, judges, again>>

Phases == {"idle", "listing", "validating", "resetting", "namespace", "applying",
           "settling", "observing", "reading", "polling", "returned"}
Applies == {"none", "waiting", "issued", "applied", "failed"}
PodStates == {"missing", "unhealthy", "running", "zero", "nonzero"}
Pod(state, run) == [state |-> state, run |-> run]
NoPod == Pod("missing", 0)
Pods == [state : PodStates, run : Runs \cup {0}]
Ended == {"zero", "nonzero"}

NoResult == Verdict("none", None, "none")
Rejected == Verdict("throws", None, "none")
Verdicts == [status : {"none", "throws", "healthy", "inconclusive", "workload_failure"},
             workload : Workloads \cup {None}, category : {"none", "unexpected_exit"}]

Own(r) == target[r].workloads
InFlight == {r \in Runs : phase[r] \notin {"idle", "returned"}}
Goes(r, place) == phase' = [phase EXCEPT ![r] = place]

-----------------------------------------------------------------------------
(* What becomes of a command. *)

(* Every kubectl failure rejects the run, whatever is still under way. *)
Rejects(r) ==
  /\ Goes(r, "returned")
  /\ errors' = [errors EXCEPT ![r] = TRUE]
  /\ result' = [result EXCEPT ![r] = Rejected]

(* discover, which a search calls before its runs, assigns the workloads too. *)
Discovers ==
  /\ Cardinality(InFlight) < Parallel
  /\ \E t \in Targets : known' = t.workloads
  /\ UNCHANGED <<cluster, asked, phase, apply, observation, errors, result>>

Begins(r) ==
  /\ phase[r] = "idle" /\ \A q \in Runs : q < r => phase[q] # "idle"
  /\ Cardinality(InFlight) < Parallel
  /\ target' \in {[target EXCEPT ![r] = t] : t \in Targets}
  /\ delayed' \in {[delayed EXCEPT ![r] = s] : s \in Schedules}
  /\ Goes(r, "listing")
  /\ UNCHANGED <<cluster, known, apply, observation, errors, result>>

(* Mutant of Listed: the wrapper leaves the workloads to its own discover. *)
ListedOnce(r) ==
  /\ phase[r] = "listing"
  /\ known' = IF known = {} THEN Own(r) ELSE known
  /\ Goes(r, "validating")
  /\ UNCHANGED <<cluster, asked, apply, observation, errors, result>>

(* The wrapper lists the workloads for the observer ... *)
Listed(r) ==
  /\ phase[r] = "listing"
  /\ known' = Own(r)
  /\ Goes(r, "validating")
  /\ UNCHANGED <<cluster, asked, apply, observation, errors, result>>

(* ... and the platform lists them again to validate the schedule. *)
Validated(r) ==
  /\ phase[r] = "validating"
  /\ IF delayed[r] \subseteq Own(r)
       THEN Goes(r, "resetting") /\ UNCHANGED result
       ELSE Goes(r, "returned") /\ result' = [result EXCEPT ![r] = Rejected]
  /\ UNCHANGED <<cluster, known, asked, apply, observation, errors>>

(* Mutant of Reset: the pods of a namespace may outlive its deletion too. *)
ResetAtOnce(r) ==
  /\ phase[r] = "resetting"
  /\ pod' = [w \in Workloads |-> IF w \in Own(r) THEN NoPod ELSE pod[w]]
  /\ left' = [w \in Workloads |-> IF w \in Own(r) /\ pod[w] # NoPod THEN pod[w] ELSE left[w]]
  /\ Goes(r, "namespace")
  /\ UNCHANGED <<known, asked, apply, observation, errors, result>>

(* kubectl delete --wait waits for what it deletes: the namespace with all that
   is in it, or the resources of the manifest but not their pods. *)
Reset(r) ==
  /\ phase[r] = "resetting"
  /\ pod' = [w \in Workloads |-> IF w \in Own(r) THEN NoPod ELSE pod[w]]
  /\ left' = [w \in Workloads |-> IF w \notin Own(r) THEN left[w]
                                  ELSE IF target[r].namespaced THEN NoPod
                                  ELSE IF pod[w] # NoPod THEN pod[w] ELSE left[w]]
  /\ Goes(r, "namespace")
  /\ UNCHANGED <<known, asked, apply, observation, errors, result>>

(* The infrastructure is there; every workload without a delay is applied. *)
AppliesBegin(r) ==
  /\ phase[r] = "namespace"
  /\ apply' = [apply EXCEPT ![r] =
       [w \in Workloads |-> IF w \notin Own(r) THEN "none"
                            ELSE IF w \in delayed[r] THEN "waiting" ELSE "issued"]]
  /\ Goes(r, "applying")
  /\ UNCHANGED <<cluster, known, asked, observation, errors, result>>

(* A delay ends, whatever has become of the run. *)
DelayEnds(r, w) ==
  /\ apply[r][w] = "waiting"
  /\ apply' = [apply EXCEPT ![r][w] = "issued"]
  /\ UNCHANGED <<cluster, known, asked, phase, observation, errors, result>>

(* A resource that exists is left as it is, and one without the label is not
   among those the selector applies. *)
Makes(r, w) ==
  pod' = IF w \in Labelled /\ pod[w] = NoPod
           THEN [pod EXCEPT ![w] = Pod("unhealthy", r)] ELSE pod

ApplySucceeds(r, w) ==
  /\ apply[r][w] = "issued"
  /\ apply' = [apply EXCEPT ![r][w] = "applied"]
  /\ Makes(r, w)
  /\ UNCHANGED <<left, known, asked, phase, observation, errors, result>>

(* The first failure rejects Promise.all and so the run; the other applies go
   on. *)
ApplyFails(r, w) ==
  /\ apply[r][w] = "issued"
  /\ apply' = [apply EXCEPT ![r][w] = "failed"]
  /\ IF phase[r] = "applying" THEN Rejects(r) ELSE UNCHANGED <<phase, errors, result>>
  /\ UNCHANGED <<cluster, known, asked, observation>>

(* Mutant of Applied: Promise.any. *)
AppliedInPart(r) ==
  /\ phase[r] = "applying"
  /\ \E w \in Own(r) : apply[r][w] = "applied"
  /\ Goes(r, "settling")
  /\ UNCHANGED <<cluster, known, asked, apply, observation, errors, result>>

Applied(r) ==
  /\ phase[r] = "applying"
  /\ \A w \in Own(r) : apply[r][w] = "applied"
  /\ Goes(r, "settling")
  /\ UNCHANGED <<cluster, known, asked, apply, observation, errors, result>>

-----------------------------------------------------------------------------
(* Observing. *)

(* The settle time, or the time between two refreshes, is over. *)
Waited(r) ==
  /\ phase[r] \in {"settling", "polling"}
  /\ Goes(r, "observing")
  /\ UNCHANGED <<cluster, known, asked, apply, observation, errors, result>>

(* Mutant of PodsListed: a workload of which no pod is listed gets no state. *)
PodsListedOnly(r) ==
  /\ phase[r] = "observing"
  /\ snap' = [snap EXCEPT ![r] = [w \in {v \in Own(r) : pod[v] # NoPod} |-> pod[w]]]
  /\ Goes(r, "reading")
  /\ UNCHANGED <<cluster, known, asked, apply, judges, again, errors, result>>

(* kubectl get pods: of two pods of a workload either may come last. *)
PodsListed(r) ==
  /\ phase[r] = "observing"
  /\ \E last \in [Own(r) -> {"pod", "left"}] :
       /\ \A w \in Own(r) : last[w] = "left" => left[w] # NoPod
       /\ \A w \in Own(r) : last[w] = "pod" => pod[w] # NoPod \/ left[w] = NoPod
       /\ snap' = [snap EXCEPT ![r] =
            [w \in Workloads |-> IF w \notin Own(r) THEN NoPod
                                 ELSE IF last[w] = "pod" THEN pod[w] ELSE left[w]]]
  /\ Goes(r, "reading")
  /\ UNCHANGED <<cluster, known, asked, apply, judges, again, errors, result>>

(* Logs come as "<workload>: <text>", so that no structured event opens a line;
   readiness is not passed on. *)
Judgement(r, workloads) ==
  LET crashed == {w \in Own(r) : snap[r][w].state = "nonzero"}
      Passed(w) == w \in Own(r) /\ StateSatisfies(WorkloadKind[w], snap[r][w].state)
  IN IF crashed # {} THEN Verdict("workload_failure", Min(crashed), "unexpected_exit")
     ELSE IF \A w \in workloads : Passed(w) THEN Healthy ELSE Inconclusive

(* Mutant of Concludes: only a healthy run ends the polling. *)
ConcludesHealthy(r, verdict) == verdict = Healthy

(* Healthy at once, a failure when it has been seen after the first listing. *)
Concludes(r, verdict) ==
  verdict = Healthy \/ (again[r] /\ verdict.status = "workload_failure")

(* The logs are read and the observer judges.  It takes the platform's workloads
   when it is called, after the first listing, and throws without any. *)
LogsRead(r) ==
  LET workloads == IF again[r] THEN judges[r] ELSE known
      verdict == Judgement(r, workloads) IN
  /\ phase[r] = "reading"
  /\ judges' = [judges EXCEPT ![r] = workloads]
  /\ again' = [again EXCEPT ![r] = TRUE]
  /\ IF workloads = {}
       THEN Goes(r, "returned") /\ result' = [result EXCEPT ![r] = Rejected]
     ELSE IF Concludes(r, verdict)
       THEN Goes(r, "returned") /\ result' = [result EXCEPT ![r] = verdict]
     ELSE Goes(r, "polling") /\ UNCHANGED result
  /\ UNCHANGED <<cluster, known, asked, apply, snap, errors>>

(* The first command of the run that fails before anything is applied or after
   everything has been. *)
CommandFails(r) ==
  /\ phase[r] \in {"listing", "validating", "resetting", "namespace", "observing", "reading"}
  /\ Rejects(r)
  /\ UNCHANGED <<cluster, known, asked, apply, observation>>

-----------------------------------------------------------------------------
(* The cluster. *)

Becomes(w, state) ==
  /\ pod' = [pod EXCEPT ![w].state = state]
  /\ UNCHANGED <<left, known, asked, phase, apply, observation, errors, result>>

PodReady(w) == pod[w].state = "unhealthy" /\ Becomes(w, "running")
PodUnready(w) == pod[w].state = "running" /\ Becomes(w, "unhealthy")
PodEnds(w) ==
  pod[w].state \in {"unhealthy", "running"} /\ \E state \in Ended : Becomes(w, state)
PodRestarts(w) == pod[w].state \in Ended /\ Becomes(w, "unhealthy")

(* A pod that is being deleted is asked to exit, and goes. *)
LeftEnds(w) ==
  /\ left[w].state \in {"unhealthy", "running"}
  /\ \E state \in {"zero", "nonzero"} : left' = [left EXCEPT ![w].state = state]
  /\ UNCHANGED <<pod, known, asked, phase, apply, observation, errors, result>>

LeftGoes(w) ==
  /\ left[w] # NoPod
  /\ left' = [left EXCEPT ![w] = NoPod]
  /\ UNCHANGED <<pod, known, asked, phase, apply, observation, errors, result>>

-----------------------------------------------------------------------------
NoTarget == [workloads |-> {}, namespaced |-> FALSE]

Init ==
  /\ pod = [w \in Workloads |-> NoPod] /\ left = [w \in Workloads |-> NoPod]
  /\ known = {}
  /\ target = [r \in Runs |-> NoTarget] /\ delayed = [r \in Runs |-> {}]
  /\ phase = [r \in Runs |-> "idle"]
  /\ apply = [r \in Runs |-> [w \in Workloads |-> "none"]]
  /\ snap = [r \in Runs |-> [w \in Workloads |-> NoPod]]
  /\ judges = [r \in Runs |-> {}] /\ again = [r \in Runs |-> FALSE]
  /\ errors = [r \in Runs |-> FALSE] /\ result = [r \in Runs |-> NoResult]

Proceeds(r) ==
  \/ Listed(r) \/ Validated(r) \/ Reset(r) \/ AppliesBegin(r) \/ Applied(r)
  \/ Waited(r) \/ PodsListed(r) \/ LogsRead(r) \/ CommandFails(r)

Applying(r, w) == DelayEnds(r, w) \/ ApplySucceeds(r, w) \/ ApplyFails(r, w)

Next ==
  \/ Discovers
  \/ \E r \in Runs : Begins(r) \/ Proceeds(r) \/ \E w \in Workloads : Applying(r, w)
  \/ \E w \in Workloads : PodReady(w) \/ PodUnready(w) \/ PodEnds(w) \/ PodRestarts(w)
                            \/ LeftEnds(w) \/ LeftGoes(w)

Spec == Init /\ [][Next]_vars

(* kubectl commands end, timers fire, deleted pods go.  Nothing is assumed of
   the pods a run has made. *)
FairSpec ==
  /\ Spec
  /\ \A r \in Runs : WF_vars(Proceeds(r)) /\ \A w \in Workloads : WF_vars(Applying(r, w))
  /\ \A w \in Workloads : WF_vars(LeftGoes(w))

-----------------------------------------------------------------------------
(* What must hold. *)

(* Every variable of the platform, its runs and the cluster keeps its type. *)
TypeOK ==
  /\ pod \in [Workloads -> Pods] /\ left \in [Workloads -> Pods]
  /\ known \in SUBSET Workloads
  /\ target \in [Runs -> Targets \cup {NoTarget}]
  /\ delayed \in [Runs -> Schedules \cup {{}}]
  /\ phase \in [Runs -> Phases] /\ apply \in [Runs -> [Workloads -> Applies]]
  /\ snap \in [Runs -> [Workloads -> Pods]]
  /\ judges \in [Runs -> SUBSET Workloads] /\ again \in [Runs -> BOOLEAN]
  /\ errors \in [Runs -> BOOLEAN] /\ result \in [Runs -> Verdicts]

Judged(r) == result[r].status \in {"healthy", "inconclusive", "workload_failure"}

(* A target with a namespace is judged by pods made after its reset: the run's
   own, or those of an earlier run that was rejected with applies under way. *)
VerdictIsOfItsOwnPods ==
  \A r \in Runs : Judged(r) /\ target[r].namespaced =>
    \A w \in Own(r) : snap[r][w].run \in {0, r} \cup {q \in Runs : errors[q]}

(* The platform's workloads are those of the run that is judged by them, though
   every run, of whatever target, assigns them: while runs come one by one. *)
JudgedByItsOwnWorkloads ==
  \A r \in Runs : Judged(r) => judges[r] = Own(r)

(* "kubectl errors are execution errors rather than race discoveries"
   (kubernetes-platform.ts:81): a run with a failed command has no verdict, and one
   that has a verdict applied every workload of its schedule before, the delayed
   ones included. *)
VerdictFollowsItsCommands ==
  \A r \in Runs : Judged(r) => ~errors[r] /\ \A w \in Own(r) : apply[r][w] = "applied"

(* A target whose pods all stay as their kinds should, or one of whose pods
   stays failed, is judged: without a timer the run has nothing else to end it.
   One that is never ready, evicted or unlabelled is polled for ever. *)
Decided(r) ==
  \/ \A w \in Own(r) : StateSatisfies(WorkloadKind[w], pod[w].state)
  \/ \E w \in Own(r) : pod[w].state = "nonzero"

JudgedOnceDecided ==
  \A r \in Runs : <>[](phase[r] # "idle" /\ Decided(r)) => <>(phase[r] = "returned")

=============================================================================
