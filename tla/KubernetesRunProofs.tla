------------------------ MODULE KubernetesRunProofs ------------------------
(***************************************************************************)
(* What holds of Kubernetes runs for any manifests, schedules and pods:    *)
(* types, that a failed command leaves no verdict and that a verdict       *)
(* follows every apply; and, while runs come one by one, that a run is     *)
(* judged by its own workloads and its own pods.                           *)
(***************************************************************************)
EXTENDS KubernetesRun, ProofOracleProofs, FiniteSetTheorems

Early == {"idle", "listing", "validating", "resetting", "namespace"}
Late == {"settling", "observing", "reading", "polling"}

(* A run has a result once it has returned; one with a failed command has
   returned without a verdict. *)
ResultOrder ==
  \A r \in Runs :
    /\ phase[r] # "returned" => result[r] = NoResult /\ ~errors[r]
    /\ errors[r] => result[r] = Rejected

(* Of every run that goes on without an error the applies are all done when it
   observes; what is still to be applied is of a run that applies or has failed. *)
ApplyOrder ==
  \A r \in Runs :
    /\ phase[r] \in Late \/ Judged(r) => \A w \in Own(r) : apply[r][w] = "applied"
    /\ \A w \in Workloads :
         /\ phase[r] \in Early => apply[r][w] = "none"
         /\ apply[r][w] # "none" => w \in Own(r)
         /\ apply[r][w] \in {"waiting", "issued"} => phase[r] = "applying" \/ errors[r]

Order == ResultOrder /\ ApplyOrder

-----------------------------------------------------------------------------
(* A verdict of the observer names a workload of the target. *)
LEMMA JudgementIsTyped ==
  ASSUME TypeOK, NEW r \in Runs, NEW workloads
  PROVE  Judgement(r, workloads) \in Verdicts
<1> DEFINE crashed == {w \in Own(r) : snap[r][w].state = "nonzero"}
<1>1. Own(r) \subseteq Workloads
  BY KubernetesAssumption DEF TypeOK, Own, NoTarget
<1>2. crashed # {} => Min(crashed) \in crashed
  BY <1>1, KubernetesAssumption, LeastIsMember
<1>3. Min(crashed) \in Workloads =>
        Verdict("workload_failure", Min(crashed), "unexpected_exit") \in Verdicts
  BY DEF Verdict, Verdicts
<1>4. Healthy \in Verdicts /\ Inconclusive \in Verdicts
  BY DEF Healthy, Inconclusive, Verdict, Verdicts
<1> QED BY <1>1, <1>2, <1>3, <1>4 DEF Judgement

(* Judged by its own workloads, a run is given the verdict of the proof oracle on
   the states it listed, without a report and without readiness, in full: status,
   workload and category (runtime-proof-observer.ts, classify). *)
THEOREM JudgementIsTheOracle ==
  ASSUME TypeOK, NEW r \in Runs
  PROVE  Judgement(r, Own(r)) =
           Evaluate([w \in Own(r) |-> WorkloadKind[w]], [w \in Own(r) |-> "none"], None,
                    [w \in Own(r) |-> snap[r][w].state], [w \in Own(r) |-> "none"])
<1> DEFINE kind == [w \in Own(r) |-> WorkloadKind[w]]
           state == [w \in Own(r) |-> snap[r][w].state]
           none == [w \in Own(r) |-> "none"]
           crashed == {w \in Own(r) : snap[r][w].state = "nonzero"}
           passed == \A w \in Own(r) : StateSatisfies(WorkloadKind[w], snap[r][w].state)
<1>1. Own(r) \subseteq Nat \ {None}
  BY KubernetesAssumption DEF TypeOK, Own, NoTarget
<1>2. {w \in DOMAIN kind : state[w] = "nonzero"} = crashed
  OBVIOUS
<1>3. {w \in DOMAIN kind : none[w] \notin {"none", "ready"}} = {}
  OBVIOUS
<1>4. First({}) = None /\ (crashed # {} => First(crashed) = Min(crashed))
        /\ (First(crashed) = None <=> crashed = {})
  BY <1>1, FirstIsMember DEF First
<1>5. (\A w \in DOMAIN kind : /\ StateSatisfies(kind[w], state[w])
                              /\ ReadinessSatisfies(none[w], none[w])) <=> passed
  BY DEF ReadinessSatisfies
<1> HIDE DEF kind, state, none, crashed
<1>6. Evaluate(kind, none, None, state, none) =
        IF crashed # {} THEN Verdict("workload_failure", Min(crashed), "unexpected_exit")
        ELSE IF passed THEN Healthy ELSE Inconclusive
  BY <1>2, <1>3, <1>4, <1>5 DEF Evaluate
<1>7. Judgement(r, Own(r)) =
        IF crashed # {} THEN Verdict("workload_failure", Min(crashed), "unexpected_exit")
        ELSE IF passed THEN Healthy ELSE Inconclusive
  BY DEF Judgement, crashed
<1> QED BY <1>6, <1>7 DEF kind, state, none

LEMMA ResultsAreKnown ==
  /\ NoResult \in Verdicts /\ Rejected \in Verdicts
  /\ NoResult.status = "none" /\ Rejected.status = "throws"
BY DEF NoResult, Rejected, Verdict, Verdicts

LEMMA OwnIsKnown ==
  ASSUME TypeOK, NEW r \in Runs
  PROVE  Own(r) \subseteq Workloads
BY KubernetesAssumption DEF TypeOK, Own, NoTarget

LEMMA TypesKept ==
  ASSUME TypeOK, [Next]_vars
  PROVE  TypeOK'
<1>a. \A r \in Runs : Own(r) \subseteq Workloads
  BY OwnIsKnown
<1>b. ASSUME NEW p \in Pods, NEW state \in PodStates
      PROVE  /\ [p EXCEPT !.state = state] = Pod(state, p.run)
             /\ Pod(state, p.run) \in Pods
  BY DEF Pod, Pods
<1> USE DEF TypeOK, cluster, asked, observation, Goes, Phases, Applies
<1>0. NoPod \in Pods /\ \A r \in Runs : Pod("unhealthy", r) \in Pods
  BY DEF NoPod, Pod, Pods, PodStates
<1>1. CASE Discovers
  BY <1>1, KubernetesAssumption DEF Discovers
<1>2. ASSUME NEW r \in Runs, Begins(r) PROVE TypeOK'
  BY <1>2 DEF Begins
<1>3. ASSUME NEW r \in Runs, Listed(r) PROVE TypeOK'
  BY <1>a, <1>3 DEF Listed
<1>4. ASSUME NEW r \in Runs, Validated(r) PROVE TypeOK'
  <2>1. /\ \E place \in Phases : phase' = [phase EXCEPT ![r] = place]
        /\ result' = result \/ result' = [result EXCEPT ![r] = Rejected]
    BY <1>4 DEF Validated
  <2>2. phase' \in [Runs -> Phases] /\ result' \in [Runs -> Verdicts]
    BY <2>1, ResultsAreKnown
  <2> QED BY <1>4, <2>2 DEF Validated
<1>5. ASSUME NEW r \in Runs, Reset(r) PROVE TypeOK'
  BY <1>0, <1>5 DEF Reset
<1>6. ASSUME NEW r \in Runs, AppliesBegin(r) PROVE TypeOK'
  BY <1>6 DEF AppliesBegin
<1>7. ASSUME NEW r \in Runs, Applied(r) \/ Waited(r) PROVE TypeOK'
  BY <1>7 DEF Applied, Waited
<1>8. ASSUME NEW r \in Runs, PodsListed(r) PROVE TypeOK'
  <2>1. PICK last \in [Own(r) -> {"pod", "left"}] :
          snap' = [snap EXCEPT ![r] =
                     [w \in Workloads |-> IF w \notin Own(r) THEN NoPod
                                          ELSE IF last[w] = "pod" THEN pod[w] ELSE left[w]]]
    BY <1>8 DEF PodsListed
  <2> QED BY <1>0, <1>8, <2>1 DEF PodsListed
<1>9. ASSUME NEW r \in Runs, LogsRead(r) PROVE TypeOK'
  <2> DEFINE workloads == IF again[r] THEN judges[r] ELSE known
  <2>1. Judgement(r, workloads) \in Verdicts
    BY JudgementIsTyped
  <2>2. result' = result \/ result' = [result EXCEPT ![r] = Rejected]
          \/ result' = [result EXCEPT ![r] = Judgement(r, workloads)]
    BY <1>9 DEF LogsRead
  <2>3. result' \in [Runs -> Verdicts]
    BY <2>1, <2>2, ResultsAreKnown
  <2>4. judges' \in [Runs -> SUBSET Workloads] /\ again' \in [Runs -> BOOLEAN]
    BY <1>9 DEF LogsRead
  <2>5. phase' \in [Runs -> Phases]
    BY <1>9 DEF LogsRead
  <2> QED BY <1>9, <2>3, <2>4, <2>5 DEF LogsRead
<1>10. ASSUME NEW r \in Runs, CommandFails(r) PROVE TypeOK'
  BY <1>10, ResultsAreKnown DEF CommandFails, Rejects
<1>11. ASSUME NEW r \in Runs, NEW w \in Workloads, DelayEnds(r, w) PROVE TypeOK'
  BY <1>11 DEF DelayEnds
<1>12. ASSUME NEW r \in Runs, NEW w \in Workloads, ApplySucceeds(r, w) PROVE TypeOK'
  BY <1>0, <1>12 DEF ApplySucceeds, Makes
<1>13. ASSUME NEW r \in Runs, NEW w \in Workloads, ApplyFails(r, w) PROVE TypeOK'
  <2>0. /\ phase' = phase \/ phase' = [phase EXCEPT ![r] = "returned"]
        /\ result' = result \/ result' = [result EXCEPT ![r] = Rejected]
        /\ errors' = errors \/ errors' = [errors EXCEPT ![r] = TRUE]
    BY <1>13 DEF ApplyFails, Rejects
  <2>1. /\ phase' \in [Runs -> Phases] /\ result' \in [Runs -> Verdicts]
        /\ errors' \in [Runs -> BOOLEAN]
    BY <2>0, ResultsAreKnown
  <2>2. apply' \in [Runs -> [Workloads -> Applies]]
    BY <1>13 DEF ApplyFails
  <2> QED BY <1>13, <2>1, <2>2 DEF ApplyFails
<1>14. ASSUME NEW w \in Workloads, NEW state \in PodStates, Becomes(w, state) PROVE TypeOK'
  <2>1. pod' = [pod EXCEPT ![w] = Pod(state, pod[w].run)]
    BY <1>b, <1>14 DEF Becomes
  <2> QED BY <1>b, <1>14, <2>1 DEF Becomes
<1>15. ASSUME NEW w \in Workloads, PodReady(w) \/ PodUnready(w) \/ PodEnds(w) \/ PodRestarts(w)
       PROVE TypeOK'
  BY <1>14, <1>15 DEF PodReady, PodUnready, PodEnds, PodRestarts, PodStates, Ended
<1>16. ASSUME NEW w \in Workloads, LeftEnds(w) PROVE TypeOK'
  <2>1. PICK state \in PodStates : left' = [left EXCEPT ![w] = Pod(state, left[w].run)]
    BY <1>b, <1>16 DEF LeftEnds, PodStates
  <2> QED BY <1>b, <1>16, <2>1 DEF LeftEnds
<1>17. ASSUME NEW w \in Workloads, LeftGoes(w) PROVE TypeOK'
  BY <1>0, <1>17 DEF LeftGoes
<1>18. CASE UNCHANGED vars
  BY <1>18 DEF vars
<1> QED BY <1>1, <1>2, <1>3, <1>4, <1>5, <1>6, <1>7, <1>8, <1>9, <1>10, <1>11, <1>12, <1>13,
           <1>15, <1>16, <1>17, <1>18 DEF Next, Proceeds, Applying

-----------------------------------------------------------------------------
(* What a step does, action by action, whatever it is about. *)
LEMMA StepIsAnAction ==
  ASSUME [Next]_vars
  PROVE  \/ Discovers
         \/ \E r \in Runs :
              \/ Begins(r) \/ Listed(r) \/ Validated(r) \/ Reset(r) \/ AppliesBegin(r)
              \/ Applied(r) \/ Waited(r) \/ PodsListed(r) \/ LogsRead(r) \/ CommandFails(r)
         \/ \E r \in Runs, w \in Workloads :
              DelayEnds(r, w) \/ ApplySucceeds(r, w) \/ ApplyFails(r, w)
         \/ /\ UNCHANGED <<known, asked, phase, apply, observation, errors, result>>
            /\ \A w \in Workloads : TypeOK => /\ pod'[w].run = pod[w].run
                                              /\ left'[w].run \in {0, left[w].run}
<1>1. ASSUME NEW w \in Workloads, NEW state, Becomes(w, state), TypeOK, NEW v \in Workloads
      PROVE  pod'[v].run = pod[v].run /\ left'[v].run = left[v].run
  BY <1>1 DEF Becomes, TypeOK, Pods
<1>2. ASSUME NEW w \in Workloads, LeftEnds(w), TypeOK, NEW v \in Workloads
      PROVE  pod'[v].run = pod[v].run /\ left'[v].run = left[v].run
  BY <1>2 DEF LeftEnds, TypeOK, Pods
<1>3. ASSUME NEW w \in Workloads, LeftGoes(w), TypeOK, NEW v \in Workloads
      PROVE  pod'[v].run = pod[v].run /\ left'[v].run \in {0, left[v].run}
  BY <1>3 DEF LeftGoes, TypeOK, NoPod, Pod
<1>4. ASSUME NEW w \in Workloads, PodReady(w) \/ PodUnready(w) \/ PodEnds(w) \/ PodRestarts(w)
      PROVE  \E state : Becomes(w, state)
  BY <1>4 DEF PodReady, PodUnready, PodEnds, PodRestarts
<1>5. ASSUME NEW w \in Workloads, (\E state : Becomes(w, state)) \/ LeftEnds(w) \/ LeftGoes(w)
      PROVE  UNCHANGED <<known, asked, phase, apply, observation, errors, result>>
  BY <1>5 DEF Becomes, LeftEnds, LeftGoes
<1>6. CASE UNCHANGED vars
  BY <1>6 DEF vars, asked, observation
<1> QED BY <1>1, <1>2, <1>3, <1>4, <1>5, <1>6 DEF Next, Proceeds, Applying

LEMMA ResultsKept ==
  ASSUME TypeOK, Order, [Next]_vars
  PROVE  ResultOrder'
<1> USE DEF TypeOK, Order, ResultOrder, cluster, asked, observation, Goes
<1>1. CASE Discovers
  BY <1>1 DEF Discovers
<1>2. ASSUME NEW r \in Runs, \/ Begins(r) \/ Listed(r) \/ Validated(r) \/ Reset(r)
                             \/ AppliesBegin(r) \/ Applied(r) \/ Waited(r) \/ PodsListed(r)
      PROVE  ResultOrder'
  BY <1>2 DEF Begins, Listed, Validated, Reset, AppliesBegin, Applied, Waited, PodsListed
<1>3. ASSUME NEW r \in Runs, LogsRead(r) PROVE ResultOrder'
  <2>1. /\ phase[r] = "reading" /\ errors' = errors
        /\ \/ phase' = [phase EXCEPT ![r] = "polling"] /\ result' = result
           \/ /\ phase' = [phase EXCEPT ![r] = "returned"]
              /\ \E verdict : result' = [result EXCEPT ![r] = verdict]
    BY <1>3 DEF LogsRead
  <2> QED BY <2>1
<1>4. ASSUME NEW r \in Runs, CommandFails(r) PROVE ResultOrder'
  BY <1>4 DEF CommandFails, Rejects
<1>5. ASSUME NEW r \in Runs, NEW w \in Workloads, DelayEnds(r, w) \/ ApplySucceeds(r, w)
      PROVE  ResultOrder'
  BY <1>5 DEF DelayEnds, ApplySucceeds
<1>6. ASSUME NEW r \in Runs, NEW w \in Workloads, ApplyFails(r, w) PROVE ResultOrder'
  BY <1>6 DEF ApplyFails, Rejects
<1>7. CASE UNCHANGED <<known, asked, phase, apply, observation, errors, result>>
  BY <1>7
<1> QED BY <1>1, <1>2, <1>3, <1>4, <1>5, <1>6, <1>7, StepIsAnAction

(* A run is judged where its logs are read, or nowhere. *)
LEMMA JudgedByLogs ==
  ASSUME TypeOK, Order, [Next]_vars, NEW q \in Runs, Judged(q)'
  PROVE  \/ Judged(q) /\ phase[q] = "returned" /\ ~errors[q]
         \/ phase[q] = "reading" /\ LogsRead(q)
<1> USE DEF TypeOK, Order, ResultOrder, Judged, cluster, asked, observation, Goes
<1>1. ASSUME Judged(q) PROVE phase[q] = "returned" /\ ~errors[q]
  BY <1>1, ResultsAreKnown
<1>2. ASSUME result'[q] = result[q] PROVE Judged(q)
  BY <1>2
<1>3. CASE Discovers
  BY <1>1, <1>2, <1>3 DEF Discovers
<1>4. ASSUME NEW r \in Runs, \/ Begins(r) \/ Listed(r) \/ Validated(r) \/ Reset(r)
                             \/ AppliesBegin(r) \/ Applied(r) \/ Waited(r) \/ PodsListed(r)
                             \/ CommandFails(r)
      PROVE  result'[q] = result[q]
  BY <1>4, ResultsAreKnown DEF Begins, Listed, Validated, Reset, AppliesBegin, Applied, Waited,
                               PodsListed, CommandFails, Rejects
<1>5. ASSUME NEW r \in Runs, LogsRead(r), r # q PROVE result'[q] = result[q]
  BY <1>5 DEF LogsRead
<1>6. ASSUME NEW r \in Runs, NEW w \in Workloads,
             DelayEnds(r, w) \/ ApplySucceeds(r, w) \/ ApplyFails(r, w)
      PROVE  result'[q] = result[q]
  BY <1>6, ResultsAreKnown DEF DelayEnds, ApplySucceeds, ApplyFails, Rejects
<1>7. ASSUME LogsRead(q) PROVE phase[q] = "reading"
  BY <1>7 DEF LogsRead
<1>8. CASE UNCHANGED <<known, asked, phase, apply, observation, errors, result>>
  BY <1>1, <1>2, <1>8
<1> QED BY <1>1, <1>2, <1>3, <1>4, <1>5, <1>6, <1>7, <1>8, StepIsAnAction

LEMMA AppliesKept ==
  ASSUME TypeOK, Order, [Next]_vars
  PROVE  ApplyOrder'
<1> DEFINE ApplyOk(r) ==
      /\ phase[r] \in Late \/ Judged(r) => \A w \in Own(r) : apply[r][w] = "applied"
      /\ \A w \in Workloads :
           /\ phase[r] \in Early => apply[r][w] = "none"
           /\ apply[r][w] # "none" => w \in Own(r)
           /\ apply[r][w] \in {"waiting", "issued"} => phase[r] = "applying" \/ errors[r]
<1>0. \A r \in Runs : ApplyOk(r) /\ Own(r) \subseteq Workloads
  BY OwnIsKnown DEF Order, ApplyOrder
<1>a. \A q \in Runs : Judged(q)' => Judged(q) \/ phase[q] = "reading"
  BY JudgedByLogs
<1>b. SUFFICES ASSUME NEW q \in Runs PROVE ApplyOk(q)'
  BY DEF ApplyOrder
<1> USE DEF TypeOK, Order, ResultOrder, Own, cluster, asked, observation, Goes, Early, Late
<1>1. CASE UNCHANGED <<target[q], phase[q], apply[q], errors[q], result[q]>>
  BY <1>0, <1>1 DEF Judged
<1>2. CASE Begins(q) \/ Listed(q) \/ Validated(q) \/ Reset(q)
  BY <1>0, <1>a, <1>2, ResultsAreKnown DEF Begins, Listed, Validated, Reset, Judged
<1>3. CASE AppliesBegin(q)
  BY <1>0, <1>a, <1>3, ResultsAreKnown DEF AppliesBegin, Judged
<1>4. CASE Applied(q) \/ Waited(q) \/ PodsListed(q)
  BY <1>0, <1>a, <1>4 DEF Applied, Waited, PodsListed
<1>5. CASE LogsRead(q)
  <2>1. phase[q] = "reading" /\ UNCHANGED <<apply, target, errors>>
    BY <1>5 DEF LogsRead
  <2>2. phase'[q] \in {"polling", "returned"}
    BY <1>5 DEF LogsRead
  <2> QED BY <1>0, <1>a, <2>1, <2>2
<1>6. CASE CommandFails(q)
  BY <1>0, <1>a, <1>6, ResultsAreKnown DEF CommandFails, Rejects, Judged
<1>7. ASSUME NEW w \in Workloads, DelayEnds(q, w) \/ ApplySucceeds(q, w) PROVE ApplyOk(q)'
  BY <1>0, <1>a, <1>7 DEF DelayEnds, ApplySucceeds
<1>8. ASSUME NEW w \in Workloads, ApplyFails(q, w) PROVE ApplyOk(q)'
  BY <1>0, <1>a, <1>8, ResultsAreKnown DEF ApplyFails, Rejects, Judged
<1>9. ASSUME NEW r \in Runs, r # q,
             \/ Begins(r) \/ Listed(r) \/ Validated(r) \/ Reset(r) \/ AppliesBegin(r)
             \/ Applied(r) \/ Waited(r) \/ PodsListed(r) \/ CommandFails(r)
      PROVE  UNCHANGED <<target[q], phase[q], apply[q], errors[q], result[q]>>
  BY <1>9 DEF Begins, Listed, Validated, Reset, AppliesBegin, Applied, Waited, PodsListed,
              CommandFails, Rejects
<1>10. ASSUME NEW r \in Runs, r # q, LogsRead(r)
       PROVE  UNCHANGED <<target[q], phase[q], apply[q], errors[q], result[q]>>
  BY <1>10 DEF LogsRead
<1>11. ASSUME NEW r \in Runs, r # q, NEW w \in Workloads,
              DelayEnds(r, w) \/ ApplySucceeds(r, w) \/ ApplyFails(r, w)
       PROVE  UNCHANGED <<target[q], phase[q], apply[q], errors[q], result[q]>>
  BY <1>11 DEF DelayEnds, ApplySucceeds, ApplyFails, Rejects
<1>12. ASSUME Discovers PROVE UNCHANGED <<target[q], phase[q], apply[q], errors[q], result[q]>>
  BY <1>12 DEF Discovers
<1> QED BY <1>1, <1>2, <1>3, <1>4, <1>5, <1>6, <1>7, <1>8, <1>9, <1>10, <1>11, <1>12,
           StepIsAnAction

-----------------------------------------------------------------------------
LEMMA InitiallyOrdered == Init => TypeOK /\ Order
<1> SUFFICES ASSUME Init PROVE TypeOK /\ Order
  OBVIOUS
<1>1. NoPod \in Pods
  BY DEF NoPod, Pod, Pods, PodStates
<1>2. TypeOK
  BY <1>1, ResultsAreKnown DEF Init, TypeOK, Phases, Applies
<1>3. ResultOrder /\ ApplyOrder
  BY ResultsAreKnown DEF Init, ResultOrder, ApplyOrder, Judged, Early, Late
<1> QED BY <1>2, <1>3 DEF Order

LEMMA AlwaysOrdered == Spec => [](TypeOK /\ Order)
<1>1. TypeOK /\ Order /\ [Next]_vars => (TypeOK /\ Order)'
  BY TypesKept, ResultsKept, AppliesKept DEF Order
<1> QED BY <1>1, InitiallyOrdered, PTL DEF Spec

(* Every variable of the platform, its runs and the cluster keeps its type. *)
THEOREM TypeCorrect == Spec => []TypeOK
<1>1. TypeOK /\ Order => TypeOK
  OBVIOUS
<1> QED BY <1>1, AlwaysOrdered, PTL

(* kubernetes-platform.ts:81, 104-109: a run with a failed kubectl command has no
   verdict, whatever runs beside it and whatever applies are still under way, and a
   verdict follows the apply of every workload of its target, for any schedule. *)
THEOREM VerdictsFollowCommands == Spec => []VerdictFollowsItsCommands
<1>1. ASSUME TypeOK, Order PROVE VerdictFollowsItsCommands
  <2>1. \A r \in Runs : Judged(r) => ~errors[r]
    BY <1>1, ResultsAreKnown DEF Order, ResultOrder, Judged
  <2>2. \A r \in Runs : Judged(r) => \A w \in Own(r) : apply[r][w] = "applied"
    BY <1>1 DEF Order, ApplyOrder
  <2> QED BY <2>1, <2>2 DEF VerdictFollowsItsCommands
<1> QED BY <1>1, AlwaysOrdered, PTL

-----------------------------------------------------------------------------
(* Runs that come one by one, as a discovery makes them. *)
Midway == {"validating", "resetting", "namespace", "applying"} \cup Late

AtMostOne == \A q, r \in InFlight : q = r

(* The platform's workloads are those of the run in flight, and of one that has
   been judged the observer has kept them. *)
WorkloadOrder ==
  \A r \in Runs :
    /\ phase[r] \in Midway => known = Own(r)
    /\ phase[r] = "idle" => ~again[r]
    /\ again[r] => judges[r] = Own(r)
    /\ Judged(r) => again[r]

(* The runs whose pods a run may meet after a reset of its own. *)
Makers(r) == {0, r} \cup {q \in Runs : errors[q]}

(* After the reset of a namespace the pods in it are of such runs, and so are
   those that are judged. *)
PodOrder ==
  \A r \in Runs :
    target[r].namespaced =>
      /\ phase[r] \in {"namespace", "applying"} \cup Late =>
           \A w \in Own(r) : pod[w].run \in Makers(r) /\ left[w].run \in Makers(r)
      /\ phase[r] = "reading" \/ Judged(r) => \A w \in Own(r) : snap[r][w].run \in Makers(r)

Alone == Order /\ AtMostOne /\ WorkloadOrder /\ PodOrder

LEMMA NoneInFlight ==
  ASSUME TypeOK, Parallel <= 1, Cardinality(InFlight) < Parallel
  PROVE  \A q \in Runs : phase[q] \in {"idle", "returned"}
<1>1. IsFiniteSet(InFlight)
  BY KubernetesAssumption, FS_Subset DEF InFlight
<1>2. Cardinality(InFlight) \in Nat
  BY <1>1, FS_CardinalityType
<1>3. Cardinality(InFlight) = 0
  BY <1>2, KubernetesAssumption
<1>4. InFlight = {}
  BY <1>1, <1>3, FS_EmptySet
<1> QED BY <1>4 DEF InFlight

(* What a step leaves alone of any other run than the one that takes it, and of
   every run if none takes it. *)
LEMMA OthersAreLeftAlone ==
  ASSUME TypeOK, [Next]_vars, NEW q \in Runs
  PROVE  \/ UNCHANGED <<target[q], phase[q], snap[q], judges[q], again[q], result[q]>>
         \/ \/ Begins(q) \/ Listed(q) \/ Validated(q) \/ Reset(q) \/ AppliesBegin(q)
            \/ Applied(q) \/ Waited(q) \/ PodsListed(q) \/ LogsRead(q) \/ CommandFails(q)
            \/ \E w \in Workloads : ApplyFails(q, w)
<1> USE DEF TypeOK, cluster, asked, observation, Goes
<1>1. CASE Discovers
  BY <1>1 DEF Discovers
<1>2. ASSUME NEW r \in Runs, r # q,
             \/ Begins(r) \/ Listed(r) \/ Validated(r) \/ Reset(r) \/ AppliesBegin(r)
             \/ Applied(r) \/ Waited(r) \/ PodsListed(r) \/ CommandFails(r)
      PROVE  UNCHANGED <<target[q], phase[q], snap[q], judges[q], again[q], result[q]>>
  BY <1>2 DEF Begins, Listed, Validated, Reset, AppliesBegin, Applied, Waited, PodsListed,
              CommandFails, Rejects
<1>3. ASSUME NEW r \in Runs, r # q, LogsRead(r)
      PROVE  UNCHANGED <<target[q], phase[q], snap[q], judges[q], again[q], result[q]>>
  BY <1>3 DEF LogsRead
<1>4. ASSUME NEW r \in Runs, NEW w \in Workloads, r # q,
             ApplyFails(r, w)
      PROVE  UNCHANGED <<target[q], phase[q], snap[q], judges[q], again[q], result[q]>>
  BY <1>4 DEF ApplyFails, Rejects
<1>5. ASSUME NEW r \in Runs, NEW w \in Workloads, DelayEnds(r, w) \/ ApplySucceeds(r, w)
      PROVE  UNCHANGED <<target[q], phase[q], snap[q], judges[q], again[q], result[q]>>
  BY <1>5 DEF DelayEnds, ApplySucceeds
<1> QED BY <1>1, <1>2, <1>3, <1>4, <1>5, StepIsAnAction

LEMMA OneStaysAlone ==
  ASSUME TypeOK, Order, AtMostOne, Parallel <= 1, [Next]_vars
  PROVE  AtMostOne'
<1> USE DEF TypeOK, Goes, InFlight, AtMostOne
<1>1. ASSUME NEW r \in Runs, Begins(r) PROVE AtMostOne'
  <2>1. \A q \in Runs : phase[q] \in {"idle", "returned"}
    BY <1>1, NoneInFlight DEF Begins
  <2> QED BY <1>1, <2>1 DEF Begins
<1>2. ASSUME NEW q \in Runs, phase'[q] \notin {"idle", "returned"},
             ~ \E r \in Runs : Begins(r)
      PROVE  phase[q] \notin {"idle", "returned"}
  BY <1>2, OthersAreLeftAlone
     DEF Listed, Validated, Reset, AppliesBegin, Applied, Waited, PodsListed, LogsRead,
         CommandFails, Rejects, ApplyFails
<1> QED BY <1>1, <1>2

LEMMA WorkloadsKept ==
  ASSUME TypeOK, Order, AtMostOne, WorkloadOrder, Parallel <= 1, [Next]_vars
  PROVE  WorkloadOrder'
<1> DEFINE Mine(r) ==
      /\ phase[r] \in Midway => known = Own(r)
      /\ phase[r] = "idle" => ~again[r]
      /\ again[r] => judges[r] = Own(r)
      /\ Judged(r) => again[r]
<1>0. \A r \in Runs : Mine(r)
  BY DEF WorkloadOrder
<1>a. SUFFICES ASSUME NEW q \in Runs PROVE Mine(q)'
  BY DEF WorkloadOrder
<1>b. Judged(q)' => Judged(q) \/ LogsRead(q)
  BY JudgedByLogs
<1>c. \/ known' = known
      \/ \A r \in Runs : phase[r] \in {"idle", "returned"}
      \/ \E r \in Runs : Listed(r)
  <2>1. ASSUME Discovers PROVE \A r \in Runs : phase[r] \in {"idle", "returned"}
    BY <2>1, NoneInFlight DEF Discovers
  <2> QED BY <2>1, StepIsAnAction
          DEF Begins, Validated, Reset, AppliesBegin, Applied, Waited, PodsListed, LogsRead,
              CommandFails, DelayEnds, ApplySucceeds, ApplyFails
<1> USE DEF TypeOK, Own, Goes, Midway, Late, asked, observation
<1>1. CASE UNCHANGED <<target[q], phase[q], snap[q], judges[q], again[q], result[q]>>
  <2>1. ASSUME phase[q] \in Midway PROVE known' = known
    <3>1. ASSUME NEW r \in Runs, Listed(r) PROVE FALSE
      <4>1. phase[r] = "listing" /\ phase'[r] = "validating"
        BY <3>1 DEF Listed
      <4>2. q \in InFlight /\ r \in InFlight
        BY <2>1, <4>1 DEF InFlight
      <4> QED BY <1>1, <2>1, <4>1, <4>2 DEF AtMostOne
    <3> QED BY <1>c, <2>1, <3>1
  <2> QED BY <1>0, <1>1, <2>1 DEF Judged
<1>2. CASE Begins(q)
  BY <1>0, <1>2, ResultsAreKnown DEF Begins, Judged, Order, ResultOrder
<1>3. CASE Listed(q)
  BY <1>0, <1>3 DEF Listed, Judged
<1>4. CASE Validated(q)
  BY <1>0, <1>b, <1>4 DEF Validated, LogsRead
<1>5. CASE Reset(q) \/ AppliesBegin(q) \/ Applied(q) \/ Waited(q) \/ PodsListed(q)
  BY <1>0, <1>5 DEF Reset, AppliesBegin, Applied, Waited, PodsListed, Judged
<1>6. CASE LogsRead(q)
  <2>1. /\ phase[q] = "reading" /\ UNCHANGED <<known, target>>
        /\ judges' = [judges EXCEPT ![q] = IF again[q] THEN judges[q] ELSE known]
        /\ again' = [again EXCEPT ![q] = TRUE]
    BY <1>6 DEF LogsRead
  <2>2. phase'[q] \in {"returned", "polling"}
    BY <1>6 DEF LogsRead
  <2> QED BY <1>0, <2>1, <2>2
<1>7. CASE CommandFails(q) \/ \E w \in Workloads : ApplyFails(q, w)
  <2>1. UNCHANGED <<known, target, judges, again>>
    BY <1>7 DEF CommandFails, ApplyFails
  <2>2. Judged(q)' => Judged(q)
    BY <1>7, ResultsAreKnown DEF CommandFails, ApplyFails, Rejects, Judged
  <2>3. phase'[q] = phase[q] \/ phase'[q] = "returned"
    BY <1>7 DEF CommandFails, ApplyFails, Rejects
  <2> QED BY <1>0, <2>1, <2>2, <2>3
<1> QED BY <1>1, <1>2, <1>3, <1>4, <1>5, <1>6, <1>7, OthersAreLeftAlone

(* The pods of the cluster change by resets and applies only. *)
LEMMA PodsChange ==
  ASSUME TypeOK, [Next]_vars
  PROVE  \/ \E r \in Runs : Reset(r)
         \/ \E r \in Runs, w \in Workloads : ApplySucceeds(r, w)
         \/ \A w \in Workloads : pod'[w].run = pod[w].run /\ left'[w].run \in {0, left[w].run}
<1>1. ASSUME UNCHANGED cluster
      PROVE  \A w \in Workloads : pod'[w].run = pod[w].run /\ left'[w].run \in {0, left[w].run}
  BY <1>1 DEF cluster
<1>2. ASSUME NEW r \in Runs, \/ Begins(r) \/ Listed(r) \/ Validated(r)
                             \/ AppliesBegin(r) \/ Applied(r) \/ Waited(r) \/ PodsListed(r)
                             \/ CommandFails(r)
      PROVE  UNCHANGED cluster
  BY <1>2 DEF Begins, Listed, Validated, AppliesBegin, Applied, Waited, PodsListed,
              CommandFails, cluster
<1>3. ASSUME NEW r \in Runs, LogsRead(r) PROVE UNCHANGED cluster
  BY <1>3 DEF LogsRead
<1>4. ASSUME NEW r \in Runs, NEW w \in Workloads, DelayEnds(r, w) \/ ApplyFails(r, w)
      PROVE  UNCHANGED cluster
  BY <1>4 DEF DelayEnds, ApplyFails
<1>5. ASSUME Discovers PROVE UNCHANGED cluster
  BY <1>5 DEF Discovers
<1> QED BY <1>1, <1>2, <1>3, <1>4, <1>5, StepIsAnAction

LEMMA PodsKept ==
  ASSUME TypeOK, Alone, Parallel <= 1, [Next]_vars
  PROVE  PodOrder'
<1> DEFINE Fresh(r) == phase[r] \in {"namespace", "applying"} \cup Late =>
                         \A w \in Own(r) : pod[w].run \in Makers(r) /\ left[w].run \in Makers(r)
           Read(r) == phase[r] = "reading" \/ Judged(r) =>
                        \A w \in Own(r) : snap[r][w].run \in Makers(r)
<1>0. /\ \A r \in Runs : target[r].namespaced => Fresh(r) /\ Read(r)
      /\ \A r \in Runs : Own(r) \subseteq Workloads
  BY OwnIsKnown DEF Alone, PodOrder
<1>a. SUFFICES ASSUME NEW q \in Runs, target'[q].namespaced PROVE Fresh(q)' /\ Read(q)'
  BY DEF PodOrder
<1>b. Judged(q)' => Judged(q) \/ phase[q] = "reading"
  BY JudgedByLogs DEF Alone
<1>c. \A r \in Runs : errors[r] => errors'[r]
  <2>1. ASSUME NEW r \in Runs, LogsRead(r) PROVE UNCHANGED errors
    BY <2>1 DEF LogsRead
  <2>2. ASSUME NEW r \in Runs, \/ Begins(r) \/ Listed(r) \/ Validated(r) \/ Reset(r)
                               \/ AppliesBegin(r) \/ Applied(r) \/ Waited(r) \/ PodsListed(r)
        PROVE  UNCHANGED errors
    BY <2>2 DEF Begins, Listed, Validated, Reset, AppliesBegin, Applied, Waited, PodsListed
  <2>3. ASSUME NEW r \in Runs, NEW w \in Workloads, DelayEnds(r, w) \/ ApplySucceeds(r, w)
        PROVE  UNCHANGED errors
    BY <2>3 DEF DelayEnds, ApplySucceeds
  <2>4. ASSUME NEW r \in Runs, CommandFails(r) \/ \E w \in Workloads : ApplyFails(r, w)
        PROVE  UNCHANGED errors \/ errors' = [errors EXCEPT ![r] = TRUE]
    BY <2>4 DEF CommandFails, ApplyFails, Rejects
  <2>5. ASSUME Discovers PROVE UNCHANGED errors
    BY <2>5 DEF Discovers
  <2> QED BY <2>1, <2>2, <2>3, <2>4, <2>5, StepIsAnAction DEF TypeOK
<1>d. target' = target => Makers(q) \subseteq Makers(q)'
  BY <1>c DEF Makers
<1>e. 0 \in Makers(q)' /\ q \in Makers(q)'
  BY DEF Makers
(* What is observed of the pods. *)
<1>1. Read(q)'
  <2> USE DEF TypeOK, Own, Goes, asked, observation
  <2>1. CASE UNCHANGED <<target[q], phase[q], snap[q], result[q]>>
    BY <1>0, <1>a, <1>c, <2>1 DEF Judged, Makers
  <2>2. CASE PodsListed(q)
    <3>1. Late \subseteq Phases /\ "observing" \in Late
      BY DEF Late, Phases
    <3>2. PICK last \in [Own(q) -> {"pod", "left"}] :
            snap' = [snap EXCEPT ![q] =
                       [w \in Workloads |-> IF w \notin Own(q) THEN NoPod
                                            ELSE IF last[w] = "pod" THEN pod[w] ELSE left[w]]]
      BY <2>2 DEF PodsListed
    <3>3. target' = target /\ phase[q] = "observing"
      BY <2>2 DEF PodsListed
    <3>4. \A w \in Own(q) : snap'[q][w] \in {pod[w], left[w]}
      BY <1>0, <3>2
    <3> QED BY <1>0, <1>a, <1>d, <3>1, <3>3, <3>4
  <2>3. CASE LogsRead(q)
    <3>1. target' = target /\ snap' = snap /\ phase[q] = "reading"
      BY <2>3 DEF LogsRead
    <3> QED BY <1>0, <1>a, <1>d, <3>1
  <2>4. CASE Begins(q)
    BY <1>b, <2>4, ResultsAreKnown DEF Begins, Judged, Alone, Order, ResultOrder
  <2>5. CASE \/ Listed(q) \/ Validated(q) \/ Reset(q) \/ AppliesBegin(q) \/ Applied(q)
             \/ Waited(q) \/ CommandFails(q) \/ \E w \in Workloads : ApplyFails(q, w)
    <3>1. target' = target /\ snap' = snap
      BY <2>5 DEF Listed, Validated, Reset, AppliesBegin, Applied, Waited, CommandFails,
                  ApplyFails
    <3>2. phase'[q] = "reading" => phase[q] = "reading"
      BY <2>5 DEF Listed, Validated, Reset, AppliesBegin, Applied, Waited, CommandFails,
                  ApplyFails, Rejects
    <3> QED BY <1>0, <1>a, <1>b, <1>d, <3>1, <3>2
  <2> QED BY <2>1, <2>2, <2>3, <2>4, <2>5, OthersAreLeftAlone
(* The pods there are. *)
<1>2. Fresh(q)'
  <2> USE DEF TypeOK, Own, Goes, asked, observation
  <2> SUFFICES ASSUME phase'[q] \in {"namespace", "applying"} \cup Late
               PROVE  \A w \in Own(q)' : pod'[w].run \in Makers(q)' /\ left'[w].run \in Makers(q)'
    OBVIOUS
  <2>1. CASE Reset(q)
    <3>1. NoPod.run = 0
      BY DEF NoPod, Pod
    <3> QED BY <1>0, <1>a, <1>e, <2>1, <3>1 DEF Reset
  <2>2. CASE ~Reset(q)
    <3>1. /\ phase[q] \in {"namespace", "applying"} \cup Late
          /\ target'[q] = target[q]
      <4> USE DEF Late
      <4>1. ~Begins(q) /\ ~Listed(q) /\ ~Validated(q)
        BY DEF Begins, Listed, Validated
      <4>2. ASSUME AppliesBegin(q) \/ Applied(q) \/ Waited(q) \/ PodsListed(q)
            PROVE  /\ phase[q] \in {"namespace", "applying"} \cup Late
                   /\ target'[q] = target[q]
        BY <4>2 DEF AppliesBegin, Applied, Waited, PodsListed
      <4>3. ASSUME LogsRead(q)
            PROVE  phase[q] \in Late /\ target'[q] = target[q]
        BY <4>3 DEF LogsRead
      <4>4. ~CommandFails(q)
        BY DEF CommandFails, Rejects
      <4>5. ASSUME NEW w \in Workloads, ApplyFails(q, w)
            PROVE  phase'[q] = phase[q] /\ target'[q] = target[q]
        BY <4>5 DEF ApplyFails, Rejects
      <4> QED BY <2>2, <4>1, <4>2, <4>3, <4>4, <4>5, OthersAreLeftAlone
    <3>2. /\ \A w \in Own(q) : pod[w].run \in Makers(q) /\ left[w].run \in Makers(q)
          /\ Own(q)' = Own(q) /\ Makers(q) \subseteq Makers(q)'
      BY <1>0, <1>a, <1>c, <3>1 DEF Makers
    <3>3. q \in InFlight
      BY <3>1 DEF InFlight, Late
    <3>4. ASSUME NEW r \in Runs, Reset(r) PROVE FALSE
      BY <2>2, <3>3, <3>4 DEF Reset, InFlight, Alone, AtMostOne
    <3>5. ASSUME NEW r \in Runs, NEW w \in Workloads, ApplySucceeds(r, w), NEW v \in Own(q)
          PROVE  pod'[v].run \in Makers(q)' /\ left'[v].run \in Makers(q)'
      <4>1. r = q \/ errors[r]
        BY <3>3, <3>5 DEF ApplySucceeds, Alone, Order, ApplyOrder, AtMostOne, InFlight
      <4>2. r \in Makers(q)'
        BY <1>c, <4>1 DEF Makers
      <4>3. left' = left /\ pod'[v].run \in {r, pod[v].run}
        <5>1. /\ left' = left
              /\ pod' = pod \/ pod' = [pod EXCEPT ![w] = Pod("unhealthy", r)]
          BY <3>5 DEF ApplySucceeds, Makes
        <5>2. Pod("unhealthy", r).run = r /\ v \in Workloads
          BY <1>0, <3>5 DEF Pod
        <5> QED BY <5>1, <5>2
      <4> QED BY <3>2, <4>2, <4>3
    <3> QED BY <1>0, <1>e, <3>2, <3>4, <3>5, PodsChange
  <2> QED BY <2>1, <2>2
<1> QED BY <1>1, <1>2

LEMMA AlwaysAlone ==
  ASSUME Parallel <= 1
  PROVE  Spec => [](TypeOK /\ Alone)
<1>1. Init => TypeOK /\ Alone
  <2>1. Init => AtMostOne /\ WorkloadOrder /\ PodOrder
    BY ResultsAreKnown
       DEF Init, AtMostOne, InFlight, WorkloadOrder, PodOrder, Midway, Late, Judged, NoTarget
  <2> QED BY <2>1, InitiallyOrdered DEF Alone
<1>2. TypeOK /\ Alone /\ [Next]_vars => (TypeOK /\ Alone)'
  BY TypesKept, ResultsKept, AppliesKept, OneStaysAlone, WorkloadsKept, PodsKept
     DEF Alone, Order
<1> QED BY <1>1, <1>2, PTL DEF Spec

(* default-platform.ts:69-77: while runs come one by one, each is judged by the
   workloads of its own target, whatever targets the platform ran before. *)
THEOREM JudgedByOwn ==
  ASSUME Parallel <= 1
  PROVE  Spec => []JudgedByItsOwnWorkloads
<1>1. TypeOK /\ Alone => JudgedByItsOwnWorkloads
  BY DEF Alone, WorkloadOrder, JudgedByItsOwnWorkloads
<1> QED BY <1>1, AlwaysAlone, PTL

(* kubernetes-platform.ts:86-95: the reset of a namespace leaves no pod of an
   earlier run to judge by, except of one that was rejected while it applied. *)
THEOREM PodsAreOwn ==
  ASSUME Parallel <= 1
  PROVE  Spec => []VerdictIsOfItsOwnPods
<1>1. TypeOK /\ Alone => VerdictIsOfItsOwnPods
  BY DEF Alone, PodOrder, VerdictIsOfItsOwnPods, Makers
<1> QED BY <1>1, AlwaysAlone, PTL

=============================================================================
