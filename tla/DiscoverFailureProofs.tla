----------------------- MODULE DiscoverFailureProofs -----------------------
(***************************************************************************)
(* What holds of discoverFailure for every number of perturbable phases,   *)
(* every candidate sequence, every target and every setting: its types,    *)
(* the budget, the evidence behind a published race; that a discovery that *)
(* publishes v3 artifacts implements the publication promise; and   *)
(* what of the plan no_failure and the reported scope stand for.           *)
(***************************************************************************)
EXTENDS DiscoverFailure, FiniteSetTheorems, TLAPS

(* From the minimizer's start to the publication. *)
AfterMinimizerStarts ==
  phase \in {"remove", "lower", "final", "verify", "publish", "replay"}
    \/ status = "found_failure"

(* The evidence a discovery has gathered when it reaches a phase. *)
Running == phase # "done" <=> status = "running"

BaselineEvidence ==
  /\ phase = "baseline" => baselines < BaselineRuns
  /\ phase \notin {"baseline", "done"} \/ status = "found_failure"
       => baselines >= BaselineRuns

FreshSearch ==
  phase \in {"baseline", "search"} =>
    repeats = 0 /\ sightings = [s \in Schedules |-> 0]

FailingEvidence ==
  /\ phase = "confirm" => sightings[failing] >= 1 + repeats
  /\ AfterMinimizerStarts => sightings[failing] >= ConfirmationRuns

MinimizedEvidence ==
  /\ phase = "verify" => sightings[best] >= repeats
  /\ options.verified /\ (phase \in {"publish", "replay"} \/ status = "found_failure")
       => sightings[best] >= ConfirmationRuns

ReplayEvidence ==
  options.verified /\ status = "found_failure" => replays >= ReplayRuns

Evidence ==
  /\ Running
  /\ BaselineEvidence
  /\ FreshSearch
  /\ FailingEvidence
  /\ MinimizedEvidence
  /\ ReplayEvidence

-----------------------------------------------------------------------------
(* The least element of a nonempty set of naturals exists: the code's loops
   over an index or a delay always have a next one. *)
LEMMA LeastElement ==
  ASSUME NEW S \in SUBSET Nat, S # {}
  PROVE  Min(S) \in S /\ \A y \in S : Min(S) <= y
<1> DEFINE T == {0 .. n : n \in S}
<1>1. T \in SUBSET FiniteSubsetsOf(Nat)
  <2> SUFFICES ASSUME NEW n \in S PROVE 0 .. n \in FiniteSubsetsOf(Nat)
    OBVIOUS
  <2>1. IsFiniteSet(0 .. n)
    BY FS_Interval
  <2> QED BY <2>1 DEF FiniteSubsetsOf
<1>2. T # {}
  OBVIOUS
<1>3. PICK t \in T : \A u \in T : <<u, t>> \notin StrictSubsetOrdering(Nat)
  <2> HIDE DEF T
  <2> QED BY <1>1, <1>2, FS_StrictSubsetOrderingWellFounded, WFMin
<1>4. PICK x \in S : t = 0 .. x
  OBVIOUS
<1>5. ASSUME NEW y \in S PROVE x <= y
  <2>1. 0 .. y \in T
    OBVIOUS
  <2>2. ~(0 .. y \subseteq 0 .. x /\ 0 .. y # 0 .. x)
    <3>1. x \in Nat /\ y \in Nat
      OBVIOUS
    <3>2. 0 .. x \in SUBSET Nat /\ 0 .. y \in SUBSET Nat
      BY <3>1
    <3>3. <<0 .. y, 0 .. x>> \notin StrictSubsetOrdering(Nat)
      BY <1>3, <1>4, <2>1
    <3> QED BY <3>2, <3>3 DEF StrictSubsetOrdering
  <2>3. CASE y < x
    <3>1. 0 .. y \subseteq 0 .. x
      BY <2>3
    <3>2. x \in 0 .. x /\ x \notin 0 .. y
      BY <2>3
    <3> QED BY <2>2, <3>1, <3>2
  <2> QED BY <2>3
<1>6. QED
  BY <1>5 DEF Min

(* The perturbation a minimizer loop visits next is one it has yet to visit. *)
LEMMA CurrentIsDimension ==
  ASSUME TypeOK, pending # {}
  PROVE  Current \in pending /\ Current \in Dims
<1>1. pending \in SUBSET Dims /\ Dims \in SUBSET Nat
  BY DiscoveryAssumption DEF TypeOK, Dims
<1>2. pending \in SUBSET Nat
  BY <1>1
<1> QED BY <1>1, <1>2, LeastElement DEF Current

(* lowerDelays offers options below the current delay only. *)
LEMMA NextLowerIsLower ==
  ASSUME TypeOK, LowerDelays # {}
  PROVE  /\ NextLower \in DelayOptions
         /\ NextLower \in Delays
         /\ NextLower < best[Current]
<1>1. LowerDelays \in SUBSET DelayOptions /\ DelayOptions \in SUBSET Delays /\
     Delays \in SUBSET Nat
  BY DiscoveryAssumption DEF LowerDelays
<1>2. LowerDelays \in SUBSET Nat
  BY <1>1
<1>3. NextLower \in LowerDelays
  BY <1>2, LeastElement DEF NextLower
<1> QED BY <1>1, <1>3 DEF LowerDelays

(* The result of every run is a RunResult, and the schedule run is one. *)
LEMMA TrialIsSchedule ==
  ASSUME TypeOK, NeedsRun \/ phase = "replay"
  PROVE  Trial \in Schedules
<1> USE DiscoveryAssumption DEF TypeOK
<1>1. CASE phase = "baseline"
  BY <1>1 DEF Trial, Baseline, Schedules
<1>2. CASE phase = "search" /\ ~SearchOver
  <2>1. Untested # {} /\ Untested \in SUBSET DOMAIN Candidates
    BY <1>2 DEF SearchOver, Untested, Planned
  <2>2. DOMAIN Candidates \in SUBSET Nat
    OBVIOUS
  <2>3. Min(Untested) \in DOMAIN Candidates
    BY <2>1, <2>2, LeastElement
  <2>4. Candidates[Min(Untested)] \in Schedules
    BY <2>3
  <2> QED BY <1>2, <2>4 DEF Trial
<1>0. pending # {} => Current \in Dims
  BY CurrentIsDimension
<1>3. CASE phase = "remove" /\ pending # {}
  <2>1. Current \in Dims
    BY <1>0, <1>3
  <2> QED BY <1>3, <2>1 DEF Trial, Schedules
<1>4. CASE phase = "lower" /\ pending # {} /\ LowerDelays # {}
  <2>1. Current \in Dims
    BY <1>0, <1>4
  <2>2. NextLower \in DelayOptions
    BY <1>4, NextLowerIsLower
  <2> QED BY <1>4, <2>1, <2>2 DEF Trial, Schedules
<1>5. CASE phase \in {"confirm", "final", "verify", "replay"}
  BY <1>5 DEF Trial
<1> QED BY <1>1, <1>2, <1>3, <1>4, <1>5 DEF NeedsRun

(* What a platform answers is a result. *)
LEMMA ResultIsTyped ==
  ASSUME TypeOK, NEW s \in Schedules, NEW r \in platform[s]
  PROVE  /\ r \in RunResults
         /\ r.status \in {"workload_failure"} \cup NonFailures
         /\ r.status = "workload_failure" => r.failure \in Failures
         /\ r.status \in Statuses \cup {"healthy", "workload_failure"}
         /\ TerminalStatus(r) \in Statuses
<1>1. r \in RunResults
  BY DiscoveryAssumption DEF TypeOK
<1>2. r.status = "workload_failure" => r.failure \in Failures
  BY <1>1 DEF RunResults, NonFailures
<1>3. r.status \in {"workload_failure"} \cup NonFailures
  BY <1>1 DEF RunResults
<1>4. TerminalStatus(r) \in {"target_unhealthy", "needs_configuration",
                              "execution_error", "cancelled", "inconclusive"}
  <2>1. r.status = "workload_failure" => TerminalStatus(r) = "target_unhealthy"
    BY DEF TerminalStatus
  <2>2. r.status # "workload_failure" /\ r.reset = TRUE
          => TerminalStatus(r) = "needs_configuration"
    BY DEF TerminalStatus
  <2>3. r.reset = FALSE /\ r.status \in {"execution_error", "cancelled"}
          => TerminalStatus(r) = r.status
    BY DEF TerminalStatus
  <2>4. r.reset = FALSE /\ r.status # "workload_failure"
          /\ r.status \notin {"execution_error", "cancelled"}
          => TerminalStatus(r) = "inconclusive"
    BY DEF TerminalStatus
  <2>5. r.reset \in {TRUE, FALSE}
    BY <1>1 DEF RunResults
  <2> QED BY <2>1, <2>2, <2>3, <2>4, <2>5
<1> QED BY <1>1, <1>2, <1>3, <1>4 DEF NonFailures, Statuses

-----------------------------------------------------------------------------
(* Types. *)

(* A run answers for the schedule tried, and is counted. *)
LEMMA RunIsTyped ==
  ASSUME TypeOK, NeedsRun, NEW r, Run(r)
  PROVE  /\ Trial \in Schedules
         /\ r \in platform[Trial]
         /\ r.status = "workload_failure" => r.failure \in Failures
         /\ r.status # "healthy" => TerminalStatus(r) \in Statuses
         /\ r.status \notin {"healthy", "workload_failure"} => r.status \in Statuses
         /\ Fails(r) => r.failure \in Failures
         /\ executions' \in Nat
<1>1. Trial \in Schedules
  BY TrialIsSchedule
<1>2. r \in platform[Trial]
  BY DEF Run
<1>3. executions' \in Nat
  BY DEF Run, TypeOK
<1>4. Fails(r) => r.status = "workload_failure"
  BY DEF Fails, Matches
<1> QED BY <1>1, <1>2, <1>3, <1>4, ResultIsTyped

(* The search's set of tested schedules stays finite, so it can be counted. *)
LEMMA SeenGrows ==
  ASSUME TypeOK, NeedsRun, seen' = seen \cup {Trial}
  PROVE  seen' \in SUBSET Schedules /\ IsFiniteSet(seen') /\ Cardinality(seen') \in Nat
<1>1. Trial \in Schedules
  BY TrialIsSchedule
<1>2. seen \in SUBSET Schedules /\ IsFiniteSet(seen)
  BY DEF TypeOK
<1>3. IsFiniteSet(seen')
  BY <1>2, FS_AddElement
<1> QED BY <1>1, <1>2, <1>3, FS_CardinalityType

(* Every step keeps the types, action by action. *)
LEMMA TypesKept == ASSUME TypeOK, [Next]_vars PROVE TypeOK'
<1> USE DiscoveryAssumption DEF given, searchVars, minimizeVars, resultVars,
      Goto, Return, Phases, Statuses
<1>1. CASE BaselinePasses
  <2>1. NeedsRun
    BY <1>1 DEF BaselinePasses, NeedsRun
  <2>2. PICK r \in platform[Baseline] : BaselinePasses!(r)
    BY <1>1 DEF BaselinePasses
  <2> QED BY <2>1, <2>2, RunIsTyped DEF TypeOK, Run
<1>2. CASE BaselineFails
  <2>1. NeedsRun
    BY <1>2 DEF BaselineFails, NeedsRun
  <2>2. PICK r \in platform[Baseline] : BaselineFails!(r)
    BY <1>2 DEF BaselineFails
  <2> QED BY <2>1, <2>2, RunIsTyped DEF TypeOK, Run
<1>3. CASE CandidatePasses
  <2>1. NeedsRun
    BY <1>3 DEF CandidatePasses, NeedsRun
  <2>2. PICK r \in platform[Trial] : Run(r) /\ r.status = "healthy"
    BY <1>3 DEF CandidatePasses
  <2>3. seen' \in SUBSET Schedules /\ IsFiniteSet(seen') /\ Cardinality(seen') \in Nat
    BY <1>3, <2>1, SeenGrows DEF CandidatePasses
  <2> QED BY <1>3, <2>1, <2>2, <2>3, RunIsTyped DEF TypeOK, CandidatePasses, Run
<1>4. CASE CandidateFails
  <2>1. NeedsRun
    BY <1>4 DEF CandidateFails, NeedsRun
  <2>2. PICK r \in platform[Trial] :
        /\ Run(r)
        /\ r.status = "workload_failure"
        /\ expected' = r.failure
    BY <1>4 DEF CandidateFails
  <2>3. seen' \in SUBSET Schedules /\ IsFiniteSet(seen') /\ Cardinality(seen') \in Nat
    BY <1>4, <2>1, SeenGrows DEF CandidateFails
  <2> QED BY <1>4, <2>1, <2>2, <2>3, RunIsTyped DEF TypeOK, CandidateFails, Run
<1>5. CASE CandidateUnusable
  <2>1. NeedsRun
    BY <1>5 DEF CandidateUnusable, NeedsRun
  <2>2. PICK r \in platform[Trial] :
        /\ Run(r)
        /\ r.status \notin {"healthy", "workload_failure"}
        /\ Return(r.status, explored')
    BY <1>5 DEF CandidateUnusable
  <2>3. seen' \in SUBSET Schedules /\ IsFiniteSet(seen') /\ Cardinality(seen') \in Nat
    BY <1>5, <2>1, SeenGrows DEF CandidateUnusable
  <2> QED BY <1>5, <2>1, <2>2, <2>3, RunIsTyped DEF TypeOK, CandidateUnusable, Run
<1>6. CASE SearchEnds
  BY <1>6, FS_CardinalityType DEF SearchEnds, TypeOK
<1>7. CASE ConfirmationMatches
  <2>1. NeedsRun
    BY <1>7 DEF ConfirmationMatches, NeedsRun, Confirming
  <2>2. PICK r \in platform[Trial] : Run(r) /\ Matches(r) /\ Sighted(r)
    BY <1>7 DEF ConfirmationMatches
  <2> QED BY <1>7, <2>1, <2>2, RunIsTyped DEF TypeOK, ConfirmationMatches, Run, Sighted
<1>8. CASE ConfirmationMismatches
  <2>1. NeedsRun
    BY <1>8 DEF ConfirmationMismatches, NeedsRun, Confirming
  <2>2. PICK r \in platform[Trial] : Run(r) /\ ~Matches(r)
    BY <1>8 DEF ConfirmationMismatches
  <2> QED BY <1>8, <2>1, <2>2, RunIsTyped DEF TypeOK, ConfirmationMismatches, Run
<1>9. CASE SignatureMissing
  BY <1>9 DEF SignatureMissing, TypeOK
<1>10. CASE MinimizerStarts
  BY <1>10 DEF MinimizerStarts, TypeOK, Perturbed
<1>11. CASE FirstMatches
  <2>1. NeedsRun
    BY <1>11 DEF FirstMatches, NeedsRun
  <2>2. PICK r \in platform[Trial] : Run(r) /\ Matches(r) /\ Sighted(r)
    BY <1>11 DEF FirstMatches
  <2> QED BY <1>11, <2>1, <2>2, RunIsTyped DEF TypeOK, FirstMatches, Run, Sighted
<1>12. CASE RemovalTried
  <2>1. NeedsRun
    BY <1>12 DEF RemovalTried, NeedsRun
  <2>2. PICK r \in platform[Trial] : Run(r) /\ Settles(r) /\ Sighted(r)
               /\ best' = IF Fails(r) THEN Trial ELSE best
    BY <1>12 DEF RemovalTried
  <2> QED BY <1>12, <2>1, <2>2, RunIsTyped DEF TypeOK, RemovalTried, Run, Sighted
<1>13. CASE RemovalEnds
  BY <1>13 DEF RemovalEnds, TypeOK, Perturbed
<1>14. CASE LoweringTried
  <2>1. NeedsRun
    BY <1>14 DEF LoweringTried, NeedsRun
  <2>2. PICK r \in platform[Trial] : 
        /\ Run(r) /\ Settles(r) /\ Sighted(r)
        /\ IF Fails(r)
             THEN best' = Trial /\ pending' = pending \ {Current} /\ floor' = 0
             ELSE floor' = NextFloor /\ UNCHANGED <<best, pending>>
    BY <1>14 DEF LoweringTried
  <2>3. Trial[Current] \in Delays
    BY <1>14, <2>1, CurrentIsDimension, TrialIsSchedule DEF LoweringTried, Schedules
  <2> QED BY <1>14, <2>1, <2>2, <2>3, RunIsTyped
          DEF TypeOK, LoweringTried, NextFloor, Run, Sighted
<1>15. CASE LoweringGivesUp
  BY <1>15 DEF LoweringGivesUp, TypeOK
<1>16. CASE LoweringEnds
  BY <1>16 DEF LoweringEnds, TypeOK
<1>17. CASE FinalRunFails
  <2>1. NeedsRun
    BY <1>17 DEF FinalRunFails, NeedsRun
  <2>2. PICK r \in platform[Trial] :
        /\ Run(r)
        /\ Settles(r)
        /\ Sighted(r)
        /\ Fails(r)
        /\ minimizedRun' = r.failure
    BY <1>17 DEF FinalRunFails
  <2> QED BY <1>17, <2>1, <2>2, RunIsTyped DEF TypeOK, FinalRunFails, Run, Sighted,
       AfterFinalRun
<1>18. CASE FinalRunUnstable
  <2>1. NeedsRun
    BY <1>18 DEF FinalRunUnstable, NeedsRun
  <2>2. PICK r \in platform[Trial] : Run(r) /\ Settles(r) /\ ~Fails(r)
    BY <1>18 DEF FinalRunUnstable
  <2> QED BY <1>18, <2>1, <2>2, RunIsTyped DEF TypeOK, FinalRunUnstable, Run
<1>19. CASE VerificationEnds
  BY <1>19 DEF VerificationEnds, TypeOK
<1>20. CASE ReplayMissing
  BY <1>20 DEF ReplayMissing, TypeOK
<1>21. CASE ArtifactRejected
  BY <1>21 DEF ArtifactRejected, TypeOK
<1>22. CASE ArtifactCreated
  BY <1>22 DEF ArtifactCreated, TypeOK
<1>23. CASE ReplayMatches
  BY <1>23 DEF ReplayMatches, TypeOK
<1>24. CASE ReplayDiffers
  BY <1>24 DEF ReplayDiffers, TypeOK
<1>25. CASE ReplaysEnd
  BY <1>25 DEF ReplaysEnd, TypeOK
<1>26. CASE BudgetExhausted
  BY <1>26 DEF BudgetExhausted, TypeOK
<1>27. CASE PlatformThrows
  BY <1>27 DEF PlatformThrows, TypeOK
<1>28. CASE Returned
  BY <1>28 DEF Returned, TypeOK, vars
<1>29. CASE UNCHANGED vars
  BY <1>29 DEF TypeOK, vars
<1> QED
  BY <1>1, <1>2, <1>3, <1>4, <1>5, <1>6, <1>7, <1>8, <1>9, <1>10, <1>11, <1>12, <1>13,
       <1>14, <1>15, <1>16, <1>17, <1>18, <1>19, <1>20, <1>21, <1>22, <1>23, <1>24, <1>25,
       <1>26, <1>27, <1>28, <1>29 DEF Next, Step

LEMMA TypeCorrectAtInit == ASSUME Init PROVE TypeOK
<1>1. Baseline \in Schedules
  BY DiscoveryAssumption DEF Baseline, Schedules
<1> QED BY <1>1, DiscoveryAssumption, FS_EmptySet DEF Init, TypeOK, Phases, Statuses

(* Type correctness of discoverFailure: every variable keeps its type. *)
THEOREM TypeCorrect == Spec => []TypeOK
<1>1. Init => TypeOK
  BY TypeCorrectAtInit
<1> QED BY <1>1, TypesKept, PTL DEF Spec

-----------------------------------------------------------------------------
(* Evidence. *)

(* The budget: the wrapper refuses a run before it counts it. *)
BudgetRespected == Budgeted => executions <= MaxSchedules

LEMMA BudgetIsRespected == Spec => []BudgetRespected
<1> USE DiscoveryAssumption DEF BudgetRespected
<1>1. Init => BudgetRespected
  BY DEF Init
<1>2. ASSUME TypeOK, BudgetRespected, [Next]_vars
      PROVE  BudgetRespected'
  <2>1. ASSUME NEW r, Run(r) PROVE BudgetRespected'
    BY <1>2, <2>1 DEF TypeOK, Run, WithinBudget
  <2>2. ASSUME executions' = executions PROVE BudgetRespected'
    BY <1>2, <2>2
  <2>3. CASE BaselinePasses \/ BaselineFails
    BY <2>1, <2>3 DEF BaselinePasses, BaselineFails
  <2>4. CASE CandidatePasses \/ CandidateFails \/ CandidateUnusable
    BY <2>1, <2>4 DEF CandidatePasses, CandidateFails, CandidateUnusable
  <2>5. CASE ConfirmationMatches \/ ConfirmationMismatches
    BY <2>1, <2>5 DEF ConfirmationMatches, ConfirmationMismatches
  <2>6. CASE FirstMatches \/ RemovalTried \/ LoweringTried
    BY <2>1, <2>6 DEF FirstMatches, RemovalTried, LoweringTried
  <2>7. CASE FinalRunFails \/ FinalRunUnstable
    BY <2>1, <2>7 DEF FinalRunFails, FinalRunUnstable
  <2>8. CASE PlatformThrows
    BY <1>2, <2>8 DEF PlatformThrows, TypeOK, WithinBudget
  <2>9. CASE SearchEnds \/ SignatureMissing \/ MinimizerStarts \/ RemovalEnds
               \/ LoweringGivesUp \/ LoweringEnds \/ VerificationEnds
    BY <2>2, <2>9 DEF SearchEnds, SignatureMissing, MinimizerStarts, RemovalEnds,
      LoweringGivesUp, LoweringEnds, VerificationEnds
  <2>10. CASE ReplayMissing \/ ArtifactRejected \/ ArtifactCreated \/ ReplayMatches
                \/ ReplayDiffers \/ ReplaysEnd \/ BudgetExhausted
    BY <2>2, <2>10 DEF ReplayMissing, ArtifactRejected, ArtifactCreated,
      ReplayMatches, ReplayDiffers, ReplaysEnd, BudgetExhausted
  <2>11. CASE Returned \/ UNCHANGED vars
    BY <2>2, <2>11 DEF Returned, vars
  <2> QED BY <1>2, <2>3, <2>4, <2>5, <2>6, <2>7, <2>8, <2>9, <2>10, <2>11 DEF Next, Step
<1> QED BY <1>1, <1>2, TypeCorrect, PTL DEF Spec

(* A run that matches adds one sighting of its schedule; none is ever lost. *)
LEMMA SightingCounts ==
  ASSUME TypeOK, NeedsRun, NEW r, Run(r), Sighted(r)
  PROVE  /\ \A s \in Schedules : sightings'[s] >= sightings[s]
         /\ Matches(r) => sightings'[Trial] = sightings[Trial] + 1
<1>1. Trial \in Schedules
  BY TrialIsSchedule
<1> QED BY <1>1 DEF TypeOK, Sighted

(* Every step keeps the evidence, action by action. *)
LEMMA EvidenceKept == ASSUME TypeOK, Evidence, [Next]_vars PROVE Evidence'
<1> USE DiscoveryAssumption DEF Evidence, Running, BaselineEvidence, FreshSearch,
      FailingEvidence, MinimizedEvidence, ReplayEvidence, AfterMinimizerStarts,
      given, searchVars, minimizeVars, resultVars, Goto, Return
<1>0. TypeOK'
  BY TypesKept
<1>1. CASE BaselinePasses
  BY <1>1 DEF BaselinePasses, TypeOK, Run
<1>2. CASE BaselineFails
  <2>1. PICK r \in platform[Baseline] : BaselineFails!(r)
    BY <1>2 DEF BaselineFails
  <2>2. TerminalStatus(r) \notin {"running", "found_failure"}
    BY <2>1 DEF TerminalStatus
  <2> QED BY <2>1, <2>2 DEF TypeOK
<1>3. CASE CandidatePasses
  BY <1>3 DEF CandidatePasses, TypeOK, Run
<1>4. CASE CandidateFails
  <2>1. Trial \in Schedules
    BY <1>4, TrialIsSchedule DEF CandidateFails, NeedsRun
  <2> QED BY <1>4, <2>1 DEF TypeOK, CandidateFails, Run
<1>5. CASE CandidateUnusable
  <2>1. PICK r \in platform[Trial] :
             r.status \notin {"healthy", "workload_failure"} /\ Return(r.status, explored')
    BY <1>5 DEF CandidateUnusable
  <2>2. Trial \in Schedules
    BY <1>5, TrialIsSchedule DEF CandidateUnusable, NeedsRun
  <2>3. r.status \notin {"running", "found_failure"}
    BY <2>2, ResultIsTyped DEF NonFailures
  <2> QED BY <1>5, <2>1, <2>3 DEF CandidateUnusable, TypeOK, Run
<1>6. CASE SearchEnds
  BY <1>6 DEF TypeOK, SearchEnds
<1>7. CASE ConfirmationMatches
  <2>1. NeedsRun
    BY <1>7 DEF ConfirmationMatches, NeedsRun, Confirming
  <2>2. PICK r \in platform[Trial] : Run(r) /\ Matches(r) /\ Sighted(r)
    BY <1>7 DEF ConfirmationMatches
  <2>3. sightings'[failing] >= sightings[failing] /\ sightings'[best] >= sightings[best]
    BY <2>1, <2>2, SightingCounts DEF TypeOK
  <2>4. /\ phase = "confirm" => sightings'[failing] = sightings[failing] + 1
        /\ phase = "verify" => sightings'[best] = sightings[best] + 1
    BY <2>1, <2>2, SightingCounts DEF Trial
  <2> QED BY <1>0, <1>7, <2>2, <2>3, <2>4 DEF TypeOK, ConfirmationMatches, Confirming,
       ConfirmationRepeats, NeedsRun, Run
<1>8. CASE ConfirmationMismatches
  BY <1>8 DEF TypeOK, ConfirmationMismatches, Run
<1>9. CASE SignatureMissing
  BY <1>9 DEF TypeOK, SignatureMissing
<1>10. CASE MinimizerStarts
  BY <1>10 DEF TypeOK, MinimizerStarts, NeedsRun, ConfirmationRepeats
<1>11. CASE FirstMatches
  <2>1. NeedsRun
    BY <1>11 DEF FirstMatches, NeedsRun
  <2>2. PICK r \in platform[Trial] : Run(r) /\ Matches(r) /\ Sighted(r)
    BY <1>11 DEF FirstMatches
  <2>3. sightings'[failing] >= sightings[failing] /\ sightings'[best] >= sightings[best]
    BY <2>1, <2>2, SightingCounts DEF TypeOK
  <2> QED BY <1>0, <1>11, <2>2, <2>3 DEF TypeOK, FirstMatches, Run
<1>12. CASE RemovalTried
  <2>1. NeedsRun
    BY <1>12 DEF RemovalTried, NeedsRun
  <2>2. PICK r \in platform[Trial] : Run(r) /\ Settles(r) /\ Sighted(r)
               /\ best' = IF Fails(r) THEN Trial ELSE best
    BY <1>12 DEF RemovalTried
  <2>3. sightings'[failing] >= sightings[failing] /\ sightings'[best] >= sightings[best]
    BY <2>1, <2>2, SightingCounts DEF TypeOK
  <2>4. best' \in Schedules
    BY <1>12, <2>1, <2>2, TrialIsSchedule DEF TypeOK
  <2> QED BY <1>0, <1>12, <2>2, <2>3, <2>4 DEF TypeOK, RemovalTried, Run
<1>13. CASE RemovalEnds
  BY <1>13 DEF TypeOK, RemovalEnds
<1>14. CASE LoweringTried
  <2>1. NeedsRun
    BY <1>14 DEF LoweringTried, NeedsRun
  <2>2. PICK r \in platform[Trial] : 
        /\ Run(r) /\ Settles(r) /\ Sighted(r)
        /\ IF Fails(r)
             THEN best' = Trial /\ pending' = pending \ {Current} /\ floor' = 0
             ELSE floor' = NextFloor /\ UNCHANGED <<best, pending>>
    BY <1>14 DEF LoweringTried
  <2>3. sightings'[failing] >= sightings[failing] /\ sightings'[best] >= sightings[best]
    BY <2>1, <2>2, SightingCounts DEF TypeOK
  <2>4. best' \in Schedules
    BY <1>14, <2>1, <2>2, TrialIsSchedule DEF TypeOK
  <2> QED BY <1>0, <1>14, <2>2, <2>3, <2>4 DEF TypeOK, LoweringTried, Run
<1>15. CASE LoweringGivesUp
  BY <1>15 DEF TypeOK, LoweringGivesUp
<1>16. CASE LoweringEnds
  BY <1>16 DEF TypeOK, LoweringEnds
<1>17. CASE FinalRunFails
  <2>1. NeedsRun
    BY <1>17 DEF FinalRunFails, NeedsRun
  <2>2. PICK r \in platform[Trial] :
        /\ Run(r)
        /\ Settles(r)
        /\ Sighted(r)
        /\ Fails(r)
        /\ minimizedRun' = r.failure
    BY <1>17 DEF FinalRunFails
  <2>3. sightings'[failing] >= sightings[failing] /\ sightings'[best] >= sightings[best]
    BY <2>1, <2>2, SightingCounts DEF TypeOK
  <2> QED BY <1>0, <1>17, <2>2, <2>3 DEF TypeOK, FinalRunFails, AfterFinalRun, Run
<1>18. CASE FinalRunUnstable
  BY <1>18 DEF TypeOK, FinalRunUnstable, Run
<1>19. CASE VerificationEnds
  BY <1>19 DEF TypeOK, VerificationEnds, NeedsRun
<1>20. CASE ReplayMissing
  BY <1>20 DEF TypeOK, ReplayMissing
<1>21. CASE ArtifactRejected
  BY <1>21 DEF TypeOK, ArtifactRejected
<1>22. CASE ArtifactCreated
  BY <1>22 DEF TypeOK, ArtifactCreated
<1>23. CASE ReplayMatches
  BY <1>23 DEF TypeOK, ReplayMatches
<1>24. CASE ReplayDiffers
  BY <1>24 DEF TypeOK, ReplayDiffers
<1>25. CASE ReplaysEnd
  BY <1>25 DEF TypeOK, ReplaysEnd, ReplaysNeeded
<1>26. CASE BudgetExhausted
  BY <1>26 DEF TypeOK, BudgetExhausted
<1>27. CASE PlatformThrows
  BY <1>27 DEF TypeOK, PlatformThrows
<1>28. CASE Returned
  BY <1>28 DEF TypeOK, Returned, vars
<1>29. CASE UNCHANGED vars
  BY <1>29 DEF vars
<1> QED
  BY <1>1, <1>2, <1>3, <1>4, <1>5, <1>6, <1>7, <1>8, <1>9, <1>10, <1>11, <1>12, <1>13,
       <1>14, <1>15, <1>16, <1>17, <1>18, <1>19, <1>20, <1>21, <1>22, <1>23, <1>24, <1>25,
       <1>26, <1>27, <1>28, <1>29 DEF Next, Step

(* The invariant holds of every reachable state. *)
LEMMA EvidenceGathered == Spec => [](TypeOK /\ Evidence)
<1>1. Init => Evidence
  BY DiscoveryAssumption
     DEF Init, Evidence, Running, BaselineEvidence, FreshSearch, FailingEvidence,
       MinimizedEvidence, ReplayEvidence, AfterMinimizerStarts
<1> QED BY <1>1, TypeCorrect, EvidenceKept, PTL DEF Spec

(* Gates 1 to 5 of the README hold of every v3 artifact the code returns. *)
THEOREM PublicationIsSupported == Spec => []PublishedRaceIsSupported
<1>1. TypeOK /\ Evidence => PublishedRaceIsSupported
  BY DEF Evidence, BaselineEvidence, FailingEvidence, MinimizedEvidence,
    ReplayEvidence, AfterMinimizerStarts, PublishedRaceIsSupported, Returns
<1> QED BY <1>1, EvidenceGathered, PTL

-----------------------------------------------------------------------------
(* The minimizer, and the promise. *)

(* What a single result makes the code return is never found_failure. *)
LEMMA ResultIsNoRace ==
  ASSUME TypeOK, NEW s \in Schedules, NEW r \in platform[s]
  PROVE  /\ TerminalStatus(r) \notin {"running", "found_failure"}
         /\ r.status \notin {"running", "found_failure"}
<1>1. r.status \notin {"running", "found_failure"}
  BY ResultIsTyped DEF NonFailures
<1>2. TerminalStatus(r) \notin {"running", "found_failure"}
  BY <1>1 DEF TerminalStatus
<1> QED BY <1>1, <1>2

(* A trial of the minimizer delays nothing for longer than its schedule does. *)
LEMMA TrialIsBelow ==
  ASSUME TypeOK, phase \in {"remove", "lower"}, NeedsRun
  PROVE  \A d \in Dims : Trial[d] <= best[d]
<1> USE DiscoveryAssumption
<1>1. best \in [Dims -> Nat] /\ Current \in Dims
  BY CurrentIsDimension DEF NeedsRun, TypeOK, Schedules
<1>2. CASE phase = "remove"
  <2>1. Trial = [best EXCEPT ![Current] = 0]
    BY <1>2 DEF Trial
  <2> QED BY <1>1, <2>1
<1>3. CASE phase = "lower"
  <2>1. Trial = [best EXCEPT ![Current] = NextLower]
    BY <1>3 DEF Trial
  <2>2. NextLower \in Nat /\ NextLower < best[Current]
    BY <1>3, NextLowerIsLower DEF NeedsRun
  <2> QED BY <1>1, <2>1, <2>2
<1> QED BY <1>2, <1>3

(* The minimizer never adds a perturbation or lengthens a delay: from the
   moment it starts to the publication its schedule stays below the failing
   one (minimize.ts, toSchedule and lowerDelays). *)
MinimizerOnlyReduces ==
  AfterMinimizerStarts => \A d \in Dims : best[d] <= failing[d]

(* Every step of the minimizer and after it stays below the failing schedule. *)
LEMMA ReductionKept ==
  ASSUME TypeOK, Evidence, MinimizerOnlyReduces, [Next]_vars
  PROVE  MinimizerOnlyReduces'
<1> USE DiscoveryAssumption DEF MinimizerOnlyReduces, AfterMinimizerStarts,
      given, searchVars, minimizeVars, resultVars, Goto, Return
<1>0. best \in [Dims -> Nat] /\ failing \in [Dims -> Nat]
  BY DEF TypeOK, Schedules
<1>1. ASSUME best' = best, failing' = failing,
             AfterMinimizerStarts' => AfterMinimizerStarts
      PROVE  MinimizerOnlyReduces'
  BY <1>1
<1>2. ASSUME phase \in {"remove", "lower"}, NeedsRun, best' \in {best, Trial},
             failing' = failing
      PROVE  MinimizerOnlyReduces'
  <2>1. \A d \in Dims : Trial[d] <= best[d] /\ Trial[d] \in Nat
    BY <1>2, TrialIsBelow, TrialIsSchedule DEF Schedules
  <2> QED BY <1>0, <1>2, <2>1
<1>3. CASE MinimizerStarts
  BY <1>0, <1>3 DEF MinimizerStarts
<1>4. CASE RemovalTried
  BY <1>2, <1>4 DEF RemovalTried, NeedsRun
<1>5. CASE LoweringTried
  BY <1>2, <1>5 DEF LoweringTried, NeedsRun
<1>6. CASE BaselinePasses \/ BaselineFails
  <2>1. \A r \in platform[Baseline] : TerminalStatus(r) # "found_failure"
    BY ResultIsNoRace DEF Baseline, Schedules
  <2> QED BY <1>6, <2>1 DEF BaselinePasses, BaselineFails, Evidence, Running
<1>7. CASE CandidatePasses \/ CandidateFails
  BY <1>7 DEF CandidatePasses, CandidateFails, Evidence, Running
<1>8. CASE CandidateUnusable
  <2>1. Trial \in Schedules
    BY <1>8, TrialIsSchedule DEF CandidateUnusable, NeedsRun
  <2>2. \A r \in platform[Trial] : r.status # "found_failure"
    BY <2>1, ResultIsNoRace
  <2> QED BY <1>8, <2>2 DEF CandidateUnusable
<1>9. CASE SearchEnds \/ ConfirmationMismatches \/ SignatureMissing \/ FinalRunUnstable
             \/ ReplayMissing \/ ArtifactRejected \/ ReplayDiffers
             \/ BudgetExhausted \/ PlatformThrows
  BY <1>9 DEF SearchEnds, ConfirmationMismatches, SignatureMissing, FinalRunUnstable,
    ReplayMissing, ArtifactRejected, ReplayDiffers, BudgetExhausted, PlatformThrows
<1>10. CASE ConfirmationMatches \/ FirstMatches \/ RemovalEnds \/ LoweringGivesUp
              \/ LoweringEnds \/ VerificationEnds \/ ReplayMatches
  BY <1>1, <1>10 DEF ConfirmationMatches, FirstMatches, RemovalEnds, LoweringGivesUp,
    LoweringEnds, VerificationEnds, ReplayMatches
<1>11. CASE FinalRunFails \/ ArtifactCreated \/ ReplaysEnd
  BY <1>1, <1>11 DEF FinalRunFails, ArtifactCreated, ReplaysEnd
<1>12. CASE Returned \/ UNCHANGED vars
  BY <1>1, <1>12 DEF Returned, vars
<1> QED
  BY <1>3, <1>4, <1>5, <1>6, <1>7, <1>8, <1>9, <1>10, <1>11, <1>12 DEF Next, Step

(* Minimization never adds a perturbation or lengthens a delay. *)
THEOREM MinimizationReduces == Spec => []MinimizerOnlyReduces
<1>1. Init => MinimizerOnlyReduces
  BY DEF Init, MinimizerOnlyReduces, AfterMinimizerStarts
<1> QED BY <1>1, ReductionKept, EvidenceGathered, PTL DEF Spec


(* Every step of a discovery that publishes v3 artifacts only is a step of the
   promise: a healthy baseline, a sighting, a reproduction, the publication or
   its refusal; every other step changes nothing the promise speaks of. *)
LEMMA StepKeepsPromise ==
  ASSUME TypeOK, Evidence, MinimizerOnlyReduces, options.verified, [Next]_vars
  PROVE  [Promise!Next]_(Promise!vars)
<1> USE DiscoveryAssumption DEF Promise!vars, given, searchVars, minimizeVars,
      resultVars, Goto, Return
<1>1. ASSUME NEW s \in Schedules, status = "running", baselines >= BaselineRuns,
             sightings' = [sightings EXCEPT ![s] = @ + 1], replays' = replays,
             baselines' = baselines, status' = status
      PROVE  Promise!Next
  <2>1. Promise!Sight(s)
    BY <1>1 DEF Promise!Sight
  <2> QED BY <2>1 DEF Promise!Next
<1>2. ASSUME status = "running", status' \notin {"running", "found_failure"},
             UNCHANGED <<baselines, sightings, replays>>
      PROVE  Promise!Next
  BY <1>2 DEF Promise!Next, Promise!Withhold
<1>3. ASSUME status # "found_failure", UNCHANGED <<baselines, sightings, replays, status>>
      PROVE  UNCHANGED Promise!vars
  BY <1>3
<1>4. ASSUME NeedsRun, NEW r, Run(r), Sighted(r), baselines >= BaselineRuns,
             status = "running", UNCHANGED <<baselines, replays, status>>
      PROVE  [Promise!Next]_(Promise!vars)
  <2>1. CASE Matches(r)
    BY <1>1, <1>4, <2>1, TrialIsSchedule DEF Sighted
  <2>2. CASE ~Matches(r)
    BY <1>3, <1>4, <2>2 DEF Sighted
  <2> QED BY <2>1, <2>2
<1>5. CASE BaselinePasses
  <2>1. Promise!PassBaseline
    BY <1>5 DEF BaselinePasses, Promise!PassBaseline, Evidence, Running
  <2> QED BY <2>1 DEF Promise!Next
<1>6. CASE BaselineFails
  <2>1. \A r \in platform[Baseline] : TerminalStatus(r) \notin {"running", "found_failure"}
    BY ResultIsNoRace DEF Baseline, Schedules
  <2> QED BY <1>2, <1>6, <2>1 DEF BaselineFails, Evidence, Running
<1>7. CASE CandidatePasses
  BY <1>3, <1>7 DEF CandidatePasses, Evidence, Running
<1>8. CASE CandidateFails
  <2>1. Trial \in Schedules
    BY <1>8, TrialIsSchedule DEF CandidateFails, NeedsRun
  <2>2. sightings[Trial] = 0
    BY <1>8, <2>1 DEF CandidateFails, Evidence, FreshSearch
  <2>3. sightings' = [sightings EXCEPT ![Trial] = @ + 1]
    BY <1>8, <2>2 DEF CandidateFails
  <2> QED BY <1>1, <1>8, <2>1, <2>3
          DEF CandidateFails, Evidence, Running, BaselineEvidence
<1>9. CASE CandidateUnusable
  <2>1. Trial \in Schedules
    BY <1>9, TrialIsSchedule DEF CandidateUnusable, NeedsRun
  <2>2. \A r \in platform[Trial] : r.status \notin {"running", "found_failure"}
    BY <2>1, ResultIsNoRace
  <2> QED BY <1>2, <1>9, <2>2 DEF CandidateUnusable, Evidence, Running
<1>10. CASE ConfirmationMatches
  BY <1>4, <1>10 DEF ConfirmationMatches, Confirming, Evidence, Running, BaselineEvidence
<1>11. CASE FirstMatches
  BY <1>4, <1>11 DEF FirstMatches, Evidence, Running, BaselineEvidence
<1>12. CASE RemovalTried
  BY <1>4, <1>12 DEF RemovalTried, NeedsRun, Evidence, Running, BaselineEvidence
<1>13. CASE LoweringTried
  BY <1>4, <1>13 DEF LoweringTried, NeedsRun, Evidence, Running, BaselineEvidence
<1>14. CASE FinalRunFails
  BY <1>4, <1>14 DEF FinalRunFails, NeedsRun, Evidence, Running, BaselineEvidence
<1>15. CASE SearchEnds \/ ConfirmationMismatches \/ SignatureMissing \/ FinalRunUnstable
              \/ ReplayMissing \/ ArtifactRejected \/ ReplayDiffers \/ BudgetExhausted
  BY <1>2, <1>15 DEF SearchEnds, ConfirmationMismatches, Confirming, SignatureMissing,
    FinalRunUnstable, ReplayMissing, ArtifactRejected, ReplayDiffers, BudgetExhausted,
    NeedsRun, Evidence, Running
<1>16. CASE PlatformThrows
  BY <1>2, <1>16 DEF PlatformThrows, NeedsRun, Evidence, Running
<1>17. CASE MinimizerStarts \/ RemovalEnds \/ LoweringGivesUp \/ LoweringEnds
              \/ VerificationEnds
  BY <1>3, <1>17 DEF MinimizerStarts, RemovalEnds, LoweringGivesUp, LoweringEnds,
    VerificationEnds, Evidence, Running
<1>18. CASE ArtifactCreated
  BY <1>3, <1>18 DEF ArtifactCreated, Evidence, Running
<1>19. CASE ReplayMatches
  <2>1. Promise!Reproduce(best)
    BY <1>19 DEF ReplayMatches, Promise!Reproduce, Evidence, Running, MinimizedEvidence
  <2>2. best \in Schedules
    BY DEF TypeOK
  <2> QED BY <2>1, <2>2 DEF Promise!Next
<1>20. CASE ReplaysEnd
  <2>1. failing \in Schedules /\ best \in Schedules
    BY DEF TypeOK
  <2>2. Promise!AtMost(best, failing)
    BY <1>20 DEF ReplaysEnd, MinimizerOnlyReduces, AfterMinimizerStarts, Promise!AtMost
  <2>3. Promise!Publish(failing, best)
    BY <1>20, <2>2 DEF ReplaysEnd, ReplaysNeeded, Promise!Publish, Evidence, Running,
      BaselineEvidence, FailingEvidence, AfterMinimizerStarts, MinimizedEvidence
  <2> QED BY <2>1, <2>3 DEF Promise!Next
<1>21. CASE Returned \/ UNCHANGED vars
  BY <1>21 DEF Returned, vars
<1> QED
  BY <1>5, <1>6, <1>7, <1>8, <1>9, <1>10, <1>11, <1>12, <1>13, <1>14, <1>15, <1>16,
     <1>17, <1>18, <1>19, <1>20, <1>21 DEF Next, Step

(* Where callers ask for v3 artifacts only, as onboarding.ts:118-129 does, the code
   of discoverFailure implements the publication promise. *)
THEOREM DiscoveryKeepsPromise ==
  ASSUME \A o \in Options : o.verified
  PROVE  Spec => KeepsPromise
<1>1. Init => Promise!Init
  BY DEF Init, Promise!Init
<1>2. TypeOK => options.verified
  BY DEF TypeOK
<1>3. TypeOK /\ Evidence /\ MinimizerOnlyReduces /\ [Next]_vars
        => [Promise!Next]_(Promise!vars)
  BY <1>2, StepKeepsPromise
<1> QED
  BY <1>1, <1>3, EvidenceGathered, MinimizationReduces, PTL
     DEF Spec, KeepsPromise, Promise!Spec

-----------------------------------------------------------------------------
(* No step changes the target or what the caller asked for. *)
LEMMA TargetKept ==
  ASSUME [Next]_vars
  PROVE  platform' = platform /\ options' = options
<1> USE DEF given
<1>1. ASSUME NEW r, Run(r) PROVE UNCHANGED given
  BY <1>1 DEF Run
<1>2. CASE Returned \/ UNCHANGED vars
  BY <1>2 DEF Returned, vars
<1>3. CASE BaselinePasses \/ BaselineFails \/ CandidatePasses \/ CandidateFails
             \/ CandidateUnusable \/ ConfirmationMatches \/ ConfirmationMismatches
  BY <1>1, <1>3
     DEF BaselinePasses, BaselineFails, CandidatePasses, CandidateFails,
         CandidateUnusable, ConfirmationMatches, ConfirmationMismatches
<1>4. CASE FirstMatches \/ RemovalTried \/ LoweringTried \/ FinalRunFails
             \/ FinalRunUnstable
  BY <1>1, <1>4
     DEF FirstMatches, RemovalTried, LoweringTried, FinalRunFails, FinalRunUnstable
<1> QED
  BY <1>2, <1>3, <1>4
     DEF Next, Step, SearchEnds, SignatureMissing, MinimizerStarts, RemovalEnds,
         LoweringGivesUp, LoweringEnds, VerificationEnds, ReplayMissing,
         ArtifactRejected, ArtifactCreated, ReplayMatches, ReplayDiffers, ReplaysEnd,
         BudgetExhausted, PlatformThrows

-----------------------------------------------------------------------------
(* The scope of a search. *)

(* A budget that stops the search is one the wrapper has stopped before: each
   baseline and each candidate has been charged. *)
RunsAreCharged == executions >= baselines + Cardinality(seen)

(* Whatever the search has run and gone on from can be healthy. *)
SeenWereHealthy ==
  phase = "search" \/ status = "no_failure" =>
    \A s \in seen : \E r \in platform[s] : r.status = "healthy"

NothingSeenYet == phase = "baseline" => seen = {}

PlanIsExhausted == status = "no_failure" => Untested = {}

ScopeIsKnown ==
  /\ phase \notin {"baseline", "search", "done"} => explored = Cardinality(seen)
  /\ status \in {"no_failure", "found_failure"} => reported = Cardinality(seen)

SearchScope ==
  /\ RunsAreCharged
  /\ SeenWereHealthy
  /\ NothingSeenYet
  /\ PlanIsExhausted
  /\ ScopeIsKnown

(* The candidate the search tries next is one it has not seen, and running it
   makes one more. *)
LEMMA CandidateIsCounted ==
  ASSUME TypeOK, phase = "search", ~SearchOver, seen' = seen \cup {Trial}
  PROVE  /\ Trial \in Schedules
         /\ IsFiniteSet(seen') /\ Cardinality(seen') \in Nat
         /\ Cardinality(seen') <= Cardinality(seen) + 1
<1>1. NeedsRun
  BY DEF NeedsRun
<1>2. IsFiniteSet(seen)
  BY DEF TypeOK
<1>3. Cardinality(seen') = IF Trial \in seen THEN Cardinality(seen)
                                             ELSE Cardinality(seen) + 1
  BY <1>2, FS_AddElement
<1>4. Cardinality(seen) \in Nat
  BY <1>2, FS_CardinalityType
<1> QED BY <1>1, <1>3, <1>4, TrialIsSchedule, SeenGrows

(* The search's own limit never ends it: the budget has been spent before. *)
LEMMA SearchOverIsExhaustion ==
  ASSUME TypeOK, Evidence, BudgetRespected, RunsAreCharged, phase = "search", SearchOver
  PROVE  Untested = {}
<1>1. baselines >= 1
  BY DiscoveryAssumption DEF Evidence, BaselineEvidence, TypeOK
<1>2. Cardinality(seen) \in Nat
  BY FS_CardinalityType DEF TypeOK
<1> QED
  BY <1>1, <1>2, DiscoveryAssumption
     DEF SearchOver, BudgetRespected, RunsAreCharged, TypeOK

(* What a discovery returns of its own accord is neither of the two. *)
Verdictless == {"target_unhealthy", "needs_configuration", "execution_error",
                "inconclusive", "cancelled", "throws"}

(* Every step keeps the scope, action by action. *)
LEMMA ScopeKept ==
  ASSUME TypeOK, Evidence, BudgetRespected, SearchScope, [Next]_vars
  PROVE  SearchScope'
<1> USE DiscoveryAssumption DEF SearchScope, RunsAreCharged, SeenWereHealthy,
      NothingSeenYet, PlanIsExhausted, ScopeIsKnown, Goto, Return
<1>0. /\ Cardinality(seen) \in Nat
      /\ executions \in Nat /\ baselines \in Nat
      /\ phase # "done" <=> status = "running"
  BY FS_CardinalityType DEF TypeOK, Evidence, Running
<1>1. ASSUME UNCHANGED <<given, baselines, seen, explored>>,
             phase \notin {"baseline", "search", "done"},
             phase' \notin {"baseline", "search"},
             executions' \in {executions, executions + 1},
             phase' # "done" => status' = status,
             phase' = "done" => reported' = explored /\ status' # "no_failure"
      PROVE  SearchScope'
  BY <1>0, <1>1 DEF given
<1>2. ASSUME UNCHANGED <<given, seen>>, phase \in {"baseline", "search"},
             executions' >= baselines' + Cardinality(seen),
             phase' = "done", status' \in Verdictless
      PROVE  SearchScope'
  BY <1>0, <1>2 DEF given, Verdictless
<1>3. CASE BaselinePasses
  <2>1. PICK r \in platform[Baseline] : BaselinePasses!(r)
    BY <1>3 DEF BaselinePasses
  <2> QED BY <1>0, <1>3, <2>1 DEF searchVars, resultVars, given, Run, Untested, Planned
<1>4. CASE BaselineFails
  <2>1. PICK r \in platform[Baseline] : BaselineFails!(r)
    BY <1>4 DEF BaselineFails
  <2>2. TerminalStatus(r) \in Verdictless
    BY <2>1 DEF TerminalStatus, Verdictless
  <2> QED BY <1>0, <1>2, <2>1, <2>2 DEF searchVars, Run
<1>5. CASE CandidatePasses
  <2>1. PICK r \in platform[Trial] : Run(r) /\ r.status = "healthy"
    BY <1>5 DEF CandidatePasses
  <2>2. Cardinality(seen') <= Cardinality(seen) + 1 /\ Cardinality(seen') \in Nat
    BY <1>5, CandidateIsCounted DEF CandidatePasses
  <2> QED BY <1>0, <1>5, <2>1, <2>2 DEF CandidatePasses, Run, given, resultVars
<1>6. CASE CandidateFails
  <2>1. PICK r \in platform[Trial] : Run(r)
    BY <1>6 DEF CandidateFails
  <2>2. Cardinality(seen') <= Cardinality(seen) + 1 /\ Cardinality(seen') \in Nat
    BY <1>6, CandidateIsCounted DEF CandidateFails
  <2> QED BY <1>0, <1>6, <2>1, <2>2 DEF CandidateFails, Run, given, resultVars
<1>7. CASE CandidateUnusable
  <2>1. PICK r \in platform[Trial] :
          /\ Run(r)
          /\ r.status \notin {"healthy", "workload_failure"}
          /\ Return(r.status, explored')
    BY <1>7 DEF CandidateUnusable
  <2>2. Cardinality(seen') <= Cardinality(seen) + 1 /\ Cardinality(seen') \in Nat
        /\ Trial \in Schedules
    BY <1>7, CandidateIsCounted DEF CandidateUnusable
  <2>3. r.status \in NonFailures
    BY <2>1, <2>2, ResultIsTyped
  <2>4. status' \notin {"no_failure", "found_failure"}
    BY <2>1, <2>3 DEF NonFailures
  <2> QED BY <1>0, <1>7, <2>1, <2>2, <2>4 DEF CandidateUnusable, Run, given
<1>8. CASE SearchEnds
  <2>1. Untested = {}
    BY <1>8, SearchOverIsExhaustion DEF SearchEnds
  <2>2. Untested' = Untested
    BY <1>8 DEF SearchEnds, given, Untested, Planned
  <2> QED BY <1>0, <1>8, <2>1, <2>2 DEF SearchEnds, given
<1>9. CASE ConfirmationMatches \/ ConfirmationMismatches \/ FirstMatches \/ RemovalTried
             \/ LoweringTried \/ FinalRunFails \/ FinalRunUnstable
  BY <1>1, <1>9
     DEF ConfirmationMatches, ConfirmationMismatches, Confirming, FirstMatches,
         RemovalTried, LoweringTried, FinalRunFails, FinalRunUnstable, AfterFinalRun,
         Run, searchVars, minimizeVars, resultVars
<1>10. CASE SignatureMissing \/ MinimizerStarts \/ RemovalEnds \/ LoweringGivesUp
              \/ LoweringEnds \/ VerificationEnds
  BY <1>1, <1>10
     DEF SignatureMissing, MinimizerStarts, RemovalEnds, LoweringGivesUp, LoweringEnds,
         VerificationEnds, searchVars, minimizeVars, resultVars
<1>11. CASE ReplayMissing \/ ArtifactRejected \/ ArtifactCreated \/ ReplayMatches
              \/ ReplayDiffers \/ ReplaysEnd
  BY <1>1, <1>11
     DEF ReplayMissing, ArtifactRejected, ArtifactCreated, ReplayMatches, ReplayDiffers,
         ReplaysEnd, searchVars, minimizeVars, resultVars
<1>12. CASE BudgetExhausted \/ PlatformThrows
  <2>1. UNCHANGED <<given, baselines, seen, explored>> /\ phase # "done"
        /\ phase' = "done" /\ status' \in {"inconclusive", "throws"}
        /\ reported' = explored /\ executions' \in {executions, executions + 1}
    BY <1>12 DEF BudgetExhausted, PlatformThrows, NeedsRun, given, searchVars
  <2>2. CASE phase \in {"baseline", "search"}
    BY <1>0, <1>2, <2>1, <2>2 DEF Verdictless
  <2>3. CASE phase \notin {"baseline", "search"}
    BY <1>1, <2>1, <2>3
  <2> QED BY <2>2, <2>3
<1>13. CASE Returned \/ UNCHANGED vars
  BY <1>13 DEF Returned, vars, Untested, Planned
<1> QED
  BY <1>3, <1>4, <1>5, <1>6, <1>7, <1>8, <1>9, <1>10, <1>11, <1>12, <1>13
     DEF Next, Step

(* The scope is known in every reachable state. *)
LEMMA ScopeHolds == Spec => [](TypeOK /\ SearchScope)
<1>1. Init => SearchScope
  BY FS_EmptySet
     DEF Init, SearchScope, RunsAreCharged, SeenWereHealthy, NothingSeenYet,
         PlanIsExhausted, ScopeIsKnown
<1> QED BY <1>1, TypeCorrect, EvidenceGathered, BudgetIsRespected, ScopeKept, PTL DEF Spec

(* no_failure is returned only when every planned candidate has been run, and
   each of them can be healthy: neither the budget, the limit of the search nor
   the skipping of repeated schedules leaves one out. *)
THEOREM NoFailureIsProved == Spec => []NoFailureIsExhaustive
<1>1. TypeOK /\ SearchScope => NoFailureIsExhaustive
  BY DEF SearchScope, PlanIsExhausted, SeenWereHealthy, NoFailureIsExhaustive, Returns,
         Untested
<1> QED BY <1>1, ScopeHolds, PTL

(* The explored count of a conclusive result is that of the search, whatever was
   run after it. *)
THEOREM ScopeIsReported == Spec => []ConclusiveScopeIsReported
<1>1. TypeOK /\ SearchScope => ConclusiveScopeIsReported
  BY DEF SearchScope, ScopeIsKnown, ConclusiveScopeIsReported, Returns
<1> QED BY <1>1, ScopeHolds, PTL

(* A search is begun only where the target has been seen healthy undelayed. *)
BaselineWasHealthy ==
  /\ baselines >= 1 => \E r \in platform[Baseline] : r.status = "healthy"
  /\ status = "no_failure" => baselines >= 1

LEMMA BaselineHealthKept ==
  ASSUME TypeOK, Evidence, BaselineWasHealthy, [Next]_vars
  PROVE  BaselineWasHealthy'
<1> USE DiscoveryAssumption DEF BaselineWasHealthy, Goto, Return
<1>0. platform' = platform /\ Baseline' = Baseline
  BY TargetKept DEF Baseline
<1>1. CASE BaselinePasses
  <2>1. \E r \in platform[Baseline] : r.status = "healthy"
    BY <1>1 DEF BaselinePasses
  <2>2. status' # "no_failure"
    BY <1>1 DEF BaselinePasses, Evidence, Running, resultVars
  <2> QED BY <1>0, <2>1, <2>2
<1>2. CASE ~BaselinePasses
  <2>1. baselines' = baselines
    BY <1>2
       DEF Next, Step, vars, Returned, BaselineFails, CandidatePasses, CandidateFails,
           CandidateUnusable, SearchEnds, ConfirmationMatches, ConfirmationMismatches,
           SignatureMissing, MinimizerStarts, FirstMatches, RemovalTried, RemovalEnds,
           LoweringTried, LoweringGivesUp, LoweringEnds, FinalRunFails,
           FinalRunUnstable, VerificationEnds, ReplayMissing, ArtifactRejected,
           ArtifactCreated, ReplayMatches, ReplayDiffers, ReplaysEnd, BudgetExhausted,
           PlatformThrows
  <2>2. CASE SearchEnds
    <3>1. baselines >= 1
      BY <2>2 DEF SearchEnds, Evidence, BaselineEvidence, TypeOK
    <3> QED BY <1>0, <2>1, <3>1
  <2>3. CASE BaselineFails
    <3>1. PICK r \in platform[Baseline] : r.status # "healthy" /\ status' = TerminalStatus(r)
      BY <2>3 DEF BaselineFails
    <3>2. TerminalStatus(r) \in Verdictless
      BY <3>1 DEF TerminalStatus, Verdictless
    <3>3. status' # "no_failure"
      BY <3>1, <3>2 DEF Verdictless
    <3> QED BY <1>0, <2>1, <3>3
  <2>4. CASE CandidateUnusable
    <3>1. PICK r \in platform[Trial] : status' = r.status
      BY <2>4 DEF CandidateUnusable
    <3>2. r.status # "no_failure"
      BY <2>4, <3>1, TrialIsSchedule, ResultIsTyped
         DEF CandidateUnusable, NeedsRun, NonFailures
    <3> QED BY <1>0, <2>1, <3>1, <3>2
  <2>5. CASE ~(SearchEnds \/ BaselineFails \/ CandidateUnusable)
    <3>1. status' = status \/ status' # "no_failure"
      BY <1>2, <2>5
         DEF Next, Step, vars, resultVars, Returned, CandidatePasses, CandidateFails,
             ConfirmationMatches, ConfirmationMismatches, SignatureMissing,
             MinimizerStarts, FirstMatches, RemovalTried, RemovalEnds, LoweringTried,
             LoweringGivesUp, LoweringEnds, FinalRunFails, FinalRunUnstable,
             VerificationEnds, ReplayMissing, ArtifactRejected, ArtifactCreated,
             ReplayMatches, ReplayDiffers, ReplaysEnd, BudgetExhausted, PlatformThrows
    <3> QED BY <1>0, <2>1, <3>1
  <2> QED BY <2>2, <2>3, <2>4, <2>5
<1> QED BY <1>1, <1>2

(* The plan has every way to delay the target by the options, none left out: the
   full stage of the planner, and generateCandidates. *)
GridIsPlanned ==
  \A s \in [Dims -> DelayOptions] \ {Baseline} : \E i \in DOMAIN Candidates : Candidates[i] = s

(* Of a plan that has the grid, no_failure says that each of its schedules was
   tested and can be healthy, the empty one by the baseline runs. *)
THEOREM GridIsCovered == ASSUME GridIsPlanned PROVE Spec => []NoFailureCoversTheGrid
<1>1. Init => BaselineWasHealthy
  BY DEF Init, BaselineWasHealthy
<1>2. ASSUME TypeOK, SearchScope, BaselineWasHealthy, Returns("no_failure"),
             NEW s \in [Dims -> DelayOptions], s # Baseline
      PROVE  s \in seen /\ \E r \in platform[s] : r.status = "healthy"
  <2>1. PICK i \in DOMAIN Candidates : Candidates[i] = s
    BY <1>2 DEF GridIsPlanned
  <2>2. PICK d \in Dims : s[d] # 0
    BY <1>2 DEF Baseline
  <2>3. Perturbed(s) # {}
    <3>1. DelayOptions \subseteq Nat
      BY DiscoveryAssumption
    <3>2. s[d] \in Nat
      BY <3>1
    <3>3. s[d] > 0
      BY <2>2, <3>2
    <3> QED BY <3>3 DEF Perturbed
  <2>4. i \in Planned
    BY <2>1, <2>3 DEF Planned
  <2>5. s \in seen
    BY <1>2, <2>1, <2>4 DEF SearchScope, PlanIsExhausted, Untested, Returns
  <2> QED BY <1>2, <2>5 DEF SearchScope, SeenWereHealthy, Returns
<1>3. TypeOK /\ SearchScope /\ BaselineWasHealthy => NoFailureCoversTheGrid
  BY <1>2 DEF NoFailureCoversTheGrid, BaselineWasHealthy, Returns
<1> QED
  BY <1>1, <1>3, ScopeHolds, EvidenceGathered, BaselineHealthKept, PTL DEF Spec

=============================================================================
