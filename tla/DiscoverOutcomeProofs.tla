----------------------- MODULE DiscoverOutcomeProofs -----------------------
(***************************************************************************)
(* What a discovery owes a target whose startup is a race, for every value *)
(* of the constants: a published schedule is minimal; a failure that is    *)
(* there is found unless the budget runs out, the simplest first;          *)
(* no_failure of a planned grid rules out every failure within the delays; *)
(* no step leaves a discovery where it was; and how many physical runs it  *)
(* makes of any target.                                                    *)
(***************************************************************************)
EXTENDS DiscoverFailureProofs, CandidatePlansProofs

-----------------------------------------------------------------------------
(* Minimality. *)

With(d, delay) == [best EXCEPT ![d] = delay]

(* The target has one failure, so what the search found matches all of them. *)
OneFailure ==
  Reproducible /\ (phase \notin {"baseline", "search", "done"} \/ status = "found_failure") =>
    \A s \in Schedules : \A r \in platform[s] : r.status = "workload_failure" => Matches(r)

(* A perturbation the first pass has visited and kept cannot be taken away. *)
RemovalOrder ==
  Reproducible /\ phase = "remove" =>
    \A d \in Perturbed(best) \ pending : AlwaysHealthy(With(d, 0))

(* After it none can; one the second pass has visited can be given no lower
   delay, and the current one none up to the floor. *)
LoweringOrder ==
  Reproducible /\ phase = "lower" =>
    /\ pending \subseteq Perturbed(best)
    /\ \A d \in Perturbed(best) : AlwaysHealthy(With(d, 0))
    /\ \A d \in Perturbed(best) \ pending : \A n \in DelayOptions :
         n < best[d] => AlwaysHealthy(With(d, n))
    /\ pending # {} => \A n \in DelayOptions :
         n <= floor /\ n < best[Current] => AlwaysHealthy(With(Current, n))

Minimal ==
  \A d \in Perturbed(best) :
    \A shorter \in {0} \cup {n \in DelayOptions : n < best[d]} :
      AlwaysHealthy(With(d, shorter))

MinimalOnceLowered ==
  Reproducible
    /\ (phase \in {"final", "verify", "publish", "replay"} \/ status = "found_failure")
    => Minimal

Minimality == OneFailure /\ RemovalOrder /\ LoweringOrder /\ MinimalOnceLowered

(* What shortens the delays of a healthy schedule is healthy. *)
LEMMA ShorterIsHealthy ==
  ASSUME Reproducible, NEW s \in Schedules, NEW t \in Schedules, AlwaysHealthy(t),
         \A d \in Dims : s[d] <= t[d]
  PROVE  AlwaysHealthy(s)
BY DEF Reproducible

(* A trial the minimizer does not keep is one at which the target is healthy:
   with one failure, a run that does not match is none. *)
LEMMA RejectedIsHealthy ==
  ASSUME TypeOK, Reproducible, OneFailure, phase \in {"remove", "lower"}, NeedsRun,
         NEW r, Run(r), Settles(r), ~Fails(r)
  PROVE  AlwaysHealthy(Trial)
<1>1. Trial \in Schedules /\ r \in platform[Trial]
  BY TrialIsSchedule DEF Run
<1>2. r.status # "workload_failure"
  <2>1. attempt = 1 => r.status # "workload_failure"
    BY DEF Fails
  <2>2. attempt = 2 => ~Matches(r)
    BY DEF Fails
  <2>3. r.status = "workload_failure" => Matches(r)
    BY <1>1 DEF OneFailure
  <2> QED BY <2>1, <2>2, <2>3 DEF TypeOK
<1> QED BY <1>1, <1>2 DEF Reproducible, AlwaysFails

(* A schedule one delay of which is set stays a schedule. *)
LEMMA WithIsSchedule ==
  ASSUME TypeOK, NEW d \in Dims, NEW n \in Delays
  PROVE  With(d, n) \in Schedules
BY DEF TypeOK, With, Schedules

(* What was healthy with less stays so when another delay is shortened. *)
LEMMA HealthyKept ==
  ASSUME TypeOK, Reproducible, NEW c \in Dims, NEW m \in Delays, m <= best[c],
         best' = With(c, m), platform' = platform,
         NEW d \in Dims, d # c, NEW n \in Delays, AlwaysHealthy(With(d, n))
  PROVE  AlwaysHealthy(With(d, n))'
<1> USE DiscoveryAssumption
<1>1. best \in [Dims -> Delays] /\ \A e \in Dims : best[e] \in Nat
  BY DEF TypeOK, Schedules
<1> DEFINE shortened == [best EXCEPT ![c] = m, ![d] = n]
<1>2. shortened \in Schedules
  BY <1>1 DEF Schedules
<1>3. \A e \in Dims : shortened[e] <= With(d, n)[e]
  BY <1>1 DEF With
<1>4. AlwaysHealthy(shortened)
  BY <1>2, <1>3, WithIsSchedule, ShorterIsHealthy
<1>5. With(d, n)' = shortened
  BY <1>1 DEF With
<1> QED BY <1>4, <1>5 DEF AlwaysHealthy

LEMMA ReproducibleKept ==
  ASSUME platform' = platform
  PROVE  Reproducible' <=> Reproducible
BY DEF Reproducible, AlwaysHealthy, AlwaysFails, Shows

(* Before the search has found a failure nothing is published: a step that
   publishes, or leaves a phase after the search for another one, starts in
   such a phase. *)
Found == phase \notin {"baseline", "search", "done"} \/ status = "found_failure"

LEMMA FoundIsKept ==
  ASSUME TypeOK, Evidence, [Next]_vars, Found', ~CandidateFails
  PROVE  Found /\ expected' = expected
<1> USE DEF Found, Goto, Return, searchVars, resultVars, Evidence, Running
<1>1. CASE BaselinePasses
  BY <1>1 DEF BaselinePasses
<1>2. CASE BaselineFails
  <2>1. \A r \in platform[Baseline] : TerminalStatus(r) # "found_failure"
    BY DiscoveryAssumption, ResultIsNoRace DEF Baseline, Schedules
  <2> QED BY <1>2, <2>1 DEF BaselineFails
<1>3. CASE CandidatePasses
  BY <1>3 DEF CandidatePasses
<1>4. CASE CandidateUnusable
  <2>1. Trial \in Schedules
    BY <1>4, TrialIsSchedule DEF CandidateUnusable, NeedsRun
  <2>2. \A r \in platform[Trial] : r.status # "found_failure"
    BY <2>1, ResultIsNoRace
  <2> QED BY <1>4, <2>2 DEF CandidateUnusable
<1>5. CASE SearchEnds \/ BudgetExhausted \/ PlatformThrows
  BY <1>5 DEF SearchEnds, BudgetExhausted, PlatformThrows
<1>6. CASE ConfirmationMatches \/ ConfirmationMismatches \/ SignatureMissing
             \/ MinimizerStarts
  BY <1>6 DEF ConfirmationMatches, ConfirmationMismatches, Confirming,
    SignatureMissing, MinimizerStarts
<1>7. CASE FirstMatches \/ RemovalTried \/ RemovalEnds \/ LoweringTried
             \/ LoweringGivesUp \/ LoweringEnds
  BY <1>7 DEF FirstMatches, RemovalTried, RemovalEnds, LoweringTried,
    LoweringGivesUp, LoweringEnds
<1>8. CASE FinalRunFails \/ FinalRunUnstable \/ VerificationEnds
  BY <1>8 DEF FinalRunFails, FinalRunUnstable, VerificationEnds
<1>9. CASE ReplayMissing \/ ArtifactRejected \/ ArtifactCreated \/ ReplayMatches
             \/ ReplayDiffers \/ ReplaysEnd
  BY <1>9 DEF ReplayMissing, ArtifactRejected, ArtifactCreated, ReplayMatches,
    ReplayDiffers, ReplaysEnd
<1>10. CASE Returned \/ UNCHANGED vars
  BY <1>10 DEF Returned, vars
<1> QED
  BY <1>1, <1>2, <1>3, <1>4, <1>5, <1>6, <1>7, <1>8, <1>9, <1>10 DEF Next, Step

LEMMA OneFailureKept ==
  ASSUME TypeOK, Evidence, OneFailure, [Next]_vars
  PROVE  OneFailure'
<1> SUFFICES ASSUME Reproducible, Found', NEW s \in Schedules, NEW r \in platform[s],
                    r.status = "workload_failure"
             PROVE  Matches(r)'
  BY TargetKept, ReproducibleKept DEF OneFailure, Found
<1>1. CASE CandidateFails
  <2>1. PICK q \in platform[Trial] : q.status = "workload_failure" /\ expected' = q.failure
    BY <1>1 DEF CandidateFails
  <2>2. Trial \in Schedules
    BY <1>1, TrialIsSchedule DEF CandidateFails, NeedsRun
  <2>3. r.failure \in Failures /\ q.failure \in Failures
    BY <2>1, <2>2, ResultIsTyped
  <2>4. Shows(r.failure) /\ Shows(q.failure)
    BY <2>1, <2>2 DEF Shows
  <2>5. r.failure.reason = q.failure.reason /\ r.failure.signature = q.failure.signature
    BY <2>3, <2>4 DEF Reproducible
  <2> QED BY <2>1, <2>5 DEF Matches
<1>2. CASE ~CandidateFails
  <2>1. Found /\ expected' = expected
    BY <1>2, FoundIsKept
  <2>2. Matches(r)
    BY <2>1 DEF OneFailure, Found
  <2> QED BY <2>1, <2>2 DEF Matches
<1> QED BY <1>1, <1>2

(* The first pass, which takes perturbations away. *)
LEMMA RemovalKept ==
  ASSUME TypeOK, OneFailure, RemovalOrder, [Next]_vars
  PROVE  RemovalOrder'
<1> USE DiscoveryAssumption
<1> SUFFICES ASSUME Reproducible, phase' = "remove",
                    NEW d \in Dims, best'[d] > 0, d \notin pending'
             PROVE  AlwaysHealthy(With(d, 0))'
  BY TargetKept, ReproducibleKept DEF RemovalOrder, Perturbed
<1>0. platform' = platform
  BY TargetKept
<1>1. CASE MinimizerStarts
  BY <1>1 DEF MinimizerStarts, Perturbed
<1>2. CASE RemovalTried
  <2>1. PICK r \in platform[Trial] : Run(r) /\ Settles(r)
                                     /\ best' = IF Fails(r) THEN Trial ELSE best
    BY <1>2 DEF RemovalTried
  <2>2. /\ Current \in Dims
        /\ Trial = With(Current, 0)
        /\ pending' = pending \ {Current}
        /\ NeedsRun
        /\ best \in [Dims -> Delays] /\ \A e \in Dims : best[e] \in Nat
    BY <1>2, CurrentIsDimension
       DEF RemovalTried, Trial, With, NeedsRun, TypeOK, Schedules
  <2>3. CASE Fails(r)
    <3>1. best' = With(Current, 0) /\ d # Current
      BY <2>1, <2>2, <2>3 DEF With
    <3>2. best[d] > 0 /\ d \notin pending
      BY <2>2, <3>1 DEF With
    <3>3. AlwaysHealthy(With(d, 0))
      BY <1>2, <3>2 DEF RemovalOrder, RemovalTried, Perturbed
    <3> QED BY <1>0, <2>2, <3>1, <3>3, HealthyKept
  <2>4. CASE ~Fails(r)
    <3>1. AlwaysHealthy(With(d, 0))
      <4>1. CASE d = Current
        BY <1>2, <2>1, <2>2, <2>4, <4>1, RejectedIsHealthy DEF RemovalTried
      <4>2. CASE d # Current
        BY <1>2, <2>1, <2>2, <2>4, <4>2 DEF RemovalOrder, RemovalTried, Perturbed
      <4> QED BY <4>1, <4>2
    <3> QED BY <1>0, <2>1, <2>4, <3>1 DEF AlwaysHealthy, With
  <2> QED BY <2>3, <2>4
<1>3. CASE FirstMatches \/ Returned \/ UNCHANGED vars
  <2>1. phase = "remove" /\ UNCHANGED <<best, pending>>
    BY <1>3 DEF FirstMatches, Returned, vars
  <2>2. AlwaysHealthy(With(d, 0))
    BY <2>1 DEF RemovalOrder, Perturbed
  <2> QED BY <1>0, <2>1, <2>2 DEF AlwaysHealthy, With
<1> QED
  BY <1>1, <1>2, <1>3
     DEF Next, Step, Goto, Return, BaselinePasses, BaselineFails, CandidatePasses,
         CandidateFails, CandidateUnusable, SearchEnds, ConfirmationMatches, Confirming,
         ConfirmationMismatches, SignatureMissing, RemovalEnds, LoweringTried,
         LoweringGivesUp, LoweringEnds, FinalRunFails, AfterFinalRun, FinalRunUnstable,
         VerificationEnds, ReplayMissing, ArtifactRejected, ArtifactCreated,
         ReplayMatches, ReplayDiffers, ReplaysEnd, BudgetExhausted, PlatformThrows

(* The least of the lower delays: the pass tries them from the bottom up. *)
LEMMA NextLowerIsLeast ==
  ASSUME TypeOK, LowerDelays # {}
  PROVE  /\ NextLower \in DelayOptions /\ floor < NextLower /\ NextLower < best[Current]
         /\ \A n \in LowerDelays : NextLower <= n
<1>1. LowerDelays \in SUBSET Nat
  BY DiscoveryAssumption DEF LowerDelays
<1>2. NextLower \in LowerDelays /\ \A n \in LowerDelays : NextLower <= n
  BY <1>1, LeastElement DEF NextLower
<1> QED BY <1>2 DEF LowerDelays

(* The order of the second pass holds once it does perturbation by perturbation,
   and the floor is back at 0 or the current perturbation has been tried so far. *)
LEMMA LoweringFresh ==
  ASSUME TypeOK', pending' \subseteq Perturbed(best'), floor' = 0,
         \A d \in Perturbed(best') : AlwaysHealthy(With(d, 0))',
         \A d \in Perturbed(best') \ pending' : \A n \in DelayOptions :
           n < best'[d] => AlwaysHealthy(With(d, n))'
  PROVE  LoweringOrder'
<1> USE DiscoveryAssumption
<1>1. ASSUME pending' # {}, NEW n \in DelayOptions, n <= floor'
      PROVE  AlwaysHealthy(With(Current, n))'
  <2>1. pending' \in SUBSET Nat
    BY DEF TypeOK, Dims
  <2>2. Current' \in pending'
    BY <1>1, <2>1, LeastElement DEF Current
  <2>3. n = 0
    BY <1>1
  <2> QED BY <2>2, <2>3
<1> QED BY <1>1 DEF LoweringOrder, Perturbed

(* A lower delay that still fails is kept. *)
LEMMA LowerDelayKept ==
  ASSUME TypeOK, TypeOK', Reproducible, LoweringOrder, phase = "lower", pending # {},
         LowerDelays # {}, best' = Trial, pending' = pending \ {Current}, floor' = 0,
         platform' = platform
  PROVE  LoweringOrder'
<1> USE DiscoveryAssumption
<1>0. PICK c \in Dims, m \in Delays : c = Current /\ m = NextLower
  BY CurrentIsDimension, NextLowerIsLower
<1>1. /\ c \in pending /\ c \in Dims /\ pending \subseteq Perturbed(best)
      /\ m \in DelayOptions /\ floor < m /\ m < best[c]
      /\ \A n \in LowerDelays : m <= n
      /\ best' = With(c, m)
      /\ best \in [Dims -> Delays] /\ floor \in Nat /\ m \in Nat /\ m \in Delays
      /\ \A e \in Dims : best[e] \in Nat
  BY <1>0, CurrentIsDimension, NextLowerIsLeast
     DEF LoweringOrder, Trial, With, TypeOK, Schedules
<1>2. /\ best'[c] = m /\ m > 0
      /\ \A e \in Dims \ {c} : best'[e] = best[e]
  BY <1>1 DEF With
<1>3. \A d \in Perturbed(best') \ {c} : d \in Perturbed(best) /\ d \in Dims
  BY <1>2 DEF Perturbed
<1>4. \A n : With(c, n)' = With(c, n)
  BY <1>1 DEF With
<1>5. pending' \subseteq Perturbed(best')
  BY <1>0, <1>1, <1>2 DEF Perturbed
<1>6. ASSUME NEW d \in Perturbed(best') PROVE AlwaysHealthy(With(d, 0))'
  <2>1. CASE d = c
    <3>1. AlwaysHealthy(With(c, 0))
      BY <1>1 DEF LoweringOrder
    <3> QED BY <1>4, <2>1, <3>1 DEF AlwaysHealthy
  <2>2. CASE d # c
    <3>1. AlwaysHealthy(With(d, 0)) /\ d \in Dims
      BY <1>3, <2>2 DEF LoweringOrder
    <3> QED BY <1>1, <2>2, <3>1, HealthyKept
  <2> QED BY <2>1, <2>2
<1>7. ASSUME NEW d \in Perturbed(best') \ pending', NEW n \in DelayOptions, n < best'[d]
      PROVE  AlwaysHealthy(With(d, n))'
  <2>1. CASE d = c
    <3>1. n \in Nat /\ n < m
      BY <1>2, <1>7, <2>1
    <3>2. n <= floor
      BY <1>0, <1>1, <3>1 DEF LowerDelays
    <3>3. AlwaysHealthy(With(c, n))
      BY <1>0, <1>1, <3>1, <3>2 DEF LoweringOrder
    <3> QED BY <1>4, <2>1, <3>3 DEF AlwaysHealthy
  <2>2. CASE d # c
    <3>1. d \in Perturbed(best) \ pending /\ n < best[d] /\ d \in Dims
      BY <1>0, <1>2, <1>3, <1>7, <2>2
    <3>2. AlwaysHealthy(With(d, n)) /\ n \in Delays
      BY <3>1 DEF LoweringOrder
    <3> QED BY <1>1, <2>2, <3>1, <3>2, HealthyKept
  <2> QED BY <2>1, <2>2
<1> QED BY <1>5, <1>6, <1>7, LoweringFresh

(* A lower delay at which the target is healthy raises the floor. *)
LEMMA LowerDelayRejected ==
  ASSUME TypeOK, Reproducible, LoweringOrder, phase = "lower", pending # {},
         LowerDelays # {}, AlwaysHealthy(Trial), floor' = Trial[Current],
         UNCHANGED <<best, pending, platform>>
  PROVE  LoweringOrder'
<1> USE DiscoveryAssumption
<1>1. /\ Current \in Dims /\ Current' = Current
      /\ NextLower \in DelayOptions /\ \A n \in LowerDelays : NextLower <= n
      /\ Trial = With(Current, NextLower)
      /\ best \in [Dims -> Delays] /\ floor \in Nat
  BY CurrentIsDimension, NextLowerIsLeast DEF Trial, With, TypeOK, Schedules, Current
<1>2. floor' = NextLower
  BY <1>1 DEF With
<1>3. ASSUME NEW n \in DelayOptions, n <= floor', n < best[Current]
      PROVE  AlwaysHealthy(With(Current, n))
  <2>1. CASE n <= floor
    BY <1>3, <2>1 DEF LoweringOrder
  <2>2. CASE ~(n <= floor)
    <3>1. n \in LowerDelays
      BY <1>1, <1>3, <2>2 DEF LowerDelays
    <3>2. n = NextLower
      <4>1. n \in Nat /\ NextLower \in Nat
        BY <1>1
      <4> QED BY <1>1, <1>2, <1>3, <3>1, <4>1
    <3> QED BY <1>1, <3>2
  <2> QED BY <2>1, <2>2
<1>4. \A d, n : With(d, n)' = With(d, n)
  BY DEF With
<1>5. \A s : AlwaysHealthy(s)' <=> AlwaysHealthy(s)
  BY DEF AlwaysHealthy
<1> QED BY <1>1, <1>3, <1>4, <1>5 DEF LoweringOrder, Perturbed

(* The second pass, which lowers delays. *)
LEMMA LoweringKept ==
  ASSUME TypeOK, OneFailure, RemovalOrder, LoweringOrder, [Next]_vars
  PROVE  LoweringOrder'
<1> USE DiscoveryAssumption
<1> SUFFICES ASSUME Reproducible, phase' = "lower" PROVE LoweringOrder'
  BY TargetKept, ReproducibleKept DEF LoweringOrder
<1>0. platform' = platform /\ TypeOK'
  BY TargetKept, TypesKept
<1>1. CASE RemovalEnds
  <2>1. best' = best /\ pending' = Perturbed(best) /\ floor' = 0
    BY <1>1 DEF RemovalEnds
  <2>2. \A d \in Perturbed(best) : AlwaysHealthy(With(d, 0))
    BY <1>1 DEF RemovalEnds, RemovalOrder
  <2>3. \A d : AlwaysHealthy(With(d, 0))' <=> AlwaysHealthy(With(d, 0))
    BY <1>0, <2>1 DEF AlwaysHealthy, With
  <2>4. Perturbed(best') = Perturbed(best)
    BY <2>1 DEF Perturbed
  <2> QED BY <1>0, <2>1, <2>2, <2>3, <2>4, LoweringFresh
<1>2. CASE LoweringTried
  <2>1. phase = "lower" /\ pending # {} /\ LowerDelays # {} /\ NeedsRun
    BY <1>2 DEF LoweringTried, NeedsRun
  <2>2. PICK r \in platform[Trial] :
          /\ Run(r) /\ Settles(r)
          /\ IF Fails(r)
               THEN best' = Trial /\ pending' = pending \ {Current} /\ floor' = 0
               ELSE floor' = Trial[Current] /\ UNCHANGED <<best, pending>>
    BY <1>2 DEF LoweringTried, NextFloor
  <2>3. CASE Fails(r)
    BY <1>0, <2>1, <2>2, <2>3, LowerDelayKept
  <2>4. CASE ~Fails(r)
    <3>1. AlwaysHealthy(Trial)
      BY <2>1, <2>2, <2>4, RejectedIsHealthy
    <3> QED BY <1>0, <2>1, <2>2, <2>4, <3>1, LowerDelayRejected
  <2> QED BY <2>3, <2>4
<1>3. CASE LoweringGivesUp
  <2>1. /\ phase = "lower" /\ pending # {} /\ LowerDelays = {}
        /\ best' = best /\ pending' = pending \ {Current} /\ floor' = 0
    BY <1>3 DEF LoweringGivesUp, minimizeVars
  <2>2. \A d, n : AlwaysHealthy(With(d, n))' <=> AlwaysHealthy(With(d, n))
    BY <1>0, <2>1 DEF AlwaysHealthy, With
  <2>3. Perturbed(best') = Perturbed(best)
    BY <2>1 DEF Perturbed
  <2>4. ASSUME NEW n \in DelayOptions, n < best[Current]
        PROVE  AlwaysHealthy(With(Current, n))
    <3>1. n <= floor
      <4>1. floor \in Nat /\ n \in Nat
        BY DEF TypeOK
      <4> QED BY <2>1, <2>4, <4>1 DEF LowerDelays
    <3> QED BY <2>1, <2>4, <3>1 DEF LoweringOrder
  <2>5. \A d \in Perturbed(best) \ pending' : \A n \in DelayOptions :
          n < best[d] => AlwaysHealthy(With(d, n))
    BY <2>1, <2>4 DEF LoweringOrder
  <2>6. \A d \in Perturbed(best) : AlwaysHealthy(With(d, 0))
    BY <2>1 DEF LoweringOrder
  <2>7. pending' \subseteq Perturbed(best)
    BY <2>1 DEF LoweringOrder
  <2> QED BY <1>0, <2>1, <2>2, <2>3, <2>5, <2>6, <2>7, LoweringFresh
<1>4. CASE FirstMatches \/ Returned \/ UNCHANGED vars
  <2>1. phase = "lower" /\ UNCHANGED <<best, pending, floor>>
    BY <1>4 DEF FirstMatches, Returned, vars
  <2>2. \A d, n : AlwaysHealthy(With(d, n))' <=> AlwaysHealthy(With(d, n))
    BY <1>0, <2>1 DEF AlwaysHealthy, With
  <2>3. Current' = Current
    BY <2>1 DEF Current
  <2> QED BY <1>0, <2>1, <2>2, <2>3 DEF LoweringOrder, Perturbed
<1> QED
  BY <1>1, <1>2, <1>3, <1>4
     DEF Next, Step, Goto, Return, BaselinePasses, BaselineFails, CandidatePasses,
         CandidateFails, CandidateUnusable, SearchEnds, ConfirmationMatches, Confirming,
         ConfirmationMismatches, SignatureMissing, MinimizerStarts, RemovalTried,
         LoweringEnds, FinalRunFails, AfterFinalRun, FinalRunUnstable, VerificationEnds,
         ReplayMissing, ArtifactRejected, ArtifactCreated, ReplayMatches, ReplayDiffers,
         ReplaysEnd, BudgetExhausted, PlatformThrows

(* Once the second pass is over the schedule changes no more. *)
LEMMA MinimalKept ==
  ASSUME TypeOK, Evidence, LoweringOrder, MinimalOnceLowered, [Next]_vars
  PROVE  MinimalOnceLowered'
<1> DEFINE Lowered == phase \in {"final", "verify", "publish", "replay"}
                        \/ status = "found_failure"
<1> SUFFICES ASSUME Reproducible, Lowered' PROVE Minimal'
  BY TargetKept, ReproducibleKept DEF MinimalOnceLowered
<1>0. platform' = platform
  BY TargetKept
<1>1. ASSUME best' = best, Minimal PROVE Minimal'
  <2>1. \A d, n : AlwaysHealthy(With(d, n))' <=> AlwaysHealthy(With(d, n))
    BY <1>0, <1>1 DEF AlwaysHealthy, With
  <2> QED BY <1>1, <2>1 DEF Minimal, Perturbed
<1>2. CASE LoweringEnds
  <2>1. phase = "lower" /\ pending = {} /\ best' = best
    BY <1>2 DEF LoweringEnds, minimizeVars
  <2>2. Minimal
    BY <2>1 DEF LoweringOrder, Minimal
  <2> QED BY <1>1, <2>1, <2>2
<1>3. CASE Lowered /\ best' = best
  BY <1>1, <1>3 DEF MinimalOnceLowered
<1>4. CASE CandidateFails
  BY <1>4 DEF CandidateFails, Goto, resultVars, Evidence, Running
<1>5. CASE ~CandidateFails /\ ~LoweringEnds
  <2>1. Found
    BY <1>5, FoundIsKept DEF Found
  <2>2. Lowered /\ best' = best
    BY <1>5, <2>1
       DEF Next, Step, Goto, Return, resultVars, minimizeVars, vars, Evidence, Running,
           Found, BaselinePasses, BaselineFails, CandidatePasses, CandidateUnusable,
           SearchEnds, ConfirmationMatches, Confirming, ConfirmationMismatches,
           SignatureMissing, MinimizerStarts, FirstMatches, RemovalTried, RemovalEnds,
           LoweringTried, LoweringGivesUp, FinalRunFails, AfterFinalRun,
           FinalRunUnstable, VerificationEnds, ReplayMissing, ArtifactRejected,
           ArtifactCreated, ReplayMatches, ReplayDiffers, ReplaysEnd, BudgetExhausted,
           PlatformThrows, Returned
  <2> QED BY <1>3, <2>2
<1> QED BY <1>2, <1>4, <1>5

(* Minimality holds in every reachable state. *)
LEMMA MinimalityHolds == Spec => [](TypeOK /\ Evidence /\ Minimality)
<1>1. Init => Minimality
  BY DEF Init, Minimality, OneFailure, RemovalOrder, LoweringOrder, MinimalOnceLowered
<1>2. TypeOK /\ Evidence /\ Minimality /\ [Next]_vars => Minimality'
  BY OneFailureKept, RemovalKept, LoweringKept, MinimalKept DEF Minimality
<1> QED BY <1>1, <1>2, EvidenceGathered, PTL DEF Spec

-----------------------------------------------------------------------------
(* A failure that is there is found. *)

(* The schedule at hand fails: the one the search has found, then each one the
   minimizer keeps. *)
FailingFails == Reproducible /\ phase = "confirm" => AlwaysFails(failing)

Minimizing == phase \in {"remove", "lower", "final", "verify", "publish", "replay"}

BestFails ==
  Reproducible /\ (Minimizing \/ status = "found_failure") => AlwaysFails(best)

(* What the search expects, and what the artifact will carry, has been shown. *)
ExpectedIsShown ==
  phase \notin {"baseline", "search", "done"} => expected \in Failures /\ Shows(expected)

EvidenceIsShown ==
  phase \in {"verify", "publish", "replay"} =>
    \E q \in platform[best] : q.status = "workload_failure" /\ q.failure = minimizedRun

(* Only a platform that can replay is asked to. *)
ReplayIsPossible == phase = "replay" => options.canReplay

Completeness ==
  /\ FailingFails /\ BestFails
  /\ ExpectedIsShown /\ EvidenceIsShown /\ ReplayIsPossible
  /\ FailureIsFound

(* A schedule of a reproducible target that has failed once always fails. *)
LEMMA OnceFailedFails ==
  ASSUME Reproducible, NEW s \in Schedules, NEW r \in platform[s],
         r.status = "workload_failure"
  PROVE  AlwaysFails(s)
BY DEF Reproducible, AlwaysHealthy

(* A run of a reproducible target is healthy or a failure, so it never throws. *)
LEMMA TwoAnswers ==
  ASSUME Reproducible, NEW s \in Schedules, NEW r \in platform[s]
  PROVE  r.status \in {"healthy", "workload_failure"}
BY DEF Reproducible, AlwaysHealthy, AlwaysFails

(* Where a schedule that always fails is run again, the run matches the race. *)
LEMMA FailureMatches ==
  ASSUME Reproducible, OneFailure, Found, NEW s \in Schedules, AlwaysFails(s),
         NEW r \in platform[s]
  PROVE  r.status = "workload_failure" /\ Matches(r) /\ Fails(r)
<1>1. r.status = "workload_failure"
  BY DEF AlwaysFails
<1>2. Matches(r)
  BY <1>1 DEF OneFailure, Found
<1> QED BY <1>1, <1>2 DEF Fails

(* What a target shows does not change. *)
LEMMA TargetsAlike ==
  ASSUME platform' = platform, options' = options
  PROVE  /\ \A s : AlwaysHealthy(s)' <=> AlwaysHealthy(s)
         /\ \A s : AlwaysFails(s)' <=> AlwaysFails(s)
         /\ \A f : Shows(f)' <=> Shows(f)
         /\ Publishable' <=> Publishable
         /\ Planned' = Planned
         /\ Reproducible' <=> Reproducible
<1>1. /\ \A s : AlwaysHealthy(s)' <=> AlwaysHealthy(s)
      /\ \A s : AlwaysFails(s)' <=> AlwaysFails(s)
      /\ \A f : Shows(f)' <=> Shows(f)
  BY DEF AlwaysHealthy, AlwaysFails, Shows
<1>2. SteadyEvidence' <=> SteadyEvidence
  BY DEF SteadyEvidence, HasOrderedEvidence
<1>3. Publishable' <=> Publishable
  BY <1>1, <1>2 DEF Publishable
<1> QED BY <1>1, <1>3, ReproducibleKept DEF Planned

(* A replay of a schedule that always fails reproduces the artifact, where the
   evidence of its runs is steady. *)
LEMMA ReplayReproduces ==
  ASSUME TypeOK, Reproducible, Publishable, ExpectedIsShown, EvidenceIsShown, BestFails,
         phase = "replay", options.canReplay, NEW r \in platform[best]
  PROVE  Reproduces(r)
<1>1. best \in Schedules
  BY DEF TypeOK
<1>2. PICK q \in platform[best] : q.status = "workload_failure" /\ q.failure = minimizedRun
  BY DEF EvidenceIsShown
<1>3. r.status = "workload_failure"
  BY DEF BestFails, Minimizing, AlwaysFails
<1>4. r.failure \in Failures /\ Shows(r.failure) /\ minimizedRun \in Failures
      /\ Shows(minimizedRun) /\ expected \in Failures /\ Shows(expected)
  BY <1>1, <1>2, <1>3, ResultIsTyped DEF Shows, ExpectedIsShown
<1>5. /\ r.failure.reason = minimizedRun.reason
      /\ r.failure.signature = expected.signature
  BY <1>4 DEF Reproducible
<1>6. HasOrderedEvidence(minimizedRun.events, r.failure.events)
  BY <1>1, <1>2, <1>3 DEF Publishable, SteadyEvidence
<1> QED BY <1>3, <1>5, <1>6 DEF Reproduces

(* The search hands over a schedule that fails and what it has shown. *)
LEMMA FoundFails ==
  ASSUME TypeOK, CandidateFails
  PROVE  /\ Reproducible => AlwaysFails(Trial)
         /\ expected' \in Failures /\ Shows(expected')
         /\ failing' = Trial /\ phase' = "confirm" /\ status' = status
<1>1. Trial \in Schedules
  BY TrialIsSchedule DEF CandidateFails, NeedsRun
<1>2. PICK r \in platform[Trial] : r.status = "workload_failure" /\ expected' = r.failure
  BY DEF CandidateFails
<1>3. expected' \in Failures /\ Shows(expected')
  BY <1>1, <1>2, ResultIsTyped DEF Shows
<1> QED BY <1>1, <1>2, <1>3, OnceFailedFails DEF CandidateFails, Goto, resultVars

LEMMA ExpectedKept ==
  ASSUME TypeOK, Evidence, ExpectedIsShown, [Next]_vars
  PROVE  ExpectedIsShown'
<1>0. \A f : Shows(f)' <=> Shows(f)
  BY TargetKept, TargetsAlike
<1>1. CASE CandidateFails
  BY <1>0, <1>1, FoundFails DEF ExpectedIsShown
<1>2. CASE ~CandidateFails
  <2> SUFFICES ASSUME phase' \notin {"baseline", "search", "done"}
               PROVE  ExpectedIsShown'
    BY DEF ExpectedIsShown
  <2>1. Found /\ expected' = expected
    BY <1>2, FoundIsKept DEF Found
  <2>2. phase # "done"
    BY DEF Next, Step, Goto, Return, vars, Returned, BaselinePasses, BaselineFails,
         CandidatePasses, CandidateFails, CandidateUnusable, SearchEnds,
         ConfirmationMatches, Confirming, ConfirmationMismatches, SignatureMissing,
         MinimizerStarts, FirstMatches, RemovalTried, RemovalEnds, LoweringTried,
         LoweringGivesUp, LoweringEnds, FinalRunFails, FinalRunUnstable,
         VerificationEnds, ReplayMissing, ArtifactRejected, ArtifactCreated,
         ReplayMatches, ReplayDiffers, ReplaysEnd, BudgetExhausted, PlatformThrows
  <2>3. status # "found_failure"
    BY <2>2 DEF Evidence, Running
  <2> QED BY <1>0, <2>1, <2>2, <2>3 DEF ExpectedIsShown, Found
<1> QED BY <1>1, <1>2

LEMMA FailingKept ==
  ASSUME TypeOK, FailingFails, [Next]_vars
  PROVE  FailingFails'
<1> SUFFICES ASSUME Reproducible, phase' = "confirm" PROVE AlwaysFails(failing)'
  BY TargetKept, TargetsAlike DEF FailingFails
<1>0. platform' = platform
  BY TargetKept
<1>1. CASE CandidateFails
  BY <1>0, <1>1, FoundFails DEF AlwaysFails
<1>2. CASE ~CandidateFails
  <2>1. phase = "confirm" /\ failing' = failing
    BY <1>2
       DEF Next, Step, Goto, Return, vars, searchVars, Returned, BaselinePasses,
           BaselineFails, CandidatePasses, CandidateUnusable, SearchEnds,
           ConfirmationMatches, Confirming, ConfirmationMismatches, SignatureMissing,
           MinimizerStarts, FirstMatches, RemovalTried, RemovalEnds, LoweringTried,
           LoweringGivesUp, LoweringEnds, FinalRunFails, AfterFinalRun, FinalRunUnstable,
           VerificationEnds, ReplayMissing, ArtifactRejected, ArtifactCreated,
           ReplayMatches, ReplayDiffers, ReplaysEnd, BudgetExhausted, PlatformThrows
  <2> QED BY <1>0, <2>1 DEF FailingFails, AlwaysFails
<1> QED BY <1>1, <1>2

(* A trial the minimizer keeps has failed, and so always fails. *)
LEMMA KeptTrialFails ==
  ASSUME TypeOK, Reproducible, NeedsRun, NEW r, Run(r), Fails(r)
  PROVE  AlwaysFails(Trial)
<1>1. Trial \in Schedules /\ r \in platform[Trial]
  BY TrialIsSchedule DEF Run
<1>2. r.status = "workload_failure"
  BY DEF Fails, Matches
<1> QED BY <1>1, <1>2, OnceFailedFails

LEMMA BestKept ==
  ASSUME TypeOK, Evidence, FailingFails, BestFails, [Next]_vars
  PROVE  BestFails'
<1> SUFFICES ASSUME Reproducible, Minimizing' \/ status' = "found_failure"
             PROVE  AlwaysFails(best)'
  BY TargetKept, TargetsAlike DEF BestFails
<1>0. \A s : AlwaysFails(s)' <=> AlwaysFails(s)
  BY TargetKept, TargetsAlike
<1>1. CASE MinimizerStarts
  BY <1>0, <1>1 DEF MinimizerStarts, FailingFails, AlwaysFails
<1>2. CASE RemovalTried \/ LoweringTried
  <2>1. NeedsRun /\ Minimizing
    BY <1>2 DEF RemovalTried, LoweringTried, NeedsRun, Minimizing
  <2>2. PICK r : Run(r) /\ best' = IF Fails(r) THEN Trial ELSE best
    BY <1>2 DEF RemovalTried, LoweringTried
  <2>3. AlwaysFails(best')
    BY <2>1, <2>2, KeptTrialFails DEF BestFails
  <2> QED BY <1>0, <2>3 DEF AlwaysFails
<1>3. CASE ~(MinimizerStarts \/ RemovalTried \/ LoweringTried)
  <2>1. CASE CandidateFails
    <3>1. phase' = "confirm" /\ status' = "running"
      BY <2>1, FoundFails DEF Evidence, Running, CandidateFails
    <3> QED BY <3>1 DEF Minimizing
  <2>2. CASE ~CandidateFails
    <3>1. Found
      BY <2>2, FoundIsKept DEF Found, Minimizing
    <3>2. (Minimizing \/ status = "found_failure") /\ best' = best
      BY <1>3, <2>2, <3>1
         DEF Next, Step, Goto, Return, resultVars, minimizeVars, vars, Evidence, Running,
             Found, Minimizing, BaselinePasses, BaselineFails, CandidatePasses,
             CandidateUnusable, SearchEnds, ConfirmationMatches, Confirming,
             ConfirmationMismatches, SignatureMissing, FirstMatches, RemovalEnds,
             LoweringGivesUp, LoweringEnds, FinalRunFails, AfterFinalRun,
             FinalRunUnstable, VerificationEnds, ReplayMissing, ArtifactRejected,
             ArtifactCreated, ReplayMatches, ReplayDiffers, ReplaysEnd,
             BudgetExhausted, PlatformThrows, Returned
    <3>3. AlwaysFails(best)
      BY <3>2 DEF BestFails
    <3> QED BY <1>0, <3>2, <3>3 DEF AlwaysFails
  <2> QED BY <2>1, <2>2
<1> QED BY <1>1, <1>2, <1>3

LEMMA ReplayIsPossibleKept ==
  ASSUME ReplayIsPossible, [Next]_vars
  PROVE  ReplayIsPossible'
<1>1. options' = options
  BY TargetKept
<1>2. phase' = "replay" => phase = "replay" \/ options.canReplay
  BY DEF Next, Step, Goto, Return, vars, Returned, BaselinePasses,
         BaselineFails, CandidatePasses, CandidateFails, CandidateUnusable, SearchEnds,
         ConfirmationMatches, Confirming, ConfirmationMismatches, SignatureMissing,
         MinimizerStarts, FirstMatches, RemovalTried, RemovalEnds, LoweringTried,
         LoweringGivesUp, LoweringEnds, FinalRunFails, AfterFinalRun, FinalRunUnstable,
         VerificationEnds, ReplayMissing, ArtifactRejected, ArtifactCreated,
         ReplayMatches, ReplayDiffers, ReplaysEnd, BudgetExhausted, PlatformThrows
<1> QED BY <1>1, <1>2 DEF ReplayIsPossible

LEMMA EvidenceShownKept ==
  ASSUME TypeOK, EvidenceIsShown, [Next]_vars
  PROVE  EvidenceIsShown'
<1> SUFFICES ASSUME phase' \in {"verify", "publish", "replay"}
             PROVE  EvidenceIsShown'
  BY DEF EvidenceIsShown
<1>0. platform' = platform
  BY TargetKept
<1>1. CASE FinalRunFails
  <2>1. PICK r \in platform[Trial] : Fails(r) /\ minimizedRun' = r.failure
    BY <1>1 DEF FinalRunFails
  <2>2. r.status = "workload_failure" /\ Trial = best /\ best' = best
    BY <1>1, <2>1 DEF Fails, Matches, FinalRunFails, Trial
  <2> QED BY <1>0, <2>1, <2>2 DEF EvidenceIsShown
<1>2. CASE ~FinalRunFails
  <2>1. phase \in {"verify", "publish", "replay"} /\ UNCHANGED <<best, minimizedRun>>
    BY <1>2
       DEF Next, Step, Goto, Return, vars, minimizeVars, Returned, BaselinePasses,
           BaselineFails, CandidatePasses, CandidateFails, CandidateUnusable, SearchEnds,
           ConfirmationMatches, Confirming, ConfirmationMismatches, SignatureMissing,
           MinimizerStarts, FirstMatches, RemovalTried, RemovalEnds, LoweringTried,
           LoweringGivesUp, LoweringEnds, FinalRunUnstable, VerificationEnds,
           ReplayMissing, ArtifactRejected, ArtifactCreated, ReplayMatches,
           ReplayDiffers, ReplaysEnd, BudgetExhausted, PlatformThrows
  <2> QED BY <1>0, <2>1 DEF EvidenceIsShown
<1> QED BY <1>1, <1>2

(* No step but a publication ends the discovery of such a target, unless the
   budget is spent: the baseline passes, no candidate is unusable, the plan is not
   exhausted while one fails, confirmations match, replays reproduce. *)
LEMMA FailureFoundKept ==
  ASSUME TypeOK, Evidence, BudgetRespected, SearchScope, OneFailure, Completeness,
         [Next]_vars
  PROVE  FailureIsFound'
<1> USE DEF Return, Goto
<1>0. /\ platform' = platform /\ options' = options
      /\ \A s : AlwaysFails(s)' <=> AlwaysFails(s)
  BY TargetKept, TargetsAlike
<1> SUFFICES ASSUME Reproducible, AlwaysHealthy(Baseline), Publishable,
                    NEW c \in Planned, AlwaysFails(Candidates[c]), phase' = "done"
             PROVE  status' = "found_failure" \/ (status' = "inconclusive" /\ BudgetIsSpent')
  BY <1>0, TargetsAlike DEF FailureIsFound, Baseline
<1>1. Baseline \in Schedules /\ best \in Schedules /\ failing \in Schedules
  BY DiscoveryAssumption DEF TypeOK, Baseline, Schedules
<1>2. CASE BaselineFails
  BY <1>2 DEF BaselineFails, AlwaysHealthy
<1>3. CASE CandidateUnusable
  <2>1. PICK r \in platform[Trial] : r.status \notin {"healthy", "workload_failure"}
    BY <1>3 DEF CandidateUnusable
  <2>2. Trial \in Schedules
    BY <1>3, TrialIsSchedule DEF CandidateUnusable, NeedsRun
  <2> QED BY <2>1, <2>2, TwoAnswers
<1>4. CASE SearchEnds
  <2>1. phase = "search" /\ Untested = {}
    BY <1>4, SearchOverIsExhaustion DEF SearchEnds, SearchScope
  <2>2. Candidates[c] \in seen
    BY <2>1 DEF Untested
  <2>3. \E r \in platform[Candidates[c]] : r.status = "healthy"
    BY <2>1, <2>2 DEF SearchScope, SeenWereHealthy
  <2> QED BY <2>3 DEF AlwaysFails
<1>5. CASE ConfirmationMismatches
  <2>1. phase \in {"confirm", "verify"}
    BY <1>5 DEF ConfirmationMismatches, Confirming
  <2>2. PICK r \in platform[Trial] : ~Matches(r)
    BY <1>5 DEF ConfirmationMismatches
  <2>3. Trial \in Schedules /\ AlwaysFails(Trial)
    BY <1>1, <2>1 DEF Trial, Completeness, FailingFails, BestFails, Minimizing
  <2> QED BY <2>1, <2>2, <2>3, FailureMatches DEF Found
<1>6. CASE SignatureMissing
  BY <1>6 DEF SignatureMissing, Completeness, ExpectedIsShown, Publishable
<1>7. CASE FinalRunUnstable
  <2>1. phase = "final" /\ Trial = best
    BY <1>7 DEF FinalRunUnstable, Trial
  <2>2. PICK r \in platform[best] : ~Fails(r)
    BY <1>7, <2>1 DEF FinalRunUnstable
  <2>3. AlwaysFails(best)
    BY <2>1 DEF Completeness, BestFails, Minimizing
  <2> QED BY <1>1, <2>1, <2>2, <2>3, FailureMatches DEF Found
<1>8. CASE ReplayMissing \/ ArtifactRejected
  BY <1>8 DEF ReplayMissing, ArtifactRejected, Publishable
<1>9. CASE ArtifactCreated \/ ReplaysEnd
  BY <1>9 DEF ArtifactCreated, ReplaysEnd
<1>10. CASE ReplayDiffers
  BY <1>10, ReplayReproduces DEF ReplayDiffers, Completeness, ReplayIsPossible
<1>11. CASE BudgetExhausted
  <2>1. Budgeted /\ executions >= MaxSchedules /\ executions' = executions
    BY <1>11, DiscoveryAssumption DEF BudgetExhausted, WithinBudget, TypeOK
  <2> QED BY <1>11, <2>1 DEF BudgetExhausted, BudgetIsSpent
<1>12. CASE PlatformThrows
  <2>1. Trial \in Schedules
    BY <1>12, TrialIsSchedule DEF PlatformThrows
  <2> QED BY <1>12, <2>1, TwoAnswers DEF PlatformThrows
<1>13. CASE Returned \/ UNCHANGED vars
  <2>1. phase = "done" /\ status' = status /\ (BudgetIsSpent' <=> BudgetIsSpent)
    BY <1>13 DEF Returned, vars, BudgetIsSpent
  <2> QED BY <2>1 DEF Completeness, FailureIsFound
<1> QED
  BY <1>2, <1>3, <1>4, <1>5, <1>6, <1>7, <1>8, <1>9, <1>10, <1>11, <1>12, <1>13
     DEF Next, Step, BaselinePasses, CandidatePasses, CandidateFails,
         ConfirmationMatches, Confirming, MinimizerStarts, FirstMatches, RemovalTried,
         RemovalEnds, LoweringTried, LoweringGivesUp, LoweringEnds, FinalRunFails,
         AfterFinalRun, VerificationEnds, ReplayMatches

(* Every step keeps completeness. *)
LEMMA CompletenessKept ==
  ASSUME TypeOK, Evidence, BudgetRespected, SearchScope, OneFailure, Completeness,
         [Next]_vars
  PROVE  Completeness'
<1>1. FailureIsFound'
  BY FailureFoundKept
<1> QED
  BY <1>1, FailingKept, BestKept, ExpectedKept, EvidenceShownKept, ReplayIsPossibleKept
     DEF Completeness

LEMMA CompletenessHolds == Spec => []Completeness
<1>1. Init => Completeness
  BY DEF Init, Completeness, FailingFails, BestFails, Minimizing, ExpectedIsShown,
         EvidenceIsShown, ReplayIsPossible, FailureIsFound
<1>2. Minimality => OneFailure
  BY DEF Minimality
<1> QED
  BY <1>1, <1>2, MinimalityHolds, ScopeHolds, BudgetIsRespected, CompletenessKept, PTL
     DEF Spec

(* A failure of a reproducible target that one of the candidates shows is not
   missed: discoverFailure publishes it, whatever the order of the candidates,
   the repeated ones and the path of the minimizer, unless the budget is spent. *)
THEOREM FailuresAreFound == Spec => []FailureIsFound
<1>1. Completeness => FailureIsFound
  BY DEF Completeness
<1> QED BY <1>1, CompletenessHolds, PTL

(* What minimizeSchedule promises: of a reproducible target, a published
   schedule always fails, and loses its failure with any perturbation less and
   with any delay lowered to an option. *)
THEOREM MinimalityIsReached == Spec => []PublishedScheduleIsMinimal
<1>1. Completeness /\ Minimality => PublishedScheduleIsMinimal
  BY DEF Completeness, BestFails, Minimality, MinimalOnceLowered, Minimal,
         PublishedScheduleIsMinimal, Returns, With
<1> QED BY <1>1, CompletenessHolds, MinimalityHolds, PTL

(* Schedules that delay nothing longer than the options do. *)
WithinOptions(s) == \A d \in Dims : \E n \in DelayOptions : s[d] <= n

NoFailureIsConclusive ==
  Returns("no_failure") /\ Reproducible =>
    \A s \in Schedules : WithinOptions(s) => AlwaysHealthy(s)

(* no_failure says more than that the tested schedules were healthy: with the
   grid planned, a reproducible target has no failure at any delays up to the
   longest option, those between the options included. *)
THEOREM NoFailureIsFinal == ASSUME GridIsPlanned PROVE Spec => []NoFailureIsConclusive
<1>1. ASSUME NoFailureCoversTheGrid, Returns("no_failure"), Reproducible,
             NEW s \in Schedules, WithinOptions(s)
      PROVE  AlwaysHealthy(s)
  <2> DEFINE t == [d \in Dims |-> CHOOSE n \in DelayOptions : s[d] <= n]
  <2>1. t \in [Dims -> DelayOptions] /\ \A d \in Dims : s[d] <= t[d]
    BY <1>1 DEF WithinOptions
  <2>2. t \in Schedules
    <3>1. DelayOptions \subseteq Delays
      BY DiscoveryAssumption
    <3> QED BY <2>1, <3>1 DEF Schedules
  <2>3. AlwaysHealthy(t)
    <3>1. \E r \in platform[t] : r.status = "healthy"
      BY <1>1, <2>1 DEF NoFailureCoversTheGrid
    <3> QED BY <1>1, <2>2, <3>1 DEF Reproducible, AlwaysFails
  <2> QED BY <1>1, <2>1, <2>2, <2>3, ShorterIsHealthy
<1>2. NoFailureCoversTheGrid => NoFailureIsConclusive
  BY <1>1 DEF NoFailureIsConclusive
<1> QED BY <1>2, GridIsCovered, PTL

-----------------------------------------------------------------------------
(* The list of delays the candidates are made from, by either planner of
   candidates.ts, is the one the minimizer lowers to. *)
PlannedFrom(list) ==
  /\ list \in Seq(Nat) /\ ToSet(list) = DelayOptions
  /\ Candidates = Adaptive(NumDims, list) \/ Candidates = Product(NumDims, list)

(* Both planners plan the whole grid. *)
LEMMA PlannersPlanTheGrid ==
  ASSUME NEW list, PlannedFrom(list)
  PROVE  GridIsPlanned
<1> DEFINE grid == [1 .. NumDims -> DelayOptions]
<1>1. /\ NumDims \in Nat /\ list \in Seq(Nat) /\ ToSet(list) = DelayOptions
      /\ Candidates = Adaptive(NumDims, list) \/ Candidates = Product(NumDims, list)
  BY DiscoveryAssumption DEF PlannedFrom
<1>2. grid \subseteq ToSet(Candidates)
  <2>1. CASE Candidates = Product(NumDims, list)
    BY <1>1, <2>1, PlannedExactly DEF PlansAreExact
  <2>2. CASE Candidates = Adaptive(NumDims, list)
    <3> DEFINE early == Isolated(NumDims, list) \o Pairwise(NumDims, list)
    <3>1. Covers(Full(NumDims, list), grid)
      <4>1. Covers(Full(NumDims, list), [1 .. NumDims -> ToSet(list)])
        BY <1>1, GridIsGiven DEF Lists
      <4> QED BY <1>1, <4>1, Zenon
    <3>2. PICK one : Covers(Isolated(NumDims, list), one)
      BY <1>1, IsolatedLists DEF Lists
    <3>3. PICK two : Covers(Pairwise(NumDims, list), two)
      BY <1>1, PairwiseLists DEF Lists
    <3>4. Covers(early, one \cup two)
      BY <3>2, <3>3, ConcatCovers
    <3> HIDE DEF early, grid
    <3>5. Covers(early \o Full(NumDims, list), (one \cup two) \cup grid)
      BY <3>1, <3>4, ConcatCovers
    <3>6. Candidates = early \o Full(NumDims, list)
      BY <2>2 DEF Adaptive, early
    <3> QED BY <3>5, <3>6 DEF Covers
  <2> QED BY <1>1, <2>1, <2>2
<1> QED BY <1>2 DEF GridIsPlanned, Dims, ToSet

(* So no_failure of a discovery with the planners' candidates is final: every
   schedule of the grid was run, and a reproducible target has no failure at any
   delays up to the longest option (candidates.ts with orchestrator.ts). *)
THEOREM PlannedSearchIsFinal ==
  ASSUME NEW list, PlannedFrom(list)
  PROVE  Spec => [](NoFailureCoversTheGrid /\ NoFailureIsConclusive)
<1>1. GridIsPlanned
  BY PlannersPlanTheGrid
<1> QED BY <1>1, GridIsCovered, NoFailureIsFinal, PTL

-----------------------------------------------------------------------------
(* The order of the plan. *)

TestedHealthy(s) == s \in seen /\ \E r \in platform[s] : r.status = "healthy"

(* The search goes through the plan in order: what is planned before the schedule
   it found was tested, and did not show a failure then. *)
EarlierAreHealthy(i) == \A j \in Planned : j < i => TestedHealthy(Candidates[j])

FoundInOrder == Found => \E i \in Planned : failing = Candidates[i] /\ EarlierAreHealthy(i)

LEMMA FoundInOrderKept ==
  ASSUME TypeOK, Evidence, SearchScope, FoundInOrder, [Next]_vars
  PROVE  FoundInOrder'
<1> SUFFICES ASSUME Found'
             PROVE  (\E i \in Planned : failing = Candidates[i] /\ EarlierAreHealthy(i))'
  BY DEF FoundInOrder
<1>1. platform' = platform /\ Planned' = Planned
  BY TargetKept DEF Planned
<1>2. CASE CandidateFails
  <2>1. /\ phase = "search" /\ ~SearchOver /\ failing' = Trial
        /\ seen' = seen \cup {Trial}
    BY <1>2 DEF CandidateFails
  <2>2. Untested # {} /\ Untested \in SUBSET Nat
    <3>1. Untested \in SUBSET DOMAIN Candidates
      BY DEF Untested, Planned
    <3>2. DOMAIN Candidates \in SUBSET Nat
      BY DiscoveryAssumption
    <3> QED BY <2>1, <3>1, <3>2 DEF SearchOver
  <2> DEFINE i == Min(Untested)
  <2>3. i \in Untested /\ \A j \in Untested : i <= j
    BY <2>2, LeastElement
  <2>4. i \in Planned /\ Trial = Candidates[i]
    BY <2>1, <2>3 DEF Trial, Untested
  <2> HIDE DEF i
  <2>5. ASSUME NEW j \in Planned, j < i PROVE TestedHealthy(Candidates[j])
    <3>1. j \in Nat /\ i \in Nat
      BY <2>4, DiscoveryAssumption DEF Planned
    <3>2. Candidates[j] \in seen
      BY <2>3, <2>5, <3>1 DEF Untested
    <3> QED BY <2>1, <3>2 DEF SearchScope, SeenWereHealthy, TestedHealthy
  <2> QED BY <1>1, <2>1, <2>4, <2>5 DEF EarlierAreHealthy, TestedHealthy
<1>3. CASE ~CandidateFails
  <2>1. Found
    BY <1>3, FoundIsKept
  <2>2. PICK i \in Planned : failing = Candidates[i] /\ EarlierAreHealthy(i)
    BY <2>1 DEF FoundInOrder
  <2>3. failing' = failing /\ seen \subseteq seen'
    BY <1>3
       DEF Next, Step, vars, searchVars, Returned, BaselinePasses, BaselineFails,
           CandidatePasses, CandidateUnusable, SearchEnds, ConfirmationMatches,
           ConfirmationMismatches, SignatureMissing, MinimizerStarts, FirstMatches,
           RemovalTried, RemovalEnds, LoweringTried, LoweringGivesUp, LoweringEnds,
           FinalRunFails, FinalRunUnstable, VerificationEnds, ReplayMissing,
           ArtifactRejected, ArtifactCreated, ReplayMatches, ReplayDiffers, ReplaysEnd,
           BudgetExhausted, PlatformThrows
  <2>4. EarlierAreHealthy(i)'
    BY <1>1, <2>2, <2>3 DEF EarlierAreHealthy, TestedHealthy
  <2> QED BY <1>1, <2>2, <2>3, <2>4
<1> QED BY <1>2, <1>3

(* Of a schedule that is found, everything simpler was tried and was healthy. *)
SimplerWereHealthy ==
  Found => \A s \in [Dims -> DelayOptions \cup {0}] :
    \A n \in {1, 2} :
      Cardinality(Perturbed(s)) = n /\ n < Cardinality(Perturbed(failing))
        => TestedHealthy(s)

(* generateAdaptiveCandidateStages: isolated candidates, then pairs, then full
   fallback.  So a discovery with its plan reports a pair only where no single
   delay failed, and more than a pair only where no pair did, whatever the target. *)
THEOREM SimplestIsFound ==
  ASSUME NEW list \in Seq(Nat), ToSet(list) = DelayOptions,
         Candidates = Adaptive(NumDims, list)
  PROVE  Spec => []SimplerWereHealthy
<1>1. Init => FoundInOrder
  BY DEF Init, FoundInOrder, Found
<1>2. TypeOK /\ Evidence /\ SearchScope /\ FoundInOrder /\ [Next]_vars => FoundInOrder'
  BY FoundInOrderKept
<1>3. ASSUME FoundInOrder, Found, NEW s \in [Dims -> DelayOptions \cup {0}],
             NEW n \in {1, 2}, Cardinality(Perturbed(s)) = n,
             n < Cardinality(Perturbed(failing))
      PROVE  TestedHealthy(s)
  <2>1. PICK i \in Planned : failing = Candidates[i] /\ EarlierAreHealthy(i)
    BY <1>3 DEF FoundInOrder
  <2>2. /\ i \in DOMAIN Candidates
        /\ Perturbed(s) = Delayed(NumDims, s)
        /\ Perturbed(failing) = Delayed(NumDims, Candidates[i])
    BY <2>1 DEF Planned, Perturbed, Delayed, Dims
  <2>3. NumDims \in Nat /\ s \in [1 .. NumDims -> ToSet(list) \cup {0}]
    BY DiscoveryAssumption DEF Dims
  <2>4. PICK j \in DOMAIN Candidates : j < i /\ Candidates[j] = s
    <3>1. Cardinality(Delayed(NumDims, s)) = n
      BY <1>3, <2>2
    <3>2. n < Cardinality(Delayed(NumDims, Candidates[i]))
      BY <1>3, <2>2
    <3> QED BY <2>2, <2>3, <3>1, <3>2, SimplerIsEarlier
  <2>5. Perturbed(s) # {}
    <3> SUFFICES ASSUME Perturbed(s) = {} PROVE FALSE
      OBVIOUS
    <3>1. Cardinality({}) = 0
      BY FS_EmptySet
    <3>2. Cardinality(Perturbed(s)) = 0
      BY <3>1, Zenon
    <3>3. n = 0
      BY <1>3, <3>2, Zenon
    <3> QED BY <3>3
  <2>6. j \in Planned
    BY <2>4, <2>5 DEF Planned
  <2> QED BY <2>1, <2>4, <2>6 DEF EarlierAreHealthy
<1>4. FoundInOrder => SimplerWereHealthy
  BY <1>3 DEF SimplerWereHealthy
<1> QED BY <1>1, <1>2, <1>4, EvidenceGathered, ScopeHolds, PTL DEF Spec

-----------------------------------------------------------------------------
(* Progress. *)

(* The moves from phase to phase the code makes all go forward. *)
LEMMA PhasesGoForward ==
  ASSUME phase \in Phases,
         \/ phase # "done" /\ phase' = "done"
         \/ <<phase, phase'>> \in
              {<<"baseline", "search">>, <<"search", "confirm">>, <<"confirm", "remove">>,
               <<"remove", "lower">>, <<"lower", "final">>, <<"final", "verify">>,
               <<"final", "publish">>, <<"verify", "publish">>, <<"publish", "replay">>}
  PROVE  EntersLaterPhase
<1>1. /\ DOMAIN PhaseOrder = 1 .. 10
      /\ PhaseOrder[1] = "baseline" /\ PhaseOrder[2] = "search"
      /\ PhaseOrder[3] = "confirm" /\ PhaseOrder[4] = "remove"
      /\ PhaseOrder[5] = "lower" /\ PhaseOrder[6] = "final"
      /\ PhaseOrder[7] = "verify" /\ PhaseOrder[8] = "publish"
      /\ PhaseOrder[9] = "replay" /\ PhaseOrder[10] = "done"
  BY DEF PhaseOrder
<1>2. ASSUME NEW i \in 1 .. 10, NEW j \in 1 .. 10, i < j,
             phase = PhaseOrder[i], phase' = PhaseOrder[j]
      PROVE  EntersLaterPhase
  BY <1>1, <1>2 DEF EntersLaterPhase
<1>3. CASE phase # "done" /\ phase' = "done"
  <2>1. \E i \in 1 .. 9 : phase = PhaseOrder[i]
    BY <1>1, <1>3 DEF Phases
  <2> QED BY <1>1, <1>2, <1>3, <2>1
<1>4. CASE phase = "baseline" /\ phase' = "search"
  BY <1>1, <1>2, <1>4
<1>5. CASE phase = "search" /\ phase' = "confirm"
  BY <1>1, <1>2, <1>5
<1>6. CASE phase = "confirm" /\ phase' = "remove"
  BY <1>1, <1>2, <1>6
<1>7. CASE phase = "remove" /\ phase' = "lower"
  BY <1>1, <1>2, <1>7
<1>8. CASE phase = "lower" /\ phase' = "final"
  BY <1>1, <1>2, <1>8
<1>9. CASE phase = "final" /\ phase' \in {"verify", "publish"}
  BY <1>1, <1>2, <1>9
<1>10. CASE phase \in {"verify"} /\ phase' = "publish"
  BY <1>1, <1>2, <1>10
<1>11. CASE phase = "publish" /\ phase' = "replay"
  BY <1>1, <1>2, <1>11
<1> QED
  BY <1>3, <1>4, <1>5, <1>6, <1>7, <1>8, <1>9, <1>10, <1>11

(* Every step advances, action by action. *)
LEMMA StepAdvances ==
  ASSUME TypeOK, Evidence, Step
  PROVE  EntersLaterPhase \/ (phase' = phase /\ NearsPhaseEnd)
<1> USE DiscoveryAssumption DEF Goto, Return
<1>0. phase \in Phases
  BY DEF TypeOK
<1>1. CASE BaselinePasses
  <2>1. baselines < BaselineRuns /\ baselines \in Nat
    BY <1>1 DEF BaselinePasses, Evidence, BaselineEvidence, TypeOK
  <2>2. phase = "baseline" /\ baselines' = baselines + 1
        /\ phase' = IF baselines + 1 = BaselineRuns THEN "search" ELSE "baseline"
    BY <1>1 DEF BaselinePasses
  <2>3. CASE baselines + 1 = BaselineRuns
    BY <1>0, <2>2, <2>3, PhasesGoForward
  <2>4. CASE baselines + 1 # BaselineRuns
    BY <2>1, <2>2, <2>4 DEF NearsPhaseEnd
  <2> QED BY <2>3, <2>4
<1>2. CASE CandidatePasses
  <2>1. DOMAIN Candidates \in SUBSET Nat
    OBVIOUS
  <2>2. Untested # {} /\ Untested \in SUBSET Nat
    BY <1>2, <2>1 DEF CandidatePasses, SearchOver, Untested, Planned
  <2>3. phase = "search" /\ Min(Untested) \in Untested /\ Trial = Candidates[Min(Untested)]
    BY <1>2, <2>2, LeastElement DEF CandidatePasses, Trial
  <2>4. seen' = seen \cup {Trial} /\ options' = options /\ phase' = phase
    BY <1>2 DEF CandidatePasses, Run, given
  <2>5. Untested' \subseteq Untested /\ Min(Untested) \notin Untested'
    BY <2>3, <2>4 DEF Untested, Planned
  <2> QED BY <2>3, <2>4, <2>5 DEF NearsPhaseEnd
<1>3. CASE CandidateFails
  BY <1>0, <1>3, PhasesGoForward DEF CandidateFails
<1>4. CASE ConfirmationMatches
  <2>1. phase \in {"confirm", "verify"} /\ phase' = phase /\ repeats' = repeats + 1
    BY <1>4 DEF ConfirmationMatches, Confirming
  <2>2. repeats < ConfirmationRuns /\ repeats \in Nat
    BY <1>4 DEF ConfirmationMatches, Confirming, NeedsRun, ConfirmationRepeats, TypeOK
  <2> QED BY <2>1, <2>2 DEF NearsPhaseEnd
<1>5. CASE MinimizerStarts
  BY <1>0, <1>5, PhasesGoForward DEF MinimizerStarts
<1>6. CASE FirstMatches
  BY <1>6 DEF FirstMatches, NearsPhaseEnd
<1>7. CASE RemovalTried
  <2>1. phase' = phase /\ phase = "remove" /\ pending' = pending \ {Current} /\ pending # {}
    BY <1>7 DEF RemovalTried
  <2>2. Current \in pending
    BY <2>1, CurrentIsDimension
  <2>3. pending' \subseteq pending /\ pending' # pending
    BY <2>1, <2>2
  <2> QED BY <2>1, <2>3 DEF NearsPhaseEnd
<1>8. CASE LoweringTried
  <2>1. phase' = phase /\ phase = "lower" /\ pending # {} /\ LowerDelays # {}
        /\ Trial = With(Current, NextLower)
    BY <1>8 DEF LoweringTried, Trial, With
  <2>2. PICK r \in platform[Trial] :
          IF Fails(r)
            THEN best' = Trial /\ pending' = pending \ {Current} /\ floor' = 0
            ELSE floor' = NextFloor /\ UNCHANGED <<best, pending>>
    BY <1>8 DEF LoweringTried
  <2>3. CASE Fails(r)
    <3>1. Current \in pending /\ pending' = pending \ {Current}
      BY <2>1, <2>2, <2>3, CurrentIsDimension
    <3>2. pending' \subseteq pending /\ pending' # pending
      BY <3>1
    <3> QED BY <2>1, <3>2 DEF NearsPhaseEnd
  <2>4. CASE ~Fails(r)
    <3>1. Current \in Dims /\ best \in [Dims -> Delays]
      BY <2>1, CurrentIsDimension DEF TypeOK, Schedules
    <3>2. NextLower \in DelayOptions /\ floor < NextLower
      BY <2>1, NextLowerIsLeast
    <3>3. NextFloor = NextLower
      BY <2>1, <3>1 DEF NextFloor, With
    <3>4. floor' = NextLower /\ pending' = pending
      BY <2>2, <2>4, <3>3
    <3> QED BY <2>1, <3>2, <3>4 DEF NearsPhaseEnd
  <2> QED BY <2>3, <2>4
<1>9. CASE LoweringGivesUp
  <2>1. phase' = phase /\ phase = "lower" /\ pending' = pending \ {Current} /\ pending # {}
    BY <1>9 DEF LoweringGivesUp
  <2>2. Current \in pending
    BY <2>1, CurrentIsDimension
  <2>3. pending' \subseteq pending /\ pending' # pending
    BY <2>1, <2>2
  <2> QED BY <2>1, <2>3 DEF NearsPhaseEnd
<1>10. CASE RemovalEnds \/ LoweringEnds
  BY <1>0, <1>10, PhasesGoForward DEF RemovalEnds, LoweringEnds
<1>11. CASE FinalRunFails \/ VerificationEnds
  BY <1>0, <1>11, PhasesGoForward DEF FinalRunFails, AfterFinalRun, VerificationEnds
<1>12. CASE ArtifactCreated
  BY <1>0, <1>12, PhasesGoForward DEF ArtifactCreated
<1>13. CASE ReplayMatches
  BY <1>13 DEF ReplayMatches, ReplaysNeeded, TypeOK, NearsPhaseEnd
<1>14. CASE BaselineFails \/ CandidateUnusable \/ SearchEnds \/ ConfirmationMismatches
              \/ SignatureMissing \/ FinalRunUnstable \/ ReplayMissing
              \/ ArtifactRejected \/ ReplayDiffers \/ ReplaysEnd \/ BudgetExhausted
              \/ PlatformThrows
  <2>1. phase # "done" /\ phase' = "done"
    BY <1>14
       DEF BaselineFails, CandidateUnusable, SearchEnds, ConfirmationMismatches,
           Confirming, SignatureMissing, FinalRunUnstable, ReplayMissing,
           ArtifactRejected, ReplayDiffers, ReplaysEnd, BudgetExhausted, PlatformThrows,
           NeedsRun
  <2> QED BY <1>0, <2>1, PhasesGoForward
<1> QED
  BY <1>1, <1>2, <1>3, <1>4, <1>5, <1>6, <1>7, <1>8, <1>9, <1>10, <1>11, <1>12, <1>13,
     <1>14 DEF Step

(* No loop of a discovery repeats itself: the safety half of DiscoveryReturns,
   for any target, any candidates and any delays. *)
THEOREM DiscoveryAdvances == Spec => EveryStepAdvances
<1>1. TypeOK /\ Evidence /\ [Next]_vars =>
        [EntersLaterPhase \/ (phase' = phase /\ NearsPhaseEnd)]_vars
  BY StepAdvances DEF Next, Returned
<1> QED BY <1>1, EvidenceGathered, PTL DEF Spec, EveryStepAdvances

-----------------------------------------------------------------------------
(* The runs of a discovery. *)

(* Dimensions the current pass is done with, and lower delays it has tried. *)
Visited == NumDims - Cardinality(pending)
Tried == {n \in LowerOptions : n <= floor}

(* A second run is awaited only where a trial is under way. *)
SecondRun ==
  attempt = 2 /\ phase # "done" => phase \in {"remove", "lower", "final"} /\ NeedsRun

(* What each phase may have spent. *)
Spending ==
  /\ phase = "baseline" => executions <= baselines
  /\ phase = "search" => executions <= BaselineRuns + Cardinality(seen)
  /\ phase = "confirm" => /\ executions <= BaselineRuns + Cardinality(seen) + repeats
                          /\ repeats <= ConfirmationRepeats
  /\ phase = "remove" => executions <= UpToRemoval + 2 * Visited + (attempt - 1)
  /\ phase = "lower" =>
       executions <= UpToLowering + LoweringRuns * Visited
                       + 2 * Cardinality(Tried) + (attempt - 1)
  /\ phase = "lower" /\ pending = {} => floor = 0
  /\ phase = "final" => executions <= UpToFinal + (attempt - 1)
  /\ phase = "verify" => /\ options.verified
                         /\ executions <= UpToFinal + 2 + repeats
                         /\ repeats <= ConfirmationRuns

SeenAreCandidates == seen \subseteq Tested

RunOrder == SecondRun /\ SeenAreCandidates /\ Spending /\ RunsAreBounded

(* There are finitely many candidates. *)
LEMMA TestedIsFinite == IsFiniteSet(Tested) /\ Cardinality(Tested) \in Nat
<1>1. Candidates \in [1 .. Len(Candidates) -> Schedules] /\ Len(Candidates) \in Nat
  BY DiscoveryAssumption
<1>2. Candidates \in Surjection(1 .. Len(Candidates), Tested)
  BY <1>1 DEF Surjection, Tested
<1>3. IsFiniteSet(1 .. Len(Candidates))
  BY <1>1, FS_Interval
<1> QED BY <1>2, <1>3, FS_Surjection, FS_CardinalityType

LEMMA ProductIsMonotone ==
  ASSUME NEW a \in Nat, NEW b \in Nat, NEW c \in Nat, b <= c
  PROVE  a * b <= a * c /\ a * b \in Nat /\ a * (b + 1) = a * b + a
OBVIOUS

(* The sizes the phases are measured by. *)
LEMMA Sizes ==
  ASSUME IsFiniteSet(DelayOptions), TypeOK, SeenAreCandidates
  PROVE  /\ Cardinality(pending) \in Nat /\ Visited \in Nat /\ Visited <= NumDims
         /\ IsFiniteSet(pending) /\ (pending = {} => Visited = NumDims)
         /\ Cardinality(seen) \in Nat /\ Cardinality(seen) <= Cardinality(Tested)
         /\ IsFiniteSet(LowerOptions) /\ Cardinality(LowerOptions) \in Nat
         /\ LoweringRuns \in Nat
         /\ UpToRemoval \in Nat /\ UpToLowering \in Nat /\ UpToFinal \in Nat
         /\ MostRuns \in Nat /\ UpToFinal + 2 <= MostRuns
         /\ UpToRemoval <= UpToLowering /\ UpToLowering <= UpToFinal
         /\ ConfirmationRepeats \in Nat
<1>1. /\ IsFiniteSet(Dims) /\ Cardinality(Dims) = NumDims
  <2>1. NumDims \in Nat /\ 1 \in Int /\ NumDims \in Int
    BY DiscoveryAssumption
  <2>2. IsFiniteSet(1 .. NumDims)
        /\ Cardinality(1 .. NumDims) = IF 1 > NumDims THEN 0 ELSE NumDims - 1 + 1
    BY <2>1, FS_Interval
  <2> QED BY <2>1, <2>2 DEF Dims
<1> USE DiscoveryAssumption DEF TypeOK
<1>2. /\ IsFiniteSet(pending) /\ Cardinality(pending) \in Nat
      /\ Cardinality(pending) <= NumDims
  BY <1>1, FS_Subset, FS_CardinalityType
<1>3. pending = {} => Cardinality(pending) = 0
  BY FS_EmptySet
<1>4. IsFiniteSet(LowerOptions) /\ Cardinality(LowerOptions) \in Nat
  BY FS_Subset, FS_CardinalityType DEF LowerOptions
<1>5. Cardinality(seen) \in Nat /\ Cardinality(seen) <= Cardinality(Tested)
  BY TestedIsFinite, FS_Subset, FS_CardinalityType DEF SeenAreCandidates
<1>6. LoweringRuns \in Nat /\ LoweringRuns * NumDims \in Nat
  BY <1>4, ProductIsMonotone DEF LoweringRuns
<1>7. ConfirmationRepeats \in Nat
  BY DEF ConfirmationRepeats
<1>8. UpToRemoval \in Nat /\ UpToLowering \in Nat /\ UpToFinal \in Nat
      /\ UpToRemoval <= UpToLowering /\ UpToLowering <= UpToFinal
  <2>1. PICK k \in Nat : k = LoweringRuns * NumDims
    BY <1>6
  <2>2. UpToRemoval \in Nat
    BY <1>7, TestedIsFinite DEF UpToRemoval
  <2>3. UpToLowering \in Nat /\ UpToRemoval <= UpToLowering
    BY <2>2 DEF UpToLowering
  <2>4. UpToFinal = UpToLowering + k
    BY <2>1 DEF UpToFinal
  <2> QED BY <2>1, <2>2, <2>3, <2>4
<1>9. MostRuns \in Nat /\ UpToFinal + 2 <= MostRuns
  BY <1>8 DEF MostRuns
<1> QED BY <1>2, <1>3, <1>4, <1>5, <1>6, <1>7, <1>8, <1>9 DEF Visited

(* The search runs a candidate it has not run, so at most each of them once. *)
LEMMA SearchRoom ==
  ASSUME TypeOK, SeenAreCandidates, phase = "search", ~SearchOver
  PROVE  /\ seen \cup {Trial} \subseteq Tested
         /\ Cardinality(seen \cup {Trial}) = Cardinality(seen) + 1
         /\ Cardinality(seen) \in Nat /\ Cardinality(seen) + 1 <= Cardinality(Tested)
<1>1. DOMAIN Candidates \in SUBSET Nat
  BY DiscoveryAssumption
<1>2. Untested # {} /\ Untested \in SUBSET Nat
  BY <1>1 DEF SearchOver, Untested, Planned
<1>3. Min(Untested) \in Untested /\ Trial = Candidates[Min(Untested)]
  BY <1>2, LeastElement DEF Trial
<1>4. Trial \in Tested /\ Trial \notin seen
  BY <1>3 DEF Untested, Planned, Tested
<1>5. IsFiniteSet(seen) /\ Cardinality(seen) \in Nat
  BY FS_CardinalityType DEF TypeOK
<1>6. Cardinality(seen \cup {Trial}) = Cardinality(seen) + 1
  BY <1>4, <1>5, FS_AddElement
<1>7. seen \cup {Trial} \subseteq Tested
  BY <1>4 DEF SeenAreCandidates
<1>8. Cardinality(seen \cup {Trial}) <= Cardinality(Tested)
  BY <1>7, TestedIsFinite, FS_Subset
<1> QED BY <1>5, <1>6, <1>7, <1>8

(* Leaving a perturbation behind is progress by one. *)
LEMMA VisitRoom ==
  ASSUME IsFiniteSet(DelayOptions), TypeOK, SeenAreCandidates, pending # {}
  PROVE  /\ Cardinality(pending \ {Current}) = Cardinality(pending) - 1
         /\ Visited + 1 <= NumDims
         /\ NumDims - Cardinality(pending \ {Current}) = Visited + 1
         /\ LoweringRuns * Visited \in Nat
         /\ LoweringRuns * (Visited + 1) = LoweringRuns * Visited + LoweringRuns
         /\ LoweringRuns * (Visited + 1) <= LoweringRuns * NumDims
<1>1. Current \in pending
  BY CurrentIsDimension
<1>2. /\ IsFiniteSet(pending) /\ Cardinality(pending) \in Nat /\ Visited \in Nat
      /\ LoweringRuns \in Nat
  BY Sizes
<1>3. Cardinality(pending \ {Current}) = Cardinality(pending) - 1
  BY <1>1, <1>2, FS_RemoveElement
<1>4. Cardinality(pending) # 0 /\ NumDims \in Nat
  BY <1>2, FS_EmptySet, DiscoveryAssumption
<1>5. Visited + 1 <= NumDims /\ NumDims - Cardinality(pending \ {Current}) = Visited + 1
  BY <1>2, <1>3, <1>4 DEF Visited
<1>6. /\ LoweringRuns * Visited \in Nat
      /\ LoweringRuns * (Visited + 1) = LoweringRuns * Visited + LoweringRuns
      /\ LoweringRuns * (Visited + 1) <= LoweringRuns * NumDims
  BY <1>2, <1>4, <1>5, ProductIsMonotone
<1> QED BY <1>3, <1>5, <1>6

(* So is trying the next lower delay, of which there are as many as lower options. *)
LEMMA LoweringRoom ==
  ASSUME IsFiniteSet(DelayOptions), TypeOK, SeenAreCandidates
  PROVE  /\ Cardinality(Tried) \in Nat /\ 2 * Cardinality(Tried) <= LoweringRuns
         /\ pending # {} /\ LowerDelays # {} =>
              /\ 2 * Cardinality(Tried) + 2 <= LoweringRuns
              /\ Cardinality({n \in LowerOptions : n <= NextLower}) \in Nat
              /\ Cardinality(Tried) + 1
                   <= Cardinality({n \in LowerOptions : n <= NextLower})
<1> DEFINE Next1 == {n \in LowerOptions : n <= NextLower}
<1>1. IsFiniteSet(LowerOptions) /\ Cardinality(LowerOptions) \in Nat
  BY Sizes
<1>2. /\ IsFiniteSet(Tried) /\ Cardinality(Tried) \in Nat
      /\ Cardinality(Tried) <= Cardinality(LowerOptions)
  BY <1>1, FS_Subset, FS_CardinalityType DEF Tried
<1>3. /\ IsFiniteSet(Next1) /\ Cardinality(Next1) \in Nat
      /\ Cardinality(Next1) <= Cardinality(LowerOptions)
  BY <1>1, FS_Subset, FS_CardinalityType
<1>4. ASSUME pending # {}, LowerDelays # {}
      PROVE  Cardinality(Tried) + 1 <= Cardinality(Next1)
  <2>1. /\ NextLower \in DelayOptions /\ floor < NextLower
        /\ NextLower < best[Current] /\ best[Current] \in Delays
    BY <1>4, NextLowerIsLeast, CurrentIsDimension DEF TypeOK, Schedules
  <2>2. floor \in Nat /\ LowerOptions \subseteq Nat /\ NextLower \in Nat
    BY <2>1, DiscoveryAssumption DEF TypeOK, LowerOptions
  <2>3. NextLower \in Next1 /\ NextLower \notin Tried /\ Tried \subseteq Next1
    BY <2>1, <2>2 DEF Tried, LowerOptions
  <2>4. Tried \subseteq Next1 \ {NextLower}
    BY <2>3
  <2>5. /\ Cardinality(Next1 \ {NextLower}) = Cardinality(Next1) - 1
        /\ IsFiniteSet(Next1 \ {NextLower})
    BY <1>3, <2>3, FS_RemoveElement
  <2>6. Cardinality(Tried) <= Cardinality(Next1 \ {NextLower})
    BY <2>4, <2>5, FS_Subset
  <2> QED BY <1>2, <1>3, <2>5, <2>6
<1> QED BY <1>1, <1>2, <1>3, <1>4 DEF LoweringRuns

(* Whenever the coroutine asks for a run, one more is within the bound. *)
LEMMA RoomForOne ==
  ASSUME IsFiniteSet(DelayOptions), TypeOK, Evidence, RunOrder, NeedsRun
  PROVE  executions + 1 <= MostRuns
<1>1. /\ executions \in Nat /\ repeats \in Nat /\ attempt \in {1, 2} /\ baselines \in Nat
      /\ BaselineRuns \in Nat /\ NumDims \in Nat /\ ConfirmationRuns \in Nat
  BY DiscoveryAssumption DEF TypeOK
<1>2. /\ Cardinality(seen) \in Nat /\ Cardinality(seen) <= Cardinality(Tested)
      /\ UpToRemoval \in Nat /\ UpToLowering \in Nat /\ UpToFinal \in Nat
      /\ MostRuns \in Nat /\ UpToFinal + 2 <= MostRuns
      /\ UpToRemoval <= UpToLowering /\ UpToLowering <= UpToFinal
      /\ ConfirmationRepeats \in Nat /\ Cardinality(Tested) \in Nat
      /\ UpToRemoval = BaselineRuns + Cardinality(Tested) + ConfirmationRepeats
  BY Sizes, TestedIsFinite DEF UpToRemoval, RunOrder
<1>3. CASE phase = "baseline"
  <2>1. baselines < BaselineRuns
    BY <1>3 DEF Evidence, BaselineEvidence
  <2>2. executions <= baselines
    BY <1>3 DEF RunOrder, Spending
  <2> QED BY <1>1, <1>2, <2>1, <2>2
<1>4. CASE phase = "search" /\ ~SearchOver
  <2>1. Cardinality(seen) + 1 <= Cardinality(Tested)
    BY <1>4, SearchRoom DEF RunOrder
  <2>2. executions <= BaselineRuns + Cardinality(seen)
    BY <1>4 DEF RunOrder, Spending
  <2> QED BY <1>1, <1>2, <2>1, <2>2
<1>5. CASE phase = "confirm" /\ repeats < ConfirmationRepeats
  <2>1. executions <= BaselineRuns + Cardinality(seen) + repeats
    BY <1>5 DEF RunOrder, Spending
  <2> QED BY <1>1, <1>2, <1>5, <2>1
<1>6. CASE phase = "remove" /\ pending # {}
  <2>1. Visited \in Nat /\ Visited + 1 <= NumDims
    BY <1>6, Sizes, VisitRoom DEF RunOrder
  <2>2. executions <= UpToRemoval + 2 * Visited + (attempt - 1)
    BY <1>6 DEF RunOrder, Spending
  <2>3. executions + 1 <= UpToRemoval + 2 * NumDims
    BY <1>1, <1>2, <2>1, <2>2
  <2> QED BY <1>1, <1>2, <2>3 DEF UpToLowering
<1>7. CASE phase = "lower" /\ pending # {} /\ LowerDelays # {}
  <2>1. PICK a \in Nat, b \in Nat, c \in Nat, l \in Nat :
          /\ a = LoweringRuns * Visited /\ b = LoweringRuns * NumDims
          /\ c = Cardinality(Tried) /\ l = LoweringRuns
          /\ a + l <= b /\ 2 * c + 2 <= l
    <3>1. SeenAreCandidates
      BY DEF RunOrder
    <3>2. LoweringRuns \in Nat /\ Visited \in Nat
      BY <3>1, Sizes
    <3>3. /\ LoweringRuns * Visited \in Nat /\ LoweringRuns * NumDims \in Nat
          /\ LoweringRuns * Visited + LoweringRuns <= LoweringRuns * NumDims
      BY <1>1, <1>7, <3>1, <3>2, VisitRoom, ProductIsMonotone
    <3>4. Cardinality(Tried) \in Nat /\ 2 * Cardinality(Tried) + 2 <= LoweringRuns
      BY <1>7, <3>1, LoweringRoom
    <3> QED BY <3>2, <3>3, <3>4
  <2>2. executions <= UpToLowering + a + 2 * c + (attempt - 1)
    BY <1>7, <2>1 DEF RunOrder, Spending
  <2>3. UpToFinal = UpToLowering + b
    BY <2>1 DEF UpToFinal
  <2> QED BY <1>1, <1>2, <2>1, <2>2, <2>3
<1>8. CASE phase = "final"
  <2>1. executions <= UpToFinal + (attempt - 1)
    BY <1>8 DEF RunOrder, Spending
  <2> QED BY <1>1, <1>2, <2>1
<1>9. CASE phase = "verify" /\ repeats < ConfirmationRuns
  <2>1. options.verified /\ executions <= UpToFinal + 2 + repeats
    BY <1>9 DEF RunOrder, Spending
  <2> QED BY <1>1, <1>2, <1>9, <2>1 DEF MostRuns
<1> QED BY <1>3, <1>4, <1>5, <1>6, <1>7, <1>8, <1>9 DEF NeedsRun

LEMMA PartOfDims ==
  ASSUME NEW P \in SUBSET Dims
  PROVE  Cardinality(P) \in Nat /\ NumDims - Cardinality(P) \in Nat
<1>1. NumDims \in Nat /\ 1 \in Int /\ NumDims \in Int
  BY DiscoveryAssumption
<1>2. IsFiniteSet(Dims) /\ Cardinality(Dims) = NumDims
  BY <1>1, FS_Interval DEF Dims
<1>3. IsFiniteSet(P) /\ Cardinality(P) <= Cardinality(Dims)
  BY <1>2, FS_Subset
<1>4. Cardinality(P) \in Nat
  BY <1>3, FS_CardinalityType
<1> QED BY <1>1, <1>2, <1>3, <1>4

LEMMA SeenStaysPlanned ==
  ASSUME TypeOK, SeenAreCandidates, [Next]_vars
  PROVE  SeenAreCandidates'
<1>1. CASE CandidatePasses \/ CandidateFails \/ CandidateUnusable
  <2>1. seen' = seen \cup {Trial} /\ phase = "search" /\ ~SearchOver
    BY <1>1 DEF CandidatePasses, CandidateFails, CandidateUnusable
  <2> QED BY <2>1, SearchRoom DEF SeenAreCandidates, Tested
<1>2. CASE ~(CandidatePasses \/ CandidateFails \/ CandidateUnusable)
  <2>1. seen' = seen
    BY <1>2
       DEF Next, Step, vars, searchVars, Returned, BaselinePasses, BaselineFails,
           SearchEnds, ConfirmationMatches, ConfirmationMismatches, SignatureMissing,
           MinimizerStarts, FirstMatches, RemovalTried, RemovalEnds, LoweringTried,
           LoweringGivesUp, LoweringEnds, FinalRunFails, FinalRunUnstable,
           VerificationEnds, ReplayMissing, ArtifactRejected, ArtifactCreated,
           ReplayMatches, ReplayDiffers, ReplaysEnd, BudgetExhausted, PlatformThrows
  <2> QED BY <2>1 DEF SeenAreCandidates, Tested
<1> QED BY <1>1, <1>2

(* A second run settles the trial whose first run asked for it. *)
LEMMA SecondRunKept ==
  ASSUME TypeOK, Evidence, SecondRun, [Next]_vars
  PROVE  SecondRun'
<1> SUFFICES ASSUME attempt' = 2, phase' # "done"
             PROVE  phase' \in {"remove", "lower", "final"} /\ NeedsRun'
  BY DEF SecondRun
<1>1. CASE FirstMatches \/ Returned \/ UNCHANGED vars
  <2>1. phase \in {"remove", "lower", "final"} /\ NeedsRun
    BY <1>1 DEF FirstMatches, Returned, vars, SecondRun
  <2>2. UNCHANGED <<phase, best, pending, floor>>
    BY <1>1 DEF FirstMatches, Returned, vars
  <2>3. LowerDelays' = LowerDelays
    BY <2>2 DEF LowerDelays, Current
  <2> QED BY <2>1, <2>2, <2>3 DEF NeedsRun
<1>2. CASE RemovalTried \/ LoweringTried \/ FinalRunFails
  BY <1>2 DEF RemovalTried, LoweringTried, FinalRunFails
<1>3. CASE ~(FirstMatches \/ RemovalTried \/ LoweringTried \/ FinalRunFails)
           /\ ~(Returned \/ UNCHANGED vars)
  <2>1. attempt = 2
    BY <1>3
       DEF Next, Step, Goto, Return, minimizeVars, BaselinePasses, BaselineFails,
           CandidatePasses, CandidateFails, CandidateUnusable, SearchEnds,
           ConfirmationMatches, ConfirmationMismatches, SignatureMissing,
           MinimizerStarts, RemovalEnds, LoweringGivesUp, LoweringEnds,
           FinalRunUnstable, VerificationEnds, ReplayMissing, ArtifactRejected,
           ArtifactCreated, ReplayMatches, ReplayDiffers, ReplaysEnd, BudgetExhausted,
           PlatformThrows
  <2>2. phase = "done" \/ (phase \in {"remove", "lower", "final"} /\ NeedsRun)
    BY <2>1 DEF SecondRun
  <2> QED
    BY <1>3, <2>2
       DEF Next, Step, Goto, Return, NeedsRun, BaselinePasses, BaselineFails,
           CandidatePasses, CandidateFails, CandidateUnusable, SearchEnds,
           ConfirmationMatches, Confirming, ConfirmationMismatches, SignatureMissing,
           MinimizerStarts, RemovalEnds, LoweringGivesUp, LoweringEnds,
           FinalRunUnstable, VerificationEnds, ReplayMissing, ArtifactRejected,
           ArtifactCreated, ReplayMatches, ReplayDiffers, ReplaysEnd, BudgetExhausted,
           PlatformThrows
<1> QED BY <1>1, <1>2, <1>3

(* The bound: a run is counted only where there was room for it. *)
LEMMA BoundKept ==
  ASSUME IsFiniteSet(DelayOptions), TypeOK, Evidence, RunOrder, [Next]_vars
  PROVE  RunsAreBounded'
<1>1. MostRuns' = MostRuns
  BY TargetKept DEF MostRuns
<1>2. executions' = executions \/ (executions' = executions + 1 /\ NeedsRun)
  <2>1. ASSUME NEW r, Run(r) PROVE executions' = executions + 1
    BY <2>1 DEF Run
  <2>2. CASE BaselinePasses \/ BaselineFails \/ CandidatePasses \/ CandidateFails
               \/ CandidateUnusable \/ ConfirmationMatches \/ ConfirmationMismatches
    BY <2>1, <2>2
       DEF BaselinePasses, BaselineFails, CandidatePasses, CandidateFails,
           CandidateUnusable, ConfirmationMatches, ConfirmationMismatches, Confirming,
           NeedsRun
  <2>3. CASE FirstMatches \/ RemovalTried \/ LoweringTried \/ FinalRunFails
               \/ FinalRunUnstable
    BY <2>1, <2>3
       DEF FirstMatches, RemovalTried, LoweringTried, FinalRunFails, FinalRunUnstable,
           NeedsRun
  <2> QED
    BY <2>2, <2>3
       DEF Next, Step, vars, Returned, SearchEnds, SignatureMissing, MinimizerStarts,
           RemovalEnds, LoweringGivesUp, LoweringEnds, VerificationEnds, ReplayMissing,
           ArtifactRejected, ArtifactCreated, ReplayMatches, ReplayDiffers, ReplaysEnd,
           BudgetExhausted, PlatformThrows
<1> QED BY <1>1, <1>2, RoomForOne DEF RunOrder, RunsAreBounded

(* With the floor at 0 no lower delay has been tried. *)
LEMMA NoneTried ==
  ASSUME NEW low, low = 0
  PROVE  Cardinality({n \in LowerOptions : n <= low}) = 0
<1>1. LowerOptions \subseteq Nat /\ \A n \in LowerOptions : n > 0
  BY DiscoveryAssumption DEF LowerOptions
<1>2. \A n \in LowerOptions : ~(n <= low)
  <2> TAKE n \in LowerOptions
  <2>1. n \in Nat /\ n > 0
    BY <1>1
  <2> QED BY <2>1
<1>3. {n \in LowerOptions : n <= low} = {}
  BY <1>2, Zenon
<1> QED BY <1>3, FS_EmptySet

(* The first pass: two runs for each perturbation visited. *)
LEMMA RemovalSpending ==
  ASSUME IsFiniteSet(DelayOptions), TypeOK, RunOrder, RemovalTried \/ RemovalEnds
  PROVE  Spending'
<1>0. /\ executions \in Nat /\ attempt \in {1, 2} /\ NumDims \in Nat
      /\ phase = "remove" /\ SeenAreCandidates
      /\ executions <= UpToRemoval + 2 * Visited + (attempt - 1)
  BY DiscoveryAssumption DEF TypeOK, RunOrder, Spending, RemovalTried, RemovalEnds
<1>1. /\ UpToRemoval \in Nat /\ UpToLowering \in Nat /\ Visited \in Nat
      /\ LoweringRuns \in Nat /\ (pending = {} => Visited = NumDims)
  BY <1>0, Sizes
<1>2. CASE RemovalTried
  <2>1. /\ phase' = "remove" /\ pending # {} /\ pending' = pending \ {Current}
        /\ attempt' = 1 /\ executions' = executions + 1
    BY <1>2 DEF RemovalTried, Run
  <2>2. Visited' = Visited + 1
    BY <1>0, <2>1, VisitRoom DEF Visited
  <2>3. executions' <= UpToRemoval + 2 * Visited' + (attempt' - 1)
    BY <1>0, <1>1, <2>1, <2>2
  <2> QED BY <2>1, <2>3 DEF Spending, UpToRemoval
<1>3. CASE RemovalEnds
  <2>1. /\ phase' = "lower" /\ pending = {} /\ pending' = Perturbed(best) /\ floor' = 0
        /\ attempt' = attempt /\ executions' = executions
    BY <1>3 DEF RemovalEnds, Goto
  <2>2. attempt = 1
    BY <1>0, <2>1 DEF RunOrder, SecondRun, NeedsRun
  <2>3. executions' <= UpToLowering
    BY <1>0, <1>1, <2>1, <2>2 DEF UpToLowering
  <2>4. Visited' \in Nat
    BY <2>1, PartOfDims DEF Visited, Perturbed
  <2>5. LoweringRuns * Visited' \in Nat
    <3>1. PICK v \in Nat : v = Visited'
      BY <2>4
    <3>2. LoweringRuns * v \in Nat
      BY <1>1
    <3> QED BY <3>1, <3>2
  <2>7. Cardinality(Tried') = 0
    BY <2>1, NoneTried DEF Tried, LowerOptions
  <2>8. PICK k \in Nat : k = LoweringRuns * Visited'
    BY <2>5
  <2>9. executions' <= UpToLowering + k + 2 * Cardinality(Tried') + (attempt' - 1)
    BY <1>0, <1>1, <2>1, <2>2, <2>3, <2>7, <2>8
  <2> QED BY <2>1, <2>8, <2>9 DEF Spending, UpToLowering, UpToRemoval, LoweringRuns
<1> QED BY <1>2, <1>3

(* The second pass: two runs for each option tried of each perturbation. *)
LEMMA LoweringSpending ==
  ASSUME IsFiniteSet(DelayOptions), TypeOK, RunOrder,
         LoweringTried \/ LoweringGivesUp \/ LoweringEnds
  PROVE  Spending'
<1>0. /\ executions \in Nat /\ attempt \in {1, 2} /\ NumDims \in Nat
      /\ phase = "lower" /\ SeenAreCandidates
      /\ pending = {} => floor = 0
      /\ executions <= UpToLowering + LoweringRuns * Visited
                         + 2 * Cardinality(Tried) + (attempt - 1)
  BY DiscoveryAssumption
     DEF TypeOK, RunOrder, Spending, LoweringTried, LoweringGivesUp, LoweringEnds
<1>1. /\ UpToLowering \in Nat /\ Visited \in Nat
      /\ LoweringRuns \in Nat /\ (pending = {} => Visited = NumDims)
  BY <1>0, Sizes
<1>2. /\ LoweringRuns * Visited \in Nat /\ Cardinality(Tried) \in Nat
      /\ 2 * Cardinality(Tried) <= LoweringRuns
      /\ pending # {} /\ LowerDelays # {} => 2 * Cardinality(Tried) + 2 <= LoweringRuns
  BY <1>0, <1>1, LoweringRoom, ProductIsMonotone
<1>3. ASSUME floor' = 0 PROVE Cardinality(Tried') = 0
  BY <1>3, NoneTried DEF Tried, LowerOptions
<1>4. ASSUME pending # {}, pending' = pending \ {Current}, floor' = 0, attempt' = 1,
             phase' = "lower",
             executions' <= UpToLowering + LoweringRuns * Visited + LoweringRuns
      PROVE  Spending'
  <2>1. /\ Visited' = Visited + 1
        /\ LoweringRuns * (Visited + 1) = LoweringRuns * Visited + LoweringRuns
    BY <1>0, <1>4, VisitRoom DEF Visited
  <2>2. PICK a \in Nat : a = LoweringRuns * Visited
    BY <1>2
  <2>3. LoweringRuns * Visited' = a + LoweringRuns /\ Cardinality(Tried') = 0
    BY <1>3, <1>4, <2>1, <2>2
  <2>4. executions' <= UpToLowering + (a + LoweringRuns) + 2 * Cardinality(Tried')
                         + (attempt' - 1)
    BY <1>1, <1>4, <2>2, <2>3
  <2> QED BY <1>4, <2>3, <2>4 DEF Spending, UpToLowering, UpToRemoval, LoweringRuns
<1>5. CASE LoweringTried
  <2>1. /\ phase' = "lower" /\ pending # {} /\ LowerDelays # {}
        /\ attempt' = 1 /\ executions' = executions + 1
    BY <1>5 DEF LoweringTried, Run
  <2>2. executions' <= UpToLowering + LoweringRuns * Visited + 2 * Cardinality(Tried) + 2
    <3>1. PICK a \in Nat : a = LoweringRuns * Visited
      BY <1>2
    <3> QED BY <1>0, <1>1, <1>2, <2>1, <3>1
  <2>3. CASE pending' = pending \ {Current} /\ floor' = 0
    <3>1. executions' <= UpToLowering + LoweringRuns * Visited + LoweringRuns
      <4>1. PICK a \in Nat : a = LoweringRuns * Visited
        BY <1>2
      <4> QED BY <1>0, <1>1, <1>2, <2>1, <2>2, <4>1
    <3> QED BY <1>4, <2>1, <2>3, <3>1
  <2>4. CASE floor' = NextFloor /\ pending' = pending
    <3>1. NextFloor = NextLower
      BY <2>1, CurrentIsDimension, <1>0 DEF NextFloor, Trial, TypeOK, Schedules
    <3>2. Tried' = {n \in LowerOptions : n <= NextLower}
      BY <2>4, <3>1 DEF Tried, LowerOptions
    <3>3. Cardinality(Tried') \in Nat /\ Cardinality(Tried) + 1 <= Cardinality(Tried')
      BY <1>0, <2>1, <3>2, LoweringRoom
    <3>4. Visited' = Visited
      BY <2>4 DEF Visited
    <3>5. PICK a \in Nat : a = LoweringRuns * Visited
      BY <1>2
    <3>6. executions' <= UpToLowering + a + 2 * Cardinality(Tried') + (attempt' - 1)
      BY <1>0, <1>1, <1>2, <2>1, <2>2, <3>3, <3>5
    <3> QED
      BY <2>1, <2>4, <3>4, <3>5, <3>6 DEF Spending, UpToLowering, UpToRemoval, LoweringRuns
  <2>5. \/ pending' = pending \ {Current} /\ floor' = 0
        \/ floor' = NextFloor /\ pending' = pending
    BY <1>5 DEF LoweringTried
  <2> QED BY <2>3, <2>4, <2>5
<1>6. CASE LoweringGivesUp
  <2>1. /\ phase' = "lower" /\ pending # {} /\ LowerDelays = {}
        /\ pending' = pending \ {Current} /\ floor' = 0
        /\ attempt' = attempt /\ executions' = executions
    BY <1>0, <1>6 DEF LoweringGivesUp
  <2>2. attempt = 1
    BY <1>0, <2>1 DEF RunOrder, SecondRun, NeedsRun
  <2>3. executions' <= UpToLowering + LoweringRuns * Visited + LoweringRuns
    <3>1. PICK a \in Nat : a = LoweringRuns * Visited
      BY <1>2
    <3> QED BY <1>0, <1>1, <1>2, <2>1, <2>2, <3>1
  <2> QED BY <1>4, <2>1, <2>2, <2>3
<1>7. CASE LoweringEnds
  <2>1. /\ phase' = "final" /\ pending = {} /\ attempt' = attempt
        /\ executions' = executions
    BY <1>7 DEF LoweringEnds, Goto, minimizeVars
  <2>2. attempt = 1
    BY <1>0, <2>1 DEF RunOrder, SecondRun, NeedsRun
  <2>4. Cardinality(Tried) = 0
    BY <1>0, <2>1, NoneTried DEF Tried
  <2>5. executions' <= UpToFinal
    BY <1>0, <1>1, <2>1, <2>2, <2>4 DEF UpToFinal
  <2>6. executions' <= UpToFinal + (attempt' - 1)
    BY <1>0, <2>1, <2>2, <2>5, Sizes
  <2> QED
    BY <2>1, <2>6 DEF Spending, UpToFinal, UpToLowering, UpToRemoval, LoweringRuns
<1> QED BY <1>5, <1>6, <1>7

LEMMA SpendingKept ==
  ASSUME IsFiniteSet(DelayOptions), TypeOK, Evidence, RunOrder, [Next]_vars
  PROVE  Spending'
<1>0. /\ executions \in Nat /\ attempt \in {1, 2} /\ NumDims \in Nat
      /\ baselines \in Nat /\ repeats \in Nat /\ BaselineRuns \in Nat
      /\ ConfirmationRuns \in Nat /\ SeenAreCandidates
  BY DiscoveryAssumption DEF TypeOK, RunOrder
<1>1. /\ Cardinality(seen) \in Nat /\ Cardinality(seen) <= Cardinality(Tested)
      /\ UpToRemoval \in Nat /\ UpToFinal \in Nat /\ ConfirmationRepeats \in Nat
      /\ Cardinality(Tested) \in Nat
  BY <1>0, Sizes, TestedIsFinite
<1>2. CASE BaselinePasses
  <2>1. /\ executions' = executions + 1 /\ baselines' = baselines + 1 /\ seen' = seen
        /\ executions <= baselines
        /\ phase' = IF baselines + 1 = BaselineRuns THEN "search" ELSE "baseline"
    BY <1>2 DEF BaselinePasses, Run, Goto, searchVars, RunOrder, Spending
  <2>2. /\ phase' = "baseline" => executions' <= baselines'
        /\ phase' = "search" => executions' <= BaselineRuns + Cardinality(seen')
    BY <1>0, <1>1, <2>1
  <2> QED BY <2>1, <2>2 DEF Spending
<1>3. CASE CandidatePasses
  <2>1. /\ phase' = "search" /\ seen' = seen \cup {Trial} /\ executions' = executions + 1
        /\ executions <= BaselineRuns + Cardinality(seen)
    BY <1>3 DEF CandidatePasses, Run, RunOrder, Spending
  <2>2. Cardinality(seen') = Cardinality(seen) + 1
    BY <1>0, <1>3, <2>1, SearchRoom DEF CandidatePasses
  <2>3. executions' <= BaselineRuns + Cardinality(seen')
    BY <1>0, <1>1, <2>1, <2>2
  <2> QED BY <2>1, <2>3 DEF Spending
<1>4. CASE CandidateFails
  <2>1. /\ phase' = "confirm" /\ seen' = seen \cup {Trial} /\ executions' = executions + 1
        /\ executions <= BaselineRuns + Cardinality(seen) /\ repeats' = repeats /\ repeats = 0
    BY <1>4 DEF CandidateFails, Run, Goto, RunOrder, Spending, Evidence, FreshSearch
  <2>2. Cardinality(seen') = Cardinality(seen) + 1
    BY <1>0, <1>4, <2>1, SearchRoom DEF CandidateFails
  <2>3. /\ executions' <= BaselineRuns + Cardinality(seen') + repeats'
        /\ repeats' <= ConfirmationRepeats
    BY <1>0, <1>1, <2>1, <2>2
  <2> QED BY <2>1, <2>3 DEF Spending, ConfirmationRepeats
<1>5. CASE ConfirmationMatches
  <2>1. /\ phase \in {"confirm", "verify"} /\ phase' = phase /\ seen' = seen
        /\ executions' = executions + 1 /\ repeats' = repeats + 1 /\ options' = options
        /\ phase = "confirm" => repeats < ConfirmationRepeats
        /\ phase = "verify" => repeats < ConfirmationRuns
    BY <1>5 DEF ConfirmationMatches, Confirming, NeedsRun, Run, given, searchVars
  <2>2. CASE phase = "confirm"
    <3>1. executions <= BaselineRuns + Cardinality(seen) + repeats
      BY <2>2 DEF RunOrder, Spending
    <3>2. /\ executions' <= BaselineRuns + Cardinality(seen') + repeats'
          /\ repeats' <= ConfirmationRepeats
      BY <1>0, <1>1, <2>1, <2>2, <3>1
    <3> QED BY <2>1, <2>2, <3>2 DEF Spending, ConfirmationRepeats
  <2>3. CASE phase = "verify"
    <3>1. options.verified /\ executions <= UpToFinal + 2 + repeats
      BY <2>3 DEF RunOrder, Spending
    <3>2. executions' <= UpToFinal + 2 + repeats' /\ repeats' <= ConfirmationRuns
      BY <1>0, <1>1, <2>1, <2>3, <3>1
    <3> QED
      BY <2>1, <2>3, <3>1, <3>2
         DEF Spending, UpToFinal, UpToLowering, UpToRemoval, LoweringRuns
  <2> QED BY <2>1, <2>2, <2>3
<1>6. CASE MinimizerStarts
  <2>1. /\ phase' = "remove" /\ phase = "confirm" /\ executions' = executions
        /\ pending' = Perturbed(failing) /\ attempt' = attempt
    BY <1>6 DEF MinimizerStarts, Goto
  <2>2. /\ executions <= BaselineRuns + Cardinality(seen) + repeats
        /\ repeats <= ConfirmationRepeats
    BY <2>1 DEF RunOrder, Spending
  <2>3. executions <= UpToRemoval
    BY <1>0, <1>1, <2>2 DEF UpToRemoval
  <2>4. Visited' \in Nat
    BY <2>1, PartOfDims DEF Visited, Perturbed
  <2>5. executions' <= UpToRemoval + 2 * Visited' + (attempt' - 1)
    <3>1. PICK v \in Nat : v = Visited'
      BY <2>4
    <3>2. executions <= UpToRemoval + 2 * v + (attempt - 1)
      BY <1>0, <1>1, <2>3
    <3> QED BY <2>1, <3>1, <3>2
  <2> QED BY <2>1, <2>5 DEF Spending, UpToRemoval
<1>7. CASE FirstMatches
  <2>1. /\ phase \in {"remove", "lower", "final"} /\ phase' = phase /\ NeedsRun
        /\ attempt = 1 /\ attempt' = 2 /\ executions' = executions + 1
        /\ UNCHANGED <<pending, floor>>
    BY <1>7 DEF FirstMatches, Run
  <2>2. Visited' = Visited /\ Tried' = Tried /\ Visited \in Nat
    BY <1>0, <2>1, Sizes DEF Visited, Tried, LowerOptions
  <2>3. CASE phase = "remove"
    <3>1. executions <= UpToRemoval + 2 * Visited + (attempt - 1)
      BY <2>3 DEF RunOrder, Spending
    <3>2. executions' <= UpToRemoval + 2 * Visited' + (attempt' - 1)
      BY <1>0, <1>1, <2>1, <2>2, <3>1
    <3> QED BY <2>1, <2>3, <3>2 DEF Spending, UpToRemoval
  <2>4. CASE phase = "lower"
    <3>1. executions <= UpToLowering + LoweringRuns * Visited
                          + 2 * Cardinality(Tried) + (attempt - 1)
      BY <2>4 DEF RunOrder, Spending
    <3>2. PICK a \in Nat, c \in Nat, u \in Nat :
            a = LoweringRuns * Visited /\ c = Cardinality(Tried) /\ u = UpToLowering
      BY <1>0, <2>2, Sizes, LoweringRoom, ProductIsMonotone
    <3>3. executions' <= u + a + 2 * c + (attempt' - 1)
      BY <1>0, <2>1, <3>1, <3>2
    <3>4. pending' # {}
      BY <2>1, <2>4 DEF NeedsRun
    <3> QED
      BY <2>1, <2>2, <2>4, <3>2, <3>3, <3>4
         DEF Spending, UpToLowering, UpToRemoval, LoweringRuns
  <2>5. CASE phase = "final"
    <3>1. executions <= UpToFinal + (attempt - 1)
      BY <2>5 DEF RunOrder, Spending
    <3>2. executions' <= UpToFinal + (attempt' - 1)
      BY <1>0, <1>1, <2>1, <3>1
    <3> QED
      BY <2>1, <2>5, <3>2 DEF Spending, UpToFinal, UpToLowering, UpToRemoval, LoweringRuns
  <2> QED BY <2>1, <2>3, <2>4, <2>5
<1>8. CASE RemovalTried \/ RemovalEnds
  BY <1>8, RemovalSpending
<1>9. CASE LoweringTried \/ LoweringGivesUp \/ LoweringEnds
  BY <1>9, LoweringSpending
<1>10. CASE FinalRunFails
  <2>1. /\ phase = "final" /\ executions' = executions + 1 /\ repeats' = 0
        /\ phase' = AfterFinalRun /\ options' = options
        /\ executions <= UpToFinal + (attempt - 1)
    BY <1>10 DEF FinalRunFails, Run, Goto, given, RunOrder, Spending
  <2>2. executions' <= UpToFinal + 2 + repeats' /\ repeats' <= ConfirmationRuns
    BY <1>0, <1>1, <2>1
  <2> QED
    BY <2>1, <2>2
       DEF AfterFinalRun, Spending, UpToFinal, UpToLowering, UpToRemoval, LoweringRuns
<1>11. CASE Returned \/ UNCHANGED vars
  <2>1. UNCHANGED vars
    BY <1>11 DEF Returned
  <2>2. Spending
    BY DEF RunOrder
  <2> QED
    BY <2>1, <2>2
       DEF vars, Spending, Visited, Tried, UpToFinal, UpToLowering, UpToRemoval,
           LoweringRuns, LowerOptions
<1>12. CASE ~(BaselinePasses \/ CandidatePasses \/ CandidateFails \/ ConfirmationMatches
              \/ MinimizerStarts \/ FirstMatches \/ RemovalTried \/ RemovalEnds
              \/ LoweringTried \/ LoweringGivesUp \/ LoweringEnds \/ FinalRunFails
              \/ Returned \/ UNCHANGED vars)
  <2>1. phase' \in {"publish", "replay", "done"}
    BY <1>12
       DEF Next, Step, Goto, Return, BaselineFails, CandidateUnusable, SearchEnds,
           ConfirmationMismatches, SignatureMissing, FinalRunUnstable,
           VerificationEnds, ReplayMissing, ArtifactRejected, ArtifactCreated,
           ReplayMatches, ReplayDiffers, ReplaysEnd, BudgetExhausted, PlatformThrows
  <2> QED BY <2>1 DEF Spending
<1> QED
  BY <1>2, <1>3, <1>4, <1>5, <1>6, <1>7, <1>8, <1>9, <1>10, <1>11, <1>12

(* A discovery makes a bounded number of physical runs even without --max-runs,
   whatever the target answers: one per distinct candidate, and two for each
   thing the minimizer tries of a perturbation. *)
THEOREM DiscoveryIsBounded ==
  ASSUME IsFiniteSet(DelayOptions) PROVE Spec => []RunsAreBounded
<1>1. Init => RunOrder
  <2> SUFFICES ASSUME Init PROVE RunOrder
    OBVIOUS
  <2>1. TypeOK
    BY TypeCorrectAtInit
  <2>2. SeenAreCandidates
    BY DEF Init, SeenAreCandidates
  <2>3. MostRuns \in Nat /\ executions = 0
    BY <2>1, <2>2, Sizes DEF Init
  <2> QED BY <2>2, <2>3 DEF Init, RunOrder, SecondRun, Spending, RunsAreBounded
<1>2. TypeOK /\ Evidence /\ RunOrder /\ [Next]_vars => RunOrder'
  BY SecondRunKept, SeenStaysPlanned, SpendingKept, BoundKept DEF RunOrder
<1>3. RunOrder => RunsAreBounded
  BY DEF RunOrder
<1> QED BY <1>1, <1>2, <1>3, EvidenceGathered, PTL DEF Spec

=============================================================================
