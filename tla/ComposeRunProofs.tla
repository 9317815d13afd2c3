-------------------------- MODULE ComposeRunProofs --------------------------
(***************************************************************************)
(* What holds of a Compose run for any set of services and any schedule:   *)
(* its types, that evidence is of the schedule asked for and leaves        *)
(* nothing behind, that an attempt is over when its run returns, and that  *)
(* no start is issued once the run is cancelled.                           *)
(***************************************************************************)
EXTENDS ComposeRun, TLAPS

Collecting == {"logs", "states", "observing", "polling"}

AllStarted == \A s \in Services : start[s] = "started"

Conclusive == outcome \in {"healthy", "workload_failure"}

(* The execution starts after the reset, and is told to stop exactly when the
   controller leaves the race. *)
ControllerOrder ==
  /\ phase \in {"discover", "prepare", "reset"} => exec = "none"
  /\ phase = "racing" => exec # "none"
  /\ phase \in {"discover", "prepare", "reset", "racing"} => ~aborted /\ failure = << >>
  /\ phase \in {"draining", "clearing", "stopping", "returned"} => aborted \/ result.status = "throws"
  /\ aborted => cancelled
  /\ phase \in {"discover", "prepare", "reset", "racing", "draining", "clearing"} => cleanup = << >>
  /\ phase # "returned" => result = NoResult
  /\ result.status = "throws" => exec = "none"

(* A start is issued after the readiness delays, and evidence is collected
   after every start succeeded. *)
StartOrder ==
  /\ exec = "none" => applied = 0
  /\ exec = "applying" => applied < Len(ready)
  /\ exec \in {"none", "applying"} =>
       (\A s \in Services : start[s] = "idle") /\ (cancelled => aborted)
  /\ exec = "starting" =>
       /\ applied = Len(ready)
       /\ \A s \in Services : start[s] # "idle" /\ (start[s] = "failed" => cancelled)
  /\ exec \in Collecting \/ Conclusive => applied = Len(ready) /\ AllStarted
  /\ exec = "settled" => Pending = {}

(* An outcome is final, and a failed verdict comes from refreshed evidence. *)
OutcomeOrder ==
  /\ exec = "settled" => outcome # "none"
  /\ Conclusive => exec = "settled"
  /\ outcome = "workload_failure" => refreshed /\ evidence.exited

(* What the controller knows after each of its own steps. *)
CleanupOrder ==
  /\ phase \in {"draining", "clearing", "stopping"} /\ failure = << >> => Conclusive
  /\ phase \in {"clearing", "stopping"} /\ "drain" \notin Range(failure) => ~InFlight
  /\ phase = "stopping" /\ cleanup = << >> /\ failure = << >> => held = {}
  /\ IsEvidence =>
       /\ phase = "returned" /\ Conclusive /\ result.status = outcome
       /\ up = {} /\ held = {}

(* With TypeOK, the inductive invariant behind the theorems. *)
Order == ControllerOrder /\ StartOrder /\ OutcomeOrder /\ CleanupOrder

-----------------------------------------------------------------------------
(* Errors joined are errors, and the error of a sequence of one stays visible. *)
LEMMA JoinedIsTyped ==
  ASSUME NEW f \in Seq(ErrorKinds), NEW g \in Seq(ErrorKinds)
  PROVE  /\ Joined(f, g) \in Seq(ErrorKinds)
         /\ Joined(f, g) = << >> <=> f = << >> /\ g = << >>
<1>1. ASSUME NEW h \in Seq(ErrorKinds), h # << >> PROVE Element(h) \in ErrorKinds
  <2>1. Len(h) = 1 => h[1] \in ErrorKinds
    BY <1>1
  <2> QED BY <2>1 DEF Element, ErrorKinds
<1> QED BY <1>1 DEF Joined

(* One error is a sequence of errors. *)
LEMMA OneError ==
  ASSUME NEW k \in ErrorKinds
  PROVE  <<k>> \in Seq(ErrorKinds)
OBVIOUS

(* Without an error a run returns its verdict, otherwise a diagnosed error. *)
LEMMA ReturnedIsTyped ==
  ASSUME TypeOK, NEW errors \in Seq(ErrorKinds),
         failure = << >> => Conclusive
  PROVE  Returned(failure, errors) \in Results
<1>1. ASSUME NEW f PROVE Code(f) \in ErrorCodes
  BY DEF Code, ErrorCodes
<1>2. CASE Joined(failure, errors) = << >>
  <2>1. failure = << >>
    BY <1>2, JoinedIsTyped DEF TypeOK
  <2> QED BY <1>2, <2>1 DEF Returned, Results, Conclusive
<1>3. CASE Joined(failure, errors) # << >>
  BY <1>1, <1>3 DEF Returned, Results
<1> QED BY <1>2, <1>3

(* A run that timed out is diagnosed so, unless two errors more hide it. *)
LEMMA TimeoutShows ==
  ASSUME TypeOK, TimedOut, NEW errors \in Seq(ErrorKinds),
         Len(failure) = 1 \/ errors = << >>
  PROVE  Returned(failure, errors).code = "run_timeout"
<1> DEFINE all == Joined(failure, errors)
<1>1. failure \in Seq(ErrorKinds) /\ failure # << >> /\ failure[1] = "timeout"
  BY DEF TypeOK, TimedOut
<1>2. all # << >> /\ all \in Seq(ErrorKinds)
  BY <1>1, JoinedIsTyped
<1>3. all[1] = "timeout"
  BY <1>1 DEF Joined, Element
<1>4. 1 \in DOMAIN all
  BY <1>2
<1>5. "timeout" \in Range(all)
  BY <1>3, <1>4 DEF Range
<1> QED BY <1>2, <1>5 DEF Returned, Code

-----------------------------------------------------------------------------
(* Types. *)
LEMMA TypesKept ==
  ASSUME TypeOK, Order, [Next]_vars
  PROVE  TypeOK'
<1> USE ComposeAssumption
<1> USE DEF TypeOK, schedule, signals, observed, verdict
<1>1. CASE Execution
  <2> USE DEF Settle, BeginStarts, Phases, Executions, Starts, ErrorKinds
  <2>1. CASE DelayApplied
    <3>1. ready[applied + 1] \in Services
      BY <2>1 DEF DelayApplied
    <3> QED BY <2>1, <3>1 DEF DelayApplied
  <2>2. CASE DelayRefused
    BY <2>2 DEF DelayRefused
  <2>3. ASSUME NEW s \in Services, WaitEnds(s) PROVE TypeOK'
    BY <2>3 DEF WaitEnds
  <2>4. ASSUME NEW s \in Services, ContainerStarts(s) PROVE TypeOK'
    BY <2>4 DEF ContainerStarts
  <2>5. ASSUME NEW s \in Services, StartSucceeds(s) PROVE TypeOK'
    BY <2>5 DEF StartSucceeds
  <2>6. ASSUME NEW s \in Services, StartFails(s) PROVE TypeOK'
    BY <2>6 DEF StartFails, OperationErrors
  <2>7. CASE StartsSettle
    BY <2>7 DEF StartsSettle
  <2>8. CASE LogsCollected
    BY <2>8 DEF LogsCollected
  <2>9. CASE StatesListed
    BY <2>9 DEF StatesListed
  <2>10. CASE CollectionFails
    BY <2>10 DEF CollectionFails
  <2>11. CASE ObserverConcludes
    BY <2>11 DEF ObserverConcludes, Concludes, Classify
  <2>12. CASE ObserverRefreshes
    BY <2>12 DEF ObserverRefreshes
  <2>13. CASE PollEnds
    BY <2>13 DEF PollEnds
  <2>14. CASE ObserverAborts
    BY <2>14 DEF ObserverAborts
  <2> QED BY <1>1, <2>1, <2>2, <2>3, <2>4, <2>5, <2>6, <2>7, <2>8, <2>9, <2>10,
             <2>11, <2>12, <2>13, <2>14 DEF Execution
<1>2. CASE Controller
  <2>1. CASE Discovers
    BY <2>1 DEF Discovers, Phases, Results
  <2>2. CASE Prepares
    <3>1. <<"operation">> \in Seq(ErrorKinds)
      BY OneError DEF ErrorKinds
    <3> QED BY <2>2, <3>1 DEF Prepares, Phases
  <2>3. CASE Resets
    BY <2>3 DEF Resets, BeginStarts, Settle, Phases, Executions, Starts, ErrorKinds
  <2>4. CASE ResetFails
    BY <2>4 DEF ResetFails, Phases, ErrorKinds
  <2>5. CASE ExecutionWins
    BY <2>5 DEF ExecutionWins, Phases
  <2>6. CASE TimeoutFires
    BY <2>6 DEF TimeoutFires, Phases, ErrorKinds
  <2>7. CASE Drained
    BY <2>7 DEF Drained, Phases
  <2>8. CASE DrainTimesOut
    <3>1. <<"drain">> \in Seq(ErrorKinds)
      BY OneError DEF ErrorKinds
    <3>2. failure' \in Seq(ErrorKinds)
      BY <2>8, <3>1, JoinedIsTyped DEF DrainTimesOut
    <3> QED BY <2>8, <3>2 DEF DrainTimesOut, Phases
  <2>9. CASE Clears
    <3>1. <<"operation">> \in Seq(ErrorKinds)
      BY OneError DEF ErrorKinds
    <3> QED BY <2>9, <3>1 DEF Clears, Phases
  <2>10. CASE Stops
    <3>1. cleanup' \in Seq(ErrorKinds)
      <4>1. "operation" \in ErrorKinds /\ cleanup \in Seq(ErrorKinds)
        BY DEF ErrorKinds
      <4>2. Append(cleanup, "operation") \in Seq(ErrorKinds)
        BY <4>1
      <4> QED BY <2>10, <4>1, <4>2 DEF Stops
    <3>2. failure = << >> => Conclusive
      BY <2>10 DEF Stops, Order, CleanupOrder
    <3>3. result' \in Results
      BY <2>10, <3>1, <3>2, ReturnedIsTyped DEF Stops
    <3> QED BY <2>10, <3>1, <3>3 DEF Stops, Phases
  <2> QED BY <1>2, <2>1, <2>2, <2>3, <2>4, <2>5, <2>6, <2>7, <2>8, <2>9, <2>10
          DEF Controller
<1>3. CASE Settled \/ UNCHANGED vars
  BY <1>3 DEF Settled, vars
<1> QED BY <1>1, <1>2, <1>3 DEF Next

-----------------------------------------------------------------------------
(* The order of the controller and of the execution. *)
LEMMA ControllerKept ==
  ASSUME TypeOK, Order, [Next]_vars
  PROVE  ControllerOrder'
<1> USE DEF Order, ControllerOrder, schedule, signals, observed, verdict
<1>1. CASE Execution
  <2>1. ASSUME NEW s \in Services,
               WaitEnds(s) \/ ContainerStarts(s) \/ StartSucceeds(s) \/ StartFails(s)
        PROVE  ControllerOrder'
    BY <2>1 DEF WaitEnds, ContainerStarts, StartSucceeds, StartFails, StartOrder
  <2>2. CASE DelayApplied \/ DelayRefused \/ StartsSettle
    BY <2>2 DEF DelayApplied, DelayRefused, StartsSettle, BeginStarts, Settle
  <2>3. CASE LogsCollected \/ StatesListed \/ CollectionFails
    BY <2>3 DEF LogsCollected, StatesListed, CollectionFails, Settle
  <2>4. CASE ObserverConcludes \/ ObserverRefreshes \/ PollEnds \/ ObserverAborts
    BY <2>4 DEF ObserverConcludes, ObserverRefreshes, PollEnds, ObserverAborts, Settle
  <2> QED BY <1>1, <2>1, <2>2, <2>3, <2>4 DEF Execution
<1>2. CASE Controller
  <2>1. CASE Discovers \/ Prepares \/ Resets \/ ResetFails
    BY <2>1 DEF Discovers, Prepares, Resets, ResetFails, BeginStarts, Settle, NoResult
  <2>2. CASE ExecutionWins \/ TimeoutFires
    BY <2>2 DEF ExecutionWins, TimeoutFires
  <2>3. CASE Drained \/ DrainTimesOut \/ Clears
    BY <2>3 DEF Drained, DrainTimesOut, Clears
  <2>4. CASE Stops
    <3>1. \/ result'.status = "execution_error"
          \/ failure = << >> /\ result'.status = outcome
      <4>1. failure \in Seq(ErrorKinds) /\ cleanup' \in Seq(ErrorKinds)
        BY TypesKept DEF TypeOK
      <4> QED BY <2>4, <4>1, JoinedIsTyped DEF Stops, Returned
    <3>2. result'.status # "throws"
      BY <2>4, <3>1 DEF Stops, CleanupOrder, Conclusive
    <3> QED BY <2>4, <3>2 DEF Stops, NoResult
  <2> QED BY <1>2, <2>1, <2>2, <2>3, <2>4 DEF Controller
<1>3. CASE Settled \/ UNCHANGED vars
  BY <1>3 DEF Settled, vars
<1> QED BY <1>1, <1>2, <1>3 DEF Next

(* Every start comes after the readiness delays, and before the evidence. *)
LEMMA StartsKept ==
  ASSUME TypeOK, Order, [Next]_vars
  PROVE  StartOrder'
<1> USE ComposeAssumption
<1> USE DEF TypeOK, Order, StartOrder, Collecting, AllStarted, Conclusive, Pending,
            schedule, signals, observed, verdict
<1>1. CASE Execution
  <2>1. CASE DelayApplied
    BY <2>1 DEF DelayApplied, BeginStarts, Settle, ErrorKinds, OutcomeOrder
  <2>2. CASE DelayRefused
    BY <2>2 DEF DelayRefused, Settle
  <2>3. ASSUME NEW s \in Services, WaitEnds(s) PROVE StartOrder'
    BY <2>3 DEF WaitEnds, OutcomeOrder
  <2>4. ASSUME NEW s \in Services, ContainerStarts(s) PROVE StartOrder'
    BY <2>4 DEF ContainerStarts
  <2>5. ASSUME NEW s \in Services, StartSucceeds(s) PROVE StartOrder'
    BY <2>5 DEF StartSucceeds, OutcomeOrder
  <2>6. ASSUME NEW s \in Services, StartFails(s) PROVE StartOrder'
    BY <2>6 DEF StartFails, OutcomeOrder, OperationErrors
  <2>7. CASE StartsSettle
    BY <2>7 DEF StartsSettle, Settle, OutcomeOrder, Starts
  <2>8. CASE LogsCollected
    BY <2>8 DEF LogsCollected, Settle
  <2>9. CASE StatesListed
    BY <2>9 DEF StatesListed, Settle
  <2>10. CASE CollectionFails
    BY <2>10 DEF CollectionFails, Settle
  <2>11. CASE ObserverConcludes
    BY <2>11 DEF ObserverConcludes, Settle
  <2>12. CASE ObserverRefreshes
    BY <2>12 DEF ObserverRefreshes
  <2>13. CASE PollEnds
    BY <2>13 DEF PollEnds
  <2>14. CASE ObserverAborts
    BY <2>14 DEF ObserverAborts, Settle
  <2> QED BY <1>1, <2>1, <2>2, <2>3, <2>4, <2>5, <2>6, <2>7, <2>8, <2>9, <2>10,
             <2>11, <2>12, <2>13, <2>14 DEF Execution
<1>2. CASE Controller
  <2>1. CASE Resets
    BY <2>1 DEF Resets, BeginStarts, Settle, ControllerOrder, OutcomeOrder
  <2>2. CASE Discovers \/ Prepares \/ ResetFails
    BY <2>2 DEF Discovers, Prepares, ResetFails
  <2>3. CASE ExecutionWins \/ TimeoutFires
    BY <2>3 DEF ExecutionWins, TimeoutFires
  <2>4. CASE Drained \/ DrainTimesOut \/ Clears \/ Stops
    BY <2>4 DEF Drained, DrainTimesOut, Clears, Stops
  <2> QED BY <1>2, <2>1, <2>2, <2>3, <2>4 DEF Controller
<1>3. CASE Settled \/ UNCHANGED vars
  BY <1>3 DEF Settled, vars
<1> QED BY <1>1, <1>2, <1>3 DEF Next

(* Only the observer gives a verdict, and it is the last thing it does. *)
LEMMA OutcomeKept ==
  ASSUME TypeOK, Order, [Next]_vars
  PROVE  OutcomeOrder'
<1> USE DEF TypeOK, Order, OutcomeOrder, Conclusive, schedule, signals, observed, verdict
<1>1. CASE Execution
  <2>1. ASSUME NEW s \in Services,
               WaitEnds(s) \/ ContainerStarts(s) \/ StartSucceeds(s)
        PROVE  OutcomeOrder'
    BY <2>1 DEF WaitEnds, ContainerStarts, StartSucceeds
  <2>2. ASSUME NEW s \in Services, StartFails(s) PROVE OutcomeOrder'
    BY <2>2 DEF StartFails, OperationErrors
  <2>3. CASE DelayApplied \/ DelayRefused
    BY <2>3 DEF DelayApplied, DelayRefused, BeginStarts, Settle
  <2>4. CASE StartsSettle
    BY <2>4 DEF StartsSettle, Settle
  <2>5. CASE LogsCollected \/ StatesListed \/ CollectionFails
    BY <2>5 DEF LogsCollected, StatesListed, CollectionFails, Settle
  <2>6. CASE ObserverConcludes
    BY <2>6 DEF ObserverConcludes, Settle, Concludes, Classify
  <2>7. CASE ObserverRefreshes \/ PollEnds \/ ObserverAborts
    BY <2>7 DEF ObserverRefreshes, PollEnds, ObserverAborts, Settle
  <2> QED BY <1>1, <2>1, <2>2, <2>3, <2>4, <2>5, <2>6, <2>7 DEF Execution
<1>2. CASE Controller
  <2>1. CASE Resets
    BY <2>1 DEF Resets, BeginStarts, Settle, ControllerOrder
  <2>2. CASE Discovers \/ Prepares \/ ResetFails \/ ExecutionWins \/ TimeoutFires
    BY <2>2 DEF Discovers, Prepares, ResetFails, ExecutionWins, TimeoutFires
  <2>3. CASE Drained \/ DrainTimesOut \/ Clears \/ Stops
    BY <2>3 DEF Drained, DrainTimesOut, Clears, Stops
  <2> QED BY <1>2, <2>1, <2>2, <2>3 DEF Controller
<1>3. CASE Settled \/ UNCHANGED vars
  BY <1>3 DEF Settled, vars
<1> QED BY <1>1, <1>2, <1>3 DEF Next

(* A run without an error has a verdict, and a cleanup without one has cleaned. *)
LEMMA CleanupKept ==
  ASSUME TypeOK, Order, [Next]_vars
  PROVE  CleanupOrder'
<1> USE DEF Order, CleanupOrder, Conclusive, IsEvidence, InFlight,
            schedule, signals, observed, verdict
<1>1. CASE Execution
  <2> USE DEF ControllerOrder, OutcomeOrder
  <2>1. ASSUME NEW s \in Services, WaitEnds(s) \/ StartSucceeds(s) PROVE CleanupOrder'
    BY <2>1 DEF WaitEnds, StartSucceeds
  <2>2. ASSUME NEW s \in Services, ContainerStarts(s) PROVE CleanupOrder'
    BY <2>2 DEF ContainerStarts, StartOrder, AllStarted
  <2>3. ASSUME NEW s \in Services, StartFails(s) PROVE CleanupOrder'
    BY <2>3 DEF StartFails
  <2>4. CASE DelayApplied \/ DelayRefused
    BY <2>4 DEF DelayApplied, DelayRefused, BeginStarts, Settle, NoResult
  <2>5. CASE StartsSettle
    BY <2>5 DEF StartsSettle, Settle
  <2>6. CASE LogsCollected \/ StatesListed \/ CollectionFails
    BY <2>6 DEF LogsCollected, StatesListed, CollectionFails, Settle
  <2>7. CASE ObserverConcludes
    BY <2>7 DEF ObserverConcludes, Settle, Concludes, Classify
  <2>8. CASE ObserverRefreshes \/ PollEnds \/ ObserverAborts
    BY <2>8 DEF ObserverRefreshes, PollEnds, ObserverAborts, Settle, NoResult
  <2> QED BY <1>1, <2>1, <2>2, <2>3, <2>4, <2>5, <2>6, <2>7, <2>8 DEF Execution
<1>2. CASE Controller
  <2> USE DEF ControllerOrder, OutcomeOrder, NoResult
  <2>1. CASE Discovers \/ Prepares \/ ResetFails
    BY <2>1 DEF Discovers, Prepares, ResetFails
  <2>2. CASE Resets
    BY <2>2 DEF Resets, BeginStarts, Settle
  <2>3. CASE ExecutionWins
    BY <2>3 DEF ExecutionWins, TypeOK
  <2>4. CASE TimeoutFires
    BY <2>4 DEF TimeoutFires
  <2>5. CASE Drained
    BY <2>5 DEF Drained
  <2>6. CASE DrainTimesOut
    <3>1. failure \in Seq(ErrorKinds) /\ <<"drain">> \in Seq(ErrorKinds)
      BY OneError DEF TypeOK, ErrorKinds
    <3>2. failure' # << >>
      BY <2>6, <3>1, JoinedIsTyped DEF DrainTimesOut
    <3>3. "drain" \in Range(failure')
      BY <2>6, <3>1 DEF DrainTimesOut, Joined, Element, Range
    <3> QED BY <2>6, <3>2, <3>3 DEF DrainTimesOut
  <2>7. CASE Clears
    BY <2>7 DEF Clears
  <2>8. CASE Stops
    <3>1. IsEvidence' => failure = << >> /\ cleanup' = << >>
      <4>1. failure \in Seq(ErrorKinds) /\ cleanup' \in Seq(ErrorKinds)
        BY TypesKept DEF TypeOK, Stops
      <4> QED BY <2>8, <4>1, JoinedIsTyped DEF Stops, Returned
    <3>2. cleanup' = << >> => cleanup = << >> /\ up' = {}
      BY <2>8 DEF Stops, TypeOK
    <3> QED BY <2>8, <3>1, <3>2 DEF Stops, Returned, Joined
  <2> QED BY <1>2, <2>1, <2>2, <2>3, <2>4, <2>5, <2>6, <2>7, <2>8 DEF Controller
<1>3. CASE Settled \/ UNCHANGED vars
  BY <1>3 DEF Settled, vars
<1> QED BY <1>1, <1>2, <1>3 DEF Next

(* The invariant is inductive, and so holds of every run. *)
LEMMA OrderKept ==
  ASSUME TypeOK, Order, [Next]_vars
  PROVE  Order'
BY ControllerKept, StartsKept, OutcomeKept, CleanupKept DEF Order

(* Together, for every reachable state. *)
LEMMA OrderTyped == Spec => [](TypeOK /\ Order)
<1>1. Init => TypeOK /\ Order
  <2>1. ASSUME Init PROVE TypeOK
    <3>1. << >> \in Seq(ErrorKinds)
      OBVIOUS
    <3>2. Nothing \in Evidence /\ NoResult \in Results
      BY DEF Nothing, Evidence, NoResult, Results
    <3> QED BY <2>1, <3>1, <3>2 DEF Init, TypeOK, Phases, Executions, Starts
  <2>2. ASSUME Init PROVE Order
    BY <2>2 DEF Init, Order, ControllerOrder, StartOrder, OutcomeOrder, CleanupOrder,
                Collecting, Conclusive, IsEvidence, NoResult
  <2> QED BY <2>1, <2>2
<1>2. TypeOK /\ Order /\ [Next]_vars => (TypeOK /\ Order)'
  BY TypesKept, OrderKept
<1> QED BY <1>1, <1>2, PTL DEF Spec

(* Every variable of a run keeps its type, for any services and schedules. *)
THEOREM TypeCorrect == Spec => []TypeOK
BY OrderTyped, PTL

(* executeSchedule: the observer sees the schedule asked for, and nothing else
   is ever returned as healthy or as a workload failure. *)
THEOREM EvidenceIsAsked == Spec => []EvidenceIsOfTheSchedule
<1>1. TypeOK /\ Order => EvidenceIsOfTheSchedule
  BY DEF Order, StartOrder, CleanupOrder, EvidenceIsOfTheSchedule, Collecting, AllStarted
<1> QED BY <1>1, OrderTyped, PTL

(* startIndependently: no start is issued for a cancelled run. *)
THEOREM CancelledStartsNothing == Spec => NoStartOnceCancelled
<1> DEFINE Quiet == \A s \in Services :
              cancelled /\ start[s] # "command" => start'[s] # "command"
<1>1. TypeOK /\ Order /\ [Next]_vars => [Quiet]_vars
  <2> SUFFICES ASSUME TypeOK, Order, [Next]_vars, ~UNCHANGED vars, cancelled PROVE Quiet
    BY DEF vars
  <2> USE DEF Order, TypeOK
  <2>1. ASSUME NEW s \in Services, WaitEnds(s) PROVE Quiet
    BY <2>1 DEF WaitEnds
  <2>2. ASSUME NEW s \in Services, StartSucceeds(s) \/ StartFails(s) PROVE Quiet
    BY <2>2 DEF StartSucceeds, StartFails
  <2>3. CASE DelayApplied \/ Resets
    BY <2>3 DEF DelayApplied, Resets, BeginStarts, Settle, StartOrder, ControllerOrder
  <2>4. CASE start' = start
    BY <2>4
  <2> QED BY <2>1, <2>2, <2>3, <2>4
          DEF Next, Execution, Controller, Settled, vars, ContainerStarts, DelayRefused,
              StartsSettle, LogsCollected, StatesListed, CollectionFails, ObserverConcludes,
              ObserverRefreshes, PollEnds, ObserverAborts, Discovers, Prepares, ResetFails,
              ExecutionWins, TimeoutFires, Drained, DrainTimesOut, Clears, Stops
<1> QED BY <1>1, OrderTyped, PTL DEF Spec, NoStartOnceCancelled

(* drainComposeOperations: when a run returns, its starts are over, unless the
   drain's own timer fired. *)
THEOREM AttemptEnds == Spec => []AttemptIsOver
<1> DEFINE Over == phase = "returned" /\ "drain" \notin Range(failure) => ~InFlight
<1>1. Init => Over
  BY DEF Init
<1>2. TypeOK /\ Order /\ Over /\ [Next]_vars => Over'
  <2> SUFFICES ASSUME TypeOK, Order, Over, [Next]_vars PROVE Over'
    OBVIOUS
  <2> USE DEF InFlight, schedule, signals, observed, verdict
  <2>1. CASE Execution
    <3> USE DEF Order, ControllerOrder, StartOrder
    <3>1. CASE phase # "returned"
      BY <2>1, <3>1 DEF Execution, DelayApplied, DelayRefused, WaitEnds, ContainerStarts,
         StartSucceeds, StartFails, StartsSettle, LogsCollected, StatesListed,
         CollectionFails, ObserverConcludes, ObserverRefreshes, PollEnds, ObserverAborts
    <3>2. ASSUME NEW s \in Services,
                 WaitEnds(s) \/ ContainerStarts(s) \/ StartSucceeds(s) \/ StartFails(s)
          PROVE  Over'
      BY <3>2 DEF WaitEnds, ContainerStarts, StartSucceeds, StartFails
    <3>3. CASE StartsSettle \/ LogsCollected \/ StatesListed \/ CollectionFails
      BY <3>3 DEF StartsSettle, LogsCollected, StatesListed, CollectionFails, Settle
    <3>4. CASE phase = "returned" /\ (DelayApplied \/ DelayRefused)
      <4>1. CASE aborted
        BY <3>4, <4>1 DEF DelayApplied, DelayRefused, BeginStarts, Settle
      <4>2. CASE result.status = "throws"
        BY <3>4, <4>2 DEF DelayApplied, DelayRefused
      <4> QED BY <3>4, <4>1, <4>2
    <3>5. CASE phase = "returned" /\ (ObserverConcludes \/ ObserverRefreshes \/ PollEnds)
      BY <3>5 DEF ObserverConcludes, ObserverRefreshes, PollEnds, Settle
    <3>6. CASE ObserverAborts
      BY <3>6 DEF ObserverAborts, Settle
    <3> QED BY <2>1, <3>1, <3>2, <3>3, <3>4, <3>5, <3>6 DEF Execution
  <2>2. CASE Controller
    BY <2>2 DEF Controller, Discovers, Prepares, Resets, ResetFails, ExecutionWins,
       TimeoutFires, Drained, DrainTimesOut, Clears, Stops, Order, ControllerOrder,
       CleanupOrder
  <2>3. CASE Settled \/ UNCHANGED vars
    BY <2>3 DEF Settled, vars
  <2> QED BY <2>1, <2>2, <2>3 DEF Next
<1>3. TypeOK /\ Order /\ Over => AttemptIsOver
  BY DEF TypeOK, Executions, Order, StartOrder, AttemptIsOver, InFlight, Pending,
         Collecting, AllStarted
<1> QED BY <1>1, <1>2, <1>3, OrderTyped, PTL DEF Spec

(* executionError: a timeout is diagnosed as one, whatever one more error the
   drain or the cleanup adds. *)
THEOREM TimeoutIsShown == Spec => []TimeoutIsDiagnosed
<1> USE DEF TimeoutIsDiagnosed
<1>1. Init => TimeoutIsDiagnosed
  BY DEF Init
<1>2. TypeOK /\ Order /\ TimeoutIsDiagnosed /\ [Next]_vars => TimeoutIsDiagnosed'
  <2> SUFFICES ASSUME TypeOK, Order, TimeoutIsDiagnosed, [Next]_vars
               PROVE  TimeoutIsDiagnosed'
    OBVIOUS
  <2>1. CASE Stops
    <3>1. cleanup' \in Seq(ErrorKinds)
      BY TypesKept DEF TypeOK
    <3>2. failure' = failure /\ result' = Returned(failure, cleanup')
      BY <2>1 DEF Stops
    <3>3. ASSUME TimedOut, Len(failure) = 1 \/ cleanup' = << >>
          PROVE  result'.code = "run_timeout"
      BY <3>1, <3>2, <3>3, TimeoutShows
    <3> QED BY <3>2, <3>3 DEF TimedOut
  <2>2. CASE Discovers
    BY <2>2 DEF Discovers, TimedOut, Order, ControllerOrder
  <2>3. CASE phase' # "returned"
    BY <2>3
  <2>4. CASE UNCHANGED <<phase, verdict>>
    BY <2>4 DEF verdict, TimedOut
  <2> QED BY <2>1, <2>2, <2>3, <2>4
          DEF Next, Execution, Controller, Settled, vars, verdict, DelayApplied,
              DelayRefused, WaitEnds, ContainerStarts, StartSucceeds, StartFails,
              StartsSettle, LogsCollected, StatesListed, CollectionFails,
              ObserverConcludes, ObserverRefreshes, PollEnds, ObserverAborts, Prepares,
              Resets, ResetFails, ExecutionWins, TimeoutFires, Drained, DrainTimesOut,
              Clears
<1> QED BY <1>1, <1>2, OrderTyped, PTL DEF Spec

-----------------------------------------------------------------------------
(* What follows a refused host port: the execution only waits for its starts, and
   the controller either times out or takes the conflict over as the failure. *)
ConflictOrder ==
  /\ phase = "draining" => Len(failure) <= 1
  /\ \A i \in DOMAIN cleanup : cleanup[i] = "operation"
  /\ outcome = "port" =>
       /\ cancelled /\ exec \in {"starting", "settled"}
       /\ \/ phase = "racing" \/ TimedOut
          \/ failure = <<"port">> /\ exec = "settled"
       /\ phase = "returned" => TimedOut \/ result.code = "host_port_conflict"

(* A conflict shows through whatever the cleanup adds. *)
LEMMA ConflictShows ==
  ASSUME failure = <<"port">>, NEW errors \in Seq(ErrorKinds),
         \A i \in DOMAIN errors : errors[i] = "operation"
  PROVE  Returned(failure, errors).code = "host_port_conflict"
<1> DEFINE all == Joined(failure, errors)
<1>1. CASE errors = << >>
  <2>1. all = <<"port">>
    BY <1>1 DEF Joined
  <2>2. Range(all) = {"port"}
    BY <2>1 DEF Range
  <2> QED BY <2>1, <2>2 DEF Returned, Code
<1>2. CASE errors # << >>
  <2>1. Element(errors) \in {"operation", "aggregate"}
    BY <1>2 DEF Element
  <2>2. all = <<"port", Element(errors)>>
    BY <1>2 DEF Joined, Element
  <2>3. Range(all) = {"port", Element(errors)}
    BY <2>2 DEF Range
  <2> QED BY <2>1, <2>2, <2>3 DEF Returned, Code
<1> QED BY <1>1, <1>2

(* The execution keeps to it: its first error stays its outcome. *)
LEMMA ConflictKeptByExecution ==
  ASSUME TypeOK, Order, ConflictOrder, Execution
  PROVE  ConflictOrder' /\ (outcome = "port" => outcome' = "port")
<1> USE DEF ConflictOrder, TimedOut, verdict, signals
<1>1. ASSUME NEW s \in Services, WaitEnds(s) \/ ContainerStarts(s) \/ StartSucceeds(s)
      PROVE  ConflictOrder' /\ (outcome = "port" => outcome' = "port")
  BY <1>1 DEF WaitEnds, ContainerStarts, StartSucceeds
<1>2. ASSUME NEW s \in Services, StartFails(s)
      PROVE  ConflictOrder' /\ (outcome = "port" => outcome' = "port")
  <2>1. ~cancelled => phase = "racing"
    BY <1>2 DEF StartFails, Order, ControllerOrder, TypeOK, Phases
  <2> QED BY <1>2, <2>1 DEF StartFails
<1>3. CASE StartsSettle
  BY <1>3 DEF StartsSettle, Settle
<1>4. CASE DelayApplied \/ DelayRefused
  BY <1>4 DEF DelayApplied, DelayRefused, BeginStarts, Settle
<1>5. CASE LogsCollected \/ StatesListed \/ CollectionFails
  BY <1>5 DEF LogsCollected, StatesListed, CollectionFails, Settle
<1>6. CASE ObserverConcludes \/ ObserverRefreshes \/ PollEnds \/ ObserverAborts
  BY <1>6 DEF ObserverConcludes, Classify, ObserverRefreshes, PollEnds, ObserverAborts, Settle
<1> QED BY <1>1, <1>2, <1>3, <1>4, <1>5, <1>6 DEF Execution

(* So does the controller: it neither drops the conflict nor joins it with the
   error of a drain, as nothing is left to drain. *)
LEMMA ConflictKeptByController ==
  ASSUME TypeOK, Order, ConflictOrder, Controller
  PROVE  ConflictOrder' /\ (outcome = "port" => outcome' = "port")
<1> USE DEF ConflictOrder, verdict, signals
<1>1. CASE Discovers \/ Prepares \/ Resets \/ ResetFails
  BY <1>1 DEF Discovers, Prepares, Resets, ResetFails, BeginStarts, Settle, TimedOut,
     Order, ControllerOrder
<1>2. CASE ExecutionWins
  BY <1>2 DEF ExecutionWins, ErrorKinds, TimedOut
<1>3. CASE TimeoutFires
  BY <1>3 DEF TimeoutFires, TimedOut
<1>4. CASE Drained \/ Clears
  BY <1>4 DEF Drained, Clears, TimedOut, Order, ControllerOrder
<1>5. CASE DrainTimesOut
  BY <1>5 DEF DrainTimesOut, InFlight, TimedOut, Joined, Element, TypeOK
<1>6. CASE Stops
  <2>1. cleanup' \in Seq(ErrorKinds)
    BY <1>6, TypesKept DEF Next, TypeOK
  <2>2. \A i \in DOMAIN cleanup' : cleanup'[i] = "operation"
    BY <1>6 DEF Stops, TypeOK
  <2>3. failure = <<"port">> => result'.code = "host_port_conflict"
    BY <1>6, <2>1, <2>2, ConflictShows DEF Stops
  <2> QED BY <1>6, <2>2, <2>3 DEF Stops, TimedOut
<1> QED BY <1>1, <1>2, <1>3, <1>4, <1>5, <1>6 DEF Controller

(* startIndependently and executionError: the first error names the run, through
   its siblings' failures and the cleanup's. *)
THEOREM ConflictIsShown == Spec => ConflictIsDiagnosed
<1> DEFINE Conflict == outcome = "port"
           Diagnosed == phase = "returned" => TimedOut \/ result.code = "host_port_conflict"
<1>1. Init => ConflictOrder
  BY DEF Init, ConflictOrder
<1>2. TypeOK /\ Order /\ ConflictOrder /\ [Next]_vars =>
        ConflictOrder' /\ (Conflict => Conflict')
  <2> SUFFICES ASSUME TypeOK, Order, ConflictOrder, [Next]_vars
               PROVE  ConflictOrder' /\ (Conflict => Conflict')
    OBVIOUS
  <2>1. CASE Settled \/ UNCHANGED vars
    BY <2>1 DEF Settled, vars, ConflictOrder, TimedOut
  <2> QED BY <2>1, ConflictKeptByExecution, ConflictKeptByController DEF Next
<1>3. ConflictOrder => (Conflict => Diagnosed)
  BY DEF ConflictOrder
<1> QED BY <1>1, <1>2, <1>3, OrderTyped, PTL DEF Spec, ConflictIsDiagnosed

-----------------------------------------------------------------------------
(* A run is answered by the step that returns it, and by no other. *)
LEMMA AnsweredOnce ==
  ASSUME TypeOK, Order, [Next]_vars
  PROVE  UNCHANGED result
           \/ (result.status = "none" /\ result'.status # "none" /\ result' \in Results)
<1> USE DEF verdict
<1>1. CASE Discovers \/ Stops
  <2>1. phase # "returned" /\ (UNCHANGED result \/ phase' = "returned")
    BY <1>1 DEF Discovers, Stops
  <2>2. result = NoResult
    BY <2>1 DEF Order, ControllerOrder
  <2>3. CASE Discovers
    BY <2>2, <2>3, TypesKept DEF Discovers, NoResult, TypeOK
  <2>4. CASE Stops
    <3>1. failure \in Seq(ErrorKinds) /\ cleanup' \in Seq(ErrorKinds)
      BY TypesKept DEF TypeOK
    <3>2. failure = << >> => Conclusive
      BY <2>4 DEF Stops, Order, CleanupOrder
    <3>3. result'.status \in {outcome, "execution_error"}
            /\ (result'.status = outcome => Conclusive \/ result'.status = "execution_error")
      BY <2>4, <3>1, <3>2, JoinedIsTyped DEF Stops, Returned
    <3> QED BY <2>2, <3>3, TypesKept DEF Conclusive, NoResult, TypeOK
  <2> QED BY <1>1, <2>3, <2>4
<1>2. CASE ~(Discovers \/ Stops)
  BY <1>2 DEF Next, Execution, Controller, Settled, vars, DelayApplied, DelayRefused,
     WaitEnds, ContainerStarts, StartSucceeds, StartFails, StartsSettle, LogsCollected,
     StatesListed, CollectionFails, ObserverConcludes, ObserverRefreshes, PollEnds,
     ObserverAborts, Prepares, Resets, ResetFails, ExecutionWins, TimeoutFires, Drained,
     DrainTimesOut, Clears
<1> QED BY <1>1, <1>2

(* Nothing of a run that counts as evidence is at work. *)
LEMMA EvidenceIsAtRest ==
  ASSUME TypeOK, Order, IsEvidence
  PROVE  ~AtWork
<1>1. up = {} /\ held = {} /\ Conclusive
  BY DEF Order, CleanupOrder
<1>2. exec = "settled" /\ Pending = {}
  BY <1>1 DEF Order, OutcomeOrder, StartOrder
<1> QED BY <1>1, <1>2 DEF AtWork

(* runSchedule implements what a discovery relies on, for any services, schedules
   and docker: it answers once, and evidence comes from a run that is over, even
   where the execution was left behind by a timer. *)
THEOREM RunIsIsolated == Spec => IsIsolated
<1> DEFINE answered == [r \in Runs |-> result.status]
           working == {r \in Runs : AtWork}
           Rests == IsEvidence => ~AtWork
<1>0. TypeOK /\ Order => Rests
  BY EvidenceIsAtRest
<1>1. Init => Contract!Init
  BY DEF Init, NoResult, AtWork, Pending, Runs, Contract!Init
<1>2. TypeOK /\ Order /\ Rests' /\ [Next]_vars => [Contract!Next]_(Contract!vars)
  <2> SUFFICES ASSUME TypeOK, Order, Rests', [Next]_vars PROVE Contract!Next
    OBVIOUS
  <2>1. IsEvidence' => ~AtWork'
    OBVIOUS
  <2>2. working' \in SUBSET {r \in Runs : answered'[r] \notin {"healthy", "workload_failure"}}
    BY <2>1 DEF IsEvidence, Runs
  <2>3. CASE UNCHANGED result
    BY <2>2, <2>3 DEF Contract!Next, Contract!Stir, Contract!Open, Runs
  <2>4. CASE result.status = "none" /\ result'.status # "none" /\ result' \in Results
    <3>1. result'.status \in {"throws", "healthy", "workload_failure", "execution_error"}
      BY <2>4 DEF Results
    <3>2. 1 \in Runs /\ answered[1] = "none"
            /\ answered' = [answered EXCEPT ![1] = result'.status]
      BY <2>4 DEF Runs
    <3>3. Contract!Answer(1, result'.status)
      BY <2>2, <3>1, <3>2 DEF Contract!Answer, Contract!Open
    <3> QED BY <3>1, <3>2, <3>3 DEF Contract!Next
  <2> QED BY <2>3, <2>4, AnsweredOnce
<1> QED BY <1>0, <1>1, <1>2, OrderTyped, PTL DEF Spec, IsIsolated, Contract!Spec

-----------------------------------------------------------------------------
(* The oracle behind the evidence. *)
Oracle == INSTANCE ProofOracleProofs

(* Three facts of the evidence decide its status: with no readiness observed, as
   compose-proof-observer.ts:21-32 passes none, evaluateWorkloadRun gives any
   workloads, reports and states the status that Classify gives what they come to. *)
THEOREM ClassifyIsTheOracle ==
  ASSUME NEW kind, NEW assertion, NEW report, NEW state,
         DOMAIN kind \subseteq Nat \ {Oracle!None}
  PROVE  LET unanswered == [w \in DOMAIN kind |-> "none"]
         IN Oracle!Evaluate(kind, assertion, report, state, unanswered).status =
              Classify([structured |-> report # Oracle!None,
                        exited |-> \E w \in DOMAIN kind : state[w] = "nonzero",
                        complete |-> \A w \in DOMAIN kind :
                          /\ Oracle!StateSatisfies(kind[w], state[w])
                          /\ Oracle!ReadinessSatisfies(assertion[w], "none")])
<1> DEFINE unanswered == [w \in DOMAIN kind |-> "none"]
           crashes == {w \in DOMAIN kind : state[w] = "nonzero"}
           misses == {w \in DOMAIN kind : unanswered[w] \notin {"none", "ready"}}
           exited == \E w \in DOMAIN kind : state[w] = "nonzero"
           complete == \A w \in DOMAIN kind :
                         /\ Oracle!StateSatisfies(kind[w], state[w])
                         /\ Oracle!ReadinessSatisfies(assertion[w], "none")
           judged == Oracle!Evaluate(kind, assertion, report, state, unanswered)
           classified == Classify([structured |-> report # Oracle!None, exited |-> exited,
                                   complete |-> complete])
<1>1. Oracle!First(crashes) # Oracle!None <=> exited
  BY Oracle!FirstIsMember
<1>2. Oracle!First(misses) = Oracle!None
  BY Oracle!FirstIsMember
<1>3. (\A w \in DOMAIN kind : /\ Oracle!StateSatisfies(kind[w], state[w])
                              /\ Oracle!ReadinessSatisfies(assertion[w], unanswered[w]))
        <=> complete
  OBVIOUS
<1>4. CASE report # Oracle!None
  <2>1. judged.status = "workload_failure"
    BY <1>4 DEF Oracle!Evaluate, Oracle!Verdict
  <2>2. classified = "workload_failure"
    BY <1>4 DEF Classify
  <2> QED BY <2>1, <2>2
<1>5. CASE report = Oracle!None /\ exited
  <2>1. judged.status = "workload_failure"
    BY <1>1, <1>5 DEF Oracle!Evaluate, Oracle!Verdict
  <2>2. classified = "workload_failure"
    BY <1>5 DEF Classify
  <2> QED BY <2>1, <2>2
<1>6. CASE report = Oracle!None /\ ~exited
  <2>1. judged = IF complete THEN Oracle!Healthy ELSE Oracle!Inconclusive
    BY <1>1, <1>2, <1>3, <1>6 DEF Oracle!Evaluate
  <2>2. judged.status = IF complete THEN "healthy" ELSE "inconclusive"
    BY <2>1 DEF Oracle!Healthy, Oracle!Inconclusive, Oracle!Verdict
  <2>3. classified = IF complete THEN "healthy" ELSE "inconclusive"
    BY <1>6 DEF Classify
  <2> QED BY <2>2, <2>3
<1> QED BY <1>4, <1>5, <1>6

=============================================================================
