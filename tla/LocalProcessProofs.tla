------------------------- MODULE LocalProcessProofs -------------------------
(***************************************************************************)
(* What holds of local-process runs for any manifests, schedules and       *)
(* processes: types, that a run leaves no process of its own alive, that a *)
(* verdict has both its resets, that a healthy run was seen whole and,     *)
(* while runs come one by one, that a crash is never DSRD's own doing.     *)
(***************************************************************************)
EXTENDS LocalProcess, ProofOracleProofs, FiniteSetTheorems

Early == {"idle", "opening", "openingReap", "preparing"}
Ending == {"closing", "closingReap", "clearing", "returned"}

(* Nothing of a run is started before it executes, and nothing is still to be
   started when it is stopped, unless a start threw; whoever is alive or holds
   output is known to be running, and those left at the end are being stopped. *)
ProcessOrder ==
  \A r \in Runs, w \in Workloads :
    LET c == <<r, w>> IN
    /\ start[c] \in {"none", "waiting"} => leader[c] = "none" /\ seen[c] = "none"
    /\ Alive(c) => seen[c] = "running"
    /\ seen[c] = "running" => start[c] = "started"
    /\ phase[r] \in Early => start[c] = "none"
    /\ phase[r] \in {"probing"} \cup Ending /\ ~Threw(r) => start[c] # "waiting"
    /\ phase[r] = "closing" /\ ~Threw(r) /\ Alive(c) => c \in targets[r]
    /\ phase[r] \in {"closingReap", "clearing", "returned"} /\ ~Threw(r) => ~Alive(c)

(* A run is judged after its first reset, has come to a result when it is being
   stopped, and returns a verdict after another reset. *)
ResetOrder ==
  \A r \in Runs :
    /\ phase[r] \in Ending => result[r].status # "none"
    /\ phase[r] \in Early \cup {"executing", "probing"} => result[r] = NoResult
    /\ phase[r] \in Early => resets[r] = 0
    /\ phase[r] # "returned" => resets[r] \in 0..1
    /\ manifest.reset = "command" =>
         /\ phase[r] \in {"executing", "probing"} => resets[r] = 1
         /\ phase[r] \in {"closing", "closingReap", "clearing"} /\ IsVerdict(r) => resets[r] = 1
         /\ phase[r] = "returned" /\ IsVerdict(r) => resets[r] = 2

Order == ProcessOrder /\ ResetOrder

-----------------------------------------------------------------------------
LEMMA ResultsAreKnown ==
  /\ NoResult \in Verdicts /\ Rejected \in Verdicts /\ ExecutionError \in Verdicts
  /\ NoResult.status = "none" /\ Rejected.status = "throws"
  /\ ExecutionError.status = "execution_error"
  /\ NoResult.category = "none" /\ Rejected.category = "none"
  /\ ExecutionError.category = "none"
BY DEF NoResult, Rejected, ExecutionError, Verdict, Verdicts

LEMMA ManifestIsTyped ==
  ASSUME TypeOK
  PROVE  /\ manifest.kind \in [Workloads -> Kinds]
         /\ manifest.assertion \in [Workloads -> Assertions]
         /\ manifest.reset \in {"none", "command", "missing"}
         /\ manifest.leaves \in [Workloads -> Kin] /\ manifest.reports \in SUBSET Workloads
         /\ Workloads \subseteq Nat \ {None}
BY LocalProcessAssumption DEF TypeOK

(* The lines of a run report a workload of the manifest, if any. *)
LEMMA ReportIsKnown ==
  ASSUME TypeOK, NEW r \in Runs
  PROVE  FirstReport(Lines(r)) \in Workloads \cup {None}
<1> DEFINE printing == {w \in manifest.reports : start[<<r, w>>] = "started"}
           lines == Lines(r)
           reports == {i \in DOMAIN lines : IsFailureEvent(lines[i])}
<1>1. CASE printing = {}
  <2>1. lines = << >>
    BY <1>1 DEF Lines
  <2>2. reports = {}
    BY <2>1
  <2> QED BY <2>2 DEF FirstReport
<1>2. CASE printing # {}
  <2>1. lines = <<Line(Min(printing))>>
    BY <1>2 DEF Lines
  <2>2. lines[1].opens = FALSE /\ DOMAIN lines = {1}
    BY <2>1 DEF Line
  <2>3. reports = {}
    BY <2>2 DEF IsFailureEvent
  <2> QED BY <2>3 DEF FirstReport
<1> QED BY <1>1, <1>2

(* What the verdict of a run rests on. *)
LEMMA JudgementIsGrounded ==
  ASSUME TypeOK, NEW r \in Runs, NEW answers
  PROVE  LET verdict == Judgement(r, answers)
         IN /\ verdict \in Verdicts /\ verdict.status # "none"
            /\ verdict.category = "unexpected_exit" =>
                 /\ verdict.workload \in Workloads
                 /\ StateOf(<<r, verdict.workload>>) = "nonzero"
            /\ verdict = Healthy => \A w \in Workloads :
                 /\ StateSatisfies(Kind(w), StateOf(<<r, w>>))
                 /\ ReadinessSatisfies(manifest.assertion[w], answers[w])
<1> DEFINE verdict == Judgement(r, answers)
           report == FirstReport(Lines(r))
           state == [w \in Workloads |-> StateOf(<<r, w>>)]
<1>1. DOMAIN manifest.kind = Workloads /\ Workloads \subseteq Nat \ {None}
  BY ManifestIsTyped
<1>2. report \in Workloads \cup {None}
  BY ReportIsKnown
<1>3. verdict = Evaluate(manifest.kind, manifest.assertion, report, state, answers)
  BY DEF Judgement
<1>4. \A w \in Workloads : state[w] = StateOf(<<r, w>>)
  OBVIOUS
<1> DEFINE kind == manifest.kind
           assertion == manifest.assertion
<1>a. /\ DOMAIN kind \subseteq Nat \ {None} /\ DOMAIN kind = Workloads
      /\ verdict = Evaluate(kind, assertion, report, state, answers)
  BY <1>1, <1>3
<1> HIDE DEF verdict, report, state, kind, assertion
<1>5. /\ \/ verdict = Healthy \/ verdict = Inconclusive
         \/ /\ verdict.status = "workload_failure"
            /\ \/ /\ verdict = Verdict("workload_failure", report, "structured_failure")
                  /\ report # None
               \/ /\ verdict.workload \in Workloads
                  /\ verdict = Verdict("workload_failure", verdict.workload,
                                       "unexpected_exit")
                  /\ state[verdict.workload] = "nonzero"
               \/ /\ verdict.workload \in Workloads
                  /\ verdict = Verdict("workload_failure", verdict.workload,
                                       "readiness_failed")
                  /\ answers[verdict.workload] \notin {"none", "ready"}
      /\ verdict = Healthy =>
           \A w \in Workloads : /\ StateSatisfies(kind[w], state[w])
                                /\ ReadinessSatisfies(assertion[w], answers[w])
  BY <1>a, VerdictIsGrounded
<1>6. verdict \in Verdicts
  <2>1. \A w \in Workloads \cup {None}, s \in {"healthy", "inconclusive", "workload_failure"},
           c \in {"none", "structured_failure", "unexpected_exit", "readiness_failed"} :
           Verdict(s, w, c) \in Verdicts
    BY DEF Verdict, Verdicts
  <2> QED BY <1>2, <1>5, <2>1 DEF Healthy, Inconclusive
<1>7. ASSUME verdict.category = "unexpected_exit"
      PROVE  verdict.workload \in Workloads /\ state[verdict.workload] = "nonzero"
  BY <1>5, <1>7 DEF Verdict, Healthy, Inconclusive
<1>8. /\ verdict \in Verdicts /\ verdict.status # "none"
      /\ verdict.category = "unexpected_exit" =>
           /\ verdict.workload \in Workloads
           /\ StateOf(<<r, verdict.workload>>) = "nonzero"
      /\ verdict = Healthy => \A w \in Workloads :
           /\ StateSatisfies(Kind(w), StateOf(<<r, w>>))
           /\ ReadinessSatisfies(manifest.assertion[w], answers[w])
  <2>1. verdict.status # "none"
    BY <1>5 DEF Verdict, Healthy, Inconclusive
  <2> QED BY <1>4, <1>5, <1>6, <1>7, <2>1 DEF Kind, kind, assertion
<1> QED BY <1>8, Zenon DEF verdict

-----------------------------------------------------------------------------
(* What the actions share. *)

(* A run that concludes is judged and stopped in one step, or probed on. *)
LEMMA Concluded ==
  ASSUME TypeOK, NEW r \in Runs, NEW answers, Conclude(r, answers)
  PROVE  /\ answer' = [answer EXCEPT ![r] = answers]
         /\ \/ /\ phase' = [phase EXCEPT ![r] = "probing"]
               /\ UNCHANGED <<targets, signalled, result>>
            \/ /\ Closing(r, Judgement(r, answers))
               /\ Judgement(r, answers) \in Verdicts /\ Judgement(r, answers).status # "none"
               /\ Unanswered(answers) = {}
BY JudgementIsGrounded DEF Conclude, stopping

LEMMA StoppedIsTyped ==
  ASSUME TypeOK, NEW r \in Runs, NEW at \in Phases, StopBegins(r, at)
  PROVE  /\ phase' \in [Runs -> Phases] /\ targets' \in [Runs -> SUBSET Children]
         /\ signalled' \in SUBSET Children
BY DEF StopBegins, TypeOK, Active

LEMMA ClosedIsTyped ==
  ASSUME TypeOK, NEW r \in Runs, NEW verdict \in Verdicts, Closing(r, verdict)
  PROVE  /\ phase' \in [Runs -> Phases] /\ targets' \in [Runs -> SUBSET Children]
         /\ signalled' \in SUBSET Children /\ result' \in [Runs -> Verdicts]
<1>1. StopBegins(r, "closing") /\ "closing" \in Phases
  BY DEF Closing, Phases
<1> QED BY <1>1, StoppedIsTyped DEF Closing, TypeOK

(* The answers a run concludes with. *)
LEMMA AnswersAreTyped ==
  ASSUME TypeOK, NEW r \in Runs
  PROVE  /\ AssertedAnswers(r) \in [Workloads -> Answers]
         /\ \A w \in Workloads, a \in {"timeout", "ready"} :
              [answer[r] EXCEPT ![w] = a] \in [Workloads -> Answers]
BY DEF TypeOK, AssertedAnswers, Answers

LEMMA ConcludedIsTyped ==
  ASSUME TypeOK, NEW r \in Runs, NEW answers \in [Workloads -> Answers], Conclude(r, answers)
  PROVE  /\ phase' \in [Runs -> Phases] /\ targets' \in [Runs -> SUBSET Children]
         /\ signalled' \in SUBSET Children /\ result' \in [Runs -> Verdicts]
         /\ answer' \in [Runs -> [Workloads -> Answers]]
<1>1. answer' \in [Runs -> [Workloads -> Answers]]
  <2>1. answer' = [answer EXCEPT ![r] = answers]
    BY Concluded
  <2> QED BY <2>1 DEF TypeOK
<1>2. CASE /\ phase' = [phase EXCEPT ![r] = "probing"]
           /\ UNCHANGED <<targets, signalled, result>>
  BY <1>1, <1>2 DEF TypeOK, Phases
<1>3. CASE /\ Closing(r, Judgement(r, answers))
           /\ Judgement(r, answers) \in Verdicts
  BY <1>1, <1>3, ClosedIsTyped
<1> QED BY <1>2, <1>3, Concluded

LEMMA TypesKept ==
  ASSUME TypeOK, Order, [Next]_vars
  PROVE  TypeOK'
<1> USE DEF target, processes, stopping
<1>1. ASSUME NEW r \in Runs, ManifestRejected(r) PROVE TypeOK'
  BY <1>1, ResultsAreKnown DEF ManifestRejected, TypeOK, Phases
<1>2. ASSUME NEW r \in Runs, Begins(r) PROVE TypeOK'
  <2>1. PICK s \in Schedules :
          /\ delayed' = [delayed EXCEPT ![r] = s]
          /\ \/ /\ phase' = [phase EXCEPT ![r] = "returned"]
                /\ \E v \in {ExecutionError, Rejected} : result' = [result EXCEPT ![r] = v]
                /\ UNCHANGED stopping
             \/ StopBegins(r, "opening") /\ UNCHANGED result
    BY <1>2 DEF Begins
  <2>2. /\ phase' \in [Runs -> Phases] /\ targets' \in [Runs -> SUBSET Children]
        /\ signalled' \in SUBSET Children /\ result' \in [Runs -> Verdicts]
    <3>1. "opening" \in Phases /\ "returned" \in Phases
      BY DEF Phases
    <3>2. CASE StopBegins(r, "opening") /\ UNCHANGED result
      BY <3>1, <3>2, StoppedIsTyped DEF TypeOK
    <3>3. CASE /\ phase' = [phase EXCEPT ![r] = "returned"]
               /\ \E v \in {ExecutionError, Rejected} : result' = [result EXCEPT ![r] = v]
               /\ UNCHANGED stopping
      BY <3>1, <3>3, ResultsAreKnown DEF TypeOK
    <3> QED BY <2>1, <3>2, <3>3
  <2>3. delayed' \in [Runs -> Schedules \cup {{}}]
    BY <2>1 DEF TypeOK
  <2> QED BY <1>2, <2>2, <2>3 DEF Begins, TypeOK
<1>3. ASSUME NEW r \in Runs, GraceEnds(r) PROVE TypeOK'
  BY <1>3 DEF GraceEnds, TypeOK, Phases, Kin
<1>4. ASSUME NEW r \in Runs, Reaped(r) PROVE TypeOK'
  BY <1>4 DEF Reaped, TypeOK, Phases
<1>5. ASSUME NEW r \in Runs, ResetSucceeds(r) PROVE TypeOK'
  <2>1. resets' \in [Runs -> 0..2]
    BY <1>5 DEF ResetSucceeds, TypeOK, Order, ResetOrder
  <2>2. phase' \in [Runs -> Phases]
    BY <1>5 DEF ResetSucceeds, TypeOK, Phases
  <2>3. start' \in [Children -> {"none", "waiting"} \cup Spawns]
    BY <1>5 DEF ResetSucceeds, TypeOK
  <2> QED BY <1>5, <2>1, <2>2, <2>3 DEF ResetSucceeds, TypeOK
<1>6. ASSUME NEW r \in Runs, ResetFails(r) PROVE TypeOK'
  <2>1. CASE phase[r] = "preparing"
    <3>1. Closing(r, ExecutionError) /\ ExecutionError \in Verdicts
      BY <1>6, <2>1, ResultsAreKnown DEF ResetFails
    <3>2. /\ phase' \in [Runs -> Phases] /\ targets' \in [Runs -> SUBSET Children]
          /\ signalled' \in SUBSET Children /\ result' \in [Runs -> Verdicts]
      BY <3>1, ClosedIsTyped
    <3> QED BY <1>6, <3>2 DEF ResetFails, TypeOK
  <2>2. CASE phase[r] # "preparing"
    BY <1>6, <2>2, ResultsAreKnown DEF ResetFails, TypeOK, Phases
  <2> QED BY <2>1, <2>2
<1>7. ASSUME NEW r \in Runs, JobsEnd(r) PROVE TypeOK'
  <2>1. Conclude(r, AssertedAnswers(r)) /\ AssertedAnswers(r) \in [Workloads -> Answers]
    BY <1>7, AnswersAreTyped DEF JobsEnd
  <2>2. /\ phase' \in [Runs -> Phases] /\ targets' \in [Runs -> SUBSET Children]
        /\ signalled' \in SUBSET Children /\ result' \in [Runs -> Verdicts]
        /\ answer' \in [Runs -> [Workloads -> Answers]]
    BY <2>1, ConcludedIsTyped
  <2> QED BY <1>7, <2>2 DEF JobsEnd, TypeOK
<1>8. ASSUME NEW r \in Runs, TimesOut(r) \/ StartsReject(r) PROVE TypeOK'
  <2>1. Closing(r, ExecutionError) /\ ExecutionError \in Verdicts
    BY <1>8, ResultsAreKnown DEF TimesOut, StartsReject
  <2>2. /\ phase' \in [Runs -> Phases] /\ targets' \in [Runs -> SUBSET Children]
        /\ signalled' \in SUBSET Children /\ result' \in [Runs -> Verdicts]
    BY <2>1, ClosedIsTyped
  <2> QED BY <1>8, <2>2 DEF TimesOut, StartsReject, TypeOK
<1>9. ASSUME NEW r \in Runs, NEW w \in Workloads, Spawn(r, w) PROVE TypeOK'
  <2>1. manifest.leaves[w] \in Kin
    BY ManifestIsTyped
  <2>2. PICK outcome \in Spawns :
          /\ start' = [start EXCEPT ![<<r, w>>] = outcome]
          /\ \/ /\ leader' = [leader EXCEPT ![<<r, w>>] = "alive"]
                /\ seen' = [seen EXCEPT ![<<r, w>>] = "running"]
                /\ kin' = [kin EXCEPT ![<<r, w>>] = manifest.leaves[w]]
             \/ UNCHANGED <<leader, seen, kin>>
    BY <1>9 DEF Spawn
  <2>3. host' \in {"up", "down"} /\ UNCHANGED <<target, stopping, phase, answer, resets, result>>
    BY <1>9 DEF Spawn
  <2> QED BY <2>1, <2>2, <2>3 DEF TypeOK
<1>10. ASSUME NEW r \in Runs, NEW w \in Workloads, Probed(r, w) PROVE TypeOK'
  <2>1. PICK a \in {"timeout", "ready"} : Conclude(r, [answer[r] EXCEPT ![w] = a])
    BY <1>10 DEF Probed
  <2>2. [answer[r] EXCEPT ![w] = a] \in [Workloads -> Answers]
    BY AnswersAreTyped
  <2>3. /\ phase' \in [Runs -> Phases] /\ targets' \in [Runs -> SUBSET Children]
        /\ signalled' \in SUBSET Children /\ result' \in [Runs -> Verdicts]
        /\ answer' \in [Runs -> [Workloads -> Answers]]
    BY <2>1, <2>2, ConcludedIsTyped
  <2> QED BY <1>10, <2>3 DEF Probed, TypeOK
<1>11. ASSUME NEW c \in Children, Exits(c) \/ DescendantsExit(c) \/ Closes(c) PROVE TypeOK'
  BY <1>11 DEF Exits, DescendantsExit, Closes, TypeOK, Kin
<1>12. CASE UNCHANGED vars
  BY <1>12 DEF vars, TypeOK
<1> QED BY <1>1, <1>2, <1>3, <1>4, <1>5, <1>6, <1>7, <1>8, <1>9, <1>10, <1>11, <1>12
        DEF Next, Proceeds, Finished

(* What a run may do to what it shows of itself. *)
LEMMA ResetsKept ==
  ASSUME TypeOK, Order, [Next]_vars
  PROVE  ResetOrder'
<1> USE DEF Early, Ending, IsVerdict, TypeOK, Order, ResetOrder
<1>a. ~(Rejected.status \in {"healthy", "inconclusive", "workload_failure"})
      /\ ~(ExecutionError.status \in {"healthy", "inconclusive", "workload_failure"})
      /\ ~(NoResult.status \in {"healthy", "inconclusive", "workload_failure"})
      /\ Rejected.status # "none" /\ ExecutionError.status # "none"
  BY ResultsAreKnown
<1>1. ASSUME NEW r \in Runs, ManifestRejected(r) PROVE ResetOrder'
  BY <1>1, <1>a DEF ManifestRejected, Called, target
<1>2. ASSUME NEW r \in Runs, Begins(r) PROVE ResetOrder'
  <2>1. /\ phase[r] = "idle" /\ UNCHANGED <<manifest, resets>>
        /\ \/ /\ phase' = [phase EXCEPT ![r] = "returned"]
              /\ \E v \in {ExecutionError, Rejected} : result' = [result EXCEPT ![r] = v]
           \/ phase' = [phase EXCEPT ![r] = "opening"] /\ UNCHANGED result
    BY <1>2 DEF Begins, Called, StopBegins
  <2> QED BY <1>a, <2>1
<1>3. ASSUME NEW r \in Runs, GraceEnds(r) \/ Reaped(r) PROVE ResetOrder'
  BY <1>3 DEF GraceEnds, Reaped, target
<1>4. ASSUME NEW r \in Runs, ResetSucceeds(r) PROVE ResetOrder'
  BY <1>4 DEF ResetSucceeds, target
<1>5. ASSUME NEW r \in Runs, ResetFails(r) \/ TimesOut(r) \/ StartsReject(r)
      PROVE  ResetOrder'
  <2>1. /\ phase[r] \in {"preparing", "clearing", "executing"}
        /\ UNCHANGED <<manifest, resets>>
        /\ phase' = [phase EXCEPT ![r] = "closing"]
             \/ phase' = [phase EXCEPT ![r] = "returned"]
        /\ result' = [result EXCEPT ![r] = ExecutionError]
    BY <1>5 DEF ResetFails, TimesOut, StartsReject, Closing, StopBegins, target
  <2> QED BY <1>a, <2>1
<1>6. ASSUME NEW r \in Runs, NEW answers, Conclude(r, answers),
             phase[r] \in {"executing", "probing"}, UNCHANGED <<manifest, resets>>
      PROVE  ResetOrder'
  <2>1. \/ phase' = [phase EXCEPT ![r] = "probing"] /\ UNCHANGED result
        \/ /\ phase' = [phase EXCEPT ![r] = "closing"]
           /\ \E v \in Verdicts : v.status # "none" /\ result' = [result EXCEPT ![r] = v]
    BY <1>6, Concluded DEF Closing, StopBegins
  <2> QED BY <1>6, <2>1
<1>7. ASSUME NEW r \in Runs, JobsEnd(r) PROVE ResetOrder'
  BY <1>6, <1>7 DEF JobsEnd, target
<1>8. ASSUME NEW r \in Runs, NEW w \in Workloads, Probed(r, w) PROVE ResetOrder'
  BY <1>6, <1>8 DEF Probed, target
<1>9. CASE UNCHANGED <<manifest, phase, resets, result>>
  BY <1>9
<1>10. ASSUME NEW r \in Runs, NEW w \in Workloads, Spawn(r, w) PROVE ResetOrder'
  BY <1>9, <1>10 DEF Spawn, target
<1>11. ASSUME NEW c \in Children, Exits(c) \/ DescendantsExit(c) \/ Closes(c) PROVE ResetOrder'
  BY <1>9, <1>11 DEF Exits, DescendantsExit, Closes, target
<1> QED BY <1>1, <1>2, <1>3, <1>4, <1>5, <1>7, <1>8, <1>9, <1>10, <1>11
        DEF Next, Proceeds, Finished, vars

LEMMA ThrownStays ==
  ASSUME TypeOK, Order, [Next]_vars, NEW r \in Runs, Threw(r)
  PROVE  Threw(r)'
<1>1. PICK w \in Workloads : start[<<r, w>>] = "threw"
  BY DEF Threw
<1>2. <<r, w>> \in Children
  BY DEF Children
<1>3. UNCHANGED start => start'[<<r, w>>] = "threw"
  BY <1>1
<1>4. ASSUME NEW q \in Runs, ResetSucceeds(q) PROVE start'[<<r, w>>] = "threw"
  <2>1. CASE phase[q] = "clearing"
    BY <1>3, <1>4, <2>1 DEF ResetSucceeds
  <2>2. CASE phase[q] = "preparing"
    <3>1. q # r
      BY <1>1, <2>2 DEF Order, ProcessOrder, Early
    <3>2. start'[<<r, w>>] = start[<<r, w>>]
      BY <1>2, <1>4, <2>2, <3>1 DEF ResetSucceeds
    <3> QED BY <1>1, <3>2
  <2> QED BY <1>4, <2>1, <2>2 DEF ResetSucceeds
<1>5. ASSUME NEW q \in Runs, NEW v \in Workloads, Spawn(q, v) PROVE start'[<<r, w>>] = "threw"
  <2>1. start[<<q, v>>] = "waiting"
    BY <1>5 DEF Spawn
  <2>2. <<q, v>> # <<r, w>>
    BY <1>1, <2>1
  <2>3. \E outcome : start' = [start EXCEPT ![<<q, v>>] = outcome]
    BY <1>5 DEF Spawn
  <2> QED BY <1>1, <1>2, <2>2, <2>3 DEF TypeOK
<1>6. \/ UNCHANGED start
      \/ \E q \in Runs : ResetSucceeds(q)
      \/ \E q \in Runs, v \in Workloads : Spawn(q, v)
  BY DEF Next, Proceeds, Finished, vars, processes, ManifestRejected, Begins, GraceEnds, Reaped,
         ResetFails, JobsEnd, TimesOut, StartsReject, Probed, Exits, DescendantsExit, Closes
<1>7. start'[<<r, w>>] = "threw"
  BY <1>3, <1>4, <1>5, <1>6
<1> QED BY <1>7 DEF Threw

(* Stopping, from a run all of whose starts are done or have thrown: what is
   alive of it is active, and so is being stopped. *)
LEMMA ProcessesKept ==
  ASSUME TypeOK, Order, [Next]_vars
  PROVE  ProcessOrder'
<1> DEFINE Child(q, v) ==
      LET c == <<q, v>> IN
      /\ start[c] \in {"none", "waiting"} => leader[c] = "none" /\ seen[c] = "none"
      /\ Alive(c) => seen[c] = "running"
      /\ seen[c] = "running" => start[c] = "started"
      /\ phase[q] \in Early => start[c] = "none"
      /\ phase[q] \in {"probing"} \cup Ending /\ ~Threw(q) => start[c] # "waiting"
      /\ phase[q] = "closing" /\ ~Threw(q) /\ Alive(c) => c \in targets[q]
      /\ phase[q] \in {"closingReap", "clearing", "returned"} /\ ~Threw(q) => ~Alive(c)
<1>a. SUFFICES ASSUME NEW q \in Runs, NEW v \in Workloads PROVE Child(q, v)'
  BY DEF ProcessOrder
<1>0. /\ Child(q, v) /\ <<q, v>> \in Children /\ <<q, v>>[1] = q /\ <<q, v>>[2] = v
      /\ ~Threw(q)' => ~Threw(q)
  BY ThrownStays DEF Order, ProcessOrder, Children
<1> USE DEF Alive, TypeOK, Early, Ending, target, processes, stopping
(* A step that leaves the run and the process alone. *)
<1>b. ASSUME UNCHANGED <<start[<<q, v>>], leader[<<q, v>>], kin[<<q, v>>], seen[<<q, v>>],
                       phase[q], targets[q]>>
      PROVE  Child(q, v)'
  BY <1>0, <1>b
<1>1. ASSUME NEW r \in Runs, ManifestRejected(r) PROVE Child(q, v)'
  BY <1>0, <1>1 DEF ManifestRejected, Called
<1>2. ASSUME NEW r \in Runs, Begins(r) PROVE Child(q, v)'
  <2>1. /\ phase[r] = "idle" /\ UNCHANGED <<start, leader, kin, seen>>
        /\ \/ phase' = [phase EXCEPT ![r] = "returned"]
           \/ phase' = [phase EXCEPT ![r] = "opening"]
        /\ q # r => targets'[q] = targets[q]
    BY <1>2 DEF Begins, Called, StopBegins
  <2> QED BY <1>0, <2>1
<1>3. ASSUME NEW r \in Runs, GraceEnds(r) PROVE Child(q, v)'
  <2>1. /\ UNCHANGED <<start, seen>>
        /\ phase' = [phase EXCEPT ![r] = IF @ = "opening" THEN "openingReap" ELSE "closingReap"]
        /\ phase[r] \in {"opening", "closing"}
        /\ q # r => targets'[q] = targets[q]
        /\ targets'[r] = {c \in targets[r] : leader[c] = "alive"}
    BY <1>3 DEF GraceEnds
  <2>2. leader'[<<q, v>>] = IF <<q, v>> \in targets'[r] THEN "nonzero" ELSE leader[<<q, v>>]
    BY <1>0, <1>3 DEF GraceEnds
  <2>5. kin'[<<q, v>>] = IF <<q, v>> \in targets[r] THEN "none" ELSE kin[<<q, v>>]
    BY <1>0, <1>3 DEF GraceEnds
  <2>3. Alive(<<q, v>>)' => Alive(<<q, v>>) /\ <<q, v>> \notin targets[r]
    BY <2>1, <2>2, <2>5
  <2>4. leader'[<<q, v>>] = leader[<<q, v>>] \/ leader[<<q, v>>] = "alive"
    BY <2>1, <2>2
  <2> QED BY <1>0, <2>1, <2>3, <2>4
<1>4. ASSUME NEW r \in Runs, Reaped(r) PROVE Child(q, v)'
  BY <1>0, <1>4 DEF Reaped
<1>5. ASSUME NEW r \in Runs, ResetSucceeds(r) PROVE Child(q, v)'
  <2>1. CASE phase[r] = "clearing"
    BY <1>0, <1>5, <2>1 DEF ResetSucceeds
  <2>2. CASE phase[r] = "preparing"
    <3>1. /\ UNCHANGED <<leader, kin, seen, targets>> /\ phase' = [phase EXCEPT ![r] = "executing"]
          /\ start'[<<q, v>>] = IF q = r THEN "waiting" ELSE start[<<q, v>>]
      BY <1>0, <1>5, <2>2 DEF ResetSucceeds
    <3> QED BY <1>0, <2>2, <3>1
  <2> QED BY <1>5, <2>1, <2>2 DEF ResetSucceeds
<1>6. ASSUME NEW r \in Runs, NEW verdict, Closing(r, verdict),
             Threw(r) \/ \A w \in Workloads : start[<<r, w>>] # "waiting",
             UNCHANGED <<start, leader, kin, seen>>
      PROVE  Child(q, v)'
  <2>1. /\ phase' = [phase EXCEPT ![r] = "closing"]
        /\ targets' = [targets EXCEPT ![r] = Active]
    BY <1>6 DEF Closing, StopBegins
  <2>2. Alive(<<q, v>>) => <<q, v>> \in Active
    BY <1>0 DEF Active
  <2> QED BY <1>0, <1>6, <2>1, <2>2
<1>7. ASSUME NEW r \in Runs, ResetFails(r) PROVE Child(q, v)'
  <2>1. CASE phase[r] = "preparing"
    <3>1. Closing(r, ExecutionError) /\ UNCHANGED <<start, leader, kin, seen>>
      BY <1>7, <2>1 DEF ResetFails
    <3>2. \A w \in Workloads : start[<<r, w>>] # "waiting"
      BY <2>1 DEF Order, ProcessOrder
    <3> QED BY <1>6, <3>1, <3>2
  <2>2. CASE phase[r] = "clearing"
    BY <1>0, <1>7, <2>2 DEF ResetFails
  <2> QED BY <1>7, <2>1, <2>2 DEF ResetFails
<1>8. ASSUME NEW r \in Runs, NEW answers, Conclude(r, answers), phase[r] \notin Early,
             Threw(r) \/ \A w \in Workloads : start[<<r, w>>] # "waiting",
             UNCHANGED <<start, leader, kin, seen>>
      PROVE  Child(q, v)'
  <2>1. CASE Closing(r, Judgement(r, answers))
    BY <1>6, <1>8, <2>1
  <2>2. CASE phase' = [phase EXCEPT ![r] = "probing"] /\ UNCHANGED <<targets, signalled, result>>
    BY <1>0, <1>8, <2>2
  <2> QED BY <1>8, <2>1, <2>2, Concluded
<1>9. ASSUME NEW r \in Runs, JobsEnd(r) PROVE Child(q, v)'
  <2>1. \A w \in Workloads : start[<<r, w>>] # "waiting"
    BY <1>9 DEF JobsEnd, AllStarted, Waiting
  <2>2. Conclude(r, AssertedAnswers(r)) /\ phase[r] = "executing" /\ UNCHANGED <<start, leader, kin, seen>>
    BY <1>9 DEF JobsEnd
  <2> QED BY <1>8, <2>1, <2>2
<1>10. ASSUME NEW r \in Runs, TimesOut(r) \/ StartsReject(r) PROVE Child(q, v)'
  <2>1. Threw(r) \/ \A w \in Workloads : start[<<r, w>>] # "waiting"
    BY <1>10 DEF TimesOut, StartsReject, AllStarted, Waiting
  <2>2. Closing(r, ExecutionError) /\ UNCHANGED <<start, leader, kin, seen>>
    BY <1>10 DEF TimesOut, StartsReject
  <2> QED BY <1>6, <2>1, <2>2
<1>11. ASSUME NEW r \in Runs, NEW w \in Workloads, Probed(r, w) PROVE Child(q, v)'
  <2>1. phase[r] = "probing" /\ UNCHANGED <<start, leader, kin, seen>>
    BY <1>11 DEF Probed
  <2>2. Threw(r) \/ \A u \in Workloads : start[<<r, u>>] # "waiting"
    BY <2>1 DEF Order, ProcessOrder
  <2>3. PICK a : Conclude(r, [answer[r] EXCEPT ![w] = a])
    BY <1>11 DEF Probed
  <2> QED BY <1>8, <2>1, <2>2, <2>3
<1>12. ASSUME NEW r \in Runs, NEW w \in Workloads, Spawn(r, w) PROVE Child(q, v)'
  <2>1. /\ start[<<r, w>>] = "waiting" /\ UNCHANGED <<phase, targets>>
        /\ \E outcome \in Spawns :
             /\ start' = [start EXCEPT ![<<r, w>>] = outcome]
             /\ IF outcome = "started"
                  THEN leader' = [leader EXCEPT ![<<r, w>>] = "alive"]
                         /\ seen' = [seen EXCEPT ![<<r, w>>] = "running"]
                         /\ \E left : kin' = [kin EXCEPT ![<<r, w>>] = left]
                  ELSE UNCHANGED <<leader, kin, seen>>
    BY <1>12 DEF Spawn
  <2>2. CASE <<r, w>> = <<q, v>>
    <3>1. q = r /\ v = w
      BY <2>2
    <3>2. \E outcome \in {"started", "failed", "threw"} :
            /\ start'[<<q, v>>] = outcome
            /\ IF outcome = "started"
                 THEN leader'[<<q, v>>] = "alive" /\ seen'[<<q, v>>] = "running"
                 ELSE UNCHANGED <<leader, kin, seen>>
      BY <1>0, <2>1, <3>1, LocalProcessAssumption
    <3>3. ~Threw(q)' => phase[q] \notin {"probing"} \cup Ending
      BY <1>0, <2>1, <3>1
    <3> QED BY <1>0, <2>1, <3>1, <3>2, <3>3
  <2>3. CASE <<r, w>> # <<q, v>>
    <3>1. UNCHANGED <<start[<<q, v>>], leader[<<q, v>>], kin[<<q, v>>], seen[<<q, v>>]>>
      BY <1>0, <2>1, <2>3
    <3> QED BY <1>b, <2>1, <3>1
  <2> QED BY <2>2, <2>3
<1>13. ASSUME NEW c \in Children, Exits(c) PROVE Child(q, v)'
  <2>1. UNCHANGED <<start, kin, seen, phase, targets>>
    BY <1>13 DEF Exits
  <2>2. /\ leader'[<<q, v>>] = "alive" => leader[<<q, v>>] = "alive"
        /\ leader'[<<q, v>>] = leader[<<q, v>>] \/ leader[<<q, v>>] = "alive"
    BY <1>0, <1>13 DEF Exits
  <2> QED BY <1>0, <2>1, <2>2
<1>14. ASSUME NEW c \in Children, DescendantsExit(c) PROVE Child(q, v)'
  <2>1. UNCHANGED <<start, leader, seen, phase, targets>>
    BY <1>14 DEF DescendantsExit
  <2>2. kin'[<<q, v>>] \in {kin[<<q, v>>], "none"}
    BY <1>0, <1>14 DEF DescendantsExit
  <2> QED BY <1>0, <2>1, <2>2
<1>15. ASSUME NEW c \in Children, Closes(c) PROVE Child(q, v)'
  <2>1. UNCHANGED <<start, leader, kin, phase, targets>>
    BY <1>15 DEF Closes
  <2>2. \/ seen'[<<q, v>>] = seen[<<q, v>>]
        \/ /\ ~Alive(<<q, v>>) /\ seen[<<q, v>>] = "running"
           /\ seen'[<<q, v>>] = "exited"
    BY <1>0, <1>15 DEF Closes
  <2> QED BY <1>0, <2>1, <2>2
<1>16. CASE UNCHANGED vars
  BY <1>b, <1>16 DEF vars
<1> HIDE DEF Child
<1> QED BY <1>1, <1>2, <1>3, <1>4, <1>5, <1>7, <1>9, <1>10, <1>11, <1>12, <1>13, <1>14, <1>15,
           <1>16 DEF Next, Proceeds, Finished

-----------------------------------------------------------------------------
LEMMA InitiallyOrdered == Init => TypeOK /\ Order
<1> SUFFICES ASSUME Init PROVE TypeOK /\ Order
  OBVIOUS
<1>1. TypeOK
  BY ResultsAreKnown DEF Init, TypeOK, Phases, Kin, Answers
<1>2. ProcessOrder
  BY DEF Init, ProcessOrder, Alive, Early, Ending, Children
<1>3. ResetOrder
  BY ResultsAreKnown DEF Init, ResetOrder, Early, Ending, IsVerdict
<1> QED BY <1>1, <1>2, <1>3 DEF Order

LEMMA AlwaysOrdered == Spec => [](TypeOK /\ Order)
<1>1. TypeOK /\ Order /\ [Next]_vars => (TypeOK /\ Order)'
  BY TypesKept, ResetsKept, ProcessesKept DEF Order
<1> QED BY <1>1, InitiallyOrdered, PTL DEF Spec

(* Every variable of the platform and its runs keeps its type. *)
THEOREM TypeCorrect == Spec => []TypeOK
<1>1. TypeOK /\ Order => TypeOK
  OBVIOUS
<1> QED BY <1>1, AlwaysOrdered, PTL

(* local-process-platform.ts:83-99: no process of a run is alive when it returns,
   and nobody holds its output, unless a start of it threw, whatever runs beside
   it. *)
THEOREM ProcessesAreStopped == Spec => []NoProcessOutlivesItsRun
<1>1. TypeOK /\ Order => NoProcessOutlivesItsRun
  <2> SUFFICES ASSUME Order, NEW c \in Children, phase[c[1]] = "returned", ~Threw(c[1])
               PROVE  ~Alive(c)
    BY DEF NoProcessOutlivesItsRun
  <2>1. c[1] \in Runs /\ c[2] \in Workloads /\ c = <<c[1], c[2]>>
    BY DEF Children
  <2> QED BY <2>1 DEF Order, ProcessOrder
<1> QED BY <1>1, AlwaysOrdered, PTL

(* local-process-platform.ts:62-66, 99-110: a verdict is returned only after a
   reset command that succeeded before the run and another after it. *)
THEOREM VerdictsAreReset == Spec => []VerdictHasItsResets
<1>1. TypeOK /\ Order => VerdictHasItsResets
  BY DEF Order, ResetOrder, VerdictHasItsResets
<1> QED BY <1>1, AlwaysOrdered, PTL

-----------------------------------------------------------------------------
(* Where a verdict comes from: nothing but a conclusion gives a run another
   result than an error. *)
LEMMA JudgedByConclusion ==
  ASSUME TypeOK, Order, [Next]_vars, NEW q \in Runs
  PROVE  \/ result'[q] \in {result[q], ExecutionError, Rejected}
         \/ /\ phase[q] \in {"executing", "probing"}
            /\ UNCHANGED <<manifest, leader, seen>>
            /\ \E answers : /\ answer'[q] = answers /\ Unanswered(answers) = {}
                            /\ Closing(q, Judgement(q, answers))
                            /\ result'[q] = Judgement(q, answers)
<1> DEFINE Same == result'[q] \in {result[q], ExecutionError, Rejected}
           Judged == /\ phase[q] \in {"executing", "probing"}
                     /\ UNCHANGED <<manifest, leader, seen>>
                     /\ \E answers : /\ answer'[q] = answers /\ Unanswered(answers) = {}
                                     /\ Closing(q, Judgement(q, answers))
                                     /\ result'[q] = Judgement(q, answers)
<1> USE DEF TypeOK, target, processes, stopping
<1>1. ASSUME NEW r \in Runs, ManifestRejected(r) \/ Begins(r) PROVE Same
  BY <1>1 DEF ManifestRejected, Begins
<1>2. ASSUME NEW r \in Runs, GraceEnds(r) \/ Reaped(r) \/ ResetSucceeds(r) PROVE Same
  BY <1>2 DEF GraceEnds, Reaped, ResetSucceeds
<1>3. ASSUME NEW r \in Runs, ResetFails(r) \/ TimesOut(r) \/ StartsReject(r) PROVE Same
  BY <1>3 DEF ResetFails, TimesOut, StartsReject, Closing
<1>4. ASSUME NEW r \in Runs, NEW answers, Conclude(r, answers),
             phase[r] \in {"executing", "probing"}, UNCHANGED <<manifest, leader, seen>>
      PROVE  Same \/ Judged
  <2>1. answer' = [answer EXCEPT ![r] = answers]
    BY <1>4, Concluded
  <2>2. CASE UNCHANGED result
    BY <2>2
  <2>3. CASE Closing(r, Judgement(r, answers)) /\ Unanswered(answers) = {}
    <3>1. result' = [result EXCEPT ![r] = Judgement(r, answers)]
      BY <2>3 DEF Closing
    <3>2. CASE r # q
      BY <3>1, <3>2
    <3>3. CASE r = q
      <4>1. answer'[q] = answers /\ result'[q] = Judgement(q, answers)
        BY <2>1, <3>1, <3>3
      <4> QED BY <1>4, <2>3, <3>3, <4>1
    <3> QED BY <3>2, <3>3
  <2> QED BY <1>4, <2>2, <2>3, Concluded
<1>5. ASSUME NEW r \in Runs, JobsEnd(r) PROVE Same \/ Judged
  <2>1. /\ Conclude(r, AssertedAnswers(r)) /\ phase[r] \in {"executing", "probing"}
        /\ UNCHANGED <<manifest, leader, seen>>
    BY <1>5 DEF JobsEnd
  <2> QED BY <1>4, <2>1
<1>6. ASSUME NEW r \in Runs, NEW w \in Workloads, Probed(r, w) PROVE Same \/ Judged
  <2>1. PICK a : Conclude(r, [answer[r] EXCEPT ![w] = a])
    BY <1>6 DEF Probed
  <2>2. phase[r] \in {"executing", "probing"} /\ UNCHANGED <<manifest, leader, seen>>
    BY <1>6 DEF Probed
  <2> QED BY <1>4, <2>1, <2>2
<1>7. ASSUME NEW r \in Runs, NEW w \in Workloads, Spawn(r, w) PROVE Same
  BY <1>7 DEF Spawn
<1>8. ASSUME NEW c \in Children, Exits(c) \/ DescendantsExit(c) \/ Closes(c) PROVE Same
  BY <1>8 DEF Exits, DescendantsExit, Closes
<1>9. ASSUME UNCHANGED vars PROVE Same
  BY <1>9 DEF vars
<1> HIDE DEF Same, Judged
<1>10. Same \/ Judged
  BY <1>1, <1>2, <1>3, <1>5, <1>6, <1>7, <1>8, <1>9 DEF Next, Proceeds, Finished
<1> QED BY <1>10 DEF Same, Judged

(* evaluate.ts:101-107, local-process-platform.ts:150-160: in the very step that
   finds a run healthy all its workloads are as their kinds ask for, and every
   assertion has been met. *)
THEOREM HealthyIsWhole == Spec => HealthyWasSeenWhole
<1> DEFINE Whole(q) ==
      result'[q] = Healthy /\ result[q] # Healthy =>
        \A w \in Workloads :
          /\ StateOf(<<q, w>>) = IF w \in Jobs THEN "zero" ELSE "running"
          /\ manifest.assertion[w] # "none" => answer'[q][w] = "ready"
<1>1. ASSUME TypeOK, Order, [Next]_vars, NEW q \in Runs PROVE Whole(q)
  <2>1. Healthy # ExecutionError /\ Healthy # Rejected
    BY ResultsAreKnown DEF Healthy, Verdict
  <2>2. CASE result'[q] \in {result[q], ExecutionError, Rejected}
    BY <2>1, <2>2
  <2>3. ASSUME NEW answers, answer'[q] = answers, result'[q] = Judgement(q, answers),
               Judgement(q, answers) = Healthy
        PROVE  Whole(q)
    <3>1. \A w \in Workloads : /\ StateSatisfies(Kind(w), StateOf(<<q, w>>))
                               /\ ReadinessSatisfies(manifest.assertion[w], answers[w])
      BY <1>1, <2>3, JudgementIsGrounded
    <3> QED BY <2>3, <3>1 DEF StateSatisfies, ReadinessSatisfies, Jobs
  <2> QED BY <1>1, <2>2, <2>3, JudgedByConclusion
<1>2. TypeOK /\ Order /\ [Next]_vars =>
        [\A r \in Runs : result'[r] = Healthy /\ result[r] # Healthy =>
           \A w \in Workloads :
             /\ StateOf(<<r, w>>) = IF w \in Jobs THEN "zero" ELSE "running"
             /\ manifest.assertion[w] # "none" => answer'[r][w] = "ready"]_vars
  BY <1>1
<1> QED BY <1>2, AlwaysOrdered, PTL DEF Spec, HealthyWasSeenWhole

-----------------------------------------------------------------------------
(* Runs that come one by one, as a discovery makes them. *)
AtMostOne == \A q, r \in InFlight : q = r

(* No process of a run has been sent a signal before the run is judged, and one
   it is said to have failed by had been closed by then. *)
SignalOrder ==
  \A r \in Runs :
    /\ phase[r] \in Early \cup {"executing", "probing"} =>
         \A w \in Workloads : <<r, w>> \notin signalled
    /\ result[r].category = "unexpected_exit" =>
         LET c == <<r, result[r].workload>> IN
         c \in Children /\ seen[c] = "exited" /\ c \notin signalled

Alone == Order /\ AtMostOne /\ SignalOrder

LEMMA NoneInFlight ==
  ASSUME TypeOK, Parallel <= 1, Cardinality(InFlight) < Parallel
  PROVE  \A q \in Runs : phase[q] \in {"idle", "returned"}
<1>1. IsFiniteSet(InFlight)
  BY LocalProcessAssumption, FS_Subset DEF InFlight
<1>2. Cardinality(InFlight) \in Nat
  BY <1>1, FS_CardinalityType
<1>3. Cardinality(InFlight) = 0
  BY <1>2, LocalProcessAssumption
<1>4. InFlight = {}
  BY <1>1, <1>3, FS_EmptySet
<1> QED BY <1>4 DEF InFlight

Unjudged == Early \cup {"executing", "probing"}

(* The steps that signal, and that change where a run is. *)
LEMMA SignalsAndPhases ==
  ASSUME TypeOK, Parallel <= 1, [Next]_vars
  PROVE  \/ UNCHANGED <<phase, signalled>>
         \/ \E r \in Runs : UNCHANGED signalled /\ phase' = [phase EXCEPT ![r] = "returned"]
         \/ \E r \in Runs, place \in Phases :
              /\ UNCHANGED signalled /\ phase' = [phase EXCEPT ![r] = place]
              /\ phase[r] \notin {"idle", "returned"}
              /\ place \in Unjudged => phase[r] \in Unjudged
         \/ \E r \in Runs : /\ StopBegins(r, "opening") /\ phase[r] = "idle"
                            /\ \A q \in Runs : phase[q] \in {"idle", "returned"}
         \/ \E r \in Runs : /\ StopBegins(r, "closing")
                            /\ phase[r] \in {"preparing", "executing", "probing"}
<1> DEFINE Still == UNCHANGED <<phase, signalled>>
           Returns == \E r \in Runs : UNCHANGED signalled /\ phase' = [phase EXCEPT ![r] = "returned"]
           Moves == \E r \in Runs, place \in Phases :
              /\ UNCHANGED signalled /\ phase' = [phase EXCEPT ![r] = place]
              /\ phase[r] \notin {"idle", "returned"}
              /\ place \in Unjudged => phase[r] \in Unjudged
           Opens == \E r \in Runs : /\ StopBegins(r, "opening") /\ phase[r] = "idle"
                                    /\ \A q \in Runs : phase[q] \in {"idle", "returned"}
           Closings == \E r \in Runs : /\ StopBegins(r, "closing")
                                       /\ phase[r] \in {"preparing", "executing", "probing"}
<1> USE DEF target, processes, stopping, Unjudged, Early, Phases
<1>1. ASSUME NEW r \in Runs, ManifestRejected(r) PROVE Returns
  BY <1>1 DEF ManifestRejected
<1>2. ASSUME NEW r \in Runs, Begins(r) PROVE Returns \/ Opens
  <2>1. phase[r] = "idle" /\ \A q \in Runs : phase[q] \in {"idle", "returned"}
    BY <1>2, NoneInFlight DEF Begins, Called
  <2>2. \/ UNCHANGED signalled /\ phase' = [phase EXCEPT ![r] = "returned"]
        \/ StopBegins(r, "opening")
    BY <1>2 DEF Begins
  <2> QED BY <2>1, <2>2
<1>3. ASSUME NEW r \in Runs, GraceEnds(r) PROVE Moves
  BY <1>3 DEF GraceEnds
<1>4. ASSUME NEW r \in Runs, Reaped(r) PROVE Moves
  BY <1>4 DEF Reaped
<1>5. ASSUME NEW r \in Runs, ResetSucceeds(r) PROVE Returns \/ Moves
  <2>1. UNCHANGED signalled
    BY <1>5 DEF ResetSucceeds
  <2>2. \/ phase' = [phase EXCEPT ![r] = "returned"]
        \/ phase' = [phase EXCEPT ![r] = "executing"] /\ phase[r] = "preparing"
    BY <1>5 DEF ResetSucceeds
  <2> QED BY <2>1, <2>2
<1>6. ASSUME NEW r \in Runs, ResetFails(r) \/ TimesOut(r) \/ StartsReject(r)
      PROVE  Returns \/ Closings
  BY <1>6 DEF ResetFails, TimesOut, StartsReject, Closing
<1>7. ASSUME NEW r \in Runs, NEW answers, Conclude(r, answers),
             phase[r] \in {"executing", "probing"}
      PROVE  Moves \/ Closings
  BY <1>7, Concluded DEF Closing
<1>8. ASSUME NEW r \in Runs, JobsEnd(r) PROVE Moves \/ Closings
  BY <1>7, <1>8 DEF JobsEnd
<1>9. ASSUME NEW r \in Runs, NEW w \in Workloads, Probed(r, w) PROVE Moves \/ Closings
  BY <1>7, <1>9 DEF Probed
<1>10. ASSUME NEW r \in Runs, NEW w \in Workloads, Spawn(r, w) PROVE Still
  BY <1>10 DEF Spawn
<1>11. ASSUME NEW c \in Children, Exits(c) \/ DescendantsExit(c) \/ Closes(c) PROVE Still
  BY <1>11 DEF Exits, DescendantsExit, Closes
<1>12. ASSUME UNCHANGED vars PROVE Still
  BY <1>12 DEF vars
<1> HIDE DEF Still, Returns, Moves, Opens, Closings
<1>13. Still \/ Returns \/ Moves \/ Opens \/ Closings
  BY <1>1, <1>2, <1>3, <1>4, <1>5, <1>6, <1>8, <1>9, <1>10, <1>11, <1>12
     DEF Next, Proceeds, Finished
<1> QED BY <1>13 DEF Still, Returns, Moves, Opens, Closings

LEMMA OneStaysAlone ==
  ASSUME TypeOK, AtMostOne, Parallel <= 1, [Next]_vars
  PROVE  AtMostOne'
<1> USE DEF TypeOK, InFlight, AtMostOne
<1>1. CASE UNCHANGED phase
  BY <1>1
<1>2. ASSUME NEW r \in Runs, NEW place, phase' = [phase EXCEPT ![r] = place],
             \/ place = "returned" \/ phase[r] \notin {"idle", "returned"}
             \/ \A q \in Runs : phase[q] \in {"idle", "returned"}
      PROVE  AtMostOne'
  BY <1>2
<1> QED BY <1>1, <1>2, SignalsAndPhases DEF StopBegins

(* A process that has been closed stays so. *)
LEMMA ClosedStays ==
  ASSUME TypeOK, Order, [Next]_vars, NEW q \in Runs, NEW v \in Workloads, seen[<<q, v>>] = "exited"
  PROVE  seen'[<<q, v>>] = "exited"
<1> USE DEF target, processes, TypeOK
<1>0. <<q, v>> \in Children
  BY DEF Children
<1>1. ASSUME NEW r \in Runs, NEW w \in Workloads, Spawn(r, w) PROVE seen'[<<q, v>>] = "exited"
  <2>1. start[<<r, w>>] = "waiting"
          /\ (seen' = seen \/ seen' = [seen EXCEPT ![<<r, w>>] = "running"])
    BY <1>1 DEF Spawn
  <2>2. seen[<<r, w>>] = "none"
    BY <2>1 DEF Order, ProcessOrder
  <2> QED BY <1>0, <2>1, <2>2
<1>2. ASSUME NEW c \in Children, Closes(c) PROVE seen'[<<q, v>>] = "exited"
  BY <1>0, <1>2 DEF Closes
<1>3. \/ UNCHANGED seen
      \/ \E r \in Runs, w \in Workloads : Spawn(r, w)
      \/ \E c \in Children : Closes(c)
  BY DEF Next, Proceeds, Finished, vars, ManifestRejected, Begins, GraceEnds, Reaped,
         ResetSucceeds, ResetFails, JobsEnd, TimesOut, StartsReject, Probed, Exits,
         DescendantsExit
<1> QED BY <1>1, <1>2, <1>3

LEMMA SignalsKept ==
  ASSUME TypeOK, Alone, Parallel <= 1, [Next]_vars
  PROVE  SignalOrder'
<1>1. ASSUME NEW q \in Runs, NEW v \in Workloads, phase'[q] \in Unjudged
      PROVE  <<q, v>> \notin signalled'
  <2>1. ASSUME phase[q] = "idle" PROVE <<q, v>> \notin Active
    BY <2>1 DEF Alone, Order, ProcessOrder, Early, Active
  <2>2. phase[q] \in Unjudged => <<q, v>> \notin signalled
    BY DEF Alone, SignalOrder, Unjudged
  <2>3. CASE UNCHANGED <<phase, signalled>>
    BY <1>1, <2>2, <2>3
  <2>4. ASSUME NEW r \in Runs, UNCHANGED signalled, phase' = [phase EXCEPT ![r] = "returned"]
        PROVE  <<q, v>> \notin signalled'
    BY <1>1, <2>2, <2>4 DEF TypeOK, Unjudged, Early
  <2>5. ASSUME NEW r \in Runs, NEW place \in Phases, UNCHANGED signalled,
               phase' = [phase EXCEPT ![r] = place],
               place \in Unjudged => phase[r] \in Unjudged
        PROVE  <<q, v>> \notin signalled'
    BY <1>1, <2>2, <2>5 DEF TypeOK
  <2>6. ASSUME NEW r \in Runs, StopBegins(r, "opening"), phase[r] = "idle",
               \A p \in Runs : phase[p] \in {"idle", "returned"}
        PROVE  <<q, v>> \notin signalled'
    <3>1. phase[q] = "idle"
      BY <1>1, <2>6 DEF StopBegins, TypeOK, Unjudged, Early
    <3> QED BY <2>1, <2>2, <2>6, <3>1 DEF StopBegins, Unjudged, Early
  <2>7. ASSUME NEW r \in Runs, StopBegins(r, "closing"),
               phase[r] \in {"preparing", "executing", "probing"}
        PROVE  <<q, v>> \notin signalled'
    <3>1. q # r /\ phase[q] \in Unjudged
      BY <1>1, <2>7 DEF StopBegins, TypeOK, Unjudged, Early
    <3>2. phase[q] = "idle"
      BY <2>7, <3>1 DEF Alone, AtMostOne, InFlight, Unjudged, Early
    <3> QED BY <2>1, <2>2, <2>7, <3>1, <3>2 DEF StopBegins
  <2> QED BY <2>3, <2>4, <2>5, <2>6, <2>7, SignalsAndPhases
<1>2. ASSUME NEW q \in Runs, NEW v \in Workloads, seen[<<q, v>>] = "exited",
             <<q, v>> \notin signalled
      PROVE  /\ <<q, v>> \in Children /\ seen'[<<q, v>>] = "exited"
             /\ <<q, v>> \notin signalled'
  <2>1. <<q, v>> \in Children /\ <<q, v>> \notin Active
    BY <1>2 DEF Children, Active
  <2>2. seen'[<<q, v>>] = "exited"
    BY <1>2, ClosedStays DEF Alone
  <2>3. signalled' = signalled \/ signalled' = signalled \cup Active
    BY SignalsAndPhases DEF StopBegins
  <2> QED BY <1>2, <2>1, <2>2, <2>3
<1>3. ASSUME NEW q \in Runs, result'[q].category = "unexpected_exit"
      PROVE  \E v \in Workloads : /\ v = result'[q].workload
                                  /\ seen[<<q, v>>] = "exited" /\ <<q, v>> \notin signalled
  <2>1. CASE result'[q] \in {result[q], ExecutionError, Rejected}
    <3>1. result'[q] = result[q]
      BY <1>3, <2>1, ResultsAreKnown
    <3> DEFINE c == <<q, result[q].workload>>
    <3>2. c \in Children /\ seen[c] = "exited" /\ c \notin signalled
      BY <1>3, <3>1 DEF Alone, SignalOrder
    <3>3. result[q].workload \in Workloads
      BY <3>2 DEF Children
    <3> QED BY <3>1, <3>2, <3>3
  <2>2. ASSUME NEW answers, phase[q] \in {"executing", "probing"},
               result'[q] = Judgement(q, answers)
        PROVE  \E v \in Workloads : /\ v = result'[q].workload
                                    /\ seen[<<q, v>>] = "exited" /\ <<q, v>> \notin signalled
    <3> DEFINE v == result'[q].workload
    <3>1. v \in Workloads /\ StateOf(<<q, v>>) = "nonzero"
      BY <1>3, <2>2, JudgementIsGrounded
    <3> HIDE DEF v
    <3>2. <<q, v>> \in Children
      BY <3>1 DEF Children
    <3>3. seen[<<q, v>>] = "exited"
      BY <3>1, <3>2 DEF StateOf, TypeOK
    <3>4. <<q, v>> \notin signalled
      BY <2>2, <3>1 DEF Alone, SignalOrder
    <3> QED BY <3>1, <3>3, <3>4 DEF v
  <2> QED BY <2>1, <2>2, JudgedByConclusion DEF Alone
<1>4. ASSUME NEW q \in Runs, result'[q].category = "unexpected_exit"
      PROVE  LET c == <<q, result'[q].workload>>
             IN c \in Children /\ seen'[c] = "exited" /\ c \notin signalled'
  <2>1. PICK v \in Workloads : /\ v = result'[q].workload
                               /\ seen[<<q, v>>] = "exited" /\ <<q, v>> \notin signalled
    BY <1>3, <1>4
  <2> QED BY <1>2, <2>1
<1>5. Children' = Children /\ Unjudged = Early \cup {"executing", "probing"}
  BY DEF Children, Unjudged
<1> QED BY <1>1, <1>4, <1>5 DEF SignalOrder

(* local-process-platform.ts:83-99, 150-160: while runs come one by one, a crash
   that a run is failed for is not of a process that DSRD had sent a signal. *)
THEOREM CrashesAreOwn ==
  ASSUME Parallel <= 1
  PROVE  Spec => []CrashIsTheTargetsOwn
<1>1. Init => TypeOK /\ Alone
  <2>1. Init => AtMostOne /\ SignalOrder
    BY ResultsAreKnown DEF Init, AtMostOne, InFlight, SignalOrder
  <2> QED BY <2>1, InitiallyOrdered DEF Alone
<1>2. TypeOK /\ Alone /\ [Next]_vars => (TypeOK /\ Alone)'
  BY TypesKept, ResetsKept, ProcessesKept, OneStaysAlone, SignalsKept DEF Alone, Order
<1>3. TypeOK /\ Alone => CrashIsTheTargetsOwn
  BY DEF Alone, SignalOrder, CrashIsTheTargetsOwn
<1> QED BY <1>1, <1>2, <1>3, PTL DEF Spec

-----------------------------------------------------------------------------
(* A run is answered by the step that returns it, and by no other. *)
LEMMA ReturnedOnce ==
  ASSUME TypeOK, Order, [Next]_vars
  PROVE  \/ \A q \in Runs : /\ phase'[q] = "returned" <=> phase[q] = "returned"
                            /\ phase[q] = "returned" => result'[q] = result[q]
         \/ \E r \in Runs : /\ phase[r] # "returned"
                            /\ phase' = [phase EXCEPT ![r] = "returned"]
                            /\ \A q \in Runs \ {r} : result'[q] = result[q]
<1> DEFINE Same == \A q \in Runs : /\ phase'[q] = "returned" <=> phase[q] = "returned"
                                   /\ phase[q] = "returned" => result'[q] = result[q]
           Returns == \E r \in Runs : /\ phase[r] # "returned"
                                      /\ phase' = [phase EXCEPT ![r] = "returned"]
                                      /\ \A q \in Runs \ {r} : result'[q] = result[q]
<1> USE DEF TypeOK
<1>1. ASSUME NEW r \in Runs, NEW place, phase' = [phase EXCEPT ![r] = place],
             place # "returned", phase[r] # "returned",
             UNCHANGED result \/ \E v : result' = [result EXCEPT ![r] = v]
      PROVE  Same
  BY <1>1
<1>2. ASSUME NEW r \in Runs, phase' = [phase EXCEPT ![r] = "returned"],
             phase[r] # "returned",
             UNCHANGED result \/ \E v : result' = [result EXCEPT ![r] = v]
      PROVE  Returns
  BY <1>2
<1>3. ASSUME UNCHANGED <<phase, result>> PROVE Same
  BY <1>3
<1> HIDE DEF Same, Returns
<1>4. ASSUME NEW r \in Runs, ManifestRejected(r) \/ Begins(r) PROVE Same \/ Returns
  <2>1. phase[r] = "idle"
    BY <1>4 DEF ManifestRejected, Begins, Called
  <2>2. phase' = [phase EXCEPT ![r] = "returned"] \/ phase' = [phase EXCEPT ![r] = "opening"]
    BY <1>4 DEF ManifestRejected, Begins, StopBegins
  <2>3. UNCHANGED result \/ \E v : result' = [result EXCEPT ![r] = v]
    BY <1>4 DEF ManifestRejected, Begins
  <2> QED BY <1>1, <1>2, <2>1, <2>2, <2>3
<1>5. ASSUME NEW r \in Runs, GraceEnds(r) \/ Reaped(r) PROVE Same
  <2>1. phase[r] # "returned" /\ UNCHANGED result
    BY <1>5 DEF GraceEnds, Reaped
  <2>2. PICK place \in {"openingReap", "closingReap", "preparing", "clearing"} :
          phase' = [phase EXCEPT ![r] = place]
    BY <1>5 DEF GraceEnds, Reaped
  <2> QED BY <1>1, <2>1, <2>2
<1>6. ASSUME NEW r \in Runs, ResetSucceeds(r) PROVE Same \/ Returns
  <2>1. phase[r] # "returned" /\ UNCHANGED result
    BY <1>6 DEF ResetSucceeds
  <2>2. phase' = [phase EXCEPT ![r] = "returned"] \/ phase' = [phase EXCEPT ![r] = "executing"]
    BY <1>6 DEF ResetSucceeds
  <2> QED BY <1>1, <1>2, <2>1, <2>2
<1>7. ASSUME NEW r \in Runs, ResetFails(r) \/ TimesOut(r) \/ StartsReject(r)
      PROVE  Same \/ Returns
  BY <1>1, <1>2, <1>7 DEF ResetFails, TimesOut, StartsReject, Closing, StopBegins, stopping
<1>8. ASSUME NEW r \in Runs, NEW answers, Conclude(r, answers),
             phase[r] \in {"executing", "probing"}
      PROVE  Same
  BY <1>1, <1>8, Concluded DEF Closing, StopBegins
<1>9. ASSUME NEW r \in Runs, JobsEnd(r) PROVE Same
  BY <1>8, <1>9 DEF JobsEnd
<1>10. ASSUME NEW r \in Runs, NEW w \in Workloads, Probed(r, w) PROVE Same
  BY <1>8, <1>10 DEF Probed
<1>11. ASSUME NEW r \in Runs, NEW w \in Workloads, Spawn(r, w) PROVE Same
  BY <1>3, <1>11 DEF Spawn
<1>12. ASSUME NEW c \in Children, Exits(c) \/ DescendantsExit(c) \/ Closes(c) PROVE Same
  BY <1>3, <1>12 DEF Exits, DescendantsExit, Closes
<1>13. Same \/ Returns
  BY <1>3, <1>4, <1>5, <1>6, <1>7, <1>9, <1>10, <1>11, <1>12
     DEF Next, Proceeds, Finished, vars
<1> QED BY <1>13 DEF Same, Returns

(* Every start of a run that comes to a verdict has come to something, and none
   of them threw. *)
VerdictStarts ==
  \A r \in Runs : phase[r] = "probing" \/ IsVerdict(r) =>
    \A w \in Workloads : start[<<r, w>>] \notin {"waiting", "threw"}

LEMMA VerdictStartsKept ==
  ASSUME TypeOK, Order, VerdictStarts, [Next]_vars
  PROVE  VerdictStarts'
<1> USE DEF TypeOK, IsVerdict, VerdictStarts, target, processes, stopping
<1>a. ~(Rejected.status \in {"healthy", "inconclusive", "workload_failure"})
      /\ ~(ExecutionError.status \in {"healthy", "inconclusive", "workload_failure"})
      /\ ~(NoResult.status \in {"healthy", "inconclusive", "workload_failure"})
  BY ResultsAreKnown
<1>b. \A r \in Runs, w \in Workloads : <<r, w>> \in Children
  BY DEF Children
<1>1. ASSUME NEW r \in Runs, ManifestRejected(r) PROVE VerdictStarts'
  BY <1>1, <1>a DEF ManifestRejected
<1>2. ASSUME NEW r \in Runs, Begins(r) PROVE VerdictStarts'
  <2>1. /\ UNCHANGED start
        /\ \/ phase' = [phase EXCEPT ![r] = "returned"] \/ phase' = [phase EXCEPT ![r] = "opening"]
        /\ UNCHANGED result \/ \E v \in {ExecutionError, Rejected} :
                                  result' = [result EXCEPT ![r] = v]
    BY <1>2 DEF Begins, StopBegins
  <2> QED BY <1>a, <2>1
<1>3. ASSUME NEW r \in Runs, GraceEnds(r) \/ Reaped(r) PROVE VerdictStarts'
  BY <1>3 DEF GraceEnds, Reaped
<1>4. ASSUME NEW r \in Runs, ResetSucceeds(r) PROVE VerdictStarts'
  <2>1. UNCHANGED result /\ phase[r] \in {"preparing", "clearing"}
    BY <1>4 DEF ResetSucceeds
  <2>2. CASE phase[r] = "clearing"
    BY <1>4, <2>1, <2>2 DEF ResetSucceeds
  <2>3. CASE phase[r] = "preparing"
    <3>1. result[r] = NoResult
      BY <2>3 DEF Order, ResetOrder, Early
    <3>2. /\ phase' = [phase EXCEPT ![r] = "executing"]
          /\ \A q \in Runs, w \in Workloads : q # r => start'[<<q, w>>] = start[<<q, w>>]
      BY <1>4, <1>b, <2>3 DEF ResetSucceeds
    <3> QED BY <1>a, <2>1, <3>1, <3>2
  <2> QED BY <2>1, <2>2, <2>3
<1>5. ASSUME NEW r \in Runs, ResetFails(r) \/ TimesOut(r) \/ StartsReject(r)
      PROVE  VerdictStarts'
  <2>1. /\ UNCHANGED start
        /\ \E place \in {"closing", "returned"} : phase' = [phase EXCEPT ![r] = place]
        /\ result' = [result EXCEPT ![r] = ExecutionError]
    BY <1>5 DEF ResetFails, TimesOut, StartsReject, Closing, StopBegins
  <2> QED BY <1>a, <2>1
<1>6. ASSUME NEW r \in Runs, NEW answers, Conclude(r, answers), UNCHANGED start,
             \A w \in Workloads : start[<<r, w>>] \notin {"waiting", "threw"}
      PROVE  VerdictStarts'
  <2>1. \/ phase' = [phase EXCEPT ![r] = "probing"] /\ UNCHANGED result
        \/ /\ phase' = [phase EXCEPT ![r] = "closing"]
           /\ \E v : result' = [result EXCEPT ![r] = v]
    BY <1>6, Concluded DEF Closing, StopBegins
  <2> QED BY <1>6, <2>1
<1>7. ASSUME NEW r \in Runs, JobsEnd(r) PROVE VerdictStarts'
  <2>1. \A w \in Workloads : start[<<r, w>>] \notin {"waiting", "threw"}
    BY <1>7 DEF JobsEnd, AllStarted, Waiting, Threw
  <2> QED BY <1>6, <1>7, <2>1 DEF JobsEnd
<1>8. ASSUME NEW r \in Runs, NEW w \in Workloads, Probed(r, w) PROVE VerdictStarts'
  <2>1. phase[r] = "probing" /\ UNCHANGED start
    BY <1>8 DEF Probed
  <2>2. PICK a : Conclude(r, [answer[r] EXCEPT ![w] = a])
    BY <1>8 DEF Probed
  <2> QED BY <1>6, <2>1, <2>2
<1>9. ASSUME NEW r \in Runs, NEW w \in Workloads, Spawn(r, w) PROVE VerdictStarts'
  <2>1. /\ start[<<r, w>>] = "waiting" /\ UNCHANGED <<phase, result>>
        /\ \E outcome : start' = [start EXCEPT ![<<r, w>>] = outcome]
    BY <1>9 DEF Spawn
  <2>2. ~(phase[r] = "probing" \/ IsVerdict(r))
    BY <2>1
  <2> QED BY <1>b, <2>1, <2>2
<1>10. ASSUME NEW c \in Children, Exits(c) \/ DescendantsExit(c) \/ Closes(c) PROVE VerdictStarts'
  BY <1>10 DEF Exits, DescendantsExit, Closes
<1>11. CASE UNCHANGED vars
  BY <1>11 DEF vars
<1> QED BY <1>1, <1>2, <1>3, <1>4, <1>5, <1>7, <1>8, <1>9, <1>10, <1>11
        DEF Next, Proceeds, Finished

(* Nothing of a run that returned a verdict is at work. *)
LEMMA VerdictIsAtRest ==
  ASSUME TypeOK, Order, VerdictStarts, NEW r \in Runs, phase[r] = "returned", IsVerdict(r),
         NEW w \in Workloads
  PROVE  ~Alive(<<r, w>>) /\ start[<<r, w>>] # "waiting"
<1>1. ~Threw(r)
  BY DEF VerdictStarts, Threw
<1> QED BY <1>1 DEF VerdictStarts, Order, ProcessOrder

(* The platform implements what a discovery relies on, for any manifests and any
   number of runs at once: each answers once, and nothing of a run that returned a
   verdict is at work from then on. *)
THEOREM RunsAreIsolated == Spec => AreIsolated
<1> DEFINE answered == [r \in Runs |-> IF phase[r] = "returned" THEN result[r].status ELSE "none"]
           working == {r \in Runs : \E w \in Workloads :
                         Alive(<<r, w>>) \/ start[<<r, w>>] = "waiting"}
           verdicts == {"healthy", "inconclusive", "workload_failure"}
           Rests == working \in SUBSET {r \in Runs : answered[r] \notin verdicts}
<1>1. Init => Contract!Init
  BY DEF Init, Contract!Init, Children, Alive
<1>2. Init => VerdictStarts
  BY ResultsAreKnown DEF Init, VerdictStarts, IsVerdict
<1>3. TypeOK /\ Order /\ VerdictStarts => Rests
  BY VerdictIsAtRest DEF IsVerdict
<1>4. TypeOK /\ Order /\ TypeOK' /\ Order' /\ Rests' /\ [Next]_vars =>
        [Contract!Next]_(Contract!vars)
  <2> SUFFICES ASSUME TypeOK, Order, TypeOK', Order', Rests', [Next]_vars
               PROVE  Contract!Next
    OBVIOUS
  <2>1. CASE \A q \in Runs : /\ phase'[q] = "returned" <=> phase[q] = "returned"
                             /\ phase[q] = "returned" => result'[q] = result[q]
    <3>1. \A q \in Runs : answered'[q] = answered[q]
      <4> SUFFICES ASSUME NEW q \in Runs PROVE answered'[q] = answered[q]
        OBVIOUS
      <4> QED BY <2>1
    <3>2. answered' = answered
      BY <3>1
    <3> QED BY <3>2 DEF Contract!Next, Contract!Stir, Contract!Open
  <2>2. ASSUME NEW r \in Runs, phase[r] # "returned",
               phase' = [phase EXCEPT ![r] = "returned"],
               \A q \in Runs \ {r} : result'[q] = result[q]
        PROVE  Contract!Next
    <3>1. phase'[r] = "returned" /\ \A q \in Runs \ {r} : phase'[q] = phase[q]
      BY <2>2 DEF TypeOK
    <3>2. answered[r] = "none" /\ answered' = [answered EXCEPT ![r] = result'[r].status]
      BY <2>2, <3>1
    <3>3. result'[r].status \in {"throws", "execution_error", "healthy", "inconclusive",
                                 "workload_failure"}
      <4>1. result'[r] \in Verdicts
        BY DEF TypeOK
      <4>2. result'[r].status # "none"
        BY <3>1 DEF Order, ResetOrder, Ending
      <4> QED BY <4>1, <4>2 DEF Verdicts
    <3>4. PICK s \in {"throws", "execution_error", "healthy", "inconclusive",
                       "workload_failure"} : s = result'[r].status
      BY <3>3
    <3>5. Contract!Answer(r, s)
      BY <3>2, <3>4 DEF Contract!Answer, Contract!Open
    <3> QED BY <3>5 DEF Contract!Next
  <2> QED BY <2>1, <2>2, ReturnedOnce
<1> QED
  BY <1>1, <1>2, <1>3, <1>4, VerdictStartsKept, AlwaysOrdered, PTL
     DEF Spec, AreIsolated, Contract!Spec

=============================================================================
