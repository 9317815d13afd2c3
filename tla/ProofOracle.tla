---------------------------- MODULE ProofOracle ----------------------------
(***************************************************************************)
(* How the evidence of one run becomes a verdict: log lines become events  *)
(* (packages/proof/src/logs/parse.ts) and events, states and readiness     *)
(* become a result with a failure signature (packages/proof/src/oracle/    *)
(* evaluate.ts).  A workload is its position in the manifest, 0 is none of *)
(* them, and "first" means lowest: the code lists states and readiness in  *)
(* the manifest's order.                                                   *)
(***************************************************************************)
EXTENDS Integers, Sequences, FiniteSetsExt

None == 0

Kinds == {"job", "service"}            \* initializers are jobs, processes services
Assertions == {"none", "process", "probe"}
States == {"missing", "running", "unhealthy", "zero", "nonzero", "exited"}
Answers == {"none", "ready", "timeout", "unhealthy"}

(* A log line: whose container printed it, the workload a JSON body names, if
   any, and what it says. *)
Bodies == {"failure", "event", "network", "plain"}

(* The three statuses a run's evidence can have. *)
Verdict(status, workload, category) ==
  [status |-> status, workload |-> workload, category |-> category]

Healthy == Verdict("healthy", None, "none")
Inconclusive == Verdict("inconclusive", None, "none")

-----------------------------------------------------------------------------
(* Log lines. *)

(* The workload a line is about: the one it names, else its container. *)
About(line) == IF line.names # None THEN line.names ELSE line.container

(* "connection refused" and the like become timeline events only: the events
   that count are those of a JSON body, which must open the line. *)
IsFailureEvent(line) == line.body = "failure" /\ line.opens

FirstReport(lines) ==
  LET reports == {i \in DOMAIN lines : IsFailureEvent(lines[i])}
  IN IF reports = {} THEN None ELSE About(lines[Min(reports)])

-----------------------------------------------------------------------------
(* The verdict on what was observed of the given workloads. *)

First(ws) == IF ws = {} THEN None ELSE Min(ws)

(* Mutant of StateSatisfies: a service that has finished passes too. *)
StateSatisfiesEither(kind, state) ==
  state = "zero" \/ (kind = "service" /\ state = "running")

(* A job has passed once it exited with 0, a service while it runs. *)
StateSatisfies(kind, state) == state = IF kind = "job" THEN "zero" ELSE "running"

ReadinessSatisfies(assertion, answer) == assertion = "none" \/ answer = "ready"

(* The order of the checks decides the signature of a run that failed in more
   than one way. *)
Evaluate(kind, assertion, report, state, answer) ==
  LET crashed == First({w \in DOMAIN kind : state[w] = "nonzero"})
      unready == First({w \in DOMAIN kind : answer[w] \notin {"none", "ready"}})
      Passed(w) == /\ StateSatisfies(kind[w], state[w])
                   /\ ReadinessSatisfies(assertion[w], answer[w])
  IN IF report # None THEN Verdict("workload_failure", report, "structured_failure")
     ELSE IF crashed # None THEN Verdict("workload_failure", crashed, "unexpected_exit")
     ELSE IF unready # None THEN Verdict("workload_failure", unready, "readiness_failed")
     ELSE IF \A w \in DOMAIN kind : Passed(w) THEN Healthy ELSE Inconclusive

=============================================================================
