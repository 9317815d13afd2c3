-------------------------- MODULE ProofOracleProofs --------------------------
(***************************************************************************)
(* What the oracle's verdict says for any manifest and any evidence: which *)
(* workload it names and what was observed of that workload.               *)
(***************************************************************************)
EXTENDS ProofOracle, WellFoundedInduction, TLAPS

(* A non-empty set of naturals has a least member, and Min is it. *)
LEMMA LeastIsMember ==
  ASSUME NEW S \in SUBSET Nat, S # {}
  PROVE  Min(S) \in S /\ \A y \in S : Min(S) <= y
<1> DEFINE Below == OpToRel(<, Nat)
<1>1. \A y, x \in Nat : y < x => <<y, x>> \in Below
  <2>1. SUFFICES ASSUME NEW y \in Nat, NEW x \in Nat, y < x
                 PROVE  <<y, x>> \in {p \in Nat \X Nat : p[1] < p[2]}
    BY <2>1, Zenon DEF OpToRel
  <2> QED BY <2>1
<1>2. PICK x \in S : \A y \in S : <<y, x>> \notin Below
  BY NatLessThanWellFounded, WFMin
<1>3. \A y \in S : x =< y
  <2> TAKE y \in S
  <2>1. x \in Nat /\ y \in Nat
    OBVIOUS
  <2>2. ~(y < x)
    BY <1>1, <1>2, <2>1, Zenon
  <2> QED BY <2>1, <2>2
<1> QED BY <1>3 DEF Min

(* The first of some workloads is one of them, or none if there are none. *)
LEMMA FirstIsMember ==
  ASSUME NEW ws \in SUBSET (Nat \ {None})
  PROVE  /\ First(ws) = None <=> ws = {}
         /\ ws # {} => First(ws) \in ws /\ \A w \in ws : First(ws) <= w
BY LeastIsMember DEF First, None

(* The verdict of evaluateWorkloadRun (evaluate.ts:67-120) on any evidence: a
   structured failure is the one reported, an unexpected exit that of a workload
   that exited with a code other than 0, a failed readiness that of a workload
   whose probe was not answered "ready"; a run is healthy only if every workload
   is in the state its kind asks for and has met its assertion. *)
THEOREM VerdictIsGrounded ==
  ASSUME NEW kind, NEW assertion, NEW report, NEW state, NEW answer,
         DOMAIN kind \subseteq Nat \ {None},
         NEW verdict, verdict = Evaluate(kind, assertion, report, state, answer)
  PROVE  /\ \/ verdict = Healthy \/ verdict = Inconclusive
            \/ /\ verdict.status = "workload_failure"
               /\ \/ /\ verdict = Verdict("workload_failure", report, "structured_failure")
                     /\ report # None
                  \/ /\ verdict.workload \in DOMAIN kind
                     /\ verdict = Verdict("workload_failure", verdict.workload,
                                          "unexpected_exit")
                     /\ state[verdict.workload] = "nonzero"
                  \/ /\ verdict.workload \in DOMAIN kind
                     /\ verdict = Verdict("workload_failure", verdict.workload,
                                          "readiness_failed")
                     /\ answer[verdict.workload] \notin {"none", "ready"}
         /\ verdict = Healthy =>
              \A w \in DOMAIN kind : /\ StateSatisfies(kind[w], state[w])
                                     /\ ReadinessSatisfies(assertion[w], answer[w])
<1> DEFINE crashes == {w \in DOMAIN kind : state[w] = "nonzero"}
           misses == {w \in DOMAIN kind : answer[w] \notin {"none", "ready"}}
           passed == \A w \in DOMAIN kind : /\ StateSatisfies(kind[w], state[w])
                                            /\ ReadinessSatisfies(assertion[w], answer[w])
<1>1. /\ First(crashes) = None \/ First(crashes) \in crashes
      /\ First(misses) = None \/ First(misses) \in misses
  BY FirstIsMember
<1>2. CASE report # None
  <2>1. verdict = Verdict("workload_failure", report, "structured_failure")
    BY <1>2 DEF Evaluate
  <2> QED BY <1>2, <2>1 DEF Verdict, Healthy
<1>3. CASE report = None /\ First(crashes) # None
  <2>1. verdict = Verdict("workload_failure", First(crashes), "unexpected_exit")
    BY <1>3 DEF Evaluate
  <2> QED BY <1>1, <1>3, <2>1 DEF Verdict, Healthy
<1>4. CASE report = None /\ First(crashes) = None /\ First(misses) # None
  <2>1. verdict = Verdict("workload_failure", First(misses), "readiness_failed")
    BY <1>4 DEF Evaluate
  <2> QED BY <1>1, <1>4, <2>1 DEF Verdict, Healthy
<1>5. CASE report = None /\ First(crashes) = None /\ First(misses) = None
  <2>1. verdict = IF passed THEN Healthy ELSE Inconclusive
    BY <1>5 DEF Evaluate
  <2>2. Healthy # Inconclusive
    BY DEF Healthy, Inconclusive, Verdict
  <2> QED BY <2>1, <2>2
<1> QED BY <1>2, <1>3, <1>4, <1>5

(* w is the first of the workloads of which something was observed. *)
Leads(w, observed) == w \in observed /\ \A v \in observed : w <= v

LEMMA FirstLeads ==
  ASSUME NEW ws \in SUBSET (Nat \ {None}), NEW w \in Nat \ {None}
  PROVE  First(ws) = w <=> Leads(w, ws)
<1>1. ASSUME Leads(w, ws) PROVE First(ws) = w
  <2>1. First(ws) \in ws /\ First(ws) <= w /\ w <= First(ws)
    BY <1>1, FirstIsMember DEF Leads
  <2>2. First(ws) \in Nat /\ w \in Nat
    BY <2>1
  <2> QED BY <2>1, <2>2
<1>2. ASSUME First(ws) = w PROVE Leads(w, ws)
  BY <1>2, FirstIsMember DEF Leads
<1> QED BY <1>1, <1>2

(* Which of several things that went wrong the signature of a run names
   (evaluate.ts:67-120): a report before any exit, an exit before any readiness, and
   of several exits, or of several readiness failures, that of the workload listed
   first; so that the same evidence never shows two signatures.  Only a run of which
   nothing of this kind was seen is healthy or inconclusive, and it is healthy
   exactly when every workload has passed. *)
THEOREM VerdictIsOfTheFirst ==
  ASSUME NEW kind, NEW assertion, NEW report, NEW state, NEW answer,
         DOMAIN kind \subseteq Nat \ {None}
  PROVE  LET verdict == Evaluate(kind, assertion, report, state, answer)
             crashes == {w \in DOMAIN kind : state[w] = "nonzero"}
             misses == {w \in DOMAIN kind : answer[w] \notin {"none", "ready"}}
             calm == report = None /\ crashes = {} /\ misses = {}
             passed == \A w \in DOMAIN kind : /\ StateSatisfies(kind[w], state[w])
                                              /\ ReadinessSatisfies(assertion[w], answer[w])
         IN /\ report # None <=>
                 verdict = Verdict("workload_failure", report, "structured_failure")
            /\ \A w \in DOMAIN kind :
                 /\ verdict = Verdict("workload_failure", w, "unexpected_exit") <=>
                      report = None /\ Leads(w, crashes)
                 /\ verdict = Verdict("workload_failure", w, "readiness_failed") <=>
                      report = None /\ crashes = {} /\ Leads(w, misses)
            /\ verdict = Healthy <=> calm /\ passed
            /\ verdict = Inconclusive <=> calm /\ ~passed
<1> DEFINE verdict == Evaluate(kind, assertion, report, state, answer)
           crashes == {w \in DOMAIN kind : state[w] = "nonzero"}
           misses == {w \in DOMAIN kind : answer[w] \notin {"none", "ready"}}
           passed == \A w \in DOMAIN kind : /\ StateSatisfies(kind[w], state[w])
                                            /\ ReadinessSatisfies(assertion[w], answer[w])
<1>1. /\ crashes \in SUBSET (Nat \ {None}) /\ misses \in SUBSET (Nat \ {None})
      /\ First(crashes) = None <=> crashes = {}
      /\ First(misses) = None <=> misses = {}
      /\ crashes # {} => First(crashes) \in crashes
      /\ misses # {} => First(misses) \in misses
  BY FirstIsMember
<1>2. verdict =
        IF report # None THEN Verdict("workload_failure", report, "structured_failure")
        ELSE IF crashes # {} THEN Verdict("workload_failure", First(crashes), "unexpected_exit")
        ELSE IF misses # {} THEN Verdict("workload_failure", First(misses), "readiness_failed")
        ELSE IF passed THEN Healthy ELSE Inconclusive
  BY <1>1 DEF Evaluate
<1>3. \A s, t, v, w, c, d : Verdict(s, v, c) = Verdict(t, w, d) <=> s = t /\ v = w /\ c = d
  BY DEF Verdict
<1> HIDE DEF verdict, crashes, misses, passed
<1>4. /\ report # None <=>
           verdict = Verdict("workload_failure", report, "structured_failure")
      /\ verdict = Healthy <=> report = None /\ crashes = {} /\ misses = {} /\ passed
      /\ verdict = Inconclusive <=> report = None /\ crashes = {} /\ misses = {} /\ ~passed
  BY <1>2, <1>3 DEF Healthy, Inconclusive
<1>5. ASSUME NEW w \in DOMAIN kind
      PROVE  verdict = Verdict("workload_failure", w, "unexpected_exit") <=>
               report = None /\ Leads(w, crashes)
  <2>1. verdict = Verdict("workload_failure", w, "unexpected_exit") <=>
          report = None /\ crashes # {} /\ First(crashes) = w
    BY <1>2, <1>3 DEF Healthy, Inconclusive
  <2>2. Leads(w, crashes) => crashes # {}
    BY DEF Leads
  <2>3. First(crashes) = w <=> Leads(w, crashes)
    BY <1>1, FirstLeads
  <2>4. (report = None /\ crashes # {} /\ First(crashes) = w) <=>
          (report = None /\ Leads(w, crashes))
    BY <2>2, <2>3
  <2> QED BY <2>1, <2>4
<1>6. ASSUME NEW w \in DOMAIN kind
      PROVE  verdict = Verdict("workload_failure", w, "readiness_failed") <=>
               report = None /\ crashes = {} /\ Leads(w, misses)
  <2>1. verdict = Verdict("workload_failure", w, "readiness_failed") <=>
          report = None /\ crashes = {} /\ misses # {} /\ First(misses) = w
    BY <1>2, <1>3 DEF Healthy, Inconclusive
  <2>2. Leads(w, misses) => misses # {}
    BY DEF Leads
  <2>3. First(misses) = w <=> Leads(w, misses)
    BY <1>1, FirstLeads
  <2>4. (report = None /\ crashes = {} /\ misses # {} /\ First(misses) = w) <=>
          (report = None /\ crashes = {} /\ Leads(w, misses))
    BY <2>2, <2>3
  <2> QED BY <2>1, <2>4
<1> QED BY <1>4, <1>5, <1>6 DEF verdict, crashes, misses, passed

=============================================================================
