----------------------------- MODULE ApiService -----------------------------
(***************************************************************************)
(* The API of DSRD and its web client: the runs a store keeps              *)
(* (packages/api/src/run-store.ts), the two ways to start one              *)
(* (run-service.ts for uploads, app.ts for repository searches, which go   *)
(* through Onboarding), the event stream of a run (app.ts) and the page    *)
(* that follows it (packages/web/src/api.ts, App.tsx).  A connection may   *)
(* drop at any time; EventSource then opens another.                       *)
(***************************************************************************)
EXTENDS Onboarding, Sequences

CONSTANTS
  Folders, \* uploads: [composes, manifests : how many, platform : asked for]
  MaxDrops \* how many connections may drop

ASSUME ApiAssumption ==
  /\ Folders \subseteq [composes : Nat, manifests : Nat,
                        platform : {"any", "compose", "local-process"}]
  /\ MaxDrops \in Nat

VARIABLES
  bound,  \* whether search was handed to the API with the service it belongs to
  kind,   \* of each run: "none", "search", "compose" or "local-process"
  phase,  \* the phase of its progress in the store
  report, \* whether its record has an artifact
  conn,   \* the page's connection to its events, then its request for the record
  chan,   \* events written to it and not yet received
  got,    \* the last event received
  shown,  \* what the page shows of the run's outcome
  drops   \* connections dropped so far

clientVars == <<conn, chan, got, shown, drops>>
storeVars == <<bound, kind, phase, report>>
vars == <<onboardingVars, storeVars, clientVars>>

Terminal == {"completed", "no_failure", "target_unhealthy", "needs_configuration",
             "unsupported_target", "execution_error", "inconclusive", "cancelled",
             "error"}
RunPhases == {"none", "exploring"} \cup Terminal
Connections == {"none", "connecting", "open", "ended", "fetching", "closed", "unfetched"}
Pages == {"none", "lost"} \cup Terminal

(* The events the page listens to; a phase that is not terminal is "progress". *)
Heard == {"completed", "no_failure", "error"}

Last(s) == s[Len(s)]

-----------------------------------------------------------------------------
(* The store and the service. *)

(* materializeProject: the target of an uploaded folder, if it has one. *)
Target(folder) ==
  IF \/ folder.composes + folder.manifests = 0
     \/ folder.composes > 1 \/ folder.manifests > 1
     \/ folder.composes > 0 /\ folder.manifests > 0 /\ folder.platform = "any"
     \/ folder.platform = "compose" /\ folder.composes # 1
     \/ folder.platform = "local-process" /\ folder.manifests # 1
    THEN "rejected"
  ELSE IF folder.platform = "compose" \/ (folder.platform = "any" /\ folder.composes = 1)
    THEN "compose" ELSE "local-process"

(* Every listener gets every event; a terminal one ends its stream. *)
Publish(r, events) ==
  /\ phase' = [phase EXCEPT ![r] = Last(events)]
  /\ IF conn[r] = "open"
       THEN /\ chan' = [chan EXCEPT ![r] = @ \o events]
            /\ conn' = [conn EXCEPT ![r] = IF Last(events) \in Terminal THEN "ended" ELSE @]
       ELSE UNCHANGED <<chan, conn>>

Starts(r, k) ==
  /\ kind[r] = "none"
  /\ kind' = [kind EXCEPT ![r] = k]
  /\ Publish(r, <<"exploring">>)

(* POST /api/runs: nothing is created for a folder without a single target. *)
UploadPosted(r) ==
  /\ \E folder \in Folders : Target(folder) # "rejected" /\ Starts(r, Target(folder))
  /\ UNCHANGED <<onboardingVars, bound, report, got, shown, drops>>

(* Mutant of PhaseOf: the status is taken for a phase as it is. *)
PhaseOfUnmapped(status) == status

(* The status of a discovery as a phase of the run. *)
PhaseOf(status) == IF status = "found_failure" THEN "completed" ELSE status

(* Mutant of Concludes: the report is stored, whatever the status. *)
ConcludesWithReport(r, status, events) ==
  /\ report' = [report EXCEPT ![r] = status # "error"]
  /\ Publish(r, Append(events, PhaseOf(status)))

(* The artifact is stored and the phase published in one turn. *)
Concludes(r, status, events) ==
  /\ report' = [report EXCEPT ![r] = status = "found_failure"]
  /\ Publish(r, Append(events, PhaseOf(status)))

(* The Compose observer of an upload is given no workloads, and the oracle
   throws without any: every run of it, the baseline first, is an error. *)
UploadOutcomes(k) ==
  IF k = "compose" THEN {"execution_error"}
  ELSE Outcomes \cup (IF Faulty THEN {"execution_error"} ELSE {})

(* Mutant of UploadEnds: progress is published whenever it is reported. *)
UploadReportsLate(r) ==
  /\ kind[r] \in {"compose", "local-process"}
  /\ \/ \E status \in UploadOutcomes(kind[r]) : phase[r] = "exploring" /\ Concludes(r, status, << >>)
     \/ Publish(r, <<"exploring">>) /\ UNCHANGED report
  /\ UNCHANGED <<onboardingVars, bound, kind, got, shown, drops>>

(* RunService.start: progress with the count of schedules, then the phase. *)
UploadEnds(r) ==
  /\ kind[r] \in {"compose", "local-process"} /\ phase[r] = "exploring"
  /\ \/ \E status \in UploadOutcomes(kind[r]) :
          Concludes(r, status, <<"exploring", "exploring">>)
     \/ Faulty /\ Concludes(r, "error", << >>)
  /\ UNCHANGED <<onboardingVars, bound, kind, got, shown, drops>>

(* POST /api/repositories/search: search reads this.prepare, which there is only
   on the service it belongs to. *)
SearchPosted(r) ==
  /\ kind[r] = "none"
  /\ IF bound
       THEN Starts(r, "search") /\ Called(r) /\ UNCHANGED report
       ELSE /\ kind' = [kind EXCEPT ![r] = "search"]
            /\ Concludes(r, "error", <<"exploring">>)
            /\ UNCHANGED onboardingVars
  /\ UNCHANGED <<bound, got, shown, drops>>

SearchGoesOn(r) == kind[r] = "search" /\ Onboards(r) /\ UNCHANGED <<storeVars, clientVars>>

(* Mutant of SearchEnds: a search that rejects is not caught. *)
SearchEndsIfReturned(r) ==
  /\ kind[r] = "search" /\ phase[r] = "exploring" /\ at[r] = "returned"
  /\ Concludes(r, outcome[r], << >>)
  /\ UNCHANGED <<onboardingVars, bound, kind, got, shown, drops>>

SearchEnds(r) ==
  /\ kind[r] = "search" /\ phase[r] = "exploring" /\ at[r] \in {"returned", "rejected"}
  /\ Concludes(r, IF at[r] = "returned" THEN outcome[r] ELSE "error", << >>)
  /\ UNCHANGED <<onboardingVars, bound, kind, got, shown, drops>>

-----------------------------------------------------------------------------
(* The events of a run and the page that follows them. *)

Subscribes(r) ==
  /\ kind[r] # "none" /\ conn[r] = "none"
  /\ conn' = [conn EXCEPT ![r] = "connecting"]
  /\ UNCHANGED <<onboardingVars, storeVars, chan, got, shown, drops>>

(* Mutant of Connected: the stream of a finished run is kept open. *)
ConnectedAndKept(r) ==
  /\ conn[r] = "connecting"
  /\ chan' = [chan EXCEPT ![r] = <<phase[r]>>]
  /\ conn' = [conn EXCEPT ![r] = "open"]
  /\ UNCHANGED <<onboardingVars, storeVars, got, shown, drops>>

(* Mutant of Connected: only what is published from now on is written. *)
ConnectedSilently(r) ==
  /\ conn[r] = "connecting"
  /\ conn' = [conn EXCEPT ![r] = "open"]
  /\ UNCHANGED <<onboardingVars, storeVars, chan, got, shown, drops>>

(* GET events: the present progress is written, and either ends the stream or
   is followed by a subscription, in the same turn. *)
Connected(r) ==
  /\ conn[r] = "connecting"
  /\ chan' = [chan EXCEPT ![r] = <<phase[r]>>]
  /\ conn' = [conn EXCEPT ![r] = IF phase[r] \in Terminal THEN "ended" ELSE "open"]
  /\ UNCHANGED <<onboardingVars, storeVars, got, shown, drops>>

(* The page closes its connection on a terminal event it listens to, and asks
   for the record; it has no listener for the other terminal phases. *)
Received(r) ==
  LET event == Head(chan[r]) IN
  /\ conn[r] \in {"open", "ended"} /\ chan[r] # << >>
  /\ got' = [got EXCEPT ![r] = event]
  /\ IF event \in Heard
       THEN conn' = [conn EXCEPT ![r] = "fetching"] /\ chan' = [chan EXCEPT ![r] = << >>]
       ELSE chan' = [chan EXCEPT ![r] = Tail(@)] /\ UNCHANGED conn
  /\ UNCHANGED <<onboardingVars, storeVars, shown, drops>>

Reconnects(r) ==
  /\ conn' = [conn EXCEPT ![r] = "connecting"]
  /\ chan' = [chan EXCEPT ![r] = << >>]
  /\ shown' = [shown EXCEPT ![r] = "lost"]

(* The end of a stream the page has not closed is an error to it. *)
StreamEnds(r) ==
  /\ conn[r] = "ended" /\ chan[r] = << >>
  /\ Reconnects(r)
  /\ UNCHANGED <<onboardingVars, storeVars, got, drops>>

Drops(r) ==
  /\ conn[r] \in {"open", "ended"} /\ drops < MaxDrops
  /\ drops' = drops + 1
  /\ Reconnects(r)
  /\ UNCHANGED <<onboardingVars, storeVars, got>>

(* The record arrives, and the page goes to the screen of its phase. *)
Fetched(r) ==
  /\ conn[r] = "fetching"
  /\ conn' = [conn EXCEPT ![r] = "closed"]
  /\ shown' = [shown EXCEPT ![r] = phase[r]]
  /\ UNCHANGED <<onboardingVars, storeVars, chan, got, drops>>

(* The request fails, or is not answered ok: nothing catches that or asks again,
   and the page stays on the screen it is on. *)
FetchFails(r) ==
  /\ conn[r] = "fetching"
  /\ conn' = [conn EXCEPT ![r] = "unfetched"]
  /\ UNCHANGED <<onboardingVars, storeVars, chan, got, shown, drops>>

-----------------------------------------------------------------------------
Init ==
  /\ OnboardingInit
  /\ bound \in BOOLEAN
  /\ kind = [r \in Runs |-> "none"] /\ phase = [r \in Runs |-> "none"]
  /\ report = [r \in Runs |-> FALSE] /\ conn = [r \in Runs |-> "none"]
  /\ chan = [r \in Runs |-> << >>] /\ got = [r \in Runs |-> "none"]
  /\ shown = [r \in Runs |-> "none"] /\ drops = 0

Serves(r) == UploadEnds(r) \/ SearchGoesOn(r) \/ SearchEnds(r)
Follows(r) == Connected(r) \/ Received(r) \/ StreamEnds(r) \/ Fetched(r)

Next == \E r \in Runs :
  \/ UploadPosted(r) \/ SearchPosted(r) \/ Serves(r)
  \/ Subscribes(r) \/ Follows(r) \/ Drops(r) \/ FetchFails(r)

Spec == Init /\ [][Next]_vars

(* Discoveries end, as the modules of the platforms show or assume; git has a
   timer; the network connects again after a drop, and delivers what it does not
   drop.  A request for a record settles; it may always fail. *)
FairSpec == Spec /\ \A r \in Runs : WF_vars(Serves(r)) /\ WF_vars(Follows(r))

-----------------------------------------------------------------------------
(* What must hold. *)

(* Every variable of the service and its clients keeps its type. *)
TypeOK ==
  /\ OnboardingTypeOK
  /\ bound \in BOOLEAN
  /\ kind \in [Runs -> {"none", "search", "compose", "local-process"}]
  /\ phase \in [Runs -> RunPhases] /\ report \in [Runs -> BOOLEAN]
  /\ conn \in [Runs -> Connections] /\ chan \in [Runs -> Seq(RunPhases)]
  /\ got \in [Runs -> RunPhases] /\ shown \in [Runs -> Pages] /\ drops \in 0..MaxDrops

Ended(r) == phase[r] \in Terminal

(* A run's terminal phase is published after its search has let go of the
   clone: it is removed, or its removal failed. *)
EndedSearchHoldsNoClone ==
  \A r \in Runs : Ended(r) => clone[r] \in {"none", "removed", "left"}

(* No stream waits on a run that has ended, and one the server has ended ends
   with the phase the run ended in: no event is lost between the write of the
   present progress and the subscription, over any number of connections. *)
StreamsAreCurrent ==
  \A r \in Runs :
    /\ conn[r] = "open" => ~Ended(r)
    /\ conn[r] \in {"open", "ended"} =>
         (IF chan[r] = << >> THEN got[r] ELSE Last(chan[r])) = phase[r]

(* There is a report exactly of the runs that completed: a page that is told of
   a completed run finds it. *)
ReportsAreOfCompletedRuns ==
  \A r \in Runs : /\ report[r] <=> phase[r] = "completed"
                  /\ shown[r] = "completed" => report[r]

(* A run that has ended is not published again. *)
OneTerminalPhase == [][\A r \in Runs : Ended(r) => phase'[r] = phase[r]]_vars

(* Every run that is posted ends, wherever its acquisition, preparation or
   discovery fails. *)
RunsEnd == \A r \in Runs : kind[r] # "none" ~> Ended(r)

(* A page that follows a run comes to show how it ended, if that is a phase it
   listens to: no dropped connection loses it, only a failure of the one request
   for the record that the page makes once it has closed its connection. *)
OutcomesAreShown ==
  \A r \in Runs :
    (phase[r] \in Heard /\ conn[r] # "none")
      ~> (shown[r] = phase[r] \/ conn[r] = "unfetched")

-----------------------------------------------------------------------------
(* What documents of the repository say, and the code does not. *)

(* docs/operations.md:21, a search "uses the same onboarding orchestration as
   the CLI". *)
SearchesAreOnboarded ==
  \A r \in Runs : kind[r] = "search" /\ Ended(r) => at[r] # "idle"

(* README.md:308, an uploaded Compose project is searched: where every target
   passes all its schedules and nothing fails, its run is no error. *)
ComposeUploadsAreJudged ==
  \A r \in Runs : kind[r] = "compose" /\ Ended(r) => phase[r] \in Outcomes

=============================================================================
