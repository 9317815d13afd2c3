-------------------------- MODULE ApiServiceProofs --------------------------
(***************************************************************************)
(* What holds of the API for any runs, folders, outcomes and connections:  *)
(* its types, that a clone outlives its use and is let go of before the    *)
(* run ends, that reports are of completed runs, that a run ends once and  *)
(* that no stream is left behind.                                          *)
(***************************************************************************)
EXTENDS ApiService, TLAPS

(* A run goes through onboarding only as a search, and ends after it. *)
StoreOrder ==
  \A r \in Runs :
    /\ kind[r] = "none" => phase[r] = "none"
    /\ kind[r] # "search" => at[r] = "idle"
    /\ Ended(r) => at[r] \in {"idle", "returned", "rejected"}
    /\ report[r] <=> phase[r] = "completed"

(* The directory a search owns is frozen while it is used, and has been removed,
   as far as that succeeded, when the search returns. *)
CloneOrder ==
  \A r \in Runs :
    /\ at[r] = "idle" \/ input[r] = "checkout" => clone[r] = "none"
    /\ at[r] \in {"preparing", "searching"} /\ input[r] = "git" => clone[r] = "frozen"
    /\ at[r] \in {"returned", "rejected"} => clone[r] \in {"none", "removed", "left"}
    /\ at[r] \in {"disposing", "returned"} => outcome[r] \in Outcomes \cup OwnOutcomes

(* A terminal event is the last one of its run, and the page shows an outcome
   only once the run has ended in it. *)
StreamOrder ==
  \A r \in Runs :
    /\ conn[r] = "ended" => Ended(r)
    /\ \A i \in 1 .. Len(chan[r]) : chan[r][i] \in Terminal => chan[r][i] = phase[r]
    /\ conn[r] = "fetching" => Ended(r)
    /\ shown[r] \in Terminal => shown[r] = phase[r]

Order == StoreOrder /\ CloneOrder /\ StreamOrder /\ StreamsAreCurrent

-----------------------------------------------------------------------------
(* Sequences of events. *)
LEMMA LastOfConcatenation ==
  ASSUME NEW S, NEW s \in Seq(S), NEW t \in Seq(S), t # << >>
  PROVE  s \o t \in Seq(S) /\ s \o t # << >> /\ Last(s \o t) = Last(t)
BY DEF Last

LEMMA LastOfTail ==
  ASSUME NEW S, NEW s \in Seq(S), s # << >>
  PROVE  /\ Head(s) \in S /\ Tail(s) \in Seq(S)
         /\ Tail(s) # << >> => Last(Tail(s)) = Last(s)
         /\ Tail(s) = << >> => Head(s) = Last(s)
         /\ \A i \in 1 .. Len(Tail(s)) : Tail(s)[i] = s[i + 1] /\ i + 1 \in 1 .. Len(s)
         /\ Head(s) = s[1] /\ 1 \in 1 .. Len(s)
<1>1. Len(s) \in Nat /\ Len(s) > 0 /\ s \in [1 .. Len(s) -> S]
  OBVIOUS
<1>2. Head(s) = s[1] /\ Tail(s) \in Seq(S) /\ Len(Tail(s)) = Len(s) - 1
  BY <1>1
<1>3. \A i \in 1 .. Len(Tail(s)) : Tail(s)[i] = s[i + 1]
  BY <1>1, <1>2
<1>4. ASSUME Tail(s) # << >> PROVE Last(Tail(s)) = Last(s)
  <2>1. Len(Tail(s)) \in 1 .. Len(Tail(s))
    BY <1>2, <1>4
  <2> QED BY <1>1, <1>2, <1>3, <2>1 DEF Last
<1>5. ASSUME Tail(s) = << >> PROVE Head(s) = Last(s)
  <2>1. \A t : t = << >> => Len(t) = 0
    OBVIOUS
  <2>2. Len(Tail(s)) = 0
    BY <1>5, <2>1, Zenon
  <2>3. \A n \in Nat : 0 = n - 1 => n = 1
    OBVIOUS
  <2>4. Len(s) = 1
    BY <1>1, <1>2, <2>2, <2>3, Zenon
  <2> QED BY <1>2, <2>4 DEF Last
<1> QED BY <1>1, <1>2, <1>3, <1>4, <1>5

(* What a discovery publishes last: any progress, then its phase. *)
LEMMA ConclusionIsLast ==
  ASSUME NEW events \in Seq({"exploring"}), NEW p \in Terminal
  PROVE  LET all == Append(events, p)
         IN /\ all \in Seq(RunPhases) /\ all # << >> /\ Last(all) = p
            /\ \A i \in 1 .. Len(all) - 1 : all[i] \notin Terminal
<1>1. p \in RunPhases /\ "exploring" \in RunPhases /\ "exploring" \notin Terminal
  BY DEF RunPhases, Terminal
<1>2. events \in Seq(RunPhases) /\ \A i \in 1 .. Len(events) : events[i] = "exploring"
  BY <1>1
<1> QED BY <1>1, <1>2 DEF Last

LEMMA StatusIsTerminal ==
  ASSUME NEW status \in Outcomes \cup OwnOutcomes \cup {"error"}
  PROVE  /\ PhaseOf(status) \in Terminal
         /\ PhaseOf(status) = "completed" <=> status = "found_failure"
BY OnboardingAssumption DEF PhaseOf, Terminal, OwnOutcomes

-----------------------------------------------------------------------------
(* Publishing to the listeners of a run that has not ended. *)
LEMMA PublishedIsTyped ==
  ASSUME TypeOK, NEW r \in Runs, NEW events \in Seq(RunPhases), events # << >>,
         Publish(r, events)
  PROVE  /\ phase' \in [Runs -> RunPhases] /\ chan' \in [Runs -> Seq(RunPhases)]
         /\ conn' \in [Runs -> Connections]
         /\ phase' = [phase EXCEPT ![r] = Last(events)]
<1>1. Last(events) \in RunPhases
  BY DEF Last
<1>2. chan[r] \o events \in Seq(RunPhases)
  BY DEF TypeOK
<1> QED BY <1>1, <1>2 DEF Publish, TypeOK, Connections

LEMMA PublishedIsCurrent ==
  ASSUME TypeOK, StreamOrder, StreamsAreCurrent, NEW r \in Runs, ~Ended(r),
         NEW events \in Seq(RunPhases), events # << >>,
         \A i \in 1 .. Len(events) - 1 : events[i] \notin Terminal,
         Publish(r, events), UNCHANGED <<got, shown>>
  PROVE  StreamOrder' /\ StreamsAreCurrent'
<1>1. phase' = [phase EXCEPT ![r] = Last(events)]
  BY DEF Publish
<1>2. \A q \in Runs : q # r => /\ phase'[q] = phase[q] /\ chan'[q] = chan[q]
                               /\ conn'[q] = conn[q]
  BY <1>1 DEF Publish, TypeOK
<1>3. phase'[r] = Last(events)
  BY <1>1 DEF TypeOK
<1>4. \A i \in 1 .. Len(chan[r]) : chan[r][i] \notin Terminal
  BY DEF StreamOrder, Ended
<1>5. conn[r] # "ended" /\ conn[r] # "fetching" /\ shown[r] \notin Terminal
  BY DEF StreamOrder, Ended
<1>6. CASE conn[r] = "open"
  <2>1. chan'[r] = chan[r] \o events
    BY <1>6 DEF Publish, TypeOK
  <2>2. conn'[r] = IF Last(events) \in Terminal THEN "ended" ELSE "open"
    BY <1>6 DEF Publish, TypeOK
  <2>3. chan[r] \in Seq(RunPhases)
    BY DEF TypeOK
  <2>4. chan'[r] # << >> /\ Last(chan'[r]) = phase'[r]
    BY <2>1, <2>3, <1>3, LastOfConcatenation
  <2>5. \A i \in 1 .. Len(chan'[r]) : chan'[r][i] \in Terminal => chan'[r][i] = phase'[r]
    BY <2>1, <2>3, <1>3, <1>4 DEF Last
  <2>6. conn'[r] = "open" => phase'[r] \notin Terminal
    BY <2>2, <1>3
  <2>7. conn'[r] = "ended" => phase'[r] \in Terminal
    BY <2>2, <1>3
  <2>8. conn'[r] # "fetching" /\ UNCHANGED shown
    BY <2>2
  <2>9. StreamOrder'
    BY <1>2, <1>5, <2>5, <2>7, <2>8 DEF StreamOrder, Ended
  <2>10. StreamsAreCurrent'
    BY <1>2, <2>4, <2>6 DEF StreamsAreCurrent, Ended
  <2> QED BY <2>9, <2>10
<1>7. CASE conn[r] # "open"
  <2>1. chan' = chan /\ conn' = conn
    BY <1>7 DEF Publish
  <2> QED BY <1>2, <1>4, <1>5, <1>7, <2>1 DEF StreamOrder, StreamsAreCurrent, Ended
<1> QED BY <1>6, <1>7

(* The first phase of a run is published to nobody. *)
LEMMA StartIsTyped ==
  ASSUME TypeOK, NEW r \in Runs, NEW k \in {"search", "compose", "local-process"},
         Starts(r, k)
  PROVE  /\ kind[r] = "none" /\ kind' = [kind EXCEPT ![r] = k]
         /\ <<"exploring">> \in Seq(RunPhases) /\ <<"exploring">> # << >>
         /\ \A i \in 1 .. Len(<<"exploring">>) - 1 : <<"exploring">>[i] \notin Terminal
         /\ Publish(r, <<"exploring">>)
         /\ phase' = [phase EXCEPT ![r] = "exploring"]
         /\ phase' \in [Runs -> RunPhases] /\ chan' \in [Runs -> Seq(RunPhases)]
         /\ conn' \in [Runs -> Connections]
<1>1. "exploring" \in RunPhases
  BY DEF RunPhases
<1>2. <<"exploring">> \in Seq(RunPhases) /\ <<"exploring">> # << >>
      /\ Last(<<"exploring">>) = "exploring" /\ Len(<<"exploring">>) = 1
  BY <1>1 DEF Last
<1>3. /\ kind[r] = "none" /\ kind' = [kind EXCEPT ![r] = k]
      /\ Publish(r, <<"exploring">>)
  BY DEF Starts
<1>4. /\ phase' = [phase EXCEPT ![r] = Last(<<"exploring">>)]
      /\ phase' \in [Runs -> RunPhases] /\ chan' \in [Runs -> Seq(RunPhases)]
      /\ conn' \in [Runs -> Connections]
  BY <1>2, <1>3, PublishedIsTyped
<1>5. \A i \in 1 .. Len(<<"exploring">>) - 1 : <<"exploring">>[i] \notin Terminal
  BY <1>2
<1> QED BY <1>2, <1>3, <1>4, <1>5

(* A discovery that concludes publishes a terminal phase last. *)
LEMMA ConclusionIsTyped ==
  ASSUME TypeOK, NEW r \in Runs, NEW events \in Seq({"exploring"}),
         NEW status \in Outcomes \cup OwnOutcomes \cup {"error"},
         Concludes(r, status, events)
  PROVE  LET all == Append(events, PhaseOf(status))
         IN /\ all \in Seq(RunPhases) /\ all # << >>
            /\ \A i \in 1 .. Len(all) - 1 : all[i] \notin Terminal
            /\ Publish(r, all)
            /\ PhaseOf(status) \in Terminal
            /\ phase' = [phase EXCEPT ![r] = PhaseOf(status)]
            /\ phase' \in [Runs -> RunPhases] /\ chan' \in [Runs -> Seq(RunPhases)]
            /\ conn' \in [Runs -> Connections]
            /\ report' = [report EXCEPT ![r] = PhaseOf(status) = "completed"]
<1>1. /\ PhaseOf(status) \in Terminal
      /\ PhaseOf(status) = "completed" <=> status = "found_failure"
  BY StatusIsTerminal
<1> DEFINE all == Append(events, PhaseOf(status))
<1>2. /\ all \in Seq(RunPhases) /\ all # << >> /\ Last(all) = PhaseOf(status)
      /\ \A i \in 1 .. Len(all) - 1 : all[i] \notin Terminal
  BY <1>1, ConclusionIsLast
<1>3. Publish(r, all)
  BY DEF Concludes
<1>4. /\ phase' = [phase EXCEPT ![r] = Last(all)]
      /\ phase' \in [Runs -> RunPhases] /\ chan' \in [Runs -> Seq(RunPhases)]
      /\ conn' \in [Runs -> Connections]
  BY <1>2, <1>3, PublishedIsTyped
<1>5. report' = [report EXCEPT ![r] = PhaseOf(status) = "completed"]
  <2>1. report' = [report EXCEPT ![r] = status = "found_failure"]
    BY DEF Concludes
  <2>2. (PhaseOf(status) = "completed") = (status = "found_failure")
    BY <1>1
  <2> QED BY <2>1, <2>2
<1> QED BY <1>1, <1>2, <1>3, <1>4, <1>5

LEMMA UploadOutcomesAreKnown ==
  ASSUME NEW k
  PROVE  UploadOutcomes(k) \subseteq Outcomes \cup OwnOutcomes \cup {"error"}
BY DEF UploadOutcomes, OwnOutcomes

LEMMA TargetIsKnown ==
  ASSUME NEW folder, Target(folder) # "rejected"
  PROVE  Target(folder) \in {"compose", "local-process"}
BY DEF Target

-----------------------------------------------------------------------------
(* Types. *)
LEMMA OnboardingKeepsTypes ==
  ASSUME OnboardingTypeOK, NEW r \in Runs, Onboards(r) \/ Called(r)
  PROVE  OnboardingTypeOK'
<1> USE DEF OnboardingTypeOK, Goes, Places, Clones
<1>1. ASSUME Removes(r) PROVE clone' \in [Runs -> Clones]
  BY <1>1 DEF Removes
<1>2. CASE Called(r)
  BY <1>2 DEF Called
<1>3. CASE CheckoutResolved(r) \/ CheckoutMissing(r)
  BY <1>3 DEF CheckoutResolved, CheckoutMissing
<1>4. CASE GitSucceeds(r)
  BY <1>4 DEF GitSucceeds
<1>5. CASE Frozen(r)
  BY <1>5 DEF Frozen
<1>6. CASE AcquisitionFails(r)
  BY <1>1, <1>6 DEF AcquisitionFails
<1>7. CASE Prepared(r)
  BY <1>7 DEF Prepared
<1>8. CASE PrepareStops(r)
  BY <1>8 DEF PrepareStops, OwnOutcomes
<1>9. CASE Searched(r)
  BY <1>9 DEF Searched, OwnOutcomes
<1>10. CASE Disposed(r)
  BY <1>1, <1>10 DEF Disposed
<1> QED BY <1>2, <1>3, <1>4, <1>5, <1>6, <1>7, <1>8, <1>9, <1>10 DEF Onboards

LEMMA TypesKept ==
  ASSUME TypeOK, Order, [Next]_vars
  PROVE  TypeOK'
<1> USE DEF onboardingVars, storeVars, clientVars
<1> DEFINE OnboardingSame == UNCHANGED onboardingVars
<1>0. ASSUME OnboardingSame PROVE OnboardingTypeOK'
  BY <1>0 DEF TypeOK, OnboardingTypeOK
<1>1. ASSUME NEW r \in Runs, UploadPosted(r) PROVE TypeOK'
  <2>1. PICK folder \in Folders : Target(folder) # "rejected" /\ Starts(r, Target(folder))
    BY <1>1 DEF UploadPosted
  <2>2. /\ kind' = [kind EXCEPT ![r] = Target(folder)]
        /\ Target(folder) \in {"search", "compose", "local-process"}
        /\ phase' \in [Runs -> RunPhases] /\ chan' \in [Runs -> Seq(RunPhases)]
        /\ conn' \in [Runs -> Connections]
    BY <2>1, TargetIsKnown, StartIsTyped
  <2> QED BY <1>0, <1>1, <2>2 DEF UploadPosted, TypeOK
<1>2. ASSUME NEW r \in Runs, UploadEnds(r) PROVE TypeOK'
  <2>1. PICK status \in Outcomes \cup OwnOutcomes \cup {"error"},
             events \in Seq({"exploring"}) : Concludes(r, status, events)
    <3>1. << >> \in Seq({"exploring"}) /\ <<"exploring", "exploring">> \in Seq({"exploring"})
      OBVIOUS
    <3> QED BY <1>2, <3>1, UploadOutcomesAreKnown DEF UploadEnds
  <2>2. /\ phase' \in [Runs -> RunPhases] /\ chan' \in [Runs -> Seq(RunPhases)]
        /\ conn' \in [Runs -> Connections] /\ report' \in [Runs -> BOOLEAN]
    BY <2>1, ConclusionIsTyped DEF TypeOK
  <2> QED BY <1>0, <1>2, <2>2 DEF UploadEnds, TypeOK
<1>3. ASSUME NEW r \in Runs, SearchPosted(r) PROVE TypeOK'
  <2>1. CASE bound
    <3>1. Starts(r, "search") /\ Called(r) /\ report' = report
      BY <1>3, <2>1 DEF SearchPosted
    <3>2. /\ kind' = [kind EXCEPT ![r] = "search"]
          /\ phase' \in [Runs -> RunPhases] /\ chan' \in [Runs -> Seq(RunPhases)]
          /\ conn' \in [Runs -> Connections]
      BY <3>1, StartIsTyped
    <3>3. OnboardingTypeOK'
      BY <3>1, OnboardingKeepsTypes DEF TypeOK
    <3> QED BY <1>3, <3>1, <3>2, <3>3 DEF SearchPosted, TypeOK
  <2>2. CASE ~bound
    <3>1. /\ Concludes(r, "error", <<"exploring">>) /\ <<"exploring">> \in Seq({"exploring"})
          /\ kind' = [kind EXCEPT ![r] = "search"] /\ UNCHANGED onboardingVars
      BY <1>3, <2>2 DEF SearchPosted
    <3>2. /\ phase' \in [Runs -> RunPhases] /\ chan' \in [Runs -> Seq(RunPhases)]
          /\ conn' \in [Runs -> Connections] /\ report' \in [Runs -> BOOLEAN]
      BY <3>1, ConclusionIsTyped DEF TypeOK
    <3> QED BY <1>0, <1>3, <3>1, <3>2 DEF SearchPosted, TypeOK
  <2> QED BY <2>1, <2>2
<1>4. ASSUME NEW r \in Runs, SearchGoesOn(r) PROVE TypeOK'
  BY <1>4, OnboardingKeepsTypes DEF SearchGoesOn, TypeOK
<1>5. ASSUME NEW r \in Runs, SearchEnds(r) PROVE TypeOK'
  <2>1. PICK status \in Outcomes \cup OwnOutcomes \cup {"error"} : Concludes(r, status, << >>)
    BY <1>5 DEF SearchEnds, Order, CloneOrder
  <2>2. << >> \in Seq({"exploring"})
    OBVIOUS
  <2>3. /\ phase' \in [Runs -> RunPhases] /\ chan' \in [Runs -> Seq(RunPhases)]
        /\ conn' \in [Runs -> Connections] /\ report' \in [Runs -> BOOLEAN]
    BY <2>1, <2>2, ConclusionIsTyped DEF TypeOK
  <2> QED BY <1>0, <1>5, <2>3 DEF SearchEnds, TypeOK
<1>6. ASSUME NEW r \in Runs, Subscribes(r) PROVE TypeOK'
  BY <1>0, <1>6 DEF Subscribes, TypeOK, Connections
<1>7. ASSUME NEW r \in Runs, Connected(r) PROVE TypeOK'
  BY <1>0, <1>7 DEF Connected, TypeOK, Connections
<1>8. ASSUME NEW r \in Runs, Received(r) PROVE TypeOK'
  <2>1. Head(chan[r]) \in RunPhases /\ Tail(chan[r]) \in Seq(RunPhases)
    BY <1>8, LastOfTail DEF Received, TypeOK
  <2>2. chan' \in [Runs -> Seq(RunPhases)]
    <3>1. << >> \in Seq(RunPhases)
      OBVIOUS
    <3> QED BY <1>8, <2>1, <3>1 DEF Received, TypeOK
  <2>3. conn' \in [Runs -> Connections]
    BY <1>8 DEF Received, TypeOK, Connections
  <2>4. got' \in [Runs -> RunPhases]
    BY <1>8, <2>1 DEF Received, TypeOK
  <2> QED BY <1>0, <1>8, <2>2, <2>3, <2>4 DEF Received, TypeOK
<1>9. ASSUME NEW r \in Runs, StreamEnds(r) \/ Drops(r) PROVE TypeOK'
  <2>1. chan' \in [Runs -> Seq(RunPhases)]
    <3>1. << >> \in Seq(RunPhases)
      OBVIOUS
    <3> QED BY <1>9, <3>1 DEF StreamEnds, Drops, Reconnects, TypeOK
  <2>2. conn' \in [Runs -> Connections] /\ shown' \in [Runs -> Pages]
    BY <1>9 DEF StreamEnds, Drops, Reconnects, TypeOK, Connections, Pages
  <2>3. drops' \in 0 .. MaxDrops
    BY <1>9, ApiAssumption DEF StreamEnds, Drops, TypeOK
  <2> QED BY <1>0, <1>9, <2>1, <2>2, <2>3 DEF StreamEnds, Drops, TypeOK
<1>10. ASSUME NEW r \in Runs, Fetched(r) \/ FetchFails(r) PROVE TypeOK'
  <2>1. phase[r] \in Pages
    BY <1>10 DEF Fetched, FetchFails, Order, StreamOrder, Ended, Pages
  <2>2. conn' \in [Runs -> Connections]
    BY <1>10 DEF Fetched, FetchFails, TypeOK, Connections
  <2> QED BY <1>0, <1>10, <2>1, <2>2 DEF Fetched, FetchFails, TypeOK
<1>11. CASE UNCHANGED vars
  BY <1>0, <1>11 DEF vars, TypeOK
<1> QED BY <1>1, <1>2, <1>3, <1>4, <1>5, <1>6, <1>7, <1>8, <1>9, <1>10, <1>11
        DEF Next, Serves, Follows

-----------------------------------------------------------------------------
(* The order of things. *)

(* A run that is published has not ended, and what is published last is its
   phase. *)
Publishing(r) ==
  /\ ~Ended(r) /\ UNCHANGED <<got, shown>>
  /\ \E events \in Seq(RunPhases) :
       /\ events # << >> /\ Publish(r, events)
       /\ \A i \in 1 .. Len(events) - 1 : events[i] \notin Terminal

LEMMA UploadConcludes ==
  ASSUME TypeOK, Order, NEW r \in Runs, UploadEnds(r)
  PROVE  /\ Publishing(r)
         /\ \E p \in Terminal : /\ phase' = [phase EXCEPT ![r] = p]
                               /\ report' = [report EXCEPT ![r] = p = "completed"]
<1>1. PICK status \in Outcomes \cup OwnOutcomes \cup {"error"},
           events \in Seq({"exploring"}) : Concludes(r, status, events)
  <2>1. << >> \in Seq({"exploring"}) /\ <<"exploring", "exploring">> \in Seq({"exploring"})
    OBVIOUS
  <2> QED BY <2>1, UploadOutcomesAreKnown DEF UploadEnds
<1>2. ~Ended(r) /\ UNCHANGED <<got, shown>>
  BY DEF UploadEnds, Ended, Terminal
<1> QED BY <1>1, <1>2, ConclusionIsTyped DEF Publishing

LEMMA SearchConcludes ==
  ASSUME TypeOK, Order, NEW r \in Runs, SearchEnds(r)
  PROVE  /\ Publishing(r)
         /\ \E p \in Terminal : /\ phase' = [phase EXCEPT ![r] = p]
                               /\ report' = [report EXCEPT ![r] = p = "completed"]
<1>1. PICK status \in Outcomes \cup OwnOutcomes \cup {"error"} : Concludes(r, status, << >>)
  BY DEF SearchEnds, Order, CloneOrder
<1>2. << >> \in Seq({"exploring"})
  OBVIOUS
<1>3. ~Ended(r) /\ UNCHANGED <<got, shown>>
  BY DEF SearchEnds, Ended, Terminal
<1> QED BY <1>1, <1>2, <1>3, ConclusionIsTyped DEF Publishing

LEMMA UploadStarts ==
  ASSUME TypeOK, Order, NEW r \in Runs, UploadPosted(r)
  PROVE  /\ Publishing(r) /\ kind[r] = "none"
         /\ phase' = [phase EXCEPT ![r] = "exploring"]
         /\ \E k \in {"compose", "local-process"} : kind' = [kind EXCEPT ![r] = k]
<1>1. PICK folder \in Folders : Target(folder) # "rejected" /\ Starts(r, Target(folder))
  BY DEF UploadPosted
<1>2. Target(folder) \in {"compose", "local-process"}
  BY <1>1, TargetIsKnown
<1>3. /\ kind[r] = "none" /\ kind' = [kind EXCEPT ![r] = Target(folder)]
      /\ <<"exploring">> \in Seq(RunPhases) /\ <<"exploring">> # << >>
      /\ \A i \in 1 .. Len(<<"exploring">>) - 1 : <<"exploring">>[i] \notin Terminal
      /\ Publish(r, <<"exploring">>) /\ phase' = [phase EXCEPT ![r] = "exploring"]
  BY <1>1, <1>2, StartIsTyped
<1>4. ~Ended(r) /\ UNCHANGED <<got, shown>>
  BY <1>3 DEF UploadPosted, Ended, Terminal, Order, StoreOrder
<1> QED BY <1>2, <1>3, <1>4 DEF Publishing

LEMMA SearchStarts ==
  ASSUME TypeOK, Order, NEW r \in Runs, SearchPosted(r)
  PROVE  /\ Publishing(r) /\ kind[r] = "none" /\ kind' = [kind EXCEPT ![r] = "search"]
         /\ \/ /\ Called(r) /\ phase' = [phase EXCEPT ![r] = "exploring"]
               /\ report' = report
            \/ /\ UNCHANGED onboardingVars
               /\ phase' = [phase EXCEPT ![r] = "error"]
               /\ report' = [report EXCEPT ![r] = FALSE]
<1>1. /\ kind[r] = "none" /\ ~Ended(r) /\ UNCHANGED <<got, shown>>
  BY DEF SearchPosted, Ended, Terminal, Order, StoreOrder
<1>2. CASE bound
  <2>1. Starts(r, "search") /\ Called(r) /\ report' = report
    BY <1>2 DEF SearchPosted
  <2>2. /\ kind' = [kind EXCEPT ![r] = "search"]
        /\ <<"exploring">> \in Seq(RunPhases) /\ <<"exploring">> # << >>
        /\ \A i \in 1 .. Len(<<"exploring">>) - 1 : <<"exploring">>[i] \notin Terminal
        /\ Publish(r, <<"exploring">>) /\ phase' = [phase EXCEPT ![r] = "exploring"]
    BY <2>1, StartIsTyped
  <2> QED BY <1>1, <2>1, <2>2 DEF Publishing
<1>3. CASE ~bound
  <2>1. /\ Concludes(r, "error", <<"exploring">>) /\ <<"exploring">> \in Seq({"exploring"})
        /\ kind' = [kind EXCEPT ![r] = "search"] /\ UNCHANGED onboardingVars
    BY <1>3 DEF SearchPosted
  <2>2. PhaseOf("error") = "error" /\ "error" # "completed"
    BY DEF PhaseOf
  <2>3. /\ phase' = [phase EXCEPT ![r] = "error"]
        /\ report' = [report EXCEPT ![r] = FALSE]
        /\ Publishing(r)
    <3> DEFINE status == "error"
               events == <<"exploring">>
               all == Append(events, PhaseOf(status))
    <3>1. status \in Outcomes \cup OwnOutcomes \cup {"error"}
      OBVIOUS
    <3>2. Concludes(r, status, events) /\ events \in Seq({"exploring"})
      BY <2>1
    <3>3. (PhaseOf(status) = "completed") = FALSE /\ PhaseOf(status) = "error"
      BY <2>2
    <3> HIDE DEF status, events
    <3>4. /\ all \in Seq(RunPhases) /\ all # << >>
          /\ \A i \in 1 .. Len(all) - 1 : all[i] \notin Terminal
          /\ Publish(r, all)
          /\ phase' = [phase EXCEPT ![r] = PhaseOf(status)]
          /\ report' = [report EXCEPT ![r] = PhaseOf(status) = "completed"]
      BY <3>1, <3>2, ConclusionIsTyped
    <3> HIDE DEF all
    <3>5. Publishing(r)
      BY <1>1, <3>4 DEF Publishing
    <3> QED BY <3>3, <3>4, <3>5
  <2> QED BY <1>1, <2>1, <2>3
<1> QED BY <1>2, <1>3

LEMMA OnboardingKeepsClones ==
  ASSUME OnboardingTypeOK, CloneOrder, NEW r \in Runs, Onboards(r) \/ Called(r)
  PROVE  /\ CloneOrder' /\ at[r] \notin {"returned", "rejected"}
         /\ \A q \in Runs : q # r => at'[q] = at[q]
         /\ Called(r) \/ at[r] # "idle"
<1> USE DEF OnboardingTypeOK, CloneOrder, Goes
<1>1. ASSUME Removes(r) PROVE \E c \in {"removed", "left"} : clone' = [clone EXCEPT ![r] = c]
  BY <1>1 DEF Removes
<1>2. CASE Called(r)
  BY <1>2 DEF Called
<1>3. CASE CheckoutResolved(r) \/ CheckoutMissing(r)
  BY <1>3 DEF CheckoutResolved, CheckoutMissing, Acquiring
<1>4. CASE GitSucceeds(r)
  BY <1>4 DEF GitSucceeds, Acquiring
<1>5. CASE Frozen(r)
  BY <1>5 DEF Frozen, Acquiring
<1>6. CASE AcquisitionFails(r)
  BY <1>1, <1>6 DEF AcquisitionFails, Acquiring
<1>7. CASE Prepared(r)
  BY <1>7 DEF Prepared
<1>8. CASE PrepareStops(r)
  BY <1>8 DEF PrepareStops, OwnOutcomes
<1>9. CASE Searched(r)
  BY <1>9 DEF Searched, OwnOutcomes
<1>10. CASE Disposed(r)
  BY <1>1, <1>10 DEF Disposed
<1> QED BY <1>2, <1>3, <1>4, <1>5, <1>6, <1>7, <1>8, <1>9, <1>10 DEF Onboards

LEMMA ClonesKept ==
  ASSUME TypeOK, Order, [Next]_vars
  PROVE  CloneOrder'
<1> USE DEF onboardingVars, storeVars, clientVars
<1>1. CASE UNCHANGED onboardingVars
  BY <1>1 DEF Order, CloneOrder
<1>2. ASSUME NEW r \in Runs, Called(r) \/ Onboards(r) PROVE CloneOrder'
  BY <1>2, OnboardingKeepsClones DEF TypeOK, Order
<1>3. UNCHANGED onboardingVars \/ \E r \in Runs : Called(r) \/ Onboards(r)
  BY DEF Next, Serves, Follows, UploadPosted, SearchPosted, UploadEnds, SearchGoesOn,
         SearchEnds, Subscribes, Connected, Received, StreamEnds, Fetched, FetchFails,
         Drops, vars
<1> QED BY <1>1, <1>2, <1>3

LEMMA StoreKept ==
  ASSUME TypeOK, Order, [Next]_vars
  PROVE  StoreOrder' /\ \A q \in Runs : Ended(q) => phase'[q] = phase[q]
<1> USE DEF onboardingVars, storeVars, clientVars, Ended
<1>0. /\ "completed" \in Terminal /\ "exploring" \notin Terminal /\ "none" \notin Terminal
      /\ "error" # "completed"
  BY DEF Terminal
<1>1. ASSUME NEW r \in Runs, UploadPosted(r)
      PROVE StoreOrder' /\ \A q \in Runs : Ended(q) => phase'[q] = phase[q]
  BY <1>0, <1>1, UploadStarts DEF UploadPosted, TypeOK, Order, StoreOrder
<1>2. ASSUME NEW r \in Runs, UploadEnds(r)
      PROVE StoreOrder' /\ \A q \in Runs : Ended(q) => phase'[q] = phase[q]
  <2>1. ~Ended(r)
    BY <1>2, UploadConcludes DEF Publishing
  <2>2. PICK p \in Terminal : /\ phase' = [phase EXCEPT ![r] = p]
                              /\ report' = [report EXCEPT ![r] = p = "completed"]
    BY <1>2, UploadConcludes
  <2> QED BY <1>0, <1>2, <2>1, <2>2 DEF UploadEnds, TypeOK, Order, StoreOrder
<1>3. ASSUME NEW r \in Runs, SearchPosted(r)
      PROVE StoreOrder' /\ \A q \in Runs : Ended(q) => phase'[q] = phase[q]
  <2>1. kind[r] = "none" /\ ~Ended(r) /\ kind' = [kind EXCEPT ![r] = "search"]
    BY <1>3, SearchStarts DEF Publishing
  <2>2. CASE /\ Called(r) /\ phase' = [phase EXCEPT ![r] = "exploring"]
             /\ report' = report
    <3>1. OnboardingTypeOK /\ CloneOrder /\ (Onboards(r) \/ Called(r))
      BY <2>2 DEF TypeOK, Order
    <3>2. \A q \in Runs : q # r => at'[q] = at[q]
      BY <3>1, OnboardingKeepsClones
    <3> QED BY <1>0, <2>1, <2>2, <3>2 DEF TypeOK, Order, StoreOrder
  <2>3. CASE /\ UNCHANGED onboardingVars /\ phase' = [phase EXCEPT ![r] = "error"]
             /\ report' = [report EXCEPT ![r] = FALSE]
    BY <1>0, <2>1, <2>3 DEF TypeOK, Order, StoreOrder
  <2> QED BY <1>3, <2>2, <2>3, SearchStarts
<1>4. ASSUME NEW r \in Runs, SearchGoesOn(r)
      PROVE StoreOrder' /\ \A q \in Runs : Ended(q) => phase'[q] = phase[q]
  <2>0. OnboardingTypeOK /\ CloneOrder /\ (Onboards(r) \/ Called(r)) /\ kind[r] = "search"
    BY <1>4 DEF SearchGoesOn, TypeOK, Order
  <2>1. /\ kind[r] = "search" /\ at[r] \notin {"returned", "rejected"}
        /\ \A q \in Runs : q # r => at'[q] = at[q]
        /\ Called(r) \/ at[r] # "idle"
    BY <2>0, OnboardingKeepsClones
  <2>2. ~Called(r)
    BY <1>4 DEF SearchGoesOn, Onboards, Called, CheckoutResolved, CheckoutMissing,
                GitSucceeds, Frozen, AcquisitionFails, Acquiring, Prepared, PrepareStops,
                Searched, Disposed
  <2> QED BY <1>4, <2>1, <2>2 DEF SearchGoesOn, Order, StoreOrder
<1>5. ASSUME NEW r \in Runs, SearchEnds(r)
      PROVE StoreOrder' /\ \A q \in Runs : Ended(q) => phase'[q] = phase[q]
  <2>1. ~Ended(r)
    BY <1>5, SearchConcludes DEF Publishing
  <2>2. PICK p \in Terminal : /\ phase' = [phase EXCEPT ![r] = p]
                              /\ report' = [report EXCEPT ![r] = p = "completed"]
    BY <1>5, SearchConcludes
  <2> QED BY <1>0, <1>5, <2>1, <2>2 DEF SearchEnds, TypeOK, Order, StoreOrder
<1>6. CASE UNCHANGED <<kind, phase, report, onboardingVars>>
  BY <1>6 DEF Order, StoreOrder
<1>7. \/ UNCHANGED <<kind, phase, report, onboardingVars>>
      \/ \E r \in Runs : UploadPosted(r) \/ UploadEnds(r) \/ SearchPosted(r)
                           \/ SearchGoesOn(r) \/ SearchEnds(r)
  BY DEF Next, Serves, Follows, Subscribes, Connected, Received, StreamEnds, Fetched,
         FetchFails, Drops, vars
<1> QED BY <1>1, <1>2, <1>3, <1>4, <1>5, <1>6, <1>7

LEMMA StreamsKept ==
  ASSUME TypeOK, Order, [Next]_vars
  PROVE  StreamOrder' /\ StreamsAreCurrent'
<1> USE DEF onboardingVars, storeVars, clientVars, Ended
<1>1. ASSUME NEW r \in Runs, Publishing(r) PROVE StreamOrder' /\ StreamsAreCurrent'
  BY <1>1, PublishedIsCurrent DEF Publishing, Order
<1>2. ASSUME NEW r \in Runs, Subscribes(r) PROVE StreamOrder' /\ StreamsAreCurrent'
  BY <1>2 DEF Subscribes, TypeOK, Order, StreamOrder, StreamsAreCurrent
<1>3. ASSUME NEW r \in Runs, Connected(r) PROVE StreamOrder' /\ StreamsAreCurrent'
  <2>1. /\ chan' = [chan EXCEPT ![r] = <<phase[r]>>]
        /\ conn' = [conn EXCEPT ![r] = IF phase[r] \in Terminal THEN "ended" ELSE "open"]
        /\ UNCHANGED <<phase, got, shown>>
    BY <1>3 DEF Connected
  <2>2. /\ Len(<<phase[r]>>) = 1 /\ <<phase[r]>> # << >> /\ <<phase[r]>>[1] = phase[r]
        /\ Last(<<phase[r]>>) = phase[r]
    BY DEF Last
  <2>3. chan'[r] = <<phase[r]>> /\ \A q \in Runs : q # r => chan'[q] = chan[q]
    BY <2>1 DEF TypeOK
  <2>4. StreamOrder'
    BY <2>1, <2>2, <2>3 DEF TypeOK, Order, StreamOrder
  <2>5. StreamsAreCurrent'
    BY <2>1, <2>2, <2>3 DEF TypeOK, Order, StreamsAreCurrent
  <2> QED BY <2>4, <2>5
<1>4. ASSUME NEW r \in Runs, Received(r) PROVE StreamOrder' /\ StreamsAreCurrent'
  <2> DEFINE event == Head(chan[r])
  <2>1. /\ conn[r] \in {"open", "ended"} /\ chan[r] # << >>
        /\ got' = [got EXCEPT ![r] = event] /\ UNCHANGED <<phase>>
    BY <1>4 DEF Received
  <2>2. chan[r] \in Seq(RunPhases)
    BY DEF TypeOK
  <2>3. CASE event \in Heard
    <3>1. /\ conn' = [conn EXCEPT ![r] = "fetching"] /\ chan' = [chan EXCEPT ![r] = << >>]
          /\ UNCHANGED shown
      BY <1>4, <2>3 DEF Received
    <3>2. event \in Terminal
      BY <2>3 DEF Heard, Terminal
    <3>3. event = chan[r][1] /\ 1 \in 1 .. Len(chan[r])
      BY <2>1, <2>2, LastOfTail
    <3>4. phase[r] \in Terminal
      BY <3>2, <3>3 DEF Order, StreamOrder
    <3>5. Len(<< >>) = 0
      OBVIOUS
    <3>6. StreamOrder'
      BY <2>1, <3>1, <3>4, <3>5 DEF TypeOK, Order, StreamOrder
    <3>7. StreamsAreCurrent'
      BY <2>1, <3>1 DEF TypeOK, Order, StreamsAreCurrent
    <3> QED BY <3>6, <3>7
  <2>4. CASE event \notin Heard
    <3> DEFINE rest == Tail(chan[r])
    <3>1. chan' = [chan EXCEPT ![r] = rest] /\ UNCHANGED <<conn, shown>>
      BY <1>4, <2>4 DEF Received
    <3>2. /\ rest # << >> => Last(rest) = Last(chan[r])
          /\ rest = << >> => event = Last(chan[r])
          /\ \A i \in 1 .. Len(rest) : rest[i] = chan[r][i + 1] /\ i + 1 \in 1 .. Len(chan[r])
      BY <2>1, <2>2, LastOfTail
    <3>3. /\ chan'[r] = rest /\ got'[r] = event
          /\ \A q \in Runs : q # r => chan'[q] = chan[q] /\ got'[q] = got[q]
      BY <2>1, <3>1 DEF TypeOK
    <3>4. \A i \in 1 .. Len(rest) : rest[i] \in Terminal => rest[i] = phase[r]
      BY <3>2 DEF Order, StreamOrder
    <3> HIDE DEF rest, event
    <3>5. StreamOrder'
      BY <2>1, <3>1, <3>3, <3>4 DEF Order, StreamOrder
    <3>6. StreamsAreCurrent'
      BY <2>1, <3>1, <3>2, <3>3 DEF Order, StreamsAreCurrent
    <3> QED BY <3>5, <3>6
  <2> QED BY <2>3, <2>4
<1>5. ASSUME NEW r \in Runs, StreamEnds(r) \/ Drops(r) PROVE StreamOrder' /\ StreamsAreCurrent'
  <2>1. /\ conn' = [conn EXCEPT ![r] = "connecting"] /\ chan' = [chan EXCEPT ![r] = << >>]
        /\ shown' = [shown EXCEPT ![r] = "lost"] /\ UNCHANGED <<phase, got>>
    BY <1>5 DEF StreamEnds, Drops, Reconnects
  <2>2. "lost" \notin Terminal /\ Len(<< >>) = 0
    BY DEF Terminal
  <2>3. StreamOrder'
    BY <2>1, <2>2 DEF TypeOK, Order, StreamOrder
  <2>4. StreamsAreCurrent'
    BY <2>1 DEF TypeOK, Order, StreamsAreCurrent
  <2> QED BY <2>3, <2>4
<1>6. ASSUME NEW r \in Runs, Fetched(r) \/ FetchFails(r)
      PROVE  StreamOrder' /\ StreamsAreCurrent'
  BY <1>6 DEF Fetched, FetchFails, TypeOK, Order, StreamOrder, StreamsAreCurrent
<1>7. CASE UNCHANGED <<phase, conn, chan, got, shown>>
  BY <1>7 DEF Order, StreamOrder, StreamsAreCurrent
<1>8. \/ UNCHANGED <<phase, conn, chan, got, shown>>
      \/ \E r \in Runs : \/ UploadPosted(r) \/ UploadEnds(r) \/ SearchPosted(r)
                            \/ SearchEnds(r) \/ Subscribes(r) \/ Connected(r)
                            \/ Received(r) \/ StreamEnds(r) \/ Drops(r)
                            \/ Fetched(r) \/ FetchFails(r)
  BY DEF Next, Serves, Follows, SearchGoesOn, vars
<1>9. \A r \in Runs : UploadPosted(r) \/ UploadEnds(r) \/ SearchPosted(r) \/ SearchEnds(r)
                        => Publishing(r)
  BY UploadStarts, UploadConcludes, SearchStarts, SearchConcludes
<1> QED BY <1>1, <1>2, <1>3, <1>4, <1>5, <1>6, <1>7, <1>8, <1>9

-----------------------------------------------------------------------------
LEMMA InitiallyOrdered == Init => TypeOK /\ Order
<1> SUFFICES ASSUME Init PROVE TypeOK /\ Order
  OBVIOUS
<1> USE DEF Init, OnboardingInit
<1>1. "none" \in RunPhases /\ "none" \notin Terminal
  BY DEF RunPhases, Terminal
<1>2. << >> \in Seq(RunPhases) /\ Len(<< >>) = 0
  OBVIOUS
<1>3. TypeOK
  BY <1>1, <1>2, ApiAssumption
     DEF TypeOK, OnboardingTypeOK, Places, Clones, Connections, Pages
<1>4. StoreOrder /\ CloneOrder
  BY <1>1 DEF StoreOrder, CloneOrder, Ended
<1>5. StreamOrder /\ StreamsAreCurrent
  BY <1>1, <1>2 DEF StreamOrder, StreamsAreCurrent, Ended
<1> QED BY <1>3, <1>4, <1>5 DEF Order

LEMMA OrderIsInductive == TypeOK /\ Order /\ [Next]_vars => (TypeOK /\ Order)'
BY TypesKept, StoreKept, ClonesKept, StreamsKept DEF Order

LEMMA AlwaysOrdered == Spec => [](TypeOK /\ Order)
BY InitiallyOrdered, OrderIsInductive, PTL DEF Spec

(* Every variable of the service, its searches and its pages keeps its type. *)
THEOREM TypeCorrect == Spec => []TypeOK
<1>1. TypeOK /\ Order => TypeOK
  OBVIOUS
<1> QED BY <1>1, AlwaysOrdered, PTL

(* workspace.ts: a clone is there and frozen while its search prepares or runs,
   for any number of searches at once. *)
THEOREM WorkspaceIsHeld == Spec => []WorkspaceOutlivesItsUse
<1>1. TypeOK /\ Order => WorkspaceOutlivesItsUse
  BY DEF Order, CloneOrder, WorkspaceOutlivesItsUse
<1> QED BY <1>1, AlwaysOrdered, PTL

(* onboarding.ts, app.ts: the terminal phase of a search is published after its
   clone has been removed, or could not be. *)
THEOREM EndedRunsHoldNothing == Spec => []EndedSearchHoldsNoClone
<1>1. TypeOK /\ Order => EndedSearchHoldsNoClone
  BY DEF Order, StoreOrder, CloneOrder, EndedSearchHoldsNoClone
<1> QED BY <1>1, AlwaysOrdered, PTL

(* app.ts: no stream is left open on a run that has ended, and what an open one
   holds last is the present phase, through any connections and drops. *)
THEOREM StreamsFollow == Spec => []StreamsAreCurrent
<1>1. TypeOK /\ Order => StreamsAreCurrent
  BY DEF Order
<1> QED BY <1>1, AlwaysOrdered, PTL

(* run-service.ts, app.ts: a page that shows a completed run has its report. *)
THEOREM ReportsExist == Spec => []ReportsAreOfCompletedRuns
<1>1. "completed" \in Terminal
  BY DEF Terminal
<1>2. TypeOK /\ Order => ReportsAreOfCompletedRuns
  BY <1>1 DEF Order, StoreOrder, StreamOrder, ReportsAreOfCompletedRuns
<1> QED BY <1>2, AlwaysOrdered, PTL

(* run-service.ts, app.ts: no step publishes a run again that has ended. *)
THEOREM EndsOnce == Spec => OneTerminalPhase
<1>1. TypeOK /\ Order /\ [Next]_vars => [\A r \in Runs : Ended(r) => phase'[r] = phase[r]]_vars
  BY StoreKept
<1> QED BY <1>1, AlwaysOrdered, PTL DEF Spec, OneTerminalPhase

=============================================================================
