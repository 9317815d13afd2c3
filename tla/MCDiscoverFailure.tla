------------------------- MODULE MCDiscoverFailure -------------------------
(***************************************************************************)
(* Small targets and option sets for checking DiscoverFailure.             *)
(***************************************************************************)
EXTENDS DiscoverFailure, CandidatePlans

(* Each schedule as a function over Dims, the form the model computes: TLC orders
   tuples and such functions differently, and a set of both may hold one twice. *)
AsSchedules(list) == [i \in DOMAIN list |-> [d \in Dims |-> list[i][d]]]

(* The plan the CLI makes for three dimensions from a list of delay options, one of
   them repeated: isolated, pairwise, and the full grid, which has all of these
   again.  Written out, because TLC would compute it at every use. *)
OptionList == <<0, 1, 1>>
ListedDelays == ToSet(OptionList)
AdaptivePlan == AsSchedules(
  << <<0, 0, 0>>, <<1, 0, 0>>, <<0, 1, 0>>, <<0, 0, 1>>,
     <<1, 1, 0>>, <<1, 0, 1>>, <<0, 1, 1>>,
     <<0, 0, 0>>, <<0, 0, 1>>, <<0, 1, 0>>, <<0, 1, 1>>,
     <<1, 0, 0>>, <<1, 0, 1>>, <<1, 1, 0>>, <<1, 1, 1>> >>)

ASSUME PlannedByTheCode ==
  NumDims = 3 => AdaptivePlan = Adaptive(NumDims, OptionList)

(* PlannedExactly, on small instances: the plans of small targets and of options
   with a zero, without, unsorted and with repetitions. *)
Lists == {<<0>>, <<1>>, <<2, 0>>, <<0, 1, 2, 1>>, <<1, 1, 0>>}

ASSUME SmallPlansAreExact ==
  \A dims \in 0 .. 3, list \in Lists :
    /\ PlansAreExact(dims, list)
    /\ Len(Product(dims, list)) = Len(list) ^ dims

(* Long delays, so that the minimizer has work to do, and the longest last, so that
   a discovery may need as many runs as RunsAreBounded allows. *)
LargeCandidates == AsSchedules(<< <<0, 0>>, <<0, 2>>, <<1, 2>>, <<0, 2>>, <<2, 2>> >>)

(* Three dimensions: failures are met in schedules the minimizer can reduce in
   several ways; the last candidates repeat earlier ones. *)
ThreeDimCandidates == AsSchedules(
  << <<0, 0, 0>>, <<3, 0, 0>>, <<0, 2, 1>>, <<1, 3, 2>>, <<3, 0, 0>>,
     <<3, 3, 3>>, <<0, 0, 0>>, <<1, 1, 1>> >>)

Failure(reason, signature, events) ==
  [reason |-> reason, signature |-> signature, events |-> events]

Refused == Failure("refused", "readiness", <<"db_exited", "api_refused">>)
SameReason == Failure("refused", "exit", <<"api_refused">>)
Unsigned == Failure("refused", NoSignature, << >>)

OneFailure == {Refused}
TwoFailures == {Refused, SameReason}
UnsignedFailures == {Refused, Unsigned}

(* Any answer at any time. *)
FlakyPlatforms == {[s \in Schedules |-> RunResults]}

(* Targets that fail exactly from some schedules up, always the same way. *)
Failing == [status |-> "workload_failure", failure |-> Refused, reset |-> FALSE]
Healthy == [status |-> "healthy", failure |-> NoFailure, reset |-> FALSE]

MonotonePlatforms ==
  LET from(G) == {s \in Schedules : \E g \in G : \A d \in Dims : g[d] <= s[d]}
      targets == {from({g, h}) : g, h \in Schedules}
  IN {[s \in Schedules |-> IF s \in U THEN {Failing} ELSE {Healthy}] : U \in targets \cup {{}}}

MixedPlatforms == FlakyPlatforms \cup MonotonePlatforms

(* Option sets. *)
Option(staged, verified, canReplay, valid) ==
  [staged |-> staged, verified |-> verified, canReplay |-> canReplay,
   provenanceValid |-> valid]

VerifiedOptions == {Option(TRUE, TRUE, TRUE, TRUE)}
AllOptions == OptionFields
VerifiedAnyhow == {o \in OptionFields : o.verified}
WorkingOptions == {o \in OptionFields : o.provenanceValid /\ o.canReplay}
=============================================================================
