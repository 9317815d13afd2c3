--------------------------- MODULE CandidatePlans ---------------------------
(***************************************************************************)
(* The schedules DSRD plans (packages/scheduler/src/candidates.ts), as     *)
(* functions from the perturbable dimensions to delays, 0 for none.  Their *)
(* order is that of the code: it decides which failure is found first and  *)
(* what a budget leaves untested.                                          *)
(***************************************************************************)
EXTENDS Integers, Sequences, FiniteSets, SequencesExt

(* new Set keeps the first of equal options, the filter those that are wanted. *)
Distinct(options, wanted) ==
  LET kept[i \in 0 .. Len(options)] ==
        IF i = 0 THEN << >>
        ELSE LET before == kept[i - 1]
             IN IF options[i] \in wanted \ ToSet(before) THEN Append(before, options[i])
                ELSE before
  IN kept[Len(options)]

UniqueDelays(options) == Distinct(options, Nat)
PositiveDelays(options) == Distinct(options, Nat \ {0})

Empty(dims) == [d \in 1 .. dims |-> 0]
FlatMap(n, Op(_)) == FlattenSeq([i \in 1 .. n |-> Op(i)])

(* One dimension after the other, each with every positive delay; the empty
   schedule first.  generateFocusedCandidates gives the same schedules. *)
Isolated(dims, options) ==
  LET delays == PositiveDelays(options)
  IN <<Empty(dims)>> \o FlatMap(dims, LAMBDA d :
       [i \in DOMAIN delays |-> [Empty(dims) EXCEPT ![d] = delays[i]]])

(* Each dimension with each later one, the delays of the later one going round
   fastest. *)
Pairwise(dims, options) ==
  LET delays == PositiveDelays(options)
  IN FlatMap(dims, LAMBDA left :
       FlatMap(dims - left, LAMBDA k :
         FlatMap(Len(delays), LAMBDA i : [j \in DOMAIN delays |->
           [Empty(dims) EXCEPT ![left] = delays[i], ![left + k] = delays[j]]])))

(* cartesianProduct and valueCombinations: one dimension after the other, each
   combination so far with every delay, so that the last dimension goes round
   fastest. *)
Combinations(dims, delays) ==
  LET combinations[k \in 0 .. dims] ==
        IF k = 0 THEN << << >> >>
        ELSE LET before == combinations[k - 1]
             IN FlatMap(Len(before), LAMBDA i :
                  [j \in DOMAIN delays |-> Append(before[i], delays[j])])
  IN combinations[dims]

(* Each combination made a schedule, its values taken by the dimensions in turn. *)
Product(dims, delays) ==
  LET values == Combinations(dims, delays)
  IN [i \in DOMAIN values |-> [d \in 1 .. dims |-> values[i][d]]]

(* generateCandidates takes the product of the options as they are, the full
   stage that of the delays among them. *)
Full(dims, options) == Product(dims, UniqueDelays(options))

Adaptive(dims, options) ==
  Isolated(dims, options) \o Pairwise(dims, options) \o Full(dims, options)

-----------------------------------------------------------------------------
(* Each plan against what it is for: the schedules over the options that delay
   at most one dimension, exactly two, and any, each of them once; and the plain
   grid, which repeats what the options repeat. *)
Once(plan, schedules) == ToSet(plan) = schedules /\ Len(plan) = Cardinality(schedules)

PlansAreExact(dims, options) ==
  LET given == ToSet(options)
      Delaying(counts) == {s \in [1 .. dims -> given \cup {0}] :
                             Cardinality({d \in 1 .. dims : s[d] > 0}) \in counts}
  IN /\ Once(Isolated(dims, options), Delaying({0, 1}))
     /\ Once(Pairwise(dims, options), Delaying({2}))
     /\ Once(Full(dims, options), [1 .. dims -> given])
     /\ ToSet(Product(dims, options)) = [1 .. dims -> given]

=============================================================================
