----------------------------- MODULE Onboarding -----------------------------
(***************************************************************************)
(* The search of a repository: createOnboardingService.search              *)
(* (packages/scheduler/src/onboarding.ts) and the workspace it acquires    *)
(* and disposes of (packages/discovery/src/workspace.ts).  A checkout is   *)
(* used in place; a git repository is cloned to a directory DSRD owns,     *)
(* frozen, used and removed.  What the target then does is one step here:  *)
(* DiscoverFailure has its detail.                                         *)
(***************************************************************************)
EXTENDS Naturals

CONSTANTS
  Runs,     \* calls of search
  Outcomes, \* what discoverFailure may return for the targets at hand
  Faulty    \* git, the file system and the platform may fail

ASSUME OnboardingAssumption ==
  /\ Outcomes \subseteq {"found_failure", "no_failure", "target_unhealthy",
                       "execution_error", "inconclusive"}
  /\ Faulty \in BOOLEAN

VARIABLES
  input,  \* "checkout" or "git"
  at,     \* where each search is
  git,    \* git commands that have succeeded, of clone, checkout, rev-parse
  clone,  \* the directory the search owns
  outcome \* the status it returns

onboardingVars == <<input, at, git, clone, outcome>>

Places == {"idle", "acquiring", "preparing", "searching", "disposing", "returned",
           "rejected"}
Clones == {"none", "writable", "frozen", "removed", "left"}
OwnOutcomes == {"needs_configuration", "unsupported_target", "execution_error"}

OnboardingInit ==
  /\ input \in [Runs -> {"checkout", "git"}]
  /\ at = [r \in Runs |-> "idle"] /\ git = [r \in Runs |-> 0]
  /\ clone = [r \in Runs |-> "none"] /\ outcome = [r \in Runs |-> "none"]

-----------------------------------------------------------------------------
Goes(r, place) == at' = [at EXCEPT ![r] = place]

(* Removing a tree either succeeds or leaves it. *)
Removes(r) ==
  \E c \in {"removed"} \cup (IF Faulty THEN {"left"} ELSE {}) :
    clone' = [clone EXCEPT ![r] = c]

Called(r) ==
  /\ at[r] = "idle"
  /\ Goes(r, "acquiring")
  /\ clone' = [clone EXCEPT ![r] = IF input[r] = "git" THEN "writable" ELSE "none"]
  /\ UNCHANGED <<input, git, outcome>>

Acquiring(r) == at[r] = "acquiring"

(* A checkout is resolved to its real path and is not owned. *)
CheckoutResolved(r) ==
  /\ Acquiring(r) /\ input[r] = "checkout"
  /\ Goes(r, "preparing")
  /\ UNCHANGED <<input, git, clone, outcome>>

CheckoutMissing(r) ==
  /\ Acquiring(r) /\ input[r] = "checkout" /\ Faulty
  /\ Goes(r, "rejected")
  /\ UNCHANGED <<input, git, clone, outcome>>

GitSucceeds(r) ==
  /\ Acquiring(r) /\ input[r] = "git" /\ git[r] < 3
  /\ git' = [git EXCEPT ![r] = @ + 1]
  /\ UNCHANGED <<input, at, clone, outcome>>

Frozen(r) ==
  /\ Acquiring(r) /\ input[r] = "git" /\ git[r] = 3
  /\ Goes(r, "preparing")
  /\ clone' = [clone EXCEPT ![r] = "frozen"]
  /\ UNCHANGED <<input, git, outcome>>

(* Mutant of AcquisitionFails: the directory is not removed. *)
AcquisitionFailsDirty(r) ==
  /\ Acquiring(r) /\ input[r] = "git" /\ Faulty
  /\ Goes(r, "rejected")
  /\ UNCHANGED <<input, git, clone, outcome>>

(* A command fails, is killed by its timer or by the signal, or the tree cannot
   be frozen: what there is of the clone is removed, and search rejects. *)
AcquisitionFails(r) ==
  /\ Acquiring(r) /\ input[r] = "git" /\ Faulty
  /\ Goes(r, "rejected") /\ Removes(r)
  /\ UNCHANGED <<input, git, outcome>>

Prepared(r) ==
  /\ at[r] = "preparing"
  /\ Goes(r, "searching")
  /\ UNCHANGED <<input, git, clone, outcome>>

(* No dsrd.yaml, no target to select, another adapter than configured, or an
   error of inspection, configuration or snapshot: nothing is executed. *)
PrepareStops(r) ==
  /\ at[r] = "preparing" /\ Faulty
  /\ Goes(r, "disposing")
  /\ \E o \in {"needs_configuration", "execution_error"} :
       outcome' = [outcome EXCEPT ![r] = o]
  /\ UNCHANGED <<input, git, clone>>

(* Mutant of Searched: the workspace is disposed of without waiting for the
   discovery that uses it. *)
SearchedEarly(r) ==
  /\ at[r] = "searching"
  /\ UNCHANGED at
  /\ Removes(r)
  /\ UNCHANGED <<input, git, outcome>>

(* A Kubernetes target is not searched; a platform that throws is an error. *)
Searched(r) ==
  /\ at[r] = "searching"
  /\ Goes(r, "disposing")
  /\ \E o \in Outcomes \cup (IF Faulty THEN {"unsupported_target", "execution_error"} ELSE {}) :
       outcome' = [outcome EXCEPT ![r] = o]
  /\ UNCHANGED <<input, git, clone>>

(* Only an owned workspace is removed, and the report of it is dropped. *)
Disposed(r) ==
  /\ at[r] = "disposing"
  /\ Goes(r, "returned")
  /\ IF input[r] = "git" THEN Removes(r) ELSE UNCHANGED clone
  /\ UNCHANGED <<input, git, outcome>>

Onboards(r) ==
  \/ CheckoutResolved(r) \/ CheckoutMissing(r)
  \/ GitSucceeds(r) \/ Frozen(r) \/ AcquisitionFails(r)
  \/ Prepared(r) \/ PrepareStops(r) \/ Searched(r) \/ Disposed(r)

-----------------------------------------------------------------------------
OnboardingTypeOK ==
  /\ input \in [Runs -> {"checkout", "git"}] /\ at \in [Runs -> Places]
  /\ git \in [Runs -> 0..3] /\ clone \in [Runs -> Clones]
  /\ outcome \in [Runs -> {"none"} \cup Outcomes \cup OwnOutcomes]

(* A clone is there, and frozen, as long as its search may read or execute it,
   whatever else goes on. *)
WorkspaceOutlivesItsUse ==
  \A r \in Runs :
    at[r] \in {"preparing", "searching"} /\ input[r] = "git" => clone[r] = "frozen"

=============================================================================
