---------------------------- MODULE MCApiService ----------------------------
(***************************************************************************)
(* Small instances for checking ApiService.                                *)
(***************************************************************************)
EXTENDS ApiService, TLC

CONSTANT r1

OneRun == {r1}

MCOutcomes == {"found_failure", "no_failure", "inconclusive"}
OnlyNoFailure == {"no_failure"}

(* Folders with one target, with both, with a choice between them, with none. *)
MCFolders ==
  [composes : 0..2, manifests : 0..1, platform : {"any", "compose", "local-process"}]
=============================================================================
