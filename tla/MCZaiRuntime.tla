---------------------------- MODULE MCZaiRuntime ----------------------------
(* Instances of ZaiRuntime for TLC. *)
EXTENDS ZaiRuntime, TLC

(* Calls of one kind are interchangeable, and so are accounts, directories *)
(* and usage records of one kind.                                          *)
MCSymmetry ==
  Permutations(Reconfigurers) \cup Permutations(Updaters) \cup Permutations(Refreshers)
    \cup Permutations(Accounts) \cup Permutations(Dirs) \cup Permutations(Usage \ Throttled)
    \cup Permutations(Stoppers)
=============================================================================
