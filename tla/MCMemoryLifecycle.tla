-------------------------- MODULE MCMemoryLifecycle --------------------------
(* Small sets of requests for MemoryLifecycle, alike within each kind,     *)
(* and of contents, alike too.                                             *)
EXTENDS MemoryLifecycle, TLC

Alike == Permutations(Updaters) \cup Permutations(Movers) \cup Permutations(Bumpers)
           \cup Permutations(Bodies)
=============================================================================
