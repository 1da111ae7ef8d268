---------------------------- MODULE MCFileCache ----------------------------
(* Symmetry for model checking FileCache: processes, decisions and temporary *)
(* names are interchangeable.                                                *)
EXTENDS FileCache, TLC

CacheSymmetry == Permutations(Procs) \cup Permutations(Decisions) \cup Permutations(Temps)
=============================================================================
