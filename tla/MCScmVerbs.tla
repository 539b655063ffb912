----------------------------- MODULE MCScmVerbs -----------------------------
(* ScmVerbs with one or two processes, which are interchangeable.          *)
EXTENDS ScmVerbs, TLC

Symmetry == Permutations(Procs)
=============================================================================
