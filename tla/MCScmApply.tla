----------------------------- MODULE MCScmApply -----------------------------
EXTENDS ScmApply, TLC

\* Each has what another must clear: an account with a password, restarts, an
\* environment; the shim has neither of the last two to show.
MCSpecs == {
    [id |-> "own", kind |-> "managed", command |-> "a", user |-> "person",
     env |-> {"A=1"}, restart |-> "on-failure"],
    [id |-> "own", kind |-> "simple", command |-> "a", user |-> "S-1-5-18",
     env |-> {"A=1"}, restart |-> "never"]}

\* One spec nobody can install any more.
MCAllSpecs == MCSpecs \cup {
    [id |-> "own", kind |-> "managed", command |-> "a", user |-> "LocalService",
     env |-> {}, restart |-> "always"]}

Symmetry == Permutations(Runs)
=============================================================================
