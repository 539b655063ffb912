------------------------------ MODULE MCLaunchd -----------------------------
EXTENDS Launchd, TLC

CONSTANT S1      \* a spec

\* What is at the path at first: nothing, S1's plist in any form, another spec's
\* as this release writes it, one whose blob does not decode, another's.
FirstPlists == {Nothing, Unusable, Foreign} \cup {render(s) : s \in Specs} \cup [spec : {S1}, form : Forms]

Symmetry == Permutations(Runs)
=============================================================================
