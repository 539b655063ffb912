----------------------------- MODULE RunPromise -----------------------------
(***************************************************************************)
(* What one run of goetia-shim promises SCM, without its threads: a stop   *)
(* and a failure exclude each other, whichever comes first stays, and      *)
(* STOPPED is reported over a daemon whose tree has ended or else as the   *)
(* incomplete stop, which SCM never restarts.                              *)
(***************************************************************************)
VARIABLES
    accepted,   \* a stop was accepted
    outcome,    \* how the run ends: none yet, clean, failure or incomplete
    up,         \* members of the daemon's tree may be running
    over        \* STOPPED was reported

vars == <<accepted, outcome, up, over>>

Init == ~accepted /\ outcome = "none" /\ ~up /\ ~over

\* A stop is accepted unless a failure was decided.
Stop ==
    /\ ~accepted /\ outcome # "failure"
    /\ accepted' = TRUE
    /\ UNCHANGED <<outcome, up, over>>

\* The daemon's tree comes up only before anything is decided.
Launch ==
    /\ outcome = "none" /\ ~up
    /\ up' = TRUE
    /\ UNCHANGED <<accepted, outcome, over>>

\* It ends on its own, or is terminated.
TreeEnds ==
    /\ up /\ up' = FALSE
    /\ UNCHANGED <<accepted, outcome, over>>

\* The end is decided; a decided end may still turn out incomplete.
Decide ==
    /\ \/ outcome = "none" /\ outcome' \in {"clean", "incomplete"}
       \/ outcome = "none" /\ ~accepted /\ outcome' = "failure"
       \/ outcome \in {"clean", "failure"} /\ outcome' = "incomplete"
    /\ up' \in {up, FALSE}
    /\ ~over
    /\ UNCHANGED <<accepted, over>>

Report ==
    /\ ~over /\ over' = TRUE
    /\ outcome = "incomplete" \/ (outcome # "none" /\ ~up)
    /\ UNCHANGED <<accepted, outcome, up>>

Next == Stop \/ Launch \/ TreeEnds \/ Decide \/ Report

Spec == Init /\ [][Next]_vars
=============================================================================
