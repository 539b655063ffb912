------------------------------- MODULE Decide -------------------------------
(* decide.rs: what install does about what it found at an id. One function,  *)
(* which every backend's install and preview go through.                     *)

\* What discovery can say of an id.
Ownerships == {"Absent", "Foreign", "OtherDaemon", "OursUnusable", "Ours"}

\* ExternalConfig: what the manager applies from outside the artifact.
Externals == {"Absent", "Clearable", "Unclearable"}

Writing == {"Create", "Update", "Stale"}
Refusing == {"Conflict", "RefuseForeign", "RefuseOtherDaemon", "RefuseUnusable"}
Outcomes == Writing \cup Refusing \cup {"UpToDate"}

\* The ownerships that settle the outcome by themselves.
Settled == [Absent       |-> "Create",
            Foreign      |-> "RefuseForeign",
            OtherDaemon  |-> "RefuseOtherDaemon",
            OursUnusable |-> "RefuseUnusable"]

\* `found.regenerated` is what the embedded spec renders to now, `found.onDisk`
\* what is installed. A stale version is regenerated without comparing either,
\* unless there is external configuration to lose.
decide(found, desired, runningVersion, force, external) ==
    IF found.ownership # "Ours" THEN Settled[found.ownership]
    ELSE IF found.version # runningVersion
    THEN IF external # "Absent" /\ ~force THEN "Conflict" ELSE "Stale"
    ELSE IF found.onDisk = desired THEN "UpToDate"
    ELSE IF found.onDisk = found.regenerated \/ force THEN "Update" ELSE "Conflict"
=============================================================================
