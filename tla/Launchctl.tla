----------------------------- MODULE Launchctl ------------------------------
(* launchd's job for one label, as launchctl shows and changes it. launchd   *)
(* keeps the definition it loaded, whatever becomes of the plist. The client *)
(* that carries a request may outlive the verb that sent it (`late`).        *)
EXTENDS Plists

VARIABLES job,       \* the definition loaded at the label; Nothing if none is
          alive,     \* the job has a process
          late       \* requests their verb stopped waiting for, not carried out yet

jobVars == <<job, alive, late>>

Loaded == job # Nothing

\* KeepAlive and RunAtLoad start it without being asked. Another's job may.
StartsItself(definition) == definition.spec \in Kept \/ definition = Foreign

bootstrap(path) ==
    /\ ~Loaded /\ plist[path] # Nothing
    /\ job' = Definition(plist[path])
    /\ alive' \in IF StartsItself(job') THEN BOOLEAN ELSE {FALSE}
    /\ UNCHANGED late

\* Broken: the process outlives its job.
bootout_Spares ==
    /\ job' = Nothing
    /\ UNCHANGED <<alive, late>>

bootout ==
    /\ job' = Nothing
    /\ alive' = FALSE
    /\ UNCHANGED late

\* Without -k a running job is left alone.
kickstart ==
    /\ Loaded
    /\ alive' = TRUE
    /\ UNCHANGED <<job, late>>

\* The wait for a request's answer ended first; the request goes on.
LeftRunning(request) ==
    /\ late' = late \cup {request}
    /\ UNCHANGED <<job, alive>>

\* The states a print may be read as: Unknown where it does not say.
live_state == {"Unknown", IF alive THEN "Running" ELSE "Stopped"}

-----------------------------------------------------------------------------
(* What happens by itself.                                                   *)

Exit == alive /\ alive' = FALSE /\ UNCHANGED <<job, late>>

Respawn == Loaded /\ ~alive /\ StartsItself(job) /\ alive' = TRUE /\ UNCHANGED <<job, late>>

CarriedOut(request) ==
    /\ request \in late
    /\ late' = late \ {request}
    /\ IF request = "bootout" THEN job' = Nothing /\ alive' = FALSE
       ELSE UNCHANGED job /\ IF Loaded THEN alive' = TRUE ELSE UNCHANGED alive

LaunchdStep == Exit \/ Respawn \/ \E request \in late : CarriedOut(request)
=============================================================================
