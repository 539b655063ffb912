------------------------------ MODULE JobQueue ------------------------------
(* systemd as goetia's systemctl finds it: one unit, the job queued for it,  *)
(* and everyone else who changes either. All of it is outside goetia.        *)
EXTENDS Naturals

CONSTANT MaxMeddling   \* how often somebody else steps in

ASSUME JobQueueAssumption == MaxMeddling \in Nat

VARIABLES active,      \* the unit has a main process
          loaded,      \* systemd knows the unit
          supported,   \* the manager is at goetia's floor
          job,         \* the unit's job: its verb, or "none"
          ours,        \* what became of the job goetia asked for last
          meddled      \* how often somebody else stepped in

queueVars == <<active, loaded, supported, job, ours, meddled>>

JobVerbs == {"start", "stop", "restart"}

QueueTypeOK == /\ active \in BOOLEAN /\ loaded \in BOOLEAN /\ supported \in BOOLEAN
               /\ job \in JobVerbs \cup {"none"}
               /\ ours \in {"none", "pending", "done", "failed", "canceled"}
               /\ meddled \in 0..MaxMeddling

QueueInit == /\ active \in BOOLEAN /\ supported \in BOOLEAN
             /\ loaded = TRUE /\ job = "none" /\ ours = "none" /\ meddled = 0

\* A job meets the one already queued: a start and a restart become one of the
\* two, and a stop replaces either or is replaced.
Joined(v) == IF job # v /\ {job, v} \subseteq {"start", "restart"} THEN {"start", "restart"} ELSE {v}
Replaces(v) == "stop" \in {job, v} /\ v # job

Enqueue(v) == /\ loaded
              /\ job' \in Joined(v)
              /\ UNCHANGED <<active, loaded, supported>>

EnqueueOurs(v) == Enqueue(v) /\ ours' = "pending" /\ UNCHANGED meddled

Ends(how) == /\ job' = "none"
             /\ ours' = IF ours = "pending" THEN how ELSE ours

RunJob ==
    /\ \/ /\ job = "stop" /\ active' = FALSE /\ Ends("done")
       \/ /\ job = "restart" /\ active
          /\ active' = FALSE /\ job' = "start" /\ UNCHANGED ours
       \/ /\ job \in {"start", "restart"} /\ (job = "restart" => ~active)
          /\ active' = TRUE /\ Ends("done")
       \/ /\ job \in {"start", "restart"} /\ ~active
          /\ UNCHANGED active /\ Ends("failed")
    /\ UNCHANGED <<loaded, supported, meddled>>

Meddle ==
    /\ meddled < MaxMeddling
    /\ meddled' = meddled + 1
    /\ \/ \E v \in {"start", "stop"} :
            /\ Enqueue(v)
            /\ ours' = IF ours = "pending" /\ Replaces(v) THEN "canceled" ELSE ours
       \/ (active \/ loaded) /\ active' = ~active /\ UNCHANGED <<loaded, supported, job, ours>>
       \/ ~active /\ job = "none" /\ loaded /\ loaded' = FALSE /\ UNCHANGED <<active, supported, job, ours>>
       \/ supported' = ~supported /\ UNCHANGED <<active, loaded, job, ours>>
=============================================================================
