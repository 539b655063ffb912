----------------------------- MODULE Systemctl ------------------------------
(* One systemctl run of goetia's: the door before it, the child, and the     *)
(* wait for it under a deadline (systemd/manager/systemctl.rs,               *)
(* backend/bounded.rs, bounded/spares.rs).                                   *)
EXTENDS JobQueue, Budget, Host

CONSTANTS Hosts,       \* which hosts goetia may find itself on
          Faults,      \* spawn: a child does not start. watch: a child cannot be
                       \* waited for or read. probe: a version probe fails.
                       \* make: a thread cannot be made. silent: systemctl exits
                       \* 0 and took no job.
          MaxNow       \* how long the clock is watched

PossibleFaults == {"spawn", "watch", "probe", "make", "silent"}

ASSUME SystemctlAssumption ==
    /\ Hosts \subseteq PossibleHosts
    /\ Faults \subseteq PossibleFaults
    /\ MaxNow \in Nat /\ MaxNow <= MaxInstant

VARIABLES host,        \* where goetia runs
          now,         \* the clock
          pc,          \* what goetia does next
          leg,         \* the request goetia is at
          left,        \* the budget of that request
          until,       \* its deadline
          child,       \* the systemctl run for it
          gate,        \* the version gate: the scopes open, and whether it passed
          pool,        \* listener threads made ready
          reserved,    \* reservations of threads that are live
          heard,       \* goetia read the announcement of its job
          answers,     \* answers[l]: how request l ended, "none" until it has
          arrived,     \* history: the requests systemd has had
          vetted,      \* history: the version gate passed since the id's turn began
          asks,        \* history: how often it was asked since
          loose,       \* history: a thread was made while a reservation was live
          since        \* history: what the unit has been since the first request
                       \* arrived: down, up, and fresh, up after it was down

clientVars == <<pc, leg, left, until, child, gate, pool, reserved, heard, answers>>
systemctlHistory == <<arrived, vetted, asks, loose, since>>

Requests == JobVerbs \cup {"kill", "enable", "disable", "reload"}
Reads == {"show"}

\* What may come of a request, or of a read of the unit.
States == {"running", "stopped"}
Unsent == {"reservation", "no_manager", "unsupported", "no_answer", "not_run", "refused", "spent"}
InDoubt == {"in_doubt", "timed_out"}
Answers == Unsent \cup InDoubt \cup {"none", "ok", "failed", "not_enqueued", "not_running"}
           \cup States \cup {"unknown", "unit_not_loaded"}

Faulty(f) == f \in Faults

\* The history follows the unit in every step.
Watches == since' = IF since = {} THEN since
                    ELSE IF ~active' THEN since \cup {"down"}
                    ELSE since \cup {"up"} \cup {s \in {"fresh"} : "down" \in since}

Answer(a) == /\ pc' = "answer"
             /\ answers' = [answers EXCEPT ![leg] = a]

-----------------------------------------------------------------------------
(* Reservations and the version gate.                                        *)

STREAMS == 2

\* watched: goetia follows a systemctl only under a budget with a bound.
watched(b) == waits(b) /\ b # Unbounded

\* Broken: one listener is made ready for each step.
spares_Halves(steps, b) == IF watched(b) THEN steps ELSE 0
spares(steps, b) == IF watched(b) THEN STREAMS * steps ELSE 0

gate_scope == [gate EXCEPT !.open = @ + 1]

\* Broken: the pass outlives its scope.
drop_scope_Keeps(g) == [g EXCEPT !.open = @ - 1]
drop_scope(g) == [open |-> g.open - 1, passed |-> g.passed /\ g.open > 1]

\* door: no child is run where no manager can be asked, and no request under a
\* gate that did not pass.
Door ==
    /\ pc = "door"
    /\ \/ evidence(host) # "none" /\ Answer("no_manager") /\ UNCHANGED gate
       \/ /\ evidence(host) = "none"
          /\ pc' = IF gate.passed \/ leg \in Reads THEN "spawn" ELSE "gate"
          /\ UNCHANGED <<gate, answers>>
    /\ UNCHANGED <<queueVars, host, now, leg, left, until, child, pool, reserved, heard, systemctlHistory>>

\* Broken: a pass is never remembered.
gated_Forgets == [gate EXCEPT !.passed = FALSE]
gated == [gate EXCEPT !.passed = gate.open > 0]

AskGate ==
    /\ pc = "gate"
    /\ asks' = asks + 1
    /\ \/ /\ Answered(host) /\ supported
          /\ gate' = gated
          /\ vetted' = TRUE
          /\ pc' = "spawn"
          /\ UNCHANGED answers
       \/ /\ \/ Answered(host) /\ ~supported /\ Answer("unsupported")
             \/ Ignored(host) /\ Answer("no_manager")
             \/ (Faulty("probe") \/ ~host.booted) /\ Answer("no_answer")
          /\ UNCHANGED <<gate, vetted>>
    /\ UNCHANGED <<queueVars, host, now, leg, left, until, child, pool, reserved, heard, arrived, loose, since>>

-----------------------------------------------------------------------------
(* The child.                                                                *)

NoChild == [phase |-> "none", verb |-> "none", waits |-> FALSE, announced |-> FALSE, code |-> "none"]

Phases == {"none", "asking", "queued", "waiting", "exited"}
Codes == {"none", "ok", "fail", "not_loaded", "no_process"} \cup States \cup {"unknown"}

Child == [NoChild EXCEPT !.phase = "asking", !.verb = leg, !.waits = waits(left)]

Bounds == leg \in {"start", "stop"} /\ watched(left)

\* Broken: a spawn that failed is taken for one that did not run.
SpawnFailed_Denies(ran) == "not_run"
SpawnFailed(ran) == IF ran THEN "in_doubt" ELSE "not_run"

\* spawn makes the threads before the child, and a failed spawn may have run.
Spawn ==
    /\ pc = "spawn" /\ leg \in Requests \cup Reads
    /\ LET short == Bounds /\ pool < STREAMS IN
       \/ /\ pool' = IF Bounds /\ ~short THEN pool - STREAMS ELSE pool
          /\ loose' = (loose \/ (short /\ reserved > 0))
          /\ \/ /\ pc' = IF Bounds THEN "hear" ELSE "output"
                /\ child' = Child
                /\ UNCHANGED answers
             \/ /\ Faulty("spawn")
                /\ Answer(SpawnFailed(FALSE))
                /\ UNCHANGED child
             \/ /\ Faulty("spawn") /\ Bounds
                /\ Answer(SpawnFailed(TRUE))
                /\ child' = Child
       \/ /\ short /\ Faulty("make")
          /\ Answer("not_run")
          /\ UNCHANGED <<pool, loose, child>>
    /\ heard' = FALSE
    /\ UNCHANGED <<queueVars, host, now, leg, left, until, gate, reserved, arrived, vetted, asks, since>>

ChildExits(code) == child' = [child EXCEPT !.phase = "exited", !.code = code]

\* ActiveState under a job may be neither, and a unit not found has none.
ShownAs == IF ~loaded THEN {"not_loaded"}
           ELSE {IF active THEN "running" ELSE "stopped"} \cup {u \in {"unknown"} : job # "none"}

\* systemd has the request, and acts on it or refuses it.
Carried ==
    LET v == child.verb IN
    \/ /\ v \in JobVerbs /\ EnqueueOurs(v)
       /\ child' = [child EXCEPT !.phase = "queued"]
    \/ /\ v \in JobVerbs /\ ~loaded
       /\ ChildExits("not_loaded") /\ UNCHANGED queueVars
    \/ /\ v = "kill"
       /\ active' = FALSE
       /\ ChildExits(IF active THEN "ok" ELSE "no_process")
       /\ UNCHANGED <<loaded, supported, job, ours, meddled>>
    \/ /\ v = "show"
       /\ \E state \in ShownAs : ChildExits(state)
       /\ UNCHANGED queueVars
    \/ v \notin JobVerbs \cup {"kill", "show"} /\ ChildExits("ok") /\ UNCHANGED queueVars
    \/ ChildExits("fail") /\ UNCHANGED queueVars

\* A request that reaches systemd is noted, and the first for a job, a
\* kill or a read begins the history of the unit.
Notes == /\ arrived' = arrived \cup {child.verb}
         /\ since' = IF arrived \cap (JobVerbs \cup {"kill", "show"}) # {} THEN since
                     ELSE {IF a THEN "up" ELSE "down" : a \in {active, active'}}

ChildAsks ==
    /\ child.phase = "asking"
    /\ \/ Answered(host) /\ Carried /\ Notes
       \/ /\ (Faulty("silent") /\ child.verb \in JobVerbs) \/ Ignored(host)
          /\ ChildExits("ok")
          /\ UNCHANGED <<queueVars, arrived, since>>
    /\ UNCHANGED <<host, now, pc, leg, left, until, gate, pool, reserved, heard, answers, vetted, asks, loose>>

\* With --no-block systemctl exits once it has announced the job.
ChildAnnounces ==
    /\ child.phase = "queued"
    /\ child' = [child EXCEPT !.announced = Speaks(host),
                              !.phase = IF child.waits THEN "waiting" ELSE "exited",
                              !.code = IF child.waits THEN "none" ELSE "ok"]
    /\ UNCHANGED <<queueVars, host, now, pc, leg, left, until, gate, pool, reserved, heard, answers, systemctlHistory>>

ChildHasResult ==
    /\ child.phase = "waiting" /\ ours # "pending"
    /\ ChildExits(IF ours = "done" THEN "ok" ELSE "fail")
    /\ UNCHANGED <<queueVars, host, now, pc, leg, left, until, gate, pool, reserved, heard, answers, systemctlHistory>>

-----------------------------------------------------------------------------
(* wait_bounded, and what goetia makes of the exit.                          *)

Lives == child.phase # "exited"

\* Broken: a child that was lost has failed.
Lost_Fails == /\ Faulty("watch")
              /\ Answer("failed")
              /\ child' = NoChild
              /\ UNCHANGED heard

\* A failed wait drops the child, and a child dropped is killed.
Lost == /\ Faulty("watch")
        /\ Answer("in_doubt")
        /\ child' = NoChild
        /\ UNCHANGED heard

\* Broken: the deadline bounds the wait for the announcement too.
Hear_Gives_Up ==
    /\ pc = "hear"
    /\ \/ /\ child.announced \/ ~Lives \/ expired(until, now)
          /\ heard' = child.announced
          /\ pc' = "wait"
          /\ UNCHANGED <<child, answers>>
       \/ Lost
    /\ UNCHANGED <<queueVars, host, now, leg, left, until, gate, pool, reserved, systemctlHistory>>

\* Until systemctl has announced the job, or ended, the wait has no bound.
Hear ==
    /\ pc = "hear"
    /\ \/ /\ child.announced \/ ~Lives
          /\ heard' = child.announced
          /\ pc' = "wait"
          /\ UNCHANGED <<child, answers>>
       \/ Lost
    /\ UNCHANGED <<queueVars, host, now, leg, left, until, gate, pool, reserved, systemctlHistory>>

\* What a read says: never a state for a unit systemd does not find.
Shown(code) == IF code = "not_loaded" THEN "unit_not_loaded"
               ELSE IF code = "fail" THEN "failed"
               ELSE code

\* Broken: an exit of 0 is enough.
Judged_Trusts(code) ==
    IF code = "ok" \/ (code = "not_loaded" /\ leg = "stop") THEN "ok"
    ELSE IF code = "no_process" THEN "not_running"
    ELSE IF leg \in Reads THEN Shown(code)
    ELSE "failed"

\* The announcement is in what goetia read: a bounded wait heard it before it
\* looked at its deadline, so a read cut short then cannot have missed it.
captured == IF Bounds THEN heard ELSE child.announced

\* What an exit says of the request: a job verb must have been given a job.
Judged(code) ==
    IF code = "ok" THEN IF leg \in JobVerbs /\ ~captured THEN "not_enqueued" ELSE "ok"
    ELSE IF code = "not_loaded" /\ leg = "stop" THEN "ok"
    ELSE IF code = "no_process" THEN "not_running"
    ELSE IF leg \in Reads THEN Shown(code)
    ELSE "failed"

\* answered: a systemctl that ignored the request asked no manager.
Finished(code) == Answer(IF Ignored(host) THEN "no_manager" ELSE Judged(code))

\* The child has exited, and what it wrote is read, or cannot be.
Collected == /\ ~Lives
             /\ Finished(child.code) \/ (Faulty("watch") /\ Answer("in_doubt"))

WaitOut ==
    /\ pc = "wait"
    /\ \/ Collected /\ child' = NoChild
       \/ expired(until, now) /\ pc' = "reap" /\ UNCHANGED <<child, answers>>
       \/ Lost
    /\ UNCHANGED <<queueVars, host, now, leg, left, until, gate, pool, reserved, heard, systemctlHistory>>

\* The kill at the deadline may come after the child's exit, whose answer counts.
Reap ==
    /\ pc = "reap"
    /\ \/ Lives /\ Answer("timed_out")
       \/ Collected
       \/ Lives /\ Faulty("watch") /\ Answer("in_doubt")
    /\ child' = NoChild
    /\ UNCHANGED <<queueVars, host, now, leg, left, until, gate, pool, reserved, heard, systemctlHistory>>

\* Without a bound goetia reads to the end. A child it cannot wait for runs on,
\* and only a read that is lost has changed nothing.
Output ==
    /\ pc = "output"
    /\ \/ ~Lives /\ Finished(child.code) /\ child' = NoChild
       \/ /\ Faulty("watch")
          /\ Answer(IF leg \in Reads THEN "not_run" ELSE "in_doubt")
          /\ UNCHANGED child
    /\ UNCHANGED <<queueVars, host, now, leg, left, until, gate, pool, reserved, heard, systemctlHistory>>
=============================================================================
