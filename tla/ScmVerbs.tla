------------------------------ MODULE ScmVerbs ------------------------------
(***************************************************************************)
(* Several goetia processes at one service: each stops, starts or          *)
(* uninstalls it, while the service, its shim and SCM's restart policy     *)
(* move on their own.  Composes ScmService with StopWait, and adds the     *)
(* start side of backend/scm/wait.rs (start_via_notify).                   *)
(***************************************************************************)
EXTENDS StopWait

CONSTANT
    Verbs       \* the verbs a process may run

ASSUME ScmVerbsAssumption == Verbs \subseteq {"stop", "uninstall", "start"}

vars == <<service, handles, reg, since, actor>>

Init ==
    /\ InitService
    /\ verb \in [Procs -> Verbs]
    /\ pc = [p \in Procs |-> "open"]
    /\ code = [p \in Procs |-> 0]
    /\ again = [p \in Procs |-> FALSE]
    /\ foreign = [p \in Procs |-> FALSE]
    /\ joined = [p \in Procs |-> FALSE]
    /\ result = [p \in Procs |-> "none"]
-----------------------------------------------------------------------------
(* start_via_notify and request_start. *)

\* StartServiceW.  Over a service that is not STOPPED it is refused with 1056,
\* and a follow-up query says what the service is.
StartService(p) ==
    /\ pc[p] = "start"
    /\ \/ /\ StartsFor(FALSE)
          /\ since' = [since EXCEPT ![p] = {}]
          /\ UNCHANGED joined
          /\ Goto(p, "started")
       \/ /\ status.state # "STOPPED"
          /\ joined' = [joined EXCEPT ![p] = TRUE]
          /\ Goto(p, "alreadyRunning")
          /\ UNCHANGED <<service, reg, since>>
    /\ UNCHANGED <<handles, code, again, foreign>>

\* accept_as_started: RUNNING is the goal, START_PENDING joins that start, and
\* any other state is not on its way to running.
AlreadyRunning(p) ==
    /\ pc[p] = "alreadyRunning"
    /\ \/ status.state = "RUNNING" /\ Returns(p, "Confirmed")
       \/ /\ status.state = "START_PENDING"
          /\ Goto(p, "started") /\ UNCHANGED <<handles, reg>>
       \/ /\ status.state \notin {"RUNNING", "START_PENDING"}
          /\ Returns(p, "Error")
    /\ since' = [since EXCEPT ![p] =
                    IF status.state = "RUNNING" THEN {"launched"} ELSE {}]
    /\ UNCHANGED <<service, inner>>

\* request_start returns here; a start that waits arms.
Started(p) ==
    /\ pc[p] = "started"
    /\ \/ Returns(p, "Requested")
       \/ Goto(p, "armRunning") /\ UNCHANGED <<reg, handles>>
    /\ UNCHANGED <<service, since, inner>>

ArmRunning(p) ==
    Arm(p, "armRunning", {"RUNNING", "STOPPED", "START_PENDING"}, "readRunning")

\* RecordedExit::daemon_ran sees (win32, specific) alone, so SCM's own (0, 0)
\* counts; the wait hint tells it apart.
daemon_ran(exit) == exit \in {"clean", "daemon", "incomplete", "unconnected"}

\* Slip: the wait hint is not asked for.
stopped_before_running_NoHint(p, exit) ==
    Returns(p, IF /\ kind = "simple" /\ daemon_ran(exit)
                  /\ exit # "incomplete"
               THEN "Confirmed" ELSE "Error")

stopped_before_running(p, exit) ==
    Returns(p, IF /\ kind = "simple" /\ daemon_ran(exit)
                  /\ exit # "incomplete"
                  /\ ~(joined[p] /\ exit = "unconnected")
               THEN "Confirmed" ELSE "Error")

ReadRunning(p) ==
    /\ pc[p] = "readRunning"
    /\ \/ status.state = "RUNNING" /\ Returns(p, "Confirmed")
       \/ status.state = "STOPPED" /\ stopped_before_running(p, status.exit)
       \/ /\ status.state \notin {"RUNNING", "STOPPED"}
          /\ Goto(p, "waitRunning") /\ UNCHANGED <<reg, handles>>
    /\ UNCHANGED <<service, since, inner>>

WaitRunning(p) ==
    /\ Fired(p, "waitRunning")
    /\ LET seen == reg[p].fired IN
       \/ seen.state = "RUNNING" /\ Returns(p, "Confirmed")
       \/ seen.state = "STOPPED" /\ stopped_before_running(p, seen.exit)
       \/ /\ seen.state = "START_PENDING"
          /\ reg' = Consumed(p) /\ Goto(p, "armRunning") /\ UNCHANGED handles
    /\ UNCHANGED <<service, since, inner>>

StartStep(p) ==
    \/ StartService(p) \/ AlreadyRunning(p) \/ Started(p)
    \/ ArmRunning(p) \/ ReadRunning(p) \/ WaitRunning(p)
-----------------------------------------------------------------------------
Step(p) == Open(p) \/ StopStep(p) \/ StartStep(p)

ByItself ==
    /\ \/ ScmRestart \/ ScmDropsRestart \/ ReachesRunning \/ PausesOrContinues
       \/ BeginsStopping \/ Stops \/ StartFails \/ EndsUnseen \/ Dies
       \/ ScmDeletes
    /\ UNCHANGED actor

Next ==
    \/ \E p \in Procs : Step(p) \/ CallFails(p) \/ Expires(p)
    \/ ByItself

\* goetia's threads run, and a service does not stay in a pending state or
\* leave a STOP unanswered for ever.
Fairness ==
    /\ \A p \in Procs : WF_vars(Step(p))
    /\ WF_vars((ReachesRunning \/ StartFails) /\ UNCHANGED actor)
    /\ WF_vars(Stops /\ UNCHANGED actor)
    /\ WF_vars(stopSent /\ BeginsStopping /\ UNCHANGED actor)

Spec == Init /\ [][Next]_vars
FairSpec == Spec /\ Fairness
-----------------------------------------------------------------------------
(* Properties. *)

Pcs ==
    {"open", "send", "decide", "sent", "armStopped", "readStopped",
     "waitStopped", "armOnly", "readOnly", "disable", "armSettle",
     "waitSettle", "settleSend", "rearmSettle", "readSettle", "delete",
     "start", "alreadyRunning", "started", "armRunning", "readRunning",
     "waitRunning", "done"}

\* Every variable has its type.
TypeOK ==
    /\ kind \in {"simple", "managed"}
    /\ status \in QueriedStatus
    /\ {stopSent, recovery, restart, disabled, marked, exists}
           \subseteq BOOLEAN
    /\ starts \in 0..MaxStarts
    /\ handles \subseteq Procs
    /\ reg \in [Procs -> Registrations]
    /\ since \in [Procs -> SUBSET {"stopped", "launched", "unconnected"}]
    /\ verb \in [Procs -> Verbs]
    /\ pc \in [Procs -> Pcs]
    /\ code \in [Procs -> {0, 1052, 1061, 1062}]
    /\ {again, foreign, joined} \subseteq [Procs -> BOOLEAN]
    /\ result \in [Procs -> {"none", "Confirmed", "Requested", "Expired",
                             "Error", "Gone", "Deleted"}]

\* A wait is never parked on a service that already is where it wants it: the
\* registration has fired, or will on the change to come.  Arm and read are
\* two calls, and the service moves between them (ScmActor::arm).
NoLostWakeUp ==
    \A p \in Procs :
        /\ pc[p] = "waitStopped" /\ reg[p].fired = Nothing
               => status.state # "STOPPED"
        /\ pc[p] = "waitSettle" /\ reg[p].fired = Nothing
               => status.state \notin Settled
        /\ pc[p] = "waitRunning" /\ reg[p].fired = Nothing
               => status.state \notin {"RUNNING", "STOPPED"}

\* A stop is confirmed only by a STOPPED at or after its own STOP, never by
\* one a restart had already left behind (stop_via_notify).
ConfirmedStopHappened ==
    \A p \in Procs :
        verb[p] = "stop" /\ result[p] = "Confirmed" => "stopped" \in since[p]

\* After an uninstall that reports success nothing runs and nothing starts:
\* neither a queued restart nor one in flight survives it (uninstall_locked).
UninstalledStaysStopped ==
    \A p \in Procs :
        result[p] = "Deleted" => status.state = "STOPPED" /\ ~(restart /\ Startable)

\* A start is confirmed only when a daemon was launched since the request.  Of a
\* start of its own this is claimed only while no restart of SCM's has failed to
\* connect since: that leaves (0, 0) and a hint, and stopped_before_running asks
\* for the hint only of a start that was joined, so such a start is confirmed
\* though nothing ran (README, "What does not hold").
ConfirmedStartRan ==
    \A p \in Procs :
        verb[p] = "start" /\ result[p] = "Confirmed"
          /\ (joined[p] \/ "unconnected" \notin since[p])
            => "launched" \in since[p]

\* A stop that found the service in STOP_PENDING ends, even if SCM restarts the
\* service before the wait is armed again (await_stopped).
StopUnderWayEnds ==
    \A p \in Procs :
        pc[p] = "waitStopped" /\ status.state = "STOP_PENDING" ~> pc[p] = "done"

\* uninstall has no deadline, and ends: every STOP it sends is followed by a
\* STOPPED it sees, because nothing restarts a disabled service.
UninstallEnds ==
    \A p \in Procs : verb[p] = "uninstall" ~> pc[p] = "done"

\* The waits of both kinds: of their types, and none of them parked for nothing.
WaitsAreSound == TypeOK /\ NoLostWakeUp

\* A confirmed stop happened since it was asked for, and a confirmed start did
\* as far as ConfirmedStartRan claims it.
ConfirmedHappened == ConfirmedStopHappened /\ ConfirmedStartRan

\* The waits without a deadline end.
WaitsEnd == StopUnderWayEnds /\ UninstallEnds
=============================================================================
