------------------------------ MODULE StopWait ------------------------------
(***************************************************************************)
(* The stop side of backend/scm/wait.rs and scm/manager.rs: the `stop`     *)
(* verb (stop_via_notify) and `uninstall` (uninstall_locked, which goes    *)
(* through settle_and_stop).  Each process p owns one SystemScmActor; its  *)
(* pc names the next call into SCM, and every call is a step of its own,   *)
(* with the service and other processes free to move between them.         *)
(***************************************************************************)
EXTENDS ScmService

CONSTANT
    Bounded     \* whether waits have a deadline, which may run out

ASSUME StopWaitAssumption == Bounded \in BOOLEAN

VARIABLES
    verb,       \* "stop", "uninstall" or "start"
    pc,         \* the process's next call
    code,       \* why the last STOP was refused, 0 if it was not
    again,      \* whether the STOP was already sent a second time
    foreign,    \* uninstall: someone else had marked the service
    joined,     \* start: StartServiceW answered ERROR_SERVICE_ALREADY_RUNNING
    result      \* what the verb returned

actor == <<verb, pc, code, again, foreign, joined, result>>
inner == <<code, again, foreign, joined>>

Goto(p, label) ==
    pc' = [pc EXCEPT ![p] = label] /\ UNCHANGED <<verb, result>>

\* The verb returns, and its actor's handles close.
Returns(p, r) ==
    /\ pc' = [pc EXCEPT ![p] = "done"]
    /\ result' = [result EXCEPT ![p] = r]
    /\ reg' = [reg EXCEPT ![p] = Unregistered]
    /\ handles' = handles \ {p}
    /\ UNCHANGED verb

\* The request is made: what the service is from now on is what it answers.
Requests(p) ==
    since' = [since EXCEPT ![p] =
                 IF status.state = "STOPPED" THEN {"stopped"} ELSE {}]

\* Slip: an uninstall that finds nothing answers as the other verbs do.
Open_NotInstalled(p) ==
    /\ pc[p] = "open"
    /\ IF exists
       THEN /\ handles' = handles \cup {p}
            /\ Goto(p, IF verb[p] = "stop" THEN "send"
                       ELSE IF verb[p] = "uninstall" THEN "disable"
                       ELSE "start")
            /\ UNCHANGED reg
       ELSE Returns(p, "NotInstalled")
    /\ UNCHANGED <<service, since, inner>>

\* SystemScmActor::open, by each verb.
Open(p) ==
    /\ pc[p] = "open"
    /\ IF exists
       THEN /\ handles' = handles \cup {p}
            /\ Goto(p, IF verb[p] = "stop" THEN "send"
                       ELSE IF verb[p] = "uninstall" THEN "disable"
                       ELSE "start")
            /\ UNCHANGED reg
       ELSE Returns(p, IF verb[p] = "uninstall" THEN "Gone" ELSE "Error")
    /\ UNCHANGED <<service, since, inner>>

\* Any call may fail with an error of its own, which ends the verb.
CallFails(p) ==
    /\ pc[p] # "done"
    /\ Returns(p, "Error")
    /\ UNCHANGED <<service, since, inner>>

\* A bounded wait, or the registration before it, runs out of time.
Expires(p) ==
    /\ Bounded /\ verb[p] # "uninstall"
    /\ pc[p] \in {"armStopped", "waitStopped", "armOnly", "armRunning",
                  "waitRunning"}
    /\ Returns(p, "Expired")
    /\ UNCHANGED <<service, since, inner>>

\* An arm's registration; its status is read in the next step.
Arm(p, at, mask, next) ==
    /\ pc[p] = at
    /\ Register(p, mask)
    /\ Goto(p, next)
    /\ UNCHANGED <<service, handles, since, inner>>

\* wait_callback returns what the notification carried.
Fired(p, at) == pc[p] = at /\ reg[p].fired # Nothing
-----------------------------------------------------------------------------
(* stop_via_notify and request_stop: the STOP goes first. *)

\* control_stop_or_underway, and its one resend.
SendStop(p) ==
    /\ pc[p] = "send"
    /\ \E answer \in StopAnswers :
           /\ Deliver(answer)
           /\ code' = [code EXCEPT ![p] = answer]
           /\ Goto(p, IF StopTaken(answer) THEN "sent" ELSE "decide")
    /\ IF again[p] THEN UNCHANGED since ELSE Requests(p)
    /\ UNCHANGED <<kind, status, recovery, restart, disabled, marked, exists,
                   starts, handles, reg, again, foreign, joined>>

\* decide_refused_stop: the status decides, not the code alone.
DecideRefused(p) ==
    /\ pc[p] = "decide"
    /\ \/ /\ \/ status.state \in {"STOP_PENDING", "STOPPED"}
             \/ /\ status.state \in {"RUNNING", "PAUSED"}
                /\ status.accepts_stop /\ code[p] = 1061 /\ again[p]
          /\ Goto(p, "sent") /\ UNCHANGED <<reg, handles, again>>
       \/ /\ status.state \in {"RUNNING", "PAUSED"}
          /\ status.accepts_stop /\ code[p] = 1061 /\ ~again[p]
          /\ again' = [again EXCEPT ![p] = TRUE]
          /\ Goto(p, "send") /\ UNCHANGED <<reg, handles>>
       \/ /\ \/ status.state = "START_PENDING"
             \/ /\ status.state \in {"RUNNING", "PAUSED"}
                /\ ~status.accepts_stop \/ code[p] = 1052
          /\ Returns(p, "Error") /\ UNCHANGED again
    /\ UNCHANGED <<service, since, code, foreign, joined>>

\* request_stop returns here (Budget::Immediate); a stop that waits arms.
StopSent(p) ==
    /\ pc[p] = "sent"
    /\ \/ Returns(p, "Requested")
       \/ Goto(p, "armStopped") /\ UNCHANGED <<reg, handles>>
    /\ code' = [code EXCEPT ![p] = 0]
    /\ again' = [again EXCEPT ![p] = FALSE]
    /\ UNCHANGED <<service, since, foreign, joined>>
-----------------------------------------------------------------------------
(* wait_after_stop and await_stopped. *)

\* STOPPED confirms: `stop` returns, uninstall closes its actor to delete.
Confirms(p) ==
    IF verb[p] = "uninstall"
    THEN /\ Goto(p, "delete")
         /\ reg' = [reg EXCEPT ![p] = Unregistered]
         /\ handles' = handles \ {p}
    ELSE Returns(p, "Confirmed")

ArmStopped(p) ==
    Arm(p, "armStopped", {"STOPPED", "STOP_PENDING"}, "readStopped")

\* Slip: the status read after the registration is ignored.
ReadStopped_Ignored(p) ==
    /\ pc[p] = "readStopped"
    /\ Goto(p, "waitStopped") /\ UNCHANGED <<reg, handles>>
    /\ UNCHANGED <<service, since, inner>>

ReadStopped(p) ==
    /\ pc[p] = "readStopped"
    /\ \/ status.state = "STOPPED" /\ Confirms(p)
       \/ /\ status.state # "STOPPED"
          /\ Goto(p, "waitStopped") /\ UNCHANGED <<reg, handles>>
    /\ UNCHANGED <<service, since, inner>>

\* Slip: STOP_PENDING confirms as STOPPED does.
WaitStopped_Pending(p) ==
    /\ Fired(p, "waitStopped")
    /\ Confirms(p)
    /\ UNCHANGED <<service, since, inner>>

WaitStopped(p) ==
    /\ Fired(p, "waitStopped")
    /\ \/ reg[p].fired.state = "STOPPED" /\ Confirms(p)
       \/ /\ reg[p].fired.state # "STOPPED"
          /\ reg' = Consumed(p) /\ Goto(p, "armOnly") /\ UNCHANGED handles
    /\ UNCHANGED <<service, since, inner>>

ArmOnly(p) == Arm(p, "armOnly", {"STOPPED"}, "readOnly")

\* Slip: a service running again is waited for as well.
ReadOnly_WaitsOn(p) ==
    /\ pc[p] = "readOnly"
    /\ \/ status.state = "STOPPED" /\ Confirms(p)
       \/ /\ status.state # "STOPPED"
          /\ Goto(p, "waitStopped") /\ UNCHANGED <<reg, handles>>
    /\ UNCHANGED <<service, since, inner>>

ReadOnly(p) ==
    /\ pc[p] = "readOnly"
    /\ \/ status.state = "STOPPED" /\ Confirms(p)
       \/ /\ status.state = "STOP_PENDING"
          /\ Goto(p, "waitStopped") /\ UNCHANGED <<reg, handles>>
       \/ /\ status.state \notin {"STOPPED", "STOP_PENDING"}
          /\ Returns(p, "Error")
    /\ UNCHANGED <<service, since, inner>>
-----------------------------------------------------------------------------
(* uninstall_locked: disable, settle_and_stop, delete. *)

\* Slip: the start type stays what it was.
Disable_Keeps(p) ==
    /\ pc[p] = "disable"
    /\ foreign' = [foreign EXCEPT ![p] = marked]
    /\ Goto(p, "armSettle")
    /\ UNCHANGED <<service, since, handles, reg, code, again, joined>>

\* disable_before_delete; a record someone else marked refuses the change.
Disable(p) ==
    /\ pc[p] = "disable"
    /\ foreign' = [foreign EXCEPT ![p] = marked]
    /\ disabled' = (disabled \/ ~marked)
    /\ Goto(p, "armSettle")
    /\ UNCHANGED <<kind, status, stopSent, recovery, restart, marked, exists,
                   starts, since, handles, reg, code, again, joined>>

Settled == {"RUNNING", "PAUSED", "STOPPED"}

\* The first arm on a fresh actor fires at once for a settled service.
ArmSettle(p) == Arm(p, "armSettle", Settled, "waitSettle")

\* On a settled state: STOPPED confirms, and a STOP goes to a service seen to
\* accept it, over the registration `left`.
Seen(p, seen, left) ==
    \/ seen.state = "STOPPED" /\ Confirms(p)
    \/ /\ seen.state # "STOPPED" /\ seen.accepts_stop
       /\ Goto(p, "settleSend") /\ reg' = left /\ UNCHANGED handles
    \/ seen.state # "STOPPED" /\ ~seen.accepts_stop /\ Returns(p, "Error")

WaitSettle(p) ==
    /\ Fired(p, "waitSettle")
    /\ Seen(p, reg[p].fired, Consumed(p))
    /\ code' = [code EXCEPT ![p] = 0]
    /\ UNCHANGED <<service, since, again, foreign, joined>>

\* A second 1061 in a row means that a STOP is under way.
SettleSend(p) ==
    /\ pc[p] = "settleSend"
    /\ \E answer \in StopAnswers :
           LET taken == StopTaken(answer) \/ (answer = 1061 /\ code[p] = 1061)
           IN  /\ Deliver(answer)
               /\ code' = [code EXCEPT ![p] = IF taken THEN 0 ELSE answer]
               /\ Goto(p, IF taken THEN "armStopped" ELSE "rearmSettle")
    /\ UNCHANGED <<kind, status, recovery, restart, disabled, marked, exists,
                   starts, handles, reg, since, again, foreign, joined>>

RearmSettle(p) == Arm(p, "rearmSettle", Settled, "readSettle")

ReadSettle(p) ==
    /\ pc[p] = "readSettle"
    /\ \/ status.state \in Settled /\ Seen(p, status, reg)
       \/ /\ status.state \notin Settled
          /\ Goto(p, "waitSettle") /\ UNCHANGED <<reg, handles>>
    /\ UNCHANGED <<service, since, inner>>

\* The actor is closed: nothing of this process keeps the record.  A record
\* someone else marked goes with its last handle.
Delete(p) ==
    /\ pc[p] = "delete"
    /\ marked' = (marked \/ (exists /\ ~foreign[p]))
    /\ Returns(p, "Deleted")
    /\ UNCHANGED <<kind, status, stopSent, recovery, restart, disabled, exists,
                   starts, since, inner>>

StopStep(p) ==
    \/ SendStop(p) \/ DecideRefused(p) \/ StopSent(p)
    \/ ArmStopped(p) \/ ReadStopped(p) \/ WaitStopped(p)
    \/ ArmOnly(p) \/ ReadOnly(p)
    \/ Disable(p) \/ ArmSettle(p) \/ WaitSettle(p)
    \/ SettleSend(p) \/ RearmSettle(p) \/ ReadSettle(p) \/ Delete(p)
=============================================================================
