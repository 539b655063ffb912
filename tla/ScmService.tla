----------------------------- MODULE ScmService -----------------------------
(***************************************************************************)
(* The Service Control Manager (SCM) as backend/scm/wait.rs uses it: one   *)
(* service record, its status, and the one-shot status notifications of    *)
(* NotifyServiceStatusChangeW.  External: the facts are the ones the       *)
(* comments of wait.rs, wait/system.rs and manager.rs measured (P1..P27).  *)
(***************************************************************************)
EXTENDS Naturals

CONSTANTS
    Procs,      \* goetia processes running a verb on the service
    MaxStarts   \* bound: starts of the service, SCM's own included

ASSUME ScmServiceAssumption == MaxStarts \in Nat

VARIABLES
    kind,       \* the service's Kind: simple has a shim, managed has none
    status,     \* what QueryServiceStatus answers: QueriedStatus
    stopSent,   \* a STOP was delivered and not answered yet
    recovery,   \* the current start is SCM's own, under the restart policy
    restart,    \* SCM has a restart queued
    disabled,   \* the start type is SERVICE_DISABLED
    marked,     \* the record is marked for deletion
    exists,     \* there is a record
    starts,     \* starts so far
    handles,    \* the processes that hold a service handle open
    reg,        \* each process's notification registration
    since       \* history: what the service has been since each request

service == <<kind, status, stopSent, recovery, restart, disabled, marked,
             exists, starts>>

\* The two transient states of a pause are left out.
QueriedState ==
    {"STOPPED", "START_PENDING", "RUNNING", "PAUSED", "STOP_PENDING"}

\* The exit records, with the wait hint that tells "unconnected" from "clean":
\* SCM's own failed recovery start leaves (0, 0) and a hint (P10).
Exits ==
    {"none", "clean", "daemon", "shim", "incomplete", "aborted", "unconnected"}
Restarted == {"daemon", "shim", "aborted"}

QueriedStatus ==
    [state : QueriedState, accepts_stop : BOOLEAN, exit : Exits]

Nothing == [state |-> "none", accepts_stop |-> FALSE, exit |-> "none"]
Unregistered == [mask |-> {}, fired |-> Nothing, used |-> FALSE]
Registrations ==
    [mask : SUBSET QueriedState, fired : QueriedStatus \cup {Nothing},
     used : BOOLEAN]

InitService ==
    /\ kind \in {"simple", "managed"}
    /\ status \in {[state |-> "STOPPED", accepts_stop |-> FALSE, exit |-> "none"],
                   [state |-> "RUNNING", accepts_stop |-> TRUE, exit |-> "none"]}
    /\ stopSent = FALSE /\ recovery = FALSE /\ restart = FALSE
    /\ disabled = FALSE /\ marked = FALSE /\ exists = TRUE
    /\ starts = 0
    /\ handles = {}
    /\ reg = [p \in Procs |-> Unregistered]
    /\ since = [p \in Procs |-> {}]

\* A new status reaches every registration whose mask holds its state and
\* which has not fired.
Becomes(s, accepts, exit) ==
    LET now == [state |-> s, accepts_stop |-> accepts, exit |-> exit] IN
    /\ status' = now
    /\ reg' = [p \in Procs |->
                  IF s \in reg[p].mask /\ reg[p].fired = Nothing
                  THEN [reg[p] EXCEPT !.fired = now] ELSE reg[p]]

\* What every request still under way may later tell.
Notes(facts) == since' = [p \in Procs |-> since[p] \cup facts]

\* NotifyServiceStatusChangeW.  The first registration on a handle fires at
\* once for a current state in the mask (P20, P27 c, f); over an unconsumed
\* registration the handles are replaced first (cancel_registration).  A later
\* one on the same handle may be silent: it is for an unchanged state (P27 a),
\* it is not measured for one that changed in between, and the lag remedy may
\* have replaced the handle.
Register(p, mask) ==
    LET fresh == reg[p].mask # {} \/ ~reg[p].used IN
    \E fires \in BOOLEAN :
        /\ fires => status.state \in mask
        /\ fresh /\ status.state \in mask => fires
        /\ reg' = [reg EXCEPT ![p] =
               [mask |-> mask, fired |-> IF fires THEN status ELSE Nothing,
                used |-> TRUE]]

\* wait_callback consumed the notification.
Consumed(p) ==
    [reg EXCEPT ![p] = [mask |-> {}, fired |-> Nothing, used |-> TRUE]]

\* What ControlService(STOP) answers; 0 stands for Ok, and 1062 is
\* ERROR_SERVICE_NOT_ACTIVE, which control_stop takes for Ok too.
StopAnswers ==
    IF status.state = "STOPPED" THEN {1062, 1061}
    ELSE IF status.state = "START_PENDING" THEN {1052, 1061}
    ELSE IF status.state = "STOP_PENDING" \/ stopSent THEN {1061}
    ELSE IF status.accepts_stop THEN {0} ELSE {1052}

StopTaken(answer) == answer \in {0, 1062}

\* A STOP that is delivered waits for the service to answer it.
Deliver(answer) ==
    stopSent' = (stopSent \/ answer = 0)
-----------------------------------------------------------------------------
(* What the service and SCM do by themselves. *)

Startable ==
    status.state = "STOPPED" /\ exists /\ ~disabled /\ ~marked
    /\ starts < MaxStarts

StartsFor(byScm) ==
    /\ Startable
    /\ Becomes("START_PENDING", FALSE, "none")
    /\ recovery' = byScm
    /\ restart' = FALSE
    /\ starts' = starts + 1
    /\ UNCHANGED <<kind, stopSent, disabled, marked, exists>>

\* SCM's own restart, which nothing started disables (P21).
ScmRestart == restart /\ StartsFor(TRUE) /\ UNCHANGED <<handles, since>>

\* A restart queued for a service that was disabled is dropped.
ScmDropsRestart ==
    /\ restart /\ disabled
    /\ restart' = FALSE
    /\ UNCHANGED <<kind, status, stopSent, recovery, disabled, marked, exists,
                   starts, handles, reg, since>>

\* A start that is in flight runs to RUNNING whatever the start type became
\* since (P23).  A managed service need not accept STOP.
ReachesRunning ==
    /\ status.state = "START_PENDING"
    /\ \/ Becomes("RUNNING", TRUE, "none")
       \/ kind = "managed" /\ Becomes("RUNNING", FALSE, "none")
    /\ Notes({"launched"})
    /\ UNCHANGED <<kind, stopSent, recovery, restart, disabled, marked, exists,
                   starts, handles>>

\* A managed service pauses and continues by itself.
PausesOrContinues ==
    /\ kind = "managed" /\ ~stopSent
    /\ \/ status.state = "RUNNING" /\ Becomes("PAUSED", TRUE, "none")
       \/ status.state = "PAUSED" /\ Becomes("RUNNING", TRUE, "none")
    /\ UNCHANGED <<kind, stopSent, recovery, restart, disabled, marked, exists,
                   starts, handles, since>>

\* It takes a STOP, or ends by itself.
BeginsStopping ==
    /\ status.state \in {"RUNNING", "PAUSED"}
    /\ Becomes("STOP_PENDING", FALSE, "none")
    /\ UNCHANGED <<kind, stopSent, recovery, restart, disabled, marked, exists,
                   starts, handles, since>>

Ends(exit, facts) ==
    /\ Becomes("STOPPED", FALSE, exit)
    /\ Notes(facts \cup {"stopped"})
    /\ restart' \in BOOLEAN /\ (restart' => exit \in Restarted)
    /\ stopSent' = FALSE
    /\ UNCHANGED <<kind, recovery, disabled, marked, exists, starts, handles>>

Stops ==
    /\ status.state = "STOP_PENDING"
    /\ \E exit \in {"clean", "daemon", "shim", "incomplete"} : Ends(exit, {})

\* The start fails before it reports RUNNING: in the shim, in a managed
\* service, or, when it was SCM's own, before anything connected to SCM.
StartFails ==
    /\ status.state = "START_PENDING"
    /\ \/ Ends("shim", {})
       \/ kind = "managed" /\ Ends("daemon", {})
       \/ recovery /\ Ends("unconnected", {"unconnected"})

\* A daemon launched and ended by a shim whose RUNNING report was lost.
EndsUnseen ==
    /\ kind = "simple" /\ status.state = "START_PENDING"
    /\ \E exit \in {"clean", "daemon", "incomplete"} : Ends(exit, {"launched"})

\* The process is killed.
Dies ==
    /\ status.state # "STOPPED"
    /\ Ends("aborted", {})

\* The record goes with the last handle of a marked, stopped service.
ScmDeletes ==
    /\ exists /\ marked /\ status.state = "STOPPED" /\ handles = {}
    /\ exists' = FALSE
    /\ UNCHANGED <<kind, status, stopSent, recovery, restart, disabled, marked,
                   starts, handles, reg, since>>
=============================================================================
