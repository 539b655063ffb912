-------------------------------- MODULE Shim --------------------------------
(***************************************************************************)
(* One run of goetia-shim (bin/shim/service.rs and bin/shim/stop_bus.rs):  *)
(* the service thread that launches the daemon, waits for it to end or for *)
(* a stop, tears its tree down and reports STOPPED; the waiter thread that *)
(* blocks in child.wait(); and the dispatcher thread that runs the control *)
(* handler.  The three share one mutex-guarded Gate (fate, childDone,      *)
(* waitFailure) and one condition variable.                                *)
(*                                                                         *)
(* An action is one critical section, or one call between two of them.     *)
(* SCM, the daemon and the cosca calls are the environment: a kill, a      *)
(* wait, a spawn, a thread or a status report may each fail.               *)
(***************************************************************************)
EXTENDS ExitStatus

CONSTANTS
    DaemonCodes,        \* the exit codes a daemon may end with (i32)
    OsErrors,           \* what os_error_of finds in a failure
    KilledCode          \* the exit code of a terminated process

ASSUME ShimAssumption ==
    /\ DaemonCodes \subseteq I32
    /\ OsErrors \subseteq I32 \cup {NoCode}
    /\ KilledCode \in I32

VARIABLES
    fate,           \* Gate.fate: how the run ends, decided once
    childDone,      \* Gate.child_done: the waiter's wait returned
    waitFailure,    \* Gate.wait_failure: None, or Some(os error)
    pc,             \* where the service thread is
    waiter,         \* the waiter thread
    stopping,       \* local of wait_for_child_or_stop, read with the lock held
    failure,        \* local wait_failure of the same call
    teardown,       \* what kill_for_stop reached
    reported,       \* how the run is reported, once decided
    root,           \* the daemon's own process
    exit,           \* the exit code of a dead root
    descendants,    \* whether other members of the daemon's tree may run
    inFlight,       \* SCM delivered a STOP the handler has not seen yet
    scm,            \* the state SCM holds for the service
    record,         \* the exit codes SCM holds, and who put them there
    lost            \* whether a SetServiceStatus call failed

gate == <<fate, childDone, waitFailure>>
locals == <<stopping, failure, teardown>>
daemon == <<root, exit, descendants>>
view == <<scm, record, lost>>
vars == <<gate, pc, waiter, locals, reported, daemon, inFlight, view>>

Undecided == [kind |-> "Undecided", code |-> 0]
NoRecord == [by |-> "nobody", codes |-> <<0, 0>>]
None == [some |-> FALSE, os_error |-> NoCode]
Some(os_error) == [some |-> TRUE, os_error |-> os_error]

\* The Arc<Child> the waiter's closure owns from the hand-over until it ends.
WaiterHoldsChild == waiter \in {"watching", "reportedDone"}
TreeEnded == root # "alive" /\ ~descendants

Init ==
    /\ fate = "Open" /\ childDone = FALSE /\ waitFailure = None
    /\ pc = "register" /\ waiter = "unmade"
    /\ stopping = FALSE /\ failure = None /\ teardown = "NotTried"
    /\ reported = Undecided
    /\ root = "unspawned" /\ exit = 0 /\ descendants = FALSE
    /\ inFlight = FALSE
    /\ scm = "START_PENDING" /\ record = NoRecord /\ lost = FALSE
-----------------------------------------------------------------------------
(* The Gate's critical sections. *)

\* Slip: a stop is accepted over a failure already decided.
request_stop_AfterFailure ==
    fate' = "Stopped" /\ UNCHANGED <<childDone, waitFailure>>

request_stop ==
    /\ fate' = IF fate = "Failed" THEN fate ELSE "Stopped"
    /\ UNCHANGED <<childDone, waitFailure>>

report_done(f) ==
    /\ waitFailure' = f
    /\ childDone' = TRUE
    /\ UNCHANGED fate

\* Slip: the exit is reported as it is, stop or no stop.
settle_ForgetsStop(candidate) ==
    /\ reported' = candidate
    /\ fate' = IF fate = "Open" /\ candidate # Clean THEN "Failed" ELSE fate
    /\ UNCHANGED <<childDone, waitFailure>>

settle(candidate) ==
    /\ reported' = IF fate = "Stopped" THEN Clean ELSE candidate
    /\ fate' = IF fate # "Stopped" /\ candidate # Clean THEN "Failed" ELSE fate
    /\ UNCHANGED <<childDone, waitFailure>>

refuse_stops ==
    /\ fate' = IF fate = "Open" THEN "Failed" ELSE fate
    /\ UNCHANGED <<childDone, waitFailure>>
-----------------------------------------------------------------------------
(* cosca's kills.  Ok from kill_tree means TerminateJobObject succeeded:   *)
(* every member counts as ended.  Ok from kill ends the root alone.  What  *)
(* a refused kill reached anyway, the daemon's own steps cover.            *)

KillTreeOk ==
    /\ root' = "dead" /\ descendants' = FALSE
    /\ exit' = IF root = "alive" THEN KilledCode ELSE exit

KillRootOk ==
    /\ root' = "dead" /\ UNCHANGED descendants
    /\ exit' = IF root = "alive" THEN KilledCode ELSE exit

kill_for_stop ==
    \/ teardown' = "Tree" /\ KillTreeOk
    \/ teardown' = "ChildOnly" /\ KillRootOk
    \/ teardown' = "Failed" /\ UNCHANGED daemon
-----------------------------------------------------------------------------
(* The service thread: run_service, launch, run_daemon, finish. *)

\* A refused registration ends the process with no status ever reported.
RegisterHandler ==
    /\ pc = "register"
    /\ pc' \in {"read", "exit"}
    /\ UNCHANGED <<gate, waiter, locals, reported, daemon, inFlight, view>>

ReadBlob ==
    /\ pc = "read"
    /\ \/ pc' = "waiter" /\ UNCHANGED reported
       \/ pc' = "finish" /\ reported' = shim_failure(ERROR_INVALID_DATA)
    /\ UNCHANGED <<gate, waiter, locals, daemon, inFlight, view>>

MakeWaiter ==
    /\ pc = "waiter"
    /\ \/ pc' = "spawn" /\ waiter' = "parked" /\ UNCHANGED reported
       \/ /\ pc' = "finish" /\ UNCHANGED waiter
          /\ \E e \in OsErrors : reported' = shim_failure(e)
    /\ UNCHANGED <<gate, locals, daemon, inFlight, view>>

\* The spawn, with the containment it achieved; a refused spawn drops the
\* waiter's hand.
Spawn ==
    /\ pc = "spawn"
    /\ \/ /\ pc' \in {"running", "uncontained"}
          /\ root' = "alive"
          /\ UNCHANGED <<waiter, reported>>
       \/ /\ pc' = "finish" /\ waiter' = "ended" /\ UNCHANGED root
          /\ \E e \in OsErrors : reported' = shim_failure(e)
    /\ UNCHANGED <<gate, locals, exit, descendants, inFlight, view>>

\* require_job_object's refusal: the daemon is killed, whatever that reaches,
\* and a child that could not be killed is let go (detach).
RefuseUncontained ==
    /\ pc = "uncontained"
    /\ kill_for_stop
    /\ waiter' = "ended"
    /\ reported' = IncompleteStop
    /\ pc' = IF teardown' = "Failed" THEN "finish" ELSE "drop"
    /\ UNCHANGED <<gate, stopping, failure, inFlight, view>>

ReportRunning ==
    /\ pc = "running"
    /\ pc' = "reset"
    /\ \/ scm' = "RUNNING" /\ UNCHANGED lost
       \/ lost' = TRUE /\ UNCHANGED scm
    /\ UNCHANGED <<gate, waiter, locals, reported, daemon, inFlight, record>>

\* Slip: the waiter gets the daemon before the gate is reset.
ResetGate_AfterHandOver ==
    /\ pc = "reset"
    /\ \/ waiter = "parked" /\ waiter' = "watching" /\ UNCHANGED <<pc, gate>>
       \/ /\ waiter # "parked" /\ pc' = "wait"
          /\ childDone' = FALSE /\ waitFailure' = None
          /\ UNCHANGED <<fate, waiter>>
    /\ UNCHANGED <<locals, reported, daemon, inFlight, view>>

ResetGate ==
    /\ pc = "reset"
    /\ pc' = "watch"
    /\ childDone' = FALSE /\ waitFailure' = None
    /\ UNCHANGED <<fate, waiter, locals, reported, daemon, inFlight, view>>

HandOver ==
    /\ pc = "watch"
    /\ pc' = "wait" /\ waiter' = "watching"
    /\ UNCHANGED <<gate, locals, reported, daemon, inFlight, view>>

\* Slip: the teardown starts before STOP_PENDING is reported.
WakeUp_SkipsPending ==
    /\ pc = "wait"
    /\ fate = "Stopped" \/ childDone
    /\ stopping' = (fate = "Stopped")
    /\ failure' = waitFailure
    /\ pc' = IF stopping' \/ failure'.some THEN "kill" ELSE "stopping"
    /\ UNCHANGED <<gate, waiter, teardown, reported, daemon, inFlight, view>>

\* The condition-variable wait returns, and reads the gate under the lock.
WakeUp ==
    /\ pc = "wait"
    /\ fate = "Stopped" \/ childDone
    /\ stopping' = (fate = "Stopped")
    /\ failure' = waitFailure
    /\ pc' = "stopping"
    /\ UNCHANGED <<gate, waiter, teardown, reported, daemon, inFlight, view>>

ReportStopping ==
    /\ pc = "stopping"
    /\ pc' = IF ~stopping /\ ~failure.some THEN "join" ELSE "kill"
    /\ \/ scm' = "STOP_PENDING" /\ UNCHANGED lost
       \/ lost' = TRUE /\ UNCHANGED scm
    /\ UNCHANGED <<gate, waiter, locals, reported, daemon, inFlight, record>>

\* Slip: the waiter is joined after two refused kills as well.
KillForStop_AlwaysJoins ==
    /\ pc = "kill"
    /\ kill_for_stop
    /\ pc' = IF teardown' # "Tree" /\ ~stopping THEN "refuse" ELSE "join"
    /\ UNCHANGED <<gate, waiter, stopping, failure, reported, inFlight, view>>

KillForStop ==
    /\ pc = "kill"
    /\ kill_for_stop
    /\ pc' = IF teardown' # "Tree" /\ ~stopping THEN "refuse"
             ELSE IF teardown' = "Failed" THEN "mayRun" ELSE "join"
    /\ UNCHANGED <<gate, waiter, stopping, failure, reported, inFlight, view>>

RefuseStops ==
    /\ pc = "refuse"
    /\ refuse_stops
    /\ pc' = IF teardown = "Failed" THEN "mayRun" ELSE "join"
    /\ UNCHANGED <<waiter, locals, reported, daemon, inFlight, view>>

\* waiting.join(), then the outcome decides what is left to do.
Join ==
    /\ pc = "join"
    /\ waiter = "ended"
    /\ \/ teardown = "NotTried" /\ pc' = "status" /\ UNCHANGED reported
       \/ teardown = "ChildOnly" /\ pc' = "mayRun" /\ UNCHANGED reported
       \/ /\ teardown = "Tree" /\ ~stopping
          /\ pc' = "settle" /\ UNCHANGED reported
       \/ /\ teardown = "Tree" /\ stopping
          /\ pc' = "drop" /\ reported' = Clean
    /\ UNCHANGED <<gate, waiter, locals, daemon, inFlight, view>>

\* WaitOutcome::DaemonMayRun.
DaemonMayRun ==
    /\ pc = "mayRun"
    /\ reported' = IncompleteStop
    /\ pc' = "drop"
    /\ UNCHANGED <<gate, waiter, locals, daemon, inFlight, view>>

\* WaitOutcome::WaitFailed, whose tree was terminated.
SettleWaitFailure ==
    /\ pc = "settle"
    /\ settle(shim_failure(failure.os_error))
    /\ pc' = "drop"
    /\ UNCHANGED <<waiter, locals, daemon, inFlight, view>>

\* WaitOutcome::ChildExited: the exit status, which may be unreadable, settled
\* against the stops accepted so far.
SettleExit ==
    /\ pc = "status"
    /\ settle(from_daemon_code(exit)) \/ settle(shim_failure(NoCode))
    /\ pc' = "endTree"
    /\ UNCHANGED <<waiter, locals, daemon, inFlight, view>>

\* Slip: the settled exit is reported although its tree was not terminated.
end_tree_before_report_Unchecked ==
    /\ pc = "endTree"
    /\ pc' = "drop"
    /\ KillTreeOk \/ UNCHANGED daemon
    /\ UNCHANGED <<gate, waiter, locals, reported, inFlight, view>>

end_tree_before_report ==
    /\ pc = "endTree"
    /\ pc' = "drop"
    /\ \/ KillTreeOk /\ UNCHANGED reported
       \/ reported' = IncompleteStop /\ UNCHANGED daemon
    /\ UNCHANGED <<gate, waiter, locals, inFlight, view>>

\* run_daemon returns and its Arc<Child> goes.  The last holder's drop kills
\* the tree once more and then waits for the root, with no bound.
DropChild ==
    /\ pc = "drop"
    /\ \/ WaiterHoldsChild /\ pc' = "finish" /\ UNCHANGED daemon
       \/ ~WaiterHoldsChild /\ pc' = "finish" /\ KillTreeOk
       \/ ~WaiterHoldsChild /\ pc' = "dropWait" /\ UNCHANGED daemon
    /\ UNCHANGED <<gate, waiter, locals, reported, inFlight, view>>

DropWaits ==
    /\ pc = "dropWait"
    /\ root = "dead"
    /\ pc' = "finish"
    /\ UNCHANGED <<gate, waiter, locals, reported, daemon, inFlight, view>>

ReportStopped ==
    /\ pc = "finish"
    /\ pc' = "exit"
    /\ \/ /\ scm' = "STOPPED"
          /\ record' = [by |-> "shim", codes |-> scm_codes(reported)]
          /\ UNCHANGED lost
       \/ lost' = TRUE /\ UNCHANGED <<scm, record>>
    /\ UNCHANGED <<gate, waiter, locals, reported, daemon, inFlight>>

\* process::exit ends the other threads; SCM records 1067 for a process that
\* ends without a STOPPED report.
ExitProcess ==
    /\ pc = "exit"
    /\ pc' = "gone"
    /\ waiter' = "ended" /\ inFlight' = FALSE
    /\ scm' = "STOPPED"
    /\ record' = IF scm = "STOPPED" THEN record
                 ELSE [by |-> "scm", codes |-> <<ERROR_PROCESS_ABORTED, 0>>]
    /\ UNCHANGED <<gate, locals, reported, daemon, lost>>

ServiceThread ==
    \/ RegisterHandler \/ ReadBlob \/ MakeWaiter \/ Spawn \/ RefuseUncontained
    \/ ReportRunning \/ ResetGate \/ HandOver \/ WakeUp \/ ReportStopping
    \/ KillForStop \/ RefuseStops \/ Join \/ DaemonMayRun
    \/ SettleWaitFailure \/ SettleExit \/ end_tree_before_report
    \/ DropChild \/ DropWaits \/ ReportStopped \/ ExitProcess
-----------------------------------------------------------------------------
(* The waiter thread. *)

WaitReturns ==
    /\ waiter = "watching" /\ root = "dead"
    /\ waiter' = "reportedDone"
    /\ report_done(None)
    /\ UNCHANGED <<pc, locals, reported, daemon, inFlight, view>>

\* child.wait() fails, or the closure panics (ReportOnPanic: no OS code).
WaitFails ==
    /\ waiter = "watching"
    /\ waiter' = "reportedDone"
    /\ \E e \in OsErrors \cup {NoCode} : report_done(Some(e))
    /\ UNCHANGED <<pc, locals, reported, daemon, inFlight, view>>

\* The closure ends and its Arc<Child> goes.
WaiterEnds ==
    /\ waiter = "reportedDone"
    /\ waiter' = "ended"
    /\ UNCHANGED <<gate, pc, locals, reported, daemon, inFlight, view>>

WaiterThread == WaitReturns \/ WaitFails \/ WaiterEnds
-----------------------------------------------------------------------------
(* SCM, its dispatcher thread in this process, and the daemon. *)

\* SCM delivers STOP only to a service whose status accepts it.
ScmStop ==
    /\ scm = "RUNNING" /\ ~inFlight
    /\ inFlight' = TRUE
    /\ UNCHANGED <<gate, pc, waiter, locals, reported, daemon, view>>

\* handle_control: NO_ERROR whatever request_stop answers.
HandleControl ==
    /\ inFlight
    /\ inFlight' = FALSE
    /\ request_stop
    /\ UNCHANGED <<pc, waiter, locals, reported, daemon, view>>

DaemonExits ==
    /\ root = "alive"
    /\ root' = "dead"
    /\ exit' \in DaemonCodes
    /\ UNCHANGED <<gate, pc, waiter, locals, reported, descendants, inFlight, view>>

\* The daemon starts another member of its tree, or the last of them ends.
TreeChanges ==
    /\ \/ root = "alive" /\ ~descendants /\ descendants' = TRUE
       \/ descendants /\ descendants' = FALSE
    /\ UNCHANGED <<gate, pc, waiter, locals, reported, root, exit, inFlight, view>>

Gone == pc = "gone" /\ UNCHANGED vars

Next ==
    \/ ServiceThread \/ WaiterThread \/ HandleControl
    \/ ScmStop \/ DaemonExits \/ TreeChanges
    \/ Gone

\* The shim's threads run; SCM and the daemon need not do anything.
Fairness ==
    /\ WF_vars(ServiceThread)
    /\ WF_vars(WaitReturns \/ WaiterEnds)
    /\ WF_vars(HandleControl)

Spec == Init /\ [][Next]_vars
FairSpec == Spec /\ Fairness
-----------------------------------------------------------------------------
(* Properties. *)

ServicePcs ==
    {"register", "read", "waiter", "spawn", "uncontained", "running", "reset",
     "watch", "wait", "stopping", "kill", "refuse", "join", "mayRun", "settle",
     "status", "endTree", "drop", "dropWait", "finish", "exit", "gone"}
Failures == [some : BOOLEAN, os_error : OsErrors \cup {NoCode}]
Records == [by : {"nobody", "shim", "scm"}, codes : U32 \X U32]

\* Every variable has its type.
TypeOK ==
    /\ fate \in {"Open", "Stopped", "Failed"}
    /\ childDone \in BOOLEAN
    /\ waitFailure \in Failures
    /\ pc \in ServicePcs
    /\ waiter \in {"unmade", "parked", "watching", "reportedDone", "ended"}
    /\ stopping \in BOOLEAN
    /\ failure \in Failures
    /\ teardown \in {"NotTried", "Tree", "ChildOnly", "Failed"}
    /\ reported \in Reported \cup {Undecided}
    /\ root \in {"unspawned", "alive", "dead"}
    /\ exit \in I32
    /\ descendants \in BOOLEAN
    /\ inFlight \in BOOLEAN
    /\ scm \in {"START_PENDING", "RUNNING", "STOP_PENDING", "STOPPED"}
    /\ record \in Records
    /\ lost \in BOOLEAN

\* A stop request_stop accepted is never followed by an outcome SCM restarts,
\* however the daemon, the waiter and the kills went (StopBus::settle).
AcceptedStopWins ==
    fate = "Stopped" /\ reported # Undecided
        => reported \in {Clean, IncompleteStop}

\* A STOPPED report other than the incomplete stop is made only once the
\* daemon's whole tree has ended, so neither a restart nor a start runs
\* beside survivors (end_tree_before_report, WaitOutcome::DaemonMayRun).
NoStoppedOverSurvivors ==
    record.by = "shim" /\ ~is_incomplete_stop(record.codes) => TreeEnded

\* SCM's record says which of the outcomes it was: no shim failure reads as a
\* clean exit or as a daemon's code, no daemon code as an incomplete stop
\* (Reported::scm_codes against RecordedExit).
RecordTellsOutcome ==
    record.by = "shim" =>
        /\ is_incomplete_stop(record.codes) <=> reported = IncompleteStop
        /\ daemon_ran(record.codes) <=> reported.kind # "ShimFailure"
        /\ ScmRestarts(record.codes) <=>
               reported.kind \in {"DaemonExit", "ShimFailure"}

\* The service thread ends no member of a launched daemon's tree while SCM
\* reads RUNNING, unless a status report was lost (on_stopping).
StopPendingBeforeTeardown ==
    [][~TreeEnded /\ TreeEnded' /\ pc' # pc /\ ~lost => scm # "RUNNING"]_vars

\* The run keeps the promise RunPromise states.
OutcomeName ==
    IF reported.kind \in {"DaemonExit", "ShimFailure"} THEN "failure"
    ELSE IF reported = Clean THEN "clean"
    ELSE IF reported = IncompleteStop THEN "incomplete" ELSE "none"
Promise == INSTANCE RunPromise WITH
    accepted <- fate = "Stopped",
    outcome  <- OutcomeName,
    up       <- ~TreeEnded,
    over     <- record.by = "shim"
KeepsPromise == Promise!Spec

\* An accepted stop ends the run even when kills are refused: the join never
\* waits for a daemon nothing told to exit. Only the drop of a child no kill
\* reached does, see StoppedIsReported.
StopCompletes == fate = "Stopped" ~> pc \in {"gone", "dropWait"}

\* A daemon's exit ends the run: the waiter's report is never lost between
\* the reset of the gate and the wait on it.
ExitCompletes == root = "dead" ~> pc = "gone"

\* service.rs, on WaitOutcome::DaemonMayRun: "Still reports STOPPED so the
\* service stays stoppable and uninstallable."
StoppedIsReported == pc = "mayRun" ~> pc = "finish"

\* A run ends, by a stop or by the daemon's exit.
RunEnds == StopCompletes /\ ExitCompletes
=============================================================================
