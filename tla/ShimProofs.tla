----------------------------- MODULE ShimProofs -----------------------------
(***************************************************************************)
(* Proofs about Shim for every set of daemon codes and OS errors, whether  *)
(* or not the kill of Child::drop may be refused: its types, and the       *)
(* safety properties the runs check.                                       *)
(*                                                                         *)
(* IInv is the inductive strengthening.  Its parts say what each stretch   *)
(* of the service thread may rely on: nothing can deliver a stop before    *)
(* the daemon is launched, a restartable outcome closes the gate, a tree   *)
(* said to be terminated has ended, and the record is the outcome.         *)
(***************************************************************************)
EXTENDS Shim, TLAPS

Restartable(r) == r.kind \in {"DaemonExit", "ShimFailure"}

\* The outcomes the code can build: the shim's own failures never carry 0 or
\* 1066, and the other kinds are exactly the two constants.
OutcomeOK ==
    \/ reported \in {Undecided, Clean, IncompleteStop}
    \/ reported.kind = "DaemonExit"
    \/ /\ reported.kind = "ShimFailure"
       /\ reported.code \notin {0, ERROR_SERVICE_SPECIFIC_ERROR}

\* Up to the launch there is no daemon and nothing is decided.
Launching ==
    pc \in {"register", "read", "waiter", "spawn"} =>
        root = "unspawned" /\ reported = Undecided /\ teardown = "NotTried"

\* SCM delivers a stop only after RUNNING, so only to a launched daemon.
NoStopBeforeRunning ==
    root = "unspawned" \/ pc \in {"uncontained", "running"} =>
        fate = "Open" /\ ~inFlight /\ scm # "RUNNING"

\* From the spawn to the drop of the child there is a daemon.
Launched ==
    pc \in {"uncontained", "running", "reset", "watch", "wait", "stopping",
            "kill", "refuse", "join", "mayRun", "settle", "status", "endTree",
            "drop", "dropWait"} => root # "unspawned"

NoTreeBeforeSpawn == root = "unspawned" => ~descendants

\* A restartable outcome closes the gate, unless nothing was ever launched.
FailureCloses ==
    Restartable(reported) => fate = "Failed" \/ root = "unspawned"

Past == {"drop", "dropWait", "finish", "exit", "gone"}

\* Terminated trees have ended, and stay so on the way to the report.
TreeAccounted ==
    /\ teardown = "Tree" => TreeEnded
    /\ pc = "settle" => teardown = "Tree"
    /\ pc \in Past /\ reported # IncompleteStop => TreeEnded
    /\ pc \in {"endTree", "drop", "dropWait", "finish"} => reported # Undecided

RecordIsOutcome ==
    record.by = "shim" =>
        /\ record.codes = scm_codes(reported)
        /\ reported # Undecided
        /\ pc \in {"exit", "gone"}
        /\ scm = "STOPPED"

\* Nothing is decided before the join, or the settling, that decides it.
DecidedLate ==
    pc \notin {"endTree"} \cup Past => reported = Undecided

\* From the moment the stop is announced, SCM reads RUNNING only when a status
\* report was lost.
Announced ==
    pc \notin {"running", "reset", "watch", "wait", "stopping"} =>
        scm # "RUNNING" \/ lost

Control ==
    /\ Launching
    /\ Launched
    /\ NoStopBeforeRunning
    /\ NoTreeBeforeSpawn
    /\ FailureCloses
    /\ TreeAccounted
    /\ RecordIsOutcome
    /\ Announced
    /\ DecidedLate

IInv == TypeOK /\ OutcomeOK /\ Control
-----------------------------------------------------------------------------
(* What the constructors of exit_status.rs build. *)

\* Every i32 has its bits in the u32 range, and 0 is the only one read as 0.
LEMMA AsU32Type ==
    \A c \in I32 : AsU32(c) \in U32 /\ (AsU32(c) = 0 <=> c = 0)
  BY ExitStatusAssumption
     DEF I32, U32, AsU32, ERROR_PROCESS_ABORTED

\* The constants named in the code are u32 values.
LEMMA CodesAreU32 ==
    /\ {0, ERROR_INVALID_DATA, ERROR_GEN_FAILURE, ERROR_CAN_NOT_COMPLETE,
        ERROR_SERVICE_SPECIFIC_ERROR, ERROR_PROCESS_ABORTED} \subseteq U32
    /\ ERROR_INVALID_DATA \in I32
  BY ExitStatusAssumption
     DEF U32, I32, ERROR_INVALID_DATA, ERROR_GEN_FAILURE,
         ERROR_CAN_NOT_COMPLETE, ERROR_SERVICE_SPECIFIC_ERROR,
         ERROR_PROCESS_ABORTED

\* A daemon's code becomes Clean or a DaemonExit, nothing else.
LEMMA DaemonOutcome ==
    ASSUME NEW c \in I32
    PROVE  /\ from_daemon_code(c) \in Reported
           /\ \/ from_daemon_code(c) = Clean
              \/ from_daemon_code(c).kind = "DaemonExit"
  BY AsU32Type, CodesAreU32 DEF from_daemon_code, Clean, Reported, Kinds

\* A shim failure never carries 0, which would read as clean, nor 1066.
LEMMA FailureOutcome ==
    ASSUME NEW e \in I32 \cup {NoCode}
    PROVE  /\ shim_failure(e) \in Reported
           /\ shim_failure(e).kind = "ShimFailure"
           /\ shim_failure(e).code \notin {0, ERROR_SERVICE_SPECIFIC_ERROR}
  <1>1. CASE e = NoCode
    BY <1>1, CodesAreU32
       DEF shim_failure, Reported, Kinds, ERROR_GEN_FAILURE,
           ERROR_SERVICE_SPECIFIC_ERROR
  <1>2. CASE e # NoCode
    BY <1>2, AsU32Type, CodesAreU32
       DEF shim_failure, Reported, Kinds, ERROR_GEN_FAILURE,
           ERROR_SERVICE_SPECIFIC_ERROR
  <1>3. QED BY <1>1, <1>2

\* The two fixed outcomes are outcomes, and none is the undecided one.
LEMMA FixedOutcomes ==
    /\ Clean \in Reported /\ IncompleteStop \in Reported
    /\ Undecided \notin Reported
  BY CodesAreU32 DEF Clean, IncompleteStop, Undecided, Reported, Kinds

\* Only a daemon's failure and a shim failure are restartable.
LEMMA FixedKinds ==
    /\ ~Restartable(Clean) /\ ~Restartable(IncompleteStop)
    /\ ~Restartable(Undecided)
    /\ Clean # IncompleteStop
  BY DEF Clean, IncompleteStop, Undecided, Restartable

\* What is reported to SCM, and what SCM writes itself, are records.
LEMMA RecordTypes ==
    /\ \A r \in Reported :
           [by |-> "shim", codes |-> scm_codes(r)] \in Records
    /\ [by |-> "scm", codes |-> <<ERROR_PROCESS_ABORTED, 0>>] \in Records
  BY CodesAreU32 DEF scm_codes, Reported, Kinds, Records

\* The waiter's reports are wait failures or none.
LEMMA FailureTypes ==
    /\ None \in Failures
    /\ \A e \in OsErrors \cup {NoCode} : Some(e) \in Failures
    /\ \A f \in Failures : f.os_error \in OsErrors \cup {NoCode}
  BY DEF None, Some, Failures
-----------------------------------------------------------------------------
(* Types. *)

\* Every step keeps the types; the join of a terminated tree needs to know
\* that the tree has ended.
LEMMA TypeStep == TypeOK /\ TreeAccounted /\ [Next]_vars => TypeOK'
  <1>1. TypeOK /\ TreeAccounted /\ RegisterHandler => TypeOK'
    BY DEF RegisterHandler, TypeOK, ServicePcs, gate, locals, daemon, view
  <1>2. TypeOK /\ TreeAccounted /\ ReadBlob => TypeOK'
    BY CodesAreU32, FailureOutcome
       DEF ReadBlob, TypeOK, ServicePcs, gate, locals, daemon, view
  <1>3. TypeOK /\ TreeAccounted /\ MakeWaiter => TypeOK'
    BY FailureOutcome, ShimAssumption
       DEF MakeWaiter, TypeOK, ServicePcs, gate, locals, daemon, view
  <1>4. TypeOK /\ TreeAccounted /\ Spawn => TypeOK'
    BY FailureOutcome, ShimAssumption
       DEF Spawn, TypeOK, ServicePcs, gate, locals, daemon, view
  <1>5. TypeOK /\ TreeAccounted /\ RefuseUncontained => TypeOK'
    <2>1. TypeOK /\ RefuseUncontained =>
            /\ root' \in {"unspawned", "alive", "dead"}
            /\ exit' \in I32
            /\ descendants' \in BOOLEAN
      BY ShimAssumption
         DEF RefuseUncontained, kill_for_stop, KillTreeOk, KillRootOk, daemon,
             TypeOK
    <2>2. TypeOK /\ RefuseUncontained
            => reported' \in Reported \cup {Undecided}
      BY FixedOutcomes DEF RefuseUncontained, TypeOK
    <2>3. QED
      BY <2>1, <2>2
         DEF RefuseUncontained, kill_for_stop, TypeOK, ServicePcs, gate,
             locals, view
  <1>6. TypeOK /\ TreeAccounted /\ ReportRunning => TypeOK'
    BY DEF ReportRunning, TypeOK, ServicePcs, gate, locals, daemon, view
  <1>7. TypeOK /\ TreeAccounted /\ ResetGate => TypeOK'
    <2>1. TypeOK /\ ResetGate =>
            childDone' \in BOOLEAN /\ waitFailure' \in Failures
      BY FailureTypes DEF ResetGate, TypeOK
    <2>2. QED
      BY <2>1 DEF ResetGate, TypeOK, ServicePcs, locals, daemon, view
  <1>8. TypeOK /\ TreeAccounted /\ HandOver => TypeOK'
    BY DEF HandOver, TypeOK, ServicePcs, gate, locals, daemon, view
  <1>9. TypeOK /\ TreeAccounted /\ WakeUp => TypeOK'
    BY DEF WakeUp, TypeOK, ServicePcs, gate, locals, daemon, view
  <1>10. TypeOK /\ TreeAccounted /\ ReportStopping => TypeOK'
    BY DEF ReportStopping, TypeOK, ServicePcs, gate, locals, daemon, view
  <1>11. TypeOK /\ TreeAccounted /\ KillForStop => TypeOK'
    BY ShimAssumption
       DEF KillForStop, kill_for_stop, KillTreeOk, KillRootOk, TypeOK,
           ServicePcs, gate, locals, daemon, view
  <1>12. TypeOK /\ TreeAccounted /\ RefuseStops => TypeOK'
    BY DEF RefuseStops, refuse_stops, TypeOK, ServicePcs, gate, locals,
           daemon, view
  <1>13. TypeOK /\ TreeAccounted /\ Join => TypeOK'
    BY FixedOutcomes
       DEF Join, TypeOK, ServicePcs, gate, locals, daemon, view
  <1>14. TypeOK /\ TreeAccounted /\ DaemonMayRun => TypeOK'
    BY FixedOutcomes
       DEF DaemonMayRun, TypeOK, ServicePcs, gate, locals, daemon, view
  <1>15. TypeOK /\ TreeAccounted /\ SettleWaitFailure => TypeOK'
    BY FailureOutcome, FixedOutcomes, FailureTypes, ShimAssumption
       DEF SettleWaitFailure, settle, TypeOK, ServicePcs, gate, locals,
           daemon, view
  <1>16. TypeOK /\ TreeAccounted /\ SettleExit => TypeOK'
    BY FailureOutcome, DaemonOutcome, FixedOutcomes
       DEF SettleExit, settle, TypeOK, ServicePcs, gate, locals, daemon, view
  <1>17. TypeOK /\ TreeAccounted /\ end_tree_before_report => TypeOK'
    <2>1. TypeOK /\ end_tree_before_report =>
            /\ root' \in {"unspawned", "alive", "dead"}
            /\ exit' \in I32
            /\ descendants' \in BOOLEAN
      BY ShimAssumption
         DEF end_tree_before_report, KillTreeOk, daemon,
             TypeOK
    <2>2. TypeOK /\ end_tree_before_report
            => reported' \in Reported \cup {Undecided}
      BY FixedOutcomes DEF end_tree_before_report, TypeOK
    <2>3. QED
      BY <2>1, <2>2
         DEF end_tree_before_report, TypeOK, ServicePcs, gate,
             locals, view
  <1>18. TypeOK /\ TreeAccounted /\ DropChild => TypeOK'
    BY ShimAssumption
       DEF DropChild, KillTreeOk, TypeOK, ServicePcs, gate, locals, daemon,
           view
  <1>19. TypeOK /\ TreeAccounted /\ DropWaits => TypeOK'
    BY DEF DropWaits, TypeOK, ServicePcs, gate, locals, daemon, view
  <1>20. TypeOK /\ TreeAccounted /\ ReportStopped => TypeOK'
    BY RecordTypes
       DEF ReportStopped, TreeAccounted, TypeOK, ServicePcs, gate, locals,
           daemon, view
  <1>21. TypeOK /\ TreeAccounted /\ ExitProcess => TypeOK'
    BY RecordTypes
       DEF ExitProcess, TypeOK, ServicePcs, gate, locals, daemon, view
  <1>22. TypeOK /\ TreeAccounted /\ WaitReturns => TypeOK'
    BY FailureTypes
       DEF WaitReturns, report_done, TypeOK, ServicePcs, gate, locals, daemon,
           view
  <1>23. TypeOK /\ TreeAccounted /\ WaitFails => TypeOK'
    BY FailureTypes
       DEF WaitFails, report_done, TypeOK, ServicePcs, gate, locals, daemon,
           view
  <1>24. TypeOK /\ TreeAccounted /\ WaiterEnds => TypeOK'
    BY DEF WaiterEnds, TypeOK, ServicePcs, gate, locals, daemon, view
  <1>25. TypeOK /\ TreeAccounted /\ HandleControl => TypeOK'
    BY DEF HandleControl, request_stop, TypeOK, ServicePcs, gate, locals,
           daemon, view
  <1>26. TypeOK /\ TreeAccounted /\ ScmStop => TypeOK'
    BY DEF ScmStop, TypeOK, ServicePcs, gate, locals, daemon, view
  <1>27. TypeOK /\ TreeAccounted /\ DaemonExits => TypeOK'
    BY ShimAssumption
       DEF DaemonExits, TypeOK, ServicePcs, gate, locals, daemon, view
  <1>28. TypeOK /\ TreeAccounted /\ TreeChanges => TypeOK'
    BY DEF TreeChanges, TypeOK, ServicePcs, gate, locals, daemon, view
  <1>29. TypeOK /\ TreeAccounted /\ (Gone \/ UNCHANGED vars) => TypeOK'
    BY DEF Gone, vars, TypeOK, ServicePcs, gate, locals, daemon, view
  <1>30. QED
    BY <1>1, <1>2, <1>3, <1>4, <1>5, <1>6, <1>7, <1>8, <1>9, <1>10, <1>11,
       <1>12, <1>13, <1>14, <1>15, <1>16, <1>17, <1>18, <1>19, <1>20, <1>21,
       <1>22, <1>23, <1>24, <1>25, <1>26, <1>27, <1>28, <1>29
       DEF Next, ServiceThread, WaiterThread

\* Every step decides an outcome the code can build.
LEMMA OutcomeStep == TypeOK /\ OutcomeOK /\ [Next]_vars => OutcomeOK'
  <1>1. TypeOK /\ OutcomeOK /\ RegisterHandler => OutcomeOK'
    BY DEF RegisterHandler, OutcomeOK, gate, locals, daemon, view
  <1>2. TypeOK /\ OutcomeOK /\ ReadBlob => OutcomeOK'
    BY FailureOutcome, CodesAreU32, FixedOutcomes
       DEF ReadBlob, OutcomeOK, gate, locals, daemon, view
  <1>3. TypeOK /\ OutcomeOK /\ MakeWaiter => OutcomeOK'
    BY FailureOutcome, FixedOutcomes, ShimAssumption
       DEF MakeWaiter, OutcomeOK, gate, locals, daemon, view
  <1>4. TypeOK /\ OutcomeOK /\ Spawn => OutcomeOK'
    BY FailureOutcome, FixedOutcomes, ShimAssumption
       DEF Spawn, OutcomeOK, gate, locals, daemon, view
  <1>5. TypeOK /\ OutcomeOK /\ RefuseUncontained => OutcomeOK'
    BY DEF RefuseUncontained, kill_for_stop, KillTreeOk, KillRootOk,
           OutcomeOK, gate, locals, daemon, view
  <1>6. TypeOK /\ OutcomeOK /\ ReportRunning => OutcomeOK'
    BY DEF ReportRunning, OutcomeOK, gate, locals, daemon, view
  <1>7. TypeOK /\ OutcomeOK /\ ResetGate => OutcomeOK'
    BY DEF ResetGate, OutcomeOK, gate, locals, daemon, view
  <1>8. TypeOK /\ OutcomeOK /\ HandOver => OutcomeOK'
    BY DEF HandOver, OutcomeOK, gate, locals, daemon, view
  <1>9. TypeOK /\ OutcomeOK /\ WakeUp => OutcomeOK'
    BY DEF WakeUp, OutcomeOK, gate, locals, daemon, view
  <1>10. TypeOK /\ OutcomeOK /\ ReportStopping => OutcomeOK'
    BY DEF ReportStopping, OutcomeOK, gate, locals, daemon, view
  <1>11. TypeOK /\ OutcomeOK /\ KillForStop => OutcomeOK'
    BY DEF KillForStop, kill_for_stop, KillTreeOk, KillRootOk, OutcomeOK,
           gate, locals, daemon, view
  <1>12. TypeOK /\ OutcomeOK /\ RefuseStops => OutcomeOK'
    BY DEF RefuseStops, refuse_stops, OutcomeOK, gate, locals, daemon, view
  <1>13. TypeOK /\ OutcomeOK /\ Join => OutcomeOK'
    BY DEF Join, OutcomeOK, gate, locals, daemon, view
  <1>14. TypeOK /\ OutcomeOK /\ DaemonMayRun => OutcomeOK'
    BY DEF DaemonMayRun, OutcomeOK, gate, locals, daemon, view
  <1>15. TypeOK /\ OutcomeOK /\ SettleWaitFailure => OutcomeOK'
    BY FailureOutcome, FailureTypes, ShimAssumption
       DEF SettleWaitFailure, settle, TypeOK, OutcomeOK, gate, locals, daemon,
           view
  <1>16. TypeOK /\ OutcomeOK /\ SettleExit => OutcomeOK'
    BY FailureOutcome, DaemonOutcome, FixedOutcomes
       DEF SettleExit, settle, TypeOK, OutcomeOK, gate, locals, daemon, view
  <1>17. TypeOK /\ OutcomeOK /\ end_tree_before_report => OutcomeOK'
    BY DEF end_tree_before_report, KillTreeOk, OutcomeOK, gate, locals,
           daemon, view
  <1>18. TypeOK /\ OutcomeOK /\ DropChild => OutcomeOK'
    BY DEF DropChild, KillTreeOk, OutcomeOK, gate, locals, daemon, view
  <1>19. TypeOK /\ OutcomeOK /\ DropWaits => OutcomeOK'
    BY DEF DropWaits, OutcomeOK, gate, locals, daemon, view
  <1>20. TypeOK /\ OutcomeOK /\ ReportStopped => OutcomeOK'
    BY DEF ReportStopped, OutcomeOK, gate, locals, daemon, view
  <1>21. TypeOK /\ OutcomeOK /\ ExitProcess => OutcomeOK'
    BY DEF ExitProcess, OutcomeOK, gate, locals, daemon, view
  <1>22. TypeOK /\ OutcomeOK /\ WaitReturns => OutcomeOK'
    BY DEF WaitReturns, report_done, OutcomeOK, gate, locals, daemon, view
  <1>23. TypeOK /\ OutcomeOK /\ WaitFails => OutcomeOK'
    BY DEF WaitFails, report_done, OutcomeOK, gate, locals, daemon, view
  <1>24. TypeOK /\ OutcomeOK /\ WaiterEnds => OutcomeOK'
    BY DEF WaiterEnds, OutcomeOK, gate, locals, daemon, view
  <1>25. TypeOK /\ OutcomeOK /\ HandleControl => OutcomeOK'
    BY DEF HandleControl, request_stop, OutcomeOK, gate, locals, daemon, view
  <1>26. TypeOK /\ OutcomeOK /\ ScmStop => OutcomeOK'
    BY DEF ScmStop, OutcomeOK, gate, locals, daemon, view
  <1>27. TypeOK /\ OutcomeOK /\ DaemonExits => OutcomeOK'
    BY DEF DaemonExits, OutcomeOK, gate, locals, daemon, view
  <1>28. TypeOK /\ OutcomeOK /\ TreeChanges => OutcomeOK'
    BY DEF TreeChanges, OutcomeOK, gate, locals, daemon, view
  <1>29. TypeOK /\ OutcomeOK /\ (Gone \/ UNCHANGED vars) => OutcomeOK'
    BY DEF Gone, vars, OutcomeOK, gate, locals, daemon, view
  <1>30. QED
    BY <1>1, <1>2, <1>3, <1>4, <1>5, <1>6, <1>7, <1>8, <1>9, <1>10, <1>11,
       <1>12, <1>13, <1>14, <1>15, <1>16, <1>17, <1>18, <1>19, <1>20, <1>21,
       <1>22, <1>23, <1>24, <1>25, <1>26, <1>27, <1>28, <1>29
       DEF Next, ServiceThread, WaiterThread

-----------------------------------------------------------------------------
(* Control. *)

\* Before and after the launch.
LaunchParts ==
    Launching /\ Launched /\ NoStopBeforeRunning /\ NoTreeBeforeSpawn

\* What holds up to the launch and what holds after it are inductive together.
LEMMA LaunchStep == LaunchParts /\ [Next]_vars => LaunchParts'
  <1>1. LaunchParts /\ RegisterHandler => LaunchParts'
    BY DEF RegisterHandler, LaunchParts, Launching, Launched,
           NoStopBeforeRunning, NoTreeBeforeSpawn, gate, locals, daemon, view
  <1>2. LaunchParts /\ ReadBlob => LaunchParts'
    BY DEF ReadBlob, LaunchParts, Launching, Launched, NoStopBeforeRunning,
           NoTreeBeforeSpawn, gate, locals, daemon, view
  <1>3. LaunchParts /\ MakeWaiter => LaunchParts'
    BY DEF MakeWaiter, LaunchParts, Launching, Launched, NoStopBeforeRunning,
           NoTreeBeforeSpawn, gate, locals, daemon, view
  <1>4. LaunchParts /\ Spawn => LaunchParts'
    BY DEF Spawn, LaunchParts, Launching, Launched, NoStopBeforeRunning,
           NoTreeBeforeSpawn, gate, locals, daemon, view
  <1>5. LaunchParts /\ RefuseUncontained => LaunchParts'
    BY DEF RefuseUncontained, kill_for_stop, KillTreeOk, KillRootOk,
           LaunchParts, Launching, Launched, NoStopBeforeRunning,
           NoTreeBeforeSpawn, gate, locals, daemon, view
  <1>6. LaunchParts /\ ReportRunning => LaunchParts'
    BY DEF ReportRunning, LaunchParts, Launching, Launched,
           NoStopBeforeRunning, NoTreeBeforeSpawn, gate, locals, daemon, view
  <1>7. LaunchParts /\ ResetGate => LaunchParts'
    BY DEF ResetGate, LaunchParts, Launching, Launched, NoStopBeforeRunning,
           NoTreeBeforeSpawn, gate, locals, daemon, view
  <1>8. LaunchParts /\ HandOver => LaunchParts'
    BY DEF HandOver, LaunchParts, Launching, Launched, NoStopBeforeRunning,
           NoTreeBeforeSpawn, gate, locals, daemon, view
  <1>9. LaunchParts /\ WakeUp => LaunchParts'
    BY DEF WakeUp, LaunchParts, Launching, Launched, NoStopBeforeRunning,
           NoTreeBeforeSpawn, gate, locals, daemon, view
  <1>10. LaunchParts /\ ReportStopping => LaunchParts'
    BY DEF ReportStopping, LaunchParts, Launching, Launched,
           NoStopBeforeRunning, NoTreeBeforeSpawn, gate, locals, daemon, view
  <1>11. LaunchParts /\ KillForStop => LaunchParts'
    BY DEF KillForStop, kill_for_stop, KillTreeOk, KillRootOk, LaunchParts,
           Launching, Launched, NoStopBeforeRunning, NoTreeBeforeSpawn, gate,
           locals, daemon, view
  <1>12. LaunchParts /\ RefuseStops => LaunchParts'
    BY DEF RefuseStops, refuse_stops, LaunchParts, Launching, Launched,
           NoStopBeforeRunning, NoTreeBeforeSpawn, gate, locals, daemon, view
  <1>13. LaunchParts /\ Join => LaunchParts'
    BY DEF Join, LaunchParts, Launching, Launched, NoStopBeforeRunning,
           NoTreeBeforeSpawn, gate, locals, daemon, view
  <1>14. LaunchParts /\ DaemonMayRun => LaunchParts'
    BY DEF DaemonMayRun, LaunchParts, Launching, Launched,
           NoStopBeforeRunning, NoTreeBeforeSpawn, gate, locals, daemon, view
  <1>15. LaunchParts /\ SettleWaitFailure => LaunchParts'
    BY DEF SettleWaitFailure, settle, LaunchParts, Launching, Launched,
           NoStopBeforeRunning, NoTreeBeforeSpawn, gate, locals, daemon, view
  <1>16. LaunchParts /\ SettleExit => LaunchParts'
    BY DEF SettleExit, settle, LaunchParts, Launching, Launched,
           NoStopBeforeRunning, NoTreeBeforeSpawn, gate, locals, daemon, view
  <1>17. LaunchParts /\ end_tree_before_report => LaunchParts'
    BY DEF end_tree_before_report, KillTreeOk, LaunchParts, Launching,
           Launched, NoStopBeforeRunning, NoTreeBeforeSpawn, gate, locals,
           daemon, view
  <1>18. LaunchParts /\ DropChild => LaunchParts'
    BY DEF DropChild, KillTreeOk, LaunchParts, Launching, Launched,
           NoStopBeforeRunning, NoTreeBeforeSpawn, gate, locals, daemon, view
  <1>19. LaunchParts /\ DropWaits => LaunchParts'
    BY DEF DropWaits, LaunchParts, Launching, Launched, NoStopBeforeRunning,
           NoTreeBeforeSpawn, gate, locals, daemon, view
  <1>20. LaunchParts /\ ReportStopped => LaunchParts'
    BY DEF ReportStopped, LaunchParts, Launching, Launched,
           NoStopBeforeRunning, NoTreeBeforeSpawn, gate, locals, daemon, view
  <1>21. LaunchParts /\ ExitProcess => LaunchParts'
    BY DEF ExitProcess, LaunchParts, Launching, Launched, NoStopBeforeRunning,
           NoTreeBeforeSpawn, gate, locals, daemon, view
  <1>22. LaunchParts /\ WaitReturns => LaunchParts'
    BY DEF WaitReturns, report_done, LaunchParts, Launching, Launched,
           NoStopBeforeRunning, NoTreeBeforeSpawn, gate, locals, daemon, view
  <1>23. LaunchParts /\ WaitFails => LaunchParts'
    BY DEF WaitFails, report_done, LaunchParts, Launching, Launched,
           NoStopBeforeRunning, NoTreeBeforeSpawn, gate, locals, daemon, view
  <1>24. LaunchParts /\ WaiterEnds => LaunchParts'
    BY DEF WaiterEnds, LaunchParts, Launching, Launched, NoStopBeforeRunning,
           NoTreeBeforeSpawn, gate, locals, daemon, view
  <1>25. LaunchParts /\ HandleControl => LaunchParts'
    BY DEF HandleControl, request_stop, LaunchParts, Launching, Launched,
           NoStopBeforeRunning, NoTreeBeforeSpawn, gate, locals, daemon, view
  <1>26. LaunchParts /\ ScmStop => LaunchParts'
    BY DEF ScmStop, LaunchParts, Launching, Launched, NoStopBeforeRunning,
           NoTreeBeforeSpawn, gate, locals, daemon, view
  <1>27. LaunchParts /\ DaemonExits => LaunchParts'
    BY DEF DaemonExits, LaunchParts, Launching, Launched, NoStopBeforeRunning,
           NoTreeBeforeSpawn, gate, locals, daemon, view
  <1>28. LaunchParts /\ TreeChanges => LaunchParts'
    BY DEF TreeChanges, LaunchParts, Launching, Launched, NoStopBeforeRunning,
           NoTreeBeforeSpawn, gate, locals, daemon, view
  <1>29. LaunchParts /\ (Gone \/ UNCHANGED vars) => LaunchParts'
    BY DEF Gone, vars, LaunchParts, Launching, Launched, NoStopBeforeRunning,
           NoTreeBeforeSpawn, gate, locals, daemon, view
  <1>30. QED
    BY <1>1, <1>2, <1>3, <1>4, <1>5, <1>6, <1>7, <1>8, <1>9, <1>10, <1>11,
       <1>12, <1>13, <1>14, <1>15, <1>16, <1>17, <1>18, <1>19, <1>20, <1>21,
       <1>22, <1>23, <1>24, <1>25, <1>26, <1>27, <1>28, <1>29
       DEF Next, ServiceThread, WaiterThread

\* settle decides a restartable outcome and closes the gate in one critical
\* section, and no stop reopens it.
LEMMA FailureClosesStep ==
    TypeOK /\ LaunchParts /\ FailureCloses /\ [Next]_vars => FailureCloses'
  <1>1. TypeOK /\ LaunchParts /\ FailureCloses /\ RegisterHandler
        => FailureCloses'
    BY DEF RegisterHandler, LaunchParts, FailureCloses, Launching, Launched,
           NoStopBeforeRunning, NoTreeBeforeSpawn, gate, locals, daemon, view
  <1>2. TypeOK /\ LaunchParts /\ FailureCloses /\ ReadBlob => FailureCloses'
    BY DEF ReadBlob, LaunchParts, FailureCloses, Launching, Launched,
           NoStopBeforeRunning, NoTreeBeforeSpawn, gate, locals, daemon, view
  <1>3. TypeOK /\ LaunchParts /\ FailureCloses /\ MakeWaiter => FailureCloses'
    BY FixedKinds
       DEF MakeWaiter, LaunchParts, FailureCloses, Launching, Launched,
           NoStopBeforeRunning, NoTreeBeforeSpawn, gate, locals, daemon, view
  <1>4. TypeOK /\ LaunchParts /\ FailureCloses /\ Spawn => FailureCloses'
    BY FixedKinds
       DEF Spawn, LaunchParts, FailureCloses, Launching, Launched,
           NoStopBeforeRunning, NoTreeBeforeSpawn, gate, locals, daemon, view
  <1>5. TypeOK /\ LaunchParts /\ FailureCloses /\ RefuseUncontained
        => FailureCloses'
    BY FixedKinds
       DEF RefuseUncontained, kill_for_stop, KillTreeOk, KillRootOk,
           LaunchParts, FailureCloses, Launching, Launched,
           NoStopBeforeRunning, NoTreeBeforeSpawn, gate, locals, daemon, view
  <1>6. TypeOK /\ LaunchParts /\ FailureCloses /\ ReportRunning
        => FailureCloses'
    BY DEF ReportRunning, LaunchParts, FailureCloses, Launching, Launched,
           NoStopBeforeRunning, NoTreeBeforeSpawn, gate, locals, daemon, view
  <1>7. TypeOK /\ LaunchParts /\ FailureCloses /\ ResetGate => FailureCloses'
    BY DEF ResetGate, LaunchParts, FailureCloses, Launching, Launched,
           NoStopBeforeRunning, NoTreeBeforeSpawn, gate, locals, daemon, view
  <1>8. TypeOK /\ LaunchParts /\ FailureCloses /\ HandOver => FailureCloses'
    BY DEF HandOver, LaunchParts, FailureCloses, Launching, Launched,
           NoStopBeforeRunning, NoTreeBeforeSpawn, gate, locals, daemon, view
  <1>9. TypeOK /\ LaunchParts /\ FailureCloses /\ WakeUp => FailureCloses'
    BY DEF WakeUp, LaunchParts, FailureCloses, Launching, Launched,
           NoStopBeforeRunning, NoTreeBeforeSpawn, gate, locals, daemon, view
  <1>10. TypeOK /\ LaunchParts /\ FailureCloses /\ ReportStopping
        => FailureCloses'
    BY DEF ReportStopping, LaunchParts, FailureCloses, Launching, Launched,
           NoStopBeforeRunning, NoTreeBeforeSpawn, gate, locals, daemon, view
  <1>11. TypeOK /\ LaunchParts /\ FailureCloses /\ KillForStop
        => FailureCloses'
    BY DEF KillForStop, kill_for_stop, KillTreeOk, KillRootOk, LaunchParts,
           FailureCloses, Launching, Launched, NoStopBeforeRunning,
           NoTreeBeforeSpawn, gate, locals, daemon, view
  <1>12. TypeOK /\ LaunchParts /\ FailureCloses /\ RefuseStops
        => FailureCloses'
    BY DEF RefuseStops, refuse_stops, LaunchParts, FailureCloses, Launching,
           Launched, NoStopBeforeRunning, NoTreeBeforeSpawn, gate, locals,
           daemon, view
  <1>13. TypeOK /\ LaunchParts /\ FailureCloses /\ Join => FailureCloses'
    BY FixedKinds
       DEF Join, LaunchParts, FailureCloses, Launching, Launched,
           NoStopBeforeRunning, NoTreeBeforeSpawn, gate, locals, daemon, view
  <1>14. TypeOK /\ LaunchParts /\ FailureCloses /\ DaemonMayRun
        => FailureCloses'
    BY FixedKinds
       DEF DaemonMayRun, LaunchParts, FailureCloses, Launching, Launched,
           NoStopBeforeRunning, NoTreeBeforeSpawn, gate, locals, daemon, view
  <1>15. TypeOK /\ LaunchParts /\ FailureCloses /\ SettleWaitFailure
        => FailureCloses'
    BY FixedKinds
       DEF SettleWaitFailure, settle, OutcomeOK, LaunchParts, FailureCloses,
           Launching, Launched, NoStopBeforeRunning, NoTreeBeforeSpawn, gate,
           locals, daemon, view
  <1>16. TypeOK /\ LaunchParts /\ FailureCloses /\ SettleExit
        => FailureCloses'
    BY FixedKinds
       DEF SettleExit, settle, LaunchParts, FailureCloses, Launching,
           Launched, NoStopBeforeRunning, NoTreeBeforeSpawn, gate, locals,
           daemon, view
  <1>17. TypeOK /\ LaunchParts /\ FailureCloses /\ end_tree_before_report
        => FailureCloses'
    BY FixedKinds
       DEF end_tree_before_report, KillTreeOk, LaunchParts, FailureCloses,
           Launching, Launched, NoStopBeforeRunning, NoTreeBeforeSpawn, gate,
           locals, daemon, view
  <1>18. TypeOK /\ LaunchParts /\ FailureCloses /\ DropChild => FailureCloses'
    BY DEF DropChild, KillTreeOk, LaunchParts, FailureCloses, Launching,
           Launched, NoStopBeforeRunning, NoTreeBeforeSpawn, gate, locals,
           daemon, view
  <1>19. TypeOK /\ LaunchParts /\ FailureCloses /\ DropWaits => FailureCloses'
    BY DEF DropWaits, LaunchParts, FailureCloses, Launching, Launched,
           NoStopBeforeRunning, NoTreeBeforeSpawn, gate, locals, daemon, view
  <1>20. TypeOK /\ LaunchParts /\ FailureCloses /\ ReportStopped
        => FailureCloses'
    BY DEF ReportStopped, LaunchParts, FailureCloses, Launching, Launched,
           NoStopBeforeRunning, NoTreeBeforeSpawn, gate, locals, daemon, view
  <1>21. TypeOK /\ LaunchParts /\ FailureCloses /\ ExitProcess
        => FailureCloses'
    BY DEF ExitProcess, LaunchParts, FailureCloses, Launching, Launched,
           NoStopBeforeRunning, NoTreeBeforeSpawn, gate, locals, daemon, view
  <1>22. TypeOK /\ LaunchParts /\ FailureCloses /\ WaitReturns
        => FailureCloses'
    BY DEF WaitReturns, report_done, LaunchParts, FailureCloses, Launching,
           Launched, NoStopBeforeRunning, NoTreeBeforeSpawn, gate, locals,
           daemon, view
  <1>23. TypeOK /\ LaunchParts /\ FailureCloses /\ WaitFails => FailureCloses'
    BY DEF WaitFails, report_done, LaunchParts, FailureCloses, Launching,
           Launched, NoStopBeforeRunning, NoTreeBeforeSpawn, gate, locals,
           daemon, view
  <1>24. TypeOK /\ LaunchParts /\ FailureCloses /\ WaiterEnds
        => FailureCloses'
    BY DEF WaiterEnds, LaunchParts, FailureCloses, Launching, Launched,
           NoStopBeforeRunning, NoTreeBeforeSpawn, gate, locals, daemon, view
  <1>25. TypeOK /\ LaunchParts /\ FailureCloses /\ HandleControl
        => FailureCloses'
    BY DEF HandleControl, request_stop, LaunchParts, FailureCloses, Launching,
           Launched, NoStopBeforeRunning, NoTreeBeforeSpawn, gate, locals,
           daemon, view
  <1>26. TypeOK /\ LaunchParts /\ FailureCloses /\ ScmStop => FailureCloses'
    BY DEF ScmStop, LaunchParts, FailureCloses, Launching, Launched,
           NoStopBeforeRunning, NoTreeBeforeSpawn, gate, locals, daemon, view
  <1>27. TypeOK /\ LaunchParts /\ FailureCloses /\ DaemonExits
        => FailureCloses'
    BY DEF DaemonExits, LaunchParts, FailureCloses, Launching, Launched,
           NoStopBeforeRunning, NoTreeBeforeSpawn, gate, locals, daemon, view
  <1>28. TypeOK /\ LaunchParts /\ FailureCloses /\ TreeChanges
        => FailureCloses'
    BY DEF TreeChanges, LaunchParts, FailureCloses, Launching, Launched,
           NoStopBeforeRunning, NoTreeBeforeSpawn, gate, locals, daemon, view
  <1>29. TypeOK /\ LaunchParts /\ FailureCloses /\ (Gone \/ UNCHANGED vars)
        => FailureCloses'
    BY DEF Gone, vars, LaunchParts, FailureCloses, Launching, Launched,
           NoStopBeforeRunning, NoTreeBeforeSpawn, gate, locals, daemon, view
  <1>30. QED
    BY <1>1, <1>2, <1>3, <1>4, <1>5, <1>6, <1>7, <1>8, <1>9, <1>10, <1>11,
       <1>12, <1>13, <1>14, <1>15, <1>16, <1>17, <1>18, <1>19, <1>20, <1>21,
       <1>22, <1>23, <1>24, <1>25, <1>26, <1>27, <1>28, <1>29
       DEF Next, ServiceThread, WaiterThread

\* A tree once terminated stays so: the root is dead and nothing is left to
\* start another member.
LEMMA TreeStep ==
    TypeOK /\ LaunchParts /\ TreeAccounted /\ [Next]_vars => TreeAccounted'
  <1>1. TypeOK /\ LaunchParts /\ TreeAccounted /\ RegisterHandler
        => TreeAccounted'
    BY DEF RegisterHandler, TreeAccounted, Past, TreeEnded, LaunchParts,
           Launching, Launched, NoStopBeforeRunning, NoTreeBeforeSpawn, gate,
           locals, daemon, view
  <1>2. TypeOK /\ LaunchParts /\ TreeAccounted /\ ReadBlob => TreeAccounted'
    BY FailureOutcome, FixedOutcomes, CodesAreU32
       DEF ReadBlob, TreeAccounted, Past, TreeEnded, LaunchParts, Launching,
           Launched, NoStopBeforeRunning, NoTreeBeforeSpawn, gate, locals,
           daemon, view
  <1>3. TypeOK /\ LaunchParts /\ TreeAccounted /\ MakeWaiter => TreeAccounted'
    BY FailureOutcome, FixedOutcomes, ShimAssumption
       DEF MakeWaiter, TreeAccounted, Past, TreeEnded, LaunchParts, Launching,
           Launched, NoStopBeforeRunning, NoTreeBeforeSpawn, gate, locals,
           daemon, view
  <1>4. TypeOK /\ LaunchParts /\ TreeAccounted /\ Spawn => TreeAccounted'
    BY FailureOutcome, FixedOutcomes, ShimAssumption
       DEF Spawn, TreeAccounted, Past, TreeEnded, LaunchParts, Launching,
           Launched, NoStopBeforeRunning, NoTreeBeforeSpawn, gate, locals,
           daemon, view
  <1>5. TypeOK /\ LaunchParts /\ TreeAccounted /\ RefuseUncontained
        => TreeAccounted'
    BY FixedOutcomes
       DEF RefuseUncontained, kill_for_stop, KillTreeOk, KillRootOk,
           TreeAccounted, Past, TreeEnded, LaunchParts, Launching, Launched,
           NoStopBeforeRunning, NoTreeBeforeSpawn, gate, locals, daemon, view
  <1>6. TypeOK /\ LaunchParts /\ TreeAccounted /\ ReportRunning
        => TreeAccounted'
    BY DEF ReportRunning, TreeAccounted, Past, TreeEnded, LaunchParts,
           Launching, Launched, NoStopBeforeRunning, NoTreeBeforeSpawn, gate,
           locals, daemon, view
  <1>7. TypeOK /\ LaunchParts /\ TreeAccounted /\ ResetGate => TreeAccounted'
    BY DEF ResetGate, TreeAccounted, Past, TreeEnded, LaunchParts, Launching,
           Launched, NoStopBeforeRunning, NoTreeBeforeSpawn, gate, locals,
           daemon, view
  <1>8. TypeOK /\ LaunchParts /\ TreeAccounted /\ HandOver => TreeAccounted'
    BY DEF HandOver, TreeAccounted, Past, TreeEnded, LaunchParts, Launching,
           Launched, NoStopBeforeRunning, NoTreeBeforeSpawn, gate, locals,
           daemon, view
  <1>9. TypeOK /\ LaunchParts /\ TreeAccounted /\ WakeUp => TreeAccounted'
    BY DEF WakeUp, TreeAccounted, Past, TreeEnded, LaunchParts, Launching,
           Launched, NoStopBeforeRunning, NoTreeBeforeSpawn, gate, locals,
           daemon, view
  <1>10. TypeOK /\ LaunchParts /\ TreeAccounted /\ ReportStopping
        => TreeAccounted'
    BY DEF ReportStopping, TreeAccounted, Past, TreeEnded, LaunchParts,
           Launching, Launched, NoStopBeforeRunning, NoTreeBeforeSpawn, gate,
           locals, daemon, view
  <1>11. TypeOK /\ LaunchParts /\ TreeAccounted /\ KillForStop
        => TreeAccounted'
    BY DEF KillForStop, kill_for_stop, KillTreeOk, KillRootOk, TreeAccounted,
           Past, TreeEnded, LaunchParts, Launching, Launched,
           NoStopBeforeRunning, NoTreeBeforeSpawn, gate, locals, daemon, view
  <1>12. TypeOK /\ LaunchParts /\ TreeAccounted /\ RefuseStops
        => TreeAccounted'
    BY DEF RefuseStops, refuse_stops, TreeAccounted, Past, TreeEnded,
           LaunchParts, Launching, Launched, NoStopBeforeRunning,
           NoTreeBeforeSpawn, gate, locals, daemon, view
  <1>13. TypeOK /\ LaunchParts /\ TreeAccounted /\ Join => TreeAccounted'
    BY FixedOutcomes
       DEF Join, TreeAccounted, Past, TreeEnded, LaunchParts, Launching,
           Launched, NoStopBeforeRunning, NoTreeBeforeSpawn, gate, locals,
           daemon, view
  <1>14. TypeOK /\ LaunchParts /\ TreeAccounted /\ DaemonMayRun
        => TreeAccounted'
    BY FixedOutcomes
       DEF DaemonMayRun, TreeAccounted, Past, TreeEnded, LaunchParts,
           Launching, Launched, NoStopBeforeRunning, NoTreeBeforeSpawn, gate,
           locals, daemon, view
  <1>15. TypeOK /\ LaunchParts /\ TreeAccounted /\ SettleWaitFailure
        => TreeAccounted'
    BY FailureOutcome, FailureTypes, FixedOutcomes, ShimAssumption
       DEF SettleWaitFailure, settle, TypeOK, TreeAccounted, Past, TreeEnded,
           LaunchParts, Launching, Launched, NoStopBeforeRunning,
           NoTreeBeforeSpawn, gate, locals, daemon, view
  <1>16. TypeOK /\ LaunchParts /\ TreeAccounted /\ SettleExit
        => TreeAccounted'
    BY FailureOutcome, DaemonOutcome, FixedOutcomes
       DEF SettleExit, settle, TypeOK, TreeAccounted, Past, TreeEnded,
           LaunchParts, Launching, Launched, NoStopBeforeRunning,
           NoTreeBeforeSpawn, gate, locals, daemon, view
  <1>17. TypeOK /\ LaunchParts /\ TreeAccounted /\ end_tree_before_report
        => TreeAccounted'
    BY FixedOutcomes
       DEF end_tree_before_report, KillTreeOk, TreeAccounted, Past, TreeEnded,
           LaunchParts, Launching, Launched, NoStopBeforeRunning,
           NoTreeBeforeSpawn, gate, locals, daemon, view
  <1>18. TypeOK /\ LaunchParts /\ TreeAccounted /\ DropChild => TreeAccounted'
    BY DEF DropChild, KillTreeOk, TreeAccounted, Past, TreeEnded, LaunchParts,
           Launching, Launched, NoStopBeforeRunning, NoTreeBeforeSpawn, gate,
           locals, daemon, view
  <1>19. TypeOK /\ LaunchParts /\ TreeAccounted /\ DropWaits => TreeAccounted'
    BY DEF DropWaits, TreeAccounted, Past, TreeEnded, LaunchParts, Launching,
           Launched, NoStopBeforeRunning, NoTreeBeforeSpawn, gate, locals,
           daemon, view
  <1>20. TypeOK /\ LaunchParts /\ TreeAccounted /\ ReportStopped
        => TreeAccounted'
    BY DEF ReportStopped, TreeAccounted, Past, TreeEnded, LaunchParts,
           Launching, Launched, NoStopBeforeRunning, NoTreeBeforeSpawn, gate,
           locals, daemon, view
  <1>21. TypeOK /\ LaunchParts /\ TreeAccounted /\ ExitProcess
        => TreeAccounted'
    BY DEF ExitProcess, TreeAccounted, Past, TreeEnded, LaunchParts,
           Launching, Launched, NoStopBeforeRunning, NoTreeBeforeSpawn, gate,
           locals, daemon, view
  <1>22. TypeOK /\ LaunchParts /\ TreeAccounted /\ WaitReturns
        => TreeAccounted'
    BY DEF WaitReturns, report_done, TreeAccounted, Past, TreeEnded,
           LaunchParts, Launching, Launched, NoStopBeforeRunning,
           NoTreeBeforeSpawn, gate, locals, daemon, view
  <1>23. TypeOK /\ LaunchParts /\ TreeAccounted /\ WaitFails => TreeAccounted'
    BY DEF WaitFails, report_done, TreeAccounted, Past, TreeEnded,
           LaunchParts, Launching, Launched, NoStopBeforeRunning,
           NoTreeBeforeSpawn, gate, locals, daemon, view
  <1>24. TypeOK /\ LaunchParts /\ TreeAccounted /\ WaiterEnds
        => TreeAccounted'
    BY DEF WaiterEnds, TreeAccounted, Past, TreeEnded, LaunchParts, Launching,
           Launched, NoStopBeforeRunning, NoTreeBeforeSpawn, gate, locals,
           daemon, view
  <1>25. TypeOK /\ LaunchParts /\ TreeAccounted /\ HandleControl
        => TreeAccounted'
    BY DEF HandleControl, request_stop, TreeAccounted, Past, TreeEnded,
           LaunchParts, Launching, Launched, NoStopBeforeRunning,
           NoTreeBeforeSpawn, gate, locals, daemon, view
  <1>26. TypeOK /\ LaunchParts /\ TreeAccounted /\ ScmStop => TreeAccounted'
    BY DEF ScmStop, TreeAccounted, Past, TreeEnded, LaunchParts, Launching,
           Launched, NoStopBeforeRunning, NoTreeBeforeSpawn, gate, locals,
           daemon, view
  <1>27. TypeOK /\ LaunchParts /\ TreeAccounted /\ DaemonExits
        => TreeAccounted'
    BY DEF DaemonExits, TreeAccounted, Past, TreeEnded, LaunchParts,
           Launching, Launched, NoStopBeforeRunning, NoTreeBeforeSpawn, gate,
           locals, daemon, view
  <1>28. TypeOK /\ LaunchParts /\ TreeAccounted /\ TreeChanges
        => TreeAccounted'
    BY DEF TreeChanges, TreeAccounted, Past, TreeEnded, LaunchParts,
           Launching, Launched, NoStopBeforeRunning, NoTreeBeforeSpawn, gate,
           locals, daemon, view
  <1>29. TypeOK /\ LaunchParts /\ TreeAccounted /\ (Gone \/ UNCHANGED vars)
        => TreeAccounted'
    BY DEF Gone, vars, TreeAccounted, Past, TreeEnded, LaunchParts, Launching,
           Launched, NoStopBeforeRunning, NoTreeBeforeSpawn, gate, locals,
           daemon, view
  <1>30. QED
    BY <1>1, <1>2, <1>3, <1>4, <1>5, <1>6, <1>7, <1>8, <1>9, <1>10, <1>11,
       <1>12, <1>13, <1>14, <1>15, <1>16, <1>17, <1>18, <1>19, <1>20, <1>21,
       <1>22, <1>23, <1>24, <1>25, <1>26, <1>27, <1>28, <1>29
       DEF Next, ServiceThread, WaiterThread

\* The outcome does not change after it was reported.
LEMMA RecordStep ==
    TypeOK /\ TreeAccounted /\ RecordIsOutcome /\ [Next]_vars
        => RecordIsOutcome'
  <1>1. TypeOK /\ TreeAccounted /\ RecordIsOutcome /\ RegisterHandler
        => RecordIsOutcome'
    BY DEF RegisterHandler, RecordIsOutcome, TreeAccounted, gate, locals,
           daemon, view
  <1>2. TypeOK /\ TreeAccounted /\ RecordIsOutcome /\ ReadBlob
        => RecordIsOutcome'
    BY DEF ReadBlob, RecordIsOutcome, TreeAccounted, gate, locals, daemon,
           view
  <1>3. TypeOK /\ TreeAccounted /\ RecordIsOutcome /\ MakeWaiter
        => RecordIsOutcome'
    BY DEF MakeWaiter, RecordIsOutcome, TreeAccounted, gate, locals, daemon,
           view
  <1>4. TypeOK /\ TreeAccounted /\ RecordIsOutcome /\ Spawn
        => RecordIsOutcome'
    BY DEF Spawn, RecordIsOutcome, TreeAccounted, gate, locals, daemon, view
  <1>5. TypeOK /\ TreeAccounted /\ RecordIsOutcome /\ RefuseUncontained
        => RecordIsOutcome'
    BY DEF RefuseUncontained, kill_for_stop, KillTreeOk, KillRootOk,
           RecordIsOutcome, TreeAccounted, gate, locals, daemon, view
  <1>6. TypeOK /\ TreeAccounted /\ RecordIsOutcome /\ ReportRunning
        => RecordIsOutcome'
    BY DEF ReportRunning, RecordIsOutcome, TreeAccounted, gate, locals,
           daemon, view
  <1>7. TypeOK /\ TreeAccounted /\ RecordIsOutcome /\ ResetGate
        => RecordIsOutcome'
    BY DEF ResetGate, RecordIsOutcome, TreeAccounted, gate, locals, daemon,
           view
  <1>8. TypeOK /\ TreeAccounted /\ RecordIsOutcome /\ HandOver
        => RecordIsOutcome'
    BY DEF HandOver, RecordIsOutcome, TreeAccounted, gate, locals, daemon,
           view
  <1>9. TypeOK /\ TreeAccounted /\ RecordIsOutcome /\ WakeUp
        => RecordIsOutcome'
    BY DEF WakeUp, RecordIsOutcome, TreeAccounted, gate, locals, daemon, view
  <1>10. TypeOK /\ TreeAccounted /\ RecordIsOutcome /\ ReportStopping
        => RecordIsOutcome'
    BY DEF ReportStopping, RecordIsOutcome, TreeAccounted, gate, locals,
           daemon, view
  <1>11. TypeOK /\ TreeAccounted /\ RecordIsOutcome /\ KillForStop
        => RecordIsOutcome'
    BY DEF KillForStop, kill_for_stop, KillTreeOk, KillRootOk,
           RecordIsOutcome, TreeAccounted, gate, locals, daemon, view
  <1>12. TypeOK /\ TreeAccounted /\ RecordIsOutcome /\ RefuseStops
        => RecordIsOutcome'
    BY DEF RefuseStops, refuse_stops, RecordIsOutcome, TreeAccounted, gate,
           locals, daemon, view
  <1>13. TypeOK /\ TreeAccounted /\ RecordIsOutcome /\ Join
        => RecordIsOutcome'
    BY DEF Join, RecordIsOutcome, TreeAccounted, gate, locals, daemon, view
  <1>14. TypeOK /\ TreeAccounted /\ RecordIsOutcome /\ DaemonMayRun
        => RecordIsOutcome'
    BY DEF DaemonMayRun, RecordIsOutcome, TreeAccounted, gate, locals, daemon,
           view
  <1>15. TypeOK /\ TreeAccounted /\ RecordIsOutcome /\ SettleWaitFailure
        => RecordIsOutcome'
    BY DEF SettleWaitFailure, settle, RecordIsOutcome, TreeAccounted, gate,
           locals, daemon, view
  <1>16. TypeOK /\ TreeAccounted /\ RecordIsOutcome /\ SettleExit
        => RecordIsOutcome'
    BY DEF SettleExit, settle, RecordIsOutcome, TreeAccounted, gate, locals,
           daemon, view
  <1>17. TypeOK /\ TreeAccounted /\ RecordIsOutcome /\ end_tree_before_report
        => RecordIsOutcome'
    BY DEF end_tree_before_report, KillTreeOk, RecordIsOutcome, TreeAccounted,
           gate, locals, daemon, view
  <1>18. TypeOK /\ TreeAccounted /\ RecordIsOutcome /\ DropChild
        => RecordIsOutcome'
    BY DEF DropChild, KillTreeOk, RecordIsOutcome, TreeAccounted, gate,
           locals, daemon, view
  <1>19. TypeOK /\ TreeAccounted /\ RecordIsOutcome /\ DropWaits
        => RecordIsOutcome'
    BY DEF DropWaits, RecordIsOutcome, TreeAccounted, gate, locals, daemon,
           view
  <1>20. TypeOK /\ TreeAccounted /\ RecordIsOutcome /\ ReportStopped
        => RecordIsOutcome'
    BY DEF ReportStopped, RecordIsOutcome, TreeAccounted, gate, locals,
           daemon, view
  <1>21. TypeOK /\ TreeAccounted /\ RecordIsOutcome /\ ExitProcess
        => RecordIsOutcome'
    BY DEF ExitProcess, RecordIsOutcome, TreeAccounted, gate, locals, daemon,
           view
  <1>22. TypeOK /\ TreeAccounted /\ RecordIsOutcome /\ WaitReturns
        => RecordIsOutcome'
    BY DEF WaitReturns, report_done, RecordIsOutcome, TreeAccounted, gate,
           locals, daemon, view
  <1>23. TypeOK /\ TreeAccounted /\ RecordIsOutcome /\ WaitFails
        => RecordIsOutcome'
    BY DEF WaitFails, report_done, RecordIsOutcome, TreeAccounted, gate,
           locals, daemon, view
  <1>24. TypeOK /\ TreeAccounted /\ RecordIsOutcome /\ WaiterEnds
        => RecordIsOutcome'
    BY DEF WaiterEnds, RecordIsOutcome, TreeAccounted, gate, locals, daemon,
           view
  <1>25. TypeOK /\ TreeAccounted /\ RecordIsOutcome /\ HandleControl
        => RecordIsOutcome'
    BY DEF HandleControl, request_stop, RecordIsOutcome, TreeAccounted, gate,
           locals, daemon, view
  <1>26. TypeOK /\ TreeAccounted /\ RecordIsOutcome /\ ScmStop
        => RecordIsOutcome'
    BY DEF ScmStop, RecordIsOutcome, TreeAccounted, gate, locals, daemon, view
  <1>27. TypeOK /\ TreeAccounted /\ RecordIsOutcome /\ DaemonExits
        => RecordIsOutcome'
    BY DEF DaemonExits, RecordIsOutcome, TreeAccounted, gate, locals, daemon,
           view
  <1>28. TypeOK /\ TreeAccounted /\ RecordIsOutcome /\ TreeChanges
        => RecordIsOutcome'
    BY DEF TreeChanges, RecordIsOutcome, TreeAccounted, gate, locals, daemon,
           view
  <1>29. TypeOK /\ TreeAccounted /\ RecordIsOutcome /\ (Gone \/ UNCHANGED vars)
        => RecordIsOutcome'
    BY DEF Gone, vars, RecordIsOutcome, TreeAccounted, gate, locals, daemon,
           view
  <1>30. QED
    BY <1>1, <1>2, <1>3, <1>4, <1>5, <1>6, <1>7, <1>8, <1>9, <1>10, <1>11,
       <1>12, <1>13, <1>14, <1>15, <1>16, <1>17, <1>18, <1>19, <1>20, <1>21,
       <1>22, <1>23, <1>24, <1>25, <1>26, <1>27, <1>28, <1>29
       DEF Next, ServiceThread, WaiterThread

\* on_stopping comes before every teardown of a launched daemon.
LEMMA AnnouncedStep == Announced /\ [Next]_vars => Announced'
  <1>1. Announced /\ RegisterHandler => Announced'
    BY DEF RegisterHandler, Announced, gate, locals, daemon, view
  <1>2. Announced /\ ReadBlob => Announced'
    BY DEF ReadBlob, Announced, gate, locals, daemon, view
  <1>3. Announced /\ MakeWaiter => Announced'
    BY DEF MakeWaiter, Announced, gate, locals, daemon, view
  <1>4. Announced /\ Spawn => Announced'
    BY DEF Spawn, Announced, gate, locals, daemon, view
  <1>5. Announced /\ RefuseUncontained => Announced'
    BY DEF RefuseUncontained, kill_for_stop, KillTreeOk, KillRootOk,
           Announced, gate, locals, daemon, view
  <1>6. Announced /\ ReportRunning => Announced'
    BY DEF ReportRunning, Announced, gate, locals, daemon, view
  <1>7. Announced /\ ResetGate => Announced'
    BY DEF ResetGate, Announced, gate, locals, daemon, view
  <1>8. Announced /\ HandOver => Announced'
    BY DEF HandOver, Announced, gate, locals, daemon, view
  <1>9. Announced /\ WakeUp => Announced'
    BY DEF WakeUp, Announced, gate, locals, daemon, view
  <1>10. Announced /\ ReportStopping => Announced'
    BY DEF ReportStopping, Announced, gate, locals, daemon, view
  <1>11. Announced /\ KillForStop => Announced'
    BY DEF KillForStop, kill_for_stop, KillTreeOk, KillRootOk, Announced,
           gate, locals, daemon, view
  <1>12. Announced /\ RefuseStops => Announced'
    BY DEF RefuseStops, refuse_stops, Announced, gate, locals, daemon, view
  <1>13. Announced /\ Join => Announced'
    BY DEF Join, Announced, gate, locals, daemon, view
  <1>14. Announced /\ DaemonMayRun => Announced'
    BY DEF DaemonMayRun, Announced, gate, locals, daemon, view
  <1>15. Announced /\ SettleWaitFailure => Announced'
    BY DEF SettleWaitFailure, settle, Announced, gate, locals, daemon, view
  <1>16. Announced /\ SettleExit => Announced'
    BY DEF SettleExit, settle, Announced, gate, locals, daemon, view
  <1>17. Announced /\ end_tree_before_report => Announced'
    BY DEF end_tree_before_report, KillTreeOk, Announced, gate, locals,
           daemon, view
  <1>18. Announced /\ DropChild => Announced'
    BY DEF DropChild, KillTreeOk, Announced, gate, locals, daemon, view
  <1>19. Announced /\ DropWaits => Announced'
    BY DEF DropWaits, Announced, gate, locals, daemon, view
  <1>20. Announced /\ ReportStopped => Announced'
    BY DEF ReportStopped, Announced, gate, locals, daemon, view
  <1>21. Announced /\ ExitProcess => Announced'
    BY DEF ExitProcess, Announced, gate, locals, daemon, view
  <1>22. Announced /\ WaitReturns => Announced'
    BY DEF WaitReturns, report_done, Announced, gate, locals, daemon, view
  <1>23. Announced /\ WaitFails => Announced'
    BY DEF WaitFails, report_done, Announced, gate, locals, daemon, view
  <1>24. Announced /\ WaiterEnds => Announced'
    BY DEF WaiterEnds, Announced, gate, locals, daemon, view
  <1>25. Announced /\ HandleControl => Announced'
    BY DEF HandleControl, request_stop, Announced, gate, locals, daemon, view
  <1>26. Announced /\ ScmStop => Announced'
    BY DEF ScmStop, Announced, gate, locals, daemon, view
  <1>27. Announced /\ DaemonExits => Announced'
    BY DEF DaemonExits, Announced, gate, locals, daemon, view
  <1>28. Announced /\ TreeChanges => Announced'
    BY DEF TreeChanges, Announced, gate, locals, daemon, view
  <1>29. Announced /\ (Gone \/ UNCHANGED vars) => Announced'
    BY DEF Gone, vars, Announced, gate, locals, daemon, view
  <1>30. QED
    BY <1>1, <1>2, <1>3, <1>4, <1>5, <1>6, <1>7, <1>8, <1>9, <1>10, <1>11,
       <1>12, <1>13, <1>14, <1>15, <1>16, <1>17, <1>18, <1>19, <1>20, <1>21,
       <1>22, <1>23, <1>24, <1>25, <1>26, <1>27, <1>28, <1>29
       DEF Next, ServiceThread, WaiterThread

\* The outcome is decided on the way to the drop of the child, or to the end.
LEMMA DecidedStep == DecidedLate /\ [Next]_vars => DecidedLate'
  <1>1. DecidedLate /\ RegisterHandler => DecidedLate'
    BY DEF RegisterHandler, DecidedLate, Past, gate, locals, daemon, view
  <1>2. DecidedLate /\ ReadBlob => DecidedLate'
    BY DEF ReadBlob, DecidedLate, Past, gate, locals, daemon, view
  <1>3. DecidedLate /\ MakeWaiter => DecidedLate'
    BY DEF MakeWaiter, DecidedLate, Past, gate, locals, daemon, view
  <1>4. DecidedLate /\ Spawn => DecidedLate'
    BY DEF Spawn, DecidedLate, Past, gate, locals, daemon, view
  <1>5. DecidedLate /\ RefuseUncontained => DecidedLate'
    BY DEF RefuseUncontained, kill_for_stop, KillTreeOk, KillRootOk,
           DecidedLate, Past, gate, locals, daemon, view
  <1>6. DecidedLate /\ ReportRunning => DecidedLate'
    BY DEF ReportRunning, DecidedLate, Past, gate, locals, daemon, view
  <1>7. DecidedLate /\ ResetGate => DecidedLate'
    BY DEF ResetGate, DecidedLate, Past, gate, locals, daemon, view
  <1>8. DecidedLate /\ HandOver => DecidedLate'
    BY DEF HandOver, DecidedLate, Past, gate, locals, daemon, view
  <1>9. DecidedLate /\ WakeUp => DecidedLate'
    BY DEF WakeUp, DecidedLate, Past, gate, locals, daemon, view
  <1>10. DecidedLate /\ ReportStopping => DecidedLate'
    BY DEF ReportStopping, DecidedLate, Past, gate, locals, daemon, view
  <1>11. DecidedLate /\ KillForStop => DecidedLate'
    BY DEF KillForStop, kill_for_stop, KillTreeOk, KillRootOk, DecidedLate,
           Past, gate, locals, daemon, view
  <1>12. DecidedLate /\ RefuseStops => DecidedLate'
    BY DEF RefuseStops, refuse_stops, DecidedLate, Past, gate, locals, daemon,
           view
  <1>13. DecidedLate /\ Join => DecidedLate'
    BY DEF Join, DecidedLate, Past, gate, locals, daemon, view
  <1>14. DecidedLate /\ DaemonMayRun => DecidedLate'
    BY DEF DaemonMayRun, DecidedLate, Past, gate, locals, daemon, view
  <1>15. DecidedLate /\ SettleWaitFailure => DecidedLate'
    BY DEF SettleWaitFailure, settle, DecidedLate, Past, gate, locals, daemon,
           view
  <1>16. DecidedLate /\ SettleExit => DecidedLate'
    BY DEF SettleExit, settle, DecidedLate, Past, gate, locals, daemon, view
  <1>17. DecidedLate /\ end_tree_before_report => DecidedLate'
    BY DEF end_tree_before_report, KillTreeOk, DecidedLate, Past, gate,
           locals, daemon, view
  <1>18. DecidedLate /\ DropChild => DecidedLate'
    BY DEF DropChild, KillTreeOk, DecidedLate, Past, gate, locals, daemon,
           view
  <1>19. DecidedLate /\ DropWaits => DecidedLate'
    BY DEF DropWaits, DecidedLate, Past, gate, locals, daemon, view
  <1>20. DecidedLate /\ ReportStopped => DecidedLate'
    BY DEF ReportStopped, DecidedLate, Past, gate, locals, daemon, view
  <1>21. DecidedLate /\ ExitProcess => DecidedLate'
    BY DEF ExitProcess, DecidedLate, Past, gate, locals, daemon, view
  <1>22. DecidedLate /\ WaitReturns => DecidedLate'
    BY DEF WaitReturns, report_done, DecidedLate, Past, gate, locals, daemon,
           view
  <1>23. DecidedLate /\ WaitFails => DecidedLate'
    BY DEF WaitFails, report_done, DecidedLate, Past, gate, locals, daemon,
           view
  <1>24. DecidedLate /\ WaiterEnds => DecidedLate'
    BY DEF WaiterEnds, DecidedLate, Past, gate, locals, daemon, view
  <1>25. DecidedLate /\ HandleControl => DecidedLate'
    BY DEF HandleControl, request_stop, DecidedLate, Past, gate, locals,
           daemon, view
  <1>26. DecidedLate /\ ScmStop => DecidedLate'
    BY DEF ScmStop, DecidedLate, Past, gate, locals, daemon, view
  <1>27. DecidedLate /\ DaemonExits => DecidedLate'
    BY DEF DaemonExits, DecidedLate, Past, gate, locals, daemon, view
  <1>28. DecidedLate /\ TreeChanges => DecidedLate'
    BY DEF TreeChanges, DecidedLate, Past, gate, locals, daemon, view
  <1>29. DecidedLate /\ (Gone \/ UNCHANGED vars) => DecidedLate'
    BY DEF Gone, vars, DecidedLate, Past, gate, locals, daemon, view
  <1>30. QED
    BY <1>1, <1>2, <1>3, <1>4, <1>5, <1>6, <1>7, <1>8, <1>9, <1>10, <1>11,
       <1>12, <1>13, <1>14, <1>15, <1>16, <1>17, <1>18, <1>19, <1>20, <1>21,
       <1>22, <1>23, <1>24, <1>25, <1>26, <1>27, <1>28, <1>29
       DEF Next, ServiceThread, WaiterThread

-----------------------------------------------------------------------------
(* The invariant. *)

\* The initial state satisfies the invariant.
LEMMA InitIInv == Init => IInv
  <1>1. Init => TypeOK
    <2>1. 0 \in I32
      BY ExitStatusAssumption DEF I32, ERROR_PROCESS_ABORTED
    <2>2. NoRecord \in Records
      BY CodesAreU32 DEF NoRecord, Records
    <2>3. QED
      BY <2>1, <2>2, FailureTypes DEF Init, TypeOK, ServicePcs
  <1>2. Init => OutcomeOK
    BY DEF Init, OutcomeOK
  <1>3. Init => Control
    BY FixedKinds
       DEF Init, Control, Launching, Launched, NoStopBeforeRunning,
           NoTreeBeforeSpawn, FailureCloses, TreeAccounted, Past,
           RecordIsOutcome, NoRecord, Announced,
           DecidedLate
  <1>4. QED
    BY <1>1, <1>2, <1>3 DEF IInv

\* Every step of the three threads, of SCM and of the daemon preserves it.
LEMMA NextIInv == IInv /\ [Next]_vars => IInv'
  <1> SUFFICES ASSUME IInv, [Next]_vars
               PROVE  IInv'
    OBVIOUS
  <1>1. TypeOK /\ OutcomeOK /\ LaunchParts /\ FailureCloses /\ TreeAccounted
        /\ RecordIsOutcome /\ Announced /\ DecidedLate
    BY DEF IInv, Control, LaunchParts
  <1>2. TypeOK' /\ OutcomeOK' /\ LaunchParts'
    BY <1>1, TypeStep, OutcomeStep, LaunchStep
  <1>3. FailureCloses' /\ TreeAccounted' /\ RecordIsOutcome'
        /\ Announced' /\ DecidedLate'
    BY <1>1, FailureClosesStep, TreeStep, RecordStep, AnnouncedStep,
       DecidedStep
  <1>4. QED
    BY <1>2, <1>3 DEF IInv, Control, LaunchParts

\* The invariant holds in every state of every run of the shim.
THEOREM Invariance == Spec => []IInv
  BY InitIInv, NextIInv, PTL DEF Spec
-----------------------------------------------------------------------------
(* What it gives. *)

\* Every variable has its type, for every set of codes and errors.
THEOREM TypeCorrect == Spec => []TypeOK
  <1>1. IInv => TypeOK
    BY DEF IInv
  <1>2. QED
    BY <1>1, Invariance, PTL

\* A stop request_stop accepted is never followed by an outcome that SCM
\* restarts: a restartable outcome has closed the gate, and no stop is
\* accepted before there is a daemon.
THEOREM AcceptedStopWinsAlways == Spec => []AcceptedStopWins
  <1>1. IInv => AcceptedStopWins
    <2> SUFFICES ASSUME IInv, fate = "Stopped", reported # Undecided
                 PROVE  reported \in {Clean, IncompleteStop}
      BY DEF AcceptedStopWins
    <2>1. ~Restartable(reported)
      BY DEF IInv, Control, FailureCloses, NoStopBeforeRunning
    <2>2. QED
      BY <2>1 DEF IInv, OutcomeOK, Restartable
  <1>2. QED
    BY <1>1, Invariance, PTL

\* SCM is told of a stop other than the incomplete one only when nothing of
\* the daemon's tree is left.
THEOREM NoStoppedOverSurvivorsAlways == Spec => []NoStoppedOverSurvivors
  <1>1. IInv => NoStoppedOverSurvivors
    <2> SUFFICES ASSUME IInv, record.by = "shim",
                        ~is_incomplete_stop(record.codes)
                 PROVE  TreeEnded
      BY DEF NoStoppedOverSurvivors
    <2>1. /\ record.codes = scm_codes(reported)
          /\ pc \in {"exit", "gone"}
      BY DEF IInv, Control, RecordIsOutcome
    <2>2. reported # IncompleteStop
      BY <2>1 DEF is_incomplete_stop
    <2>3. QED
      BY <2>1, <2>2 DEF IInv, Control, TreeAccounted, Past
  <1>2. QED
    BY <1>1, Invariance, PTL

\* SCM's record tells the outcomes apart, whatever code the daemon ended
\* with and whatever error the shim met.
THEOREM RecordTellsOutcomeAlways == Spec => []RecordTellsOutcome
  <1>1. IInv => RecordTellsOutcome
    <2> SUFFICES ASSUME IInv, record.by = "shim"
                 PROVE  /\ is_incomplete_stop(record.codes)
                               <=> reported = IncompleteStop
                        /\ daemon_ran(record.codes)
                               <=> reported.kind # "ShimFailure"
                        /\ ScmRestarts(record.codes)
                               <=> Restartable(reported)
      BY DEF RecordTellsOutcome, Restartable
    <2>1. record.codes = scm_codes(reported) /\ reported # Undecided
      BY DEF IInv, Control, RecordIsOutcome
    <2>2. CASE reported \in {Clean, IncompleteStop}
      BY <2>1, <2>2
         DEF scm_codes, is_incomplete_stop, daemon_ran, ScmRestarts,
             Restartable, Clean, IncompleteStop, ERROR_CAN_NOT_COMPLETE,
             ERROR_SERVICE_SPECIFIC_ERROR
    <2>3. CASE reported.kind = "DaemonExit"
      BY <2>1, <2>3
         DEF scm_codes, is_incomplete_stop, daemon_ran, ScmRestarts,
             Restartable, IncompleteStop, ERROR_SERVICE_SPECIFIC_ERROR
    <2>4. CASE /\ reported.kind = "ShimFailure"
               /\ reported.code \notin {0, ERROR_SERVICE_SPECIFIC_ERROR}
      BY <2>1, <2>4
         DEF scm_codes, is_incomplete_stop, daemon_ran, ScmRestarts,
             Restartable, IncompleteStop
    <2>5. QED
      BY <2>1, <2>2, <2>3, <2>4 DEF IInv, OutcomeOK
  <1>2. QED
    BY <1>1, Invariance, PTL
\* The service thread never ends a launched daemon's tree behind SCM's back:
\* only a lost status report leaves RUNNING standing while it does.
THEOREM StopPendingAlways == Spec => StopPendingBeforeTeardown
  <1> DEFINE Said == ~TreeEnded /\ TreeEnded' /\ pc' # pc /\ ~lost
                        => scm # "RUNNING"
  <1>1. Announced /\ [Next]_vars => [Said]_vars
    <2> SUFFICES ASSUME Announced, Next,
                        pc \in {"running", "reset", "watch", "wait",
                               "stopping"},
                        pc' # pc
                 PROVE  UNCHANGED daemon
      BY DEF Announced, TreeEnded, daemon, vars
    <2>1. CASE ServiceThread
      BY <2>1
         DEF ServiceThread, RegisterHandler, ReadBlob, MakeWaiter, Spawn,
             RefuseUncontained, ReportRunning, ResetGate, HandOver, WakeUp,
             ReportStopping, KillForStop, RefuseStops, Join, DaemonMayRun,
             SettleWaitFailure, SettleExit, end_tree_before_report,
             DropChild, DropWaits, ReportStopped, ExitProcess
    <2>2. CASE ~ServiceThread
      BY <2>2
         DEF Next, WaiterThread, WaitReturns, WaitFails, WaiterEnds,
             HandleControl, ScmStop, DaemonExits, TreeChanges, Gone, vars
    <2>3. QED
      BY <2>1, <2>2
  <1>2. IInv => Announced
    BY DEF IInv, Control
  <1>3. QED
    BY <1>1, <1>2, Invariance, PTL DEF Spec, StopPendingBeforeTeardown


-----------------------------------------------------------------------------
(* The run implements RunPromise. *)

\* The names of the outcomes RunPromise speaks of.
LEMMA OutcomeNames ==
    /\ reported = Undecided => OutcomeName = "none"
    /\ reported = Clean => OutcomeName = "clean"
    /\ reported = IncompleteStop => OutcomeName = "incomplete"
    /\ Restartable(reported) => OutcomeName = "failure"
  BY DEF OutcomeName, Restartable, Undecided, Clean, IncompleteStop

\* The same of the outcome after a step.
LEMMA NextOutcomeNames ==
    /\ reported' = Undecided => OutcomeName' = "none"
    /\ reported' = Clean => OutcomeName' = "clean"
    /\ reported' = IncompleteStop => OutcomeName' = "incomplete"
    /\ Restartable(reported') => OutcomeName' = "failure"
    /\ UNCHANGED reported => UNCHANGED OutcomeName
  BY DEF OutcomeName, Restartable, Undecided, Clean, IncompleteStop

\* Steps RunPromise does not see: none of its four variables changes.
QuietStep ==
    \/ RegisterHandler \/ ReportRunning \/ ResetGate \/ HandOver
    \/ WakeUp \/ ReportStopping \/ RefuseStops \/ DropWaits
    \/ WaitReturns \/ WaitFails \/ WaiterEnds \/ ScmStop

\* Steps that may end the tree, and change nothing else RunPromise sees.
TreeStepOnly == KillForStop \/ DropChild \/ DaemonExits \/ TreeChanges

\* Steps that decide the outcome, or correct it to the incomplete stop.
DecidingStep ==
    \/ ReadBlob \/ MakeWaiter \/ RefuseUncontained \/ Join \/ DaemonMayRun
    \/ SettleWaitFailure \/ SettleExit \/ end_tree_before_report

\* Every step of the run is a step of the promise, or one it does not see.
LEMMA StepKeepsPromise ==
    IInv /\ [Next]_vars => [Promise!Next]_(Promise!vars)
  <1> DEFINE Seen == Promise!vars
  <1>1. IInv /\ QuietStep => UNCHANGED Seen
    BY NextOutcomeNames
       DEF QuietStep, Promise!vars, TreeEnded, gate, locals, daemon, view,
          RegisterHandler, ReportRunning, ResetGate, HandOver, WakeUp,
           ReportStopping, RefuseStops, DropWaits, WaitReturns, WaitFails,
           WaiterEnds, ScmStop, refuse_stops, report_done
  <1>2. IInv /\ TreeStepOnly => Promise!TreeEnds \/ UNCHANGED Seen
    <2>1. IInv /\ TreeStepOnly =>
            /\ UNCHANGED <<fate, reported, record>>
            /\ TreeEnded => TreeEnded'
      BY DEF TreeStepOnly, KillForStop, DropChild, DaemonExits, TreeChanges,
             kill_for_stop, KillTreeOk, KillRootOk, TreeEnded, IInv, TypeOK,
             gate, locals, daemon, view
    <2>2. QED
      BY <2>1, NextOutcomeNames DEF Promise!TreeEnds, Promise!vars
  <1>3. IInv /\ DecidingStep
          => Promise!Decide \/ Promise!TreeEnds \/ UNCHANGED Seen
    <2>1. IInv /\ ReadBlob => Promise!Decide \/ UNCHANGED Seen
      BY OutcomeNames, NextOutcomeNames, FailureOutcome, CodesAreU32
         DEF ReadBlob, Restartable, Promise!Decide, Promise!vars,
             IInv, Control, RecordIsOutcome, DecidedLate, Past, Launching,
             NoStopBeforeRunning, TreeEnded, gate, locals, daemon, view
    <2>2. IInv /\ MakeWaiter => Promise!Decide \/ UNCHANGED Seen
      BY OutcomeNames, NextOutcomeNames, FailureOutcome, ShimAssumption
         DEF MakeWaiter, Restartable, Promise!Decide, Promise!vars,
             IInv, Control, RecordIsOutcome, DecidedLate, Past, Launching,
             NoStopBeforeRunning, TreeEnded, gate, locals, daemon, view
    <2>3. IInv /\ RefuseUncontained => Promise!Decide
      <3>1. IInv /\ RefuseUncontained /\ TreeEnded => TreeEnded'
        BY DEF RefuseUncontained, kill_for_stop, KillTreeOk, KillRootOk,
               TreeEnded, IInv, TypeOK, daemon
      <3>2. QED
        BY <3>1, OutcomeNames, NextOutcomeNames
           DEF RefuseUncontained, kill_for_stop, Promise!Decide, IInv,
               Control, RecordIsOutcome, DecidedLate, Past, gate, view
    <2>4. IInv /\ Join => Promise!Decide \/ UNCHANGED Seen
      BY OutcomeNames, NextOutcomeNames
         DEF Join, Promise!Decide, Promise!vars,
             IInv, Control, RecordIsOutcome, DecidedLate, Past, TreeEnded,
             gate, locals, daemon, view
    <2>5. IInv /\ DaemonMayRun => Promise!Decide
      BY OutcomeNames, NextOutcomeNames
         DEF DaemonMayRun, Promise!Decide,
             IInv, Control, RecordIsOutcome, DecidedLate, Past, TreeEnded,
             gate, locals, daemon, view
    <2>6. IInv /\ SettleWaitFailure => Promise!Decide
      BY OutcomeNames, NextOutcomeNames, FailureOutcome, FailureTypes,
         ShimAssumption
         DEF SettleWaitFailure, settle, Restartable, Promise!Decide, TypeOK,
             IInv, Control, RecordIsOutcome, DecidedLate, Past, TreeEnded,
             gate, locals, daemon, view
    <2>7. IInv /\ SettleExit => Promise!Decide
      BY OutcomeNames, NextOutcomeNames, FailureOutcome, DaemonOutcome
         DEF SettleExit, settle, Restartable, Promise!Decide, TypeOK,
             IInv, Control, RecordIsOutcome, DecidedLate, Past, TreeEnded,
             gate, locals, daemon, view
    <2>8. IInv /\ end_tree_before_report
            => Promise!Decide \/ Promise!TreeEnds \/ UNCHANGED Seen
      <3> SUFFICES ASSUME IInv, end_tree_before_report
                   PROVE  Promise!Decide \/ Promise!TreeEnds \/ UNCHANGED Seen
        OBVIOUS
      <3>1. OutcomeName \in {"clean", "failure", "incomplete"}
        BY OutcomeNames
           DEF end_tree_before_report, IInv, OutcomeOK, Control,
               TreeAccounted, Restartable
      <3>2. record.by # "shim" /\ UNCHANGED <<fate, record>>
        BY DEF IInv, Control, RecordIsOutcome, gate, view,
               end_tree_before_report
      <3>3. CASE UNCHANGED reported
        BY <3>2, <3>3, NextOutcomeNames
           DEF end_tree_before_report, KillTreeOk, TreeEnded, daemon,
               Promise!TreeEnds, Promise!vars
      <3>4. CASE OutcomeName # "incomplete" /\ reported' = IncompleteStop
                 /\ UNCHANGED daemon
        BY <3>1, <3>2, <3>4, NextOutcomeNames
           DEF TreeEnded, daemon, Promise!Decide
      <3>5. CASE OutcomeName = "incomplete" /\ reported' = IncompleteStop
                 /\ UNCHANGED daemon
        BY <3>2, <3>5, NextOutcomeNames DEF TreeEnded, daemon, Promise!vars
      <3>6. QED
        BY <3>3, <3>4, <3>5 DEF end_tree_before_report
    <2>9. QED
      BY <2>1, <2>2, <2>3, <2>4, <2>5, <2>6, <2>7, <2>8 DEF DecidingStep
  <1>4. IInv /\ Spawn => Promise!Launch \/ Promise!Decide
    <2>1. IInv /\ Spawn /\ pc' = "finish" => Promise!Decide
      BY OutcomeNames, NextOutcomeNames, FailureOutcome, ShimAssumption
         DEF Spawn, Restartable, Promise!Decide,
             IInv, Control, RecordIsOutcome, DecidedLate, Past, Launching,
             NoStopBeforeRunning, TreeEnded, gate, locals, daemon, view
    <2>2. IInv /\ Spawn /\ pc' # "finish" => Promise!Launch
      BY OutcomeNames, NextOutcomeNames
         DEF Spawn, Promise!Launch, NoTreeBeforeSpawn,
             IInv, Control, RecordIsOutcome, DecidedLate, Past, Launching,
             NoStopBeforeRunning, TreeEnded, gate, locals, daemon, view
    <2>3. QED
      BY <2>1, <2>2
  <1>5. IInv /\ ReportStopped => Promise!Report \/ UNCHANGED Seen
    <2>1. reported # Undecided /\ OutcomeOK => OutcomeName # "none"
      BY OutcomeNames DEF OutcomeOK, Restartable
    <2>2. QED
      BY <2>1, OutcomeNames, NextOutcomeNames
         DEF ReportStopped, Promise!Report, Promise!vars, TreeAccounted, Past,
             IInv, Control, RecordIsOutcome, TreeEnded, gate, locals, daemon
  <1>6. IInv /\ ExitProcess => UNCHANGED Seen
    BY NextOutcomeNames
       DEF IInv, Control, RecordIsOutcome, ExitProcess, Promise!vars,
           TreeEnded, gate, locals, daemon
  <1>7. IInv /\ HandleControl => Promise!Stop \/ UNCHANGED Seen
    <2>1. IInv /\ HandleControl /\ Restartable(reported) => fate = "Failed"
      BY DEF IInv, Control, FailureCloses, NoStopBeforeRunning, HandleControl
    <2>2. IInv /\ ~Restartable(reported) => OutcomeName # "failure"
      BY OutcomeNames DEF IInv, OutcomeOK, Restartable
    <2>3. QED
      BY <2>1, <2>2, NextOutcomeNames
         DEF HandleControl, request_stop, Promise!Stop, Promise!vars, IInv,
             TypeOK, TreeEnded, locals, daemon, view
  <1>8. (Gone \/ UNCHANGED vars) => UNCHANGED Seen
    BY NextOutcomeNames
       DEF Gone, vars, Promise!vars, TreeEnded, gate, locals, daemon, view
  <1>9. QED
    BY <1>1, <1>2, <1>3, <1>4, <1>5, <1>6, <1>7, <1>8
       DEF Next, ServiceThread, WaiterThread, QuietStep, TreeStepOnly,
           DecidingStep, Promise!Next

\* The shim implements RunPromise: a stop and a failure exclude each other,
\* and STOPPED is reported over an ended tree or as the incomplete stop.
THEOREM KeepsThePromise == Spec => KeepsPromise
  <1>1. Init => Promise!Init
    BY OutcomeNames DEF Init, Promise!Init, TreeEnded, NoRecord
  <1>2. QED
    BY <1>1, StepKeepsPromise, Invariance, PTL
       DEF Spec, KeepsPromise, Promise!Spec

=============================================================================
