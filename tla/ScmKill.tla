------------------------------ MODULE ScmKill ------------------------------
(***************************************************************************)
(* backend/scm/kill.rs: `goetia kill` on Windows, several at once.  SCM    *)
(* has no call that ends a service's process as a failure, so kill_service *)
(* opens the process by the pid SCM reports, asks SCM again, terminates    *)
(* through the handle and waits until SCM has recorded the exit.  Between  *)
(* any two calls the service may end, restart, and its pid be reused.      *)
(***************************************************************************)
EXTENDS Naturals, FiniteSets

CONSTANTS
    Killers,    \* goetia processes running `kill`
    Pids,       \* the process ids the system hands out; 0 is none of them
    MaxStarts,  \* bound: starts of the service
    MaxStrangers  \* bound: processes of others started meanwhile

ASSUME ScmKillAssumption ==
    /\ Pids \subseteq Nat \ {0}
    /\ MaxStarts \in Nat \ {0} /\ MaxStrangers \in Nat

VARIABLES
    os,         \* who has each pid; an exited process keeps it while held
    scmPid,     \* the pid SCM reports for the service, 0 in STOPPED
    marked,     \* the service is marked for deletion
    starts,     \* starts of the service so far, a first running one included
    strangers,  \* starts of other processes so far
    pc,         \* each killer's next call
    pid,        \* the pid its current round read
    held,       \* the pid whose process it holds open, 0 for none
    killed,     \* its TerminateProcess was delivered
    reg,        \* its notification registration for STOPPED
    result      \* what kill_service returned

world == <<os, scmPid, marked, starts, strangers>>
killer == <<pc, pid, held, killed, reg, result>>
vars == <<world, killer>>

Unregistered == [armed |-> FALSE, fired |-> FALSE, used |-> FALSE]

Init ==
    /\ scmPid \in Pids \cup {0}
    /\ os = [n \in Pids |-> IF n = scmPid THEN "service" ELSE "free"]
    /\ marked \in BOOLEAN
    /\ starts = (IF scmPid = 0 THEN 0 ELSE 1)
    /\ strangers = 0
    /\ pc = [k \in Killers |-> "read"]
    /\ pid = [k \in Killers |-> 0]
    /\ held = [k \in Killers |-> 0]
    /\ killed = [k \in Killers |-> FALSE]
    /\ reg = [k \in Killers |-> Unregistered]
    /\ result = [k \in Killers |-> "none"]
-----------------------------------------------------------------------------
(* kill_service. *)

Goto(k, label) == pc' = [pc EXCEPT ![k] = label]

\* The target's notifier and the process's handle close with it.
Returns(k, r) ==
    /\ Goto(k, "done")
    /\ result' = [result EXCEPT ![k] = r]
    /\ held' = [held EXCEPT ![k] = 0]
    /\ reg' = [reg EXCEPT ![k] = Unregistered]

\* The next round: the held process goes out of scope, the notifier stays.
Again(k) ==
    /\ Goto(k, "read")
    /\ held' = [held EXCEPT ![k] = 0]

\* Slip: SCM's 0 is taken for a pid (process_of).
ReadPid_Raw(k) ==
    /\ pc[k] = "read"
    /\ pid' = [pid EXCEPT ![k] = scmPid]
    /\ Goto(k, "open")
    /\ UNCHANGED <<world, held, killed, reg, result>>

ReadPid(k) ==
    /\ pc[k] = "read"
    /\ \/ scmPid = 0 /\ Returns(k, "NotRunning") /\ UNCHANGED pid
       \/ /\ scmPid # 0
          /\ pid' = [pid EXCEPT ![k] = scmPid]
          /\ Goto(k, "open")
          /\ UNCHANGED <<held, reg, result>>
    /\ UNCHANGED <<world, killed>>

\* OpenProcess: no such process, a process held from here on, or a refusal.
OpenProcess(k) ==
    /\ pc[k] = "open"
    /\ \/ os[pid[k]] = "free" /\ Goto(k, "arm") /\ UNCHANGED held
       \/ /\ os[pid[k]] # "free"
          /\ held' = [held EXCEPT ![k] = pid[k]]
          /\ Goto(k, "confirm")
       \/ os[pid[k]] # "free" /\ Goto(k, "refused") /\ UNCHANGED held
    /\ UNCHANGED <<world, pid, killed, reg, result>>

\* A refused open is an error only while the pid still is the service's.
Refused(k) ==
    /\ pc[k] = "refused"
    /\ \/ scmPid = pid[k] /\ Returns(k, "Error")
       \/ scmPid # pid[k] /\ Again(k) /\ UNCHANGED <<reg, result>>
    /\ UNCHANGED <<world, pid, killed>>

\* Slip: SCM is not asked again once the process is held.
Confirm_Skipped(k) ==
    /\ pc[k] = "confirm"
    /\ Goto(k, "terminate")
    /\ UNCHANGED <<world, pid, held, killed, reg, result>>

Confirm(k) ==
    /\ pc[k] = "confirm"
    /\ \/ scmPid = pid[k] /\ Goto(k, "terminate") /\ UNCHANGED held
       \/ scmPid # pid[k] /\ Again(k)
    /\ UNCHANGED <<world, pid, killed, reg, result>>

\* Slip: a process that was already terminating counts as terminated.
Terminate_Any(k) ==
    /\ pc[k] = "terminate"
    /\ os' = [os EXCEPT ![held[k]] = IF @ = "exited" THEN @ ELSE "dying"]
    /\ killed' = [killed EXCEPT ![k] = TRUE]
    /\ Goto(k, "awaitExit")
    /\ UNCHANGED <<scmPid, marked, starts, strangers, pid, held, reg,
                   result>>

\* TerminateProcess; over a process that is ending it is refused, and its exit
\* is awaited as well (terminate_process).
Terminate(k) ==
    /\ pc[k] = "terminate"
    /\ \/ /\ os[held[k]] \in {"service", "stranger"}
          /\ os' = [os EXCEPT ![held[k]] = "dying"]
          /\ killed' = [killed EXCEPT ![k] = TRUE]
       \/ /\ os[held[k]] \in {"dying", "exited"}
          /\ UNCHANGED <<os, killed>>
    /\ Goto(k, "awaitExit")
    /\ UNCHANGED <<scmPid, marked, starts, strangers, pid, held, reg,
                   result>>

\* Slip: the termination is taken for the exit.
AwaitExit_Skipped(k) ==
    /\ pc[k] = "awaitExit"
    /\ Goto(k, "arm")
    /\ UNCHANGED <<world, pid, held, killed, reg, result>>

AwaitExit(k) ==
    /\ pc[k] = "awaitExit"
    /\ os[held[k]] = "exited"
    /\ Goto(k, "arm")
    /\ UNCHANGED <<world, pid, held, killed, reg, result>>
-----------------------------------------------------------------------------
(* await_scm_released. *)

\* Back to kill_service: done if this killer terminated it, or a new round.
Released(k, left) ==
    \/ killed[k] /\ Returns(k, "Terminated")
    \/ /\ ~killed[k] /\ Again(k)
       /\ reg' = [reg EXCEPT ![k] = left]
       /\ UNCHANGED result

\* arm_release.  A first registration over STOPPED fires at once; a later one
\* on the same handle may be silent (P27 a), and SCM may refuse to watch a
\* marked service it recorded STOPPED (round 8).
ArmRelease(k) ==
    /\ pc[k] = "arm"
    /\ \/ /\ \E fires \in BOOLEAN :
                 /\ fires => scmPid = 0
                 /\ scmPid = 0 /\ ~reg[k].used => fires
                 /\ reg' = [reg EXCEPT ![k] =
                        [armed |-> TRUE, fired |-> fires, used |-> TRUE]]
          /\ Goto(k, "check") /\ UNCHANGED <<held, result>>
       \/ /\ marked /\ scmPid = 0
          /\ Released(k, [armed |-> FALSE, fired |-> FALSE, used |-> TRUE])
    /\ UNCHANGED <<world, pid, killed>>

\* Slip: the pid is not read after the registration.
CheckRelease_Skipped(k) ==
    /\ pc[k] = "check"
    /\ Goto(k, "await")
    /\ UNCHANGED <<world, pid, held, killed, reg, result>>

CheckRelease(k) ==
    /\ pc[k] = "check"
    /\ \/ scmPid # pid[k] /\ Released(k, Unregistered)
       \/ scmPid = pid[k] /\ Goto(k, "await") /\ UNCHANGED <<held, reg, result>>
    /\ UNCHANGED <<world, pid, killed>>

AwaitRelease(k) ==
    /\ pc[k] = "await" /\ reg[k].fired
    /\ reg' = [reg EXCEPT ![k] =
                  [armed |-> FALSE, fired |-> FALSE, used |-> TRUE]]
    /\ Goto(k, "woken")
    /\ UNCHANGED <<world, pid, held, killed, result>>

Woken(k) ==
    /\ pc[k] = "woken"
    /\ \/ scmPid # pid[k] /\ Released(k, reg[k])
       \/ scmPid = pid[k] /\ Goto(k, "arm") /\ UNCHANGED <<held, reg, result>>
    /\ UNCHANGED <<world, pid, killed>>

\* Any call may fail.  terminated_but: once the termination was delivered the
\* error says so.
CallFails(k) ==
    /\ pc[k] # "done"
    /\ Returns(k, IF killed[k] THEN "TerminatedBut" ELSE "Error")
    /\ UNCHANGED <<world, pid, killed>>

KillStep(k) ==
    \/ ReadPid(k) \/ OpenProcess(k) \/ Refused(k) \/ Confirm(k)
    \/ Terminate(k) \/ AwaitExit(k) \/ ArmRelease(k) \/ CheckRelease(k)
    \/ AwaitRelease(k) \/ Woken(k)
-----------------------------------------------------------------------------
(* The service, SCM, and other processes. *)

\* SCM restarts the service, or someone starts it.
Starts ==
    /\ scmPid = 0 /\ ~marked /\ starts < MaxStarts
    /\ \E n \in Pids :
           /\ os[n] = "free"
           /\ os' = [os EXCEPT ![n] = "service"]
           /\ scmPid' = n
    /\ starts' = starts + 1
    /\ UNCHANGED <<marked, strangers, killer>>

\* A process ends, by itself or because it was terminated.
Exits(n) ==
    /\ os[n] \in {"service", "stranger", "dying"}
    /\ os' = [os EXCEPT ![n] = "exited"]
    /\ UNCHANGED <<scmPid, marked, starts, strangers, killer>>

\* SCM records STOPPED, with pid 0, before it lets go of the process: at the
\* exit, or when the service itself reports it.
RecordsStopped ==
    /\ scmPid # 0
    /\ os[scmPid] \in {"service", "exited"}
    /\ scmPid' = 0
    /\ reg' = [k \in Killers |->
                  IF reg[k].armed THEN [reg[k] EXCEPT !.fired = TRUE]
                                  ELSE reg[k]]
    /\ UNCHANGED <<os, marked, starts, strangers, pc, pid, held, killed,
                   result>>

\* A pid is free again once nobody holds the exited process.
Frees(n) ==
    /\ os[n] = "exited" /\ scmPid # n
    /\ \A k \in Killers : held[k] # n
    /\ os' = [os EXCEPT ![n] = "free"]
    /\ UNCHANGED <<scmPid, marked, starts, strangers, killer>>

StrangerStarts(n) ==
    /\ os[n] = "free" /\ strangers < MaxStrangers
    /\ os' = [os EXCEPT ![n] = "stranger"]
    /\ strangers' = strangers + 1
    /\ UNCHANGED <<scmPid, marked, starts, killer>>

\* Someone uninstalls the service.
Marks ==
    /\ ~marked /\ marked' = TRUE
    /\ UNCHANGED <<os, scmPid, starts, strangers, killer>>

Next ==
    \/ \E k \in Killers : KillStep(k) \/ CallFails(k)
    \/ \E n \in Pids : Exits(n) \/ Frees(n) \/ StrangerStarts(n)
    \/ Starts \/ RecordsStopped \/ Marks

\* kill's own steps are taken, a terminated process exits, and SCM records it.
Fairness ==
    /\ \A k \in Killers : WF_vars(KillStep(k))
    /\ \A n \in Pids : WF_vars(os[n] = "dying" /\ Exits(n))
    /\ WF_vars(RecordsStopped /\ os[scmPid] = "exited")

Spec == Init /\ [][Next]_vars
FairSpec == Spec /\ Fairness
-----------------------------------------------------------------------------
(* Properties. *)

Owners == {"free", "service", "dying", "exited", "stranger"}
Pcs == {"read", "open", "refused", "confirm", "terminate", "awaitExit", "arm",
        "check", "await", "woken", "done"}
Registrations == [armed : BOOLEAN, fired : BOOLEAN, used : BOOLEAN]
Results == {"none", "NotRunning", "Terminated", "TerminatedBut", "Error"}

\* Every variable has its type.
TypeOK ==
    /\ os \in [Pids -> Owners]
    /\ scmPid \in Pids \cup {0}
    /\ marked \in BOOLEAN
    /\ starts \in 0..MaxStarts
    /\ strangers \in 0..MaxStrangers
    /\ pc \in [Killers -> Pcs]
    /\ pid \in [Killers -> Pids \cup {0}]
    /\ \A k \in Killers : pc[k] = "open" => pid[k] # 0
    /\ held \in [Killers -> Pids \cup {0}]
    /\ killed \in [Killers -> BOOLEAN]
    /\ reg \in [Killers -> Registrations]
    /\ result \in [Killers -> Results]

\* No kill ever terminates a process that took the service's pid over: what is
\* terminated is what SCM vouched for while it was held (kill.rs, the module).
StrangersLive ==
    [][\A n \in Pids : os[n] = "stranger" => os'[n] # "dying"]_vars

\* A kill reports Terminated only once its process has exited and SCM no longer
\* reports its pid, so a start after it meets neither (kill_service).
TerminatedIsRecorded ==
    [][\A k \in Killers :
           result[k] = "none" /\ result'[k] = "Terminated"
               => held[k] # 0 /\ os[held[k]] = "exited" /\ scmPid # held[k]]_vars

\* No process is reported terminated by two kills (Termination::AlreadyExited).
KillsAreDistinct ==
    Cardinality({k \in Killers : killed[k]}) <= starts

\* A killer parked for a release that was not signalled has not missed it
\* (await_scm_released: the read follows every arm).
NoMissedRelease ==
    \A k \in Killers :
        pc[k] = "await" /\ ~reg[k].fired => scmPid = pid[k]

\* A kill ends, unless it waits with no process held: its process was gone
\* before the open, and the service came back under the same number.
KillEnds ==
    \A k \in Killers :
        pc[k] = "open" ~> pc[k] = "done" \/ (pc[k] = "await" /\ held[k] = 0)
=============================================================================
