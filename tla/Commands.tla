------------------------------ MODULE Commands ------------------------------
(* goetia's commands over systemd: start, stop, restart, kill, enable,       *)
(* disable, status, and install with --enable and --start, each for a list   *)
(* of ids (cli/restart.rs, cli/install.rs, cli/support.rs,                   *)
(* backend/contract.rs, systemd/manager.rs). systemd's restart without a wait *)
(* is one request, so the start after a stop nobody waited for is never      *)
(* issued here.                                                              *)
EXTENDS Systemctl, FiniteSets

CONSTANTS Verbs,       \* the commands
          Budgets,     \* what --timeout and --no-timeout may say
          Ids          \* how many ids a command names

VARIABLES verb,        \* the command
          budget,      \* its budget
          deadline,    \* the deadline of the id's turn
          turn,        \* which id's turn it is
          exit         \* the greatest exit code so far

vars == <<queueVars, host, now, clientVars, systemctlHistory, verb, budget, deadline, turn, exit>>
fixed == <<host, verb, budget>>

PossibleVerbs == {"start", "stop", "restart", "kill", "enable", "disable", "install", "install_start", "status"}

ASSUME CommandsAssumption ==
    /\ Verbs \subseteq PossibleVerbs
    /\ \A b \in Budgets : IsBudget(b)
    /\ Ids \in Nat \ {0}

\* begin is the install up to its daemon-reload.
Legs == Requests \cup Reads \cup {"begin"}
NoAnswers == [l \in Legs |-> "none"]

Installs == verb \in {"install", "install_start"}
Prepares == verb = "restart" \/ verb = "install_start"

\* The steps a command prepares, and the first of its requests.
Steps == IF verb = "restart" THEN 2 ELSE 1
First == IF Installs THEN "begin"
         ELSE IF verb = "restart" /\ waits(budget) THEN "stop"
         ELSE IF verb = "status" THEN "show"
         ELSE verb

\* ExitCode::of, and for a status Kind::code; and the order codes combine in.
code(a) ==
    IF a \in {"none", "ok", "unknown"} \cup States THEN 0
    ELSE IF a \in InDoubt \cup {"spent"} THEN 4
    ELSE IF verb = "status" /\ a \notin {"no_manager", "refused"} THEN 4
    ELSE 1
worse(a, b) == IF 1 \in {a, b} THEN 1 ELSE IF 4 \in {a, b} THEN 4 ELSE 0

Turn == /\ pc' = IF Prepares THEN "prepare" ELSE "own"
        /\ leg' = First
        /\ answers' = NoAnswers
        /\ arrived' = {} /\ vetted' = FALSE /\ asks' = 0 /\ since' = {}
        /\ ours' = "none"
        /\ child' = NoChild /\ heard' = FALSE
        /\ now' = 0 /\ deadline' = start_at(budget, 0)
        /\ left' = Unbounded /\ until' = {}

Init == /\ QueueInit
        /\ host \in Hosts
        /\ verb \in Verbs /\ budget \in Budgets
        /\ verb \in {"kill", "enable", "disable", "install", "status"} => budget = Unbounded
        /\ deadline = start_at(budget, 0)
        /\ turn = 1 /\ exit = 0
        /\ pc = IF Prepares THEN "prepare" ELSE "own"
        /\ leg = First
        /\ answers = NoAnswers
        /\ arrived = {} /\ vetted = FALSE /\ asks = 0 /\ since = {} /\ loose = FALSE
        /\ child = NoChild /\ heard = FALSE
        /\ now = 0 /\ left = Unbounded /\ until = {}
        /\ gate = [open |-> 0, passed |-> FALSE]
        /\ pool = 0 /\ reserved = 0

-----------------------------------------------------------------------------
(* Before a request.                                                         *)

\* What a reservation holds: the threads, and a share of the gate.
Reserve(steps) ==
    /\ pool' = pool + spares(steps, budget)
    /\ reserved' = reserved + 1
    /\ gate' = gate_scope

Prepare ==
    /\ pc = "prepare"
    /\ \/ /\ Reserve(Steps)
          /\ pc' = "own"
          /\ UNCHANGED answers
       \/ /\ Faulty("make") /\ watched(budget)
          /\ Answer("reservation")
          /\ UNCHANGED <<pool, reserved, gate>>
    /\ UNCHANGED <<queueVars, now, leg, left, until, child, heard, systemctlHistory, fixed, deadline, turn, exit>>

\* Broken: with nothing left the stop is waited for without a bound.
SPENT_Waits == Unbounded

\* The least bound there is still waits.
SPENT == Bounded(1)

\* Whether what is left of a turn's budget makes a leg of a restart a timeout.
Spent(l) == waits(budget) /\ ~waits(l)

\* Broken: a spent budget reaches the stop as it is.
stop_leg_Spends(l) == l
stop_leg(l) == IF Spent(l) THEN SPENT ELSE l

\* Broken: the clock is read again for the start, and what is left may have run
\* out since it was judged.
Budget_of_Rereads(l) == IF l \notin JobVerbs THEN Unbounded
                        ELSE IF verb # "restart" THEN budget
                        ELSE IF l = "stop" THEN stop_leg(budget_for_at(deadline, now))
                        ELSE budget_for_at(deadline, now)

\* The budget a request is made under. The legs of a restart spend what is left
\* of the turn's, each as one reading of the clock had it: the stop's is read
\* here, the start's was read, and judged, when the stop had ended.
Budget_of(l) == IF l \notin JobVerbs THEN Unbounded
                ELSE IF verb = "restart" /\ l = "stop" THEN stop_leg(budget_for_at(deadline, now))
                ELSE IF verb = "restart" /\ l = "start" THEN left
                ELSE budget

\* A verb by itself reserves once the ownership gate let it through. The
\* deadline of a request starts at its verb, before its door.
Own ==
    /\ pc = "own"
    /\ \/ /\ IF ~Prepares /\ verb \in {"start", "stop", "kill"} THEN Reserve(IF verb = "kill" THEN 0 ELSE 1)
             ELSE IF leg = "begin" THEN gate' = gate_scope /\ UNCHANGED <<pool, reserved>>
             ELSE UNCHANGED <<pool, reserved, gate>>
          /\ left' = Budget_of(leg)
          /\ until' = start_at(Budget_of(leg), now)
          /\ pc' = "door"
          /\ UNCHANGED answers
       \/ /\ leg # "begin"
          /\ Answer("refused")
          /\ UNCHANGED <<pool, reserved, gate, left, until>>
       \/ /\ Faulty("make") /\ ~Prepares /\ verb \in {"start", "stop"} /\ watched(budget)
          /\ Answer("reservation")
          /\ UNCHANGED <<pool, reserved, gate, left, until>>
    /\ UNCHANGED <<queueVars, now, leg, child, heard, systemctlHistory, fixed, deadline, turn, exit>>

\* The install's check of the gate sends nothing: the unit is read and written.
Write ==
    /\ pc = "spawn" /\ leg = "begin"
    /\ \/ /\ leg' = "reload" /\ pc' = "door"
          /\ loaded' = TRUE
          /\ UNCHANGED answers
       \/ Answer("failed") /\ UNCHANGED <<leg, loaded>>
    /\ UNCHANGED <<active, supported, job, ours, meddled, now, left, until, child, gate, pool,
                   reserved, heard, systemctlHistory, fixed, deadline, turn, exit>>

-----------------------------------------------------------------------------
(* After a request.                                                          *)

Ok == answers[leg] = "ok"

Goto(l) == /\ leg' = l /\ pc' = "own"
           /\ UNCHANGED answers

\* restart's start under what is left, or its place taken by the timeout.
AfterStop ==
    /\ pc = "answer" /\ verb = "restart" /\ leg = "stop" /\ Ok
    /\ left' = budget_for_at(deadline, now)
    /\ \/ ~Spent(left') /\ Goto("start")
       \/ Spent(left') /\ leg' = "start" /\ pc' = "answer" /\ answers' = [answers EXCEPT !["start"] = "spent"]
    /\ UNCHANGED <<queueVars, now, until, child, gate, pool, reserved, heard,
                   systemctlHistory, fixed, deadline, turn, exit>>

\* install's own scope ends with it; --enable, then --start whether or not the
\* unit was enabled.
AfterReload ==
    /\ pc = "answer" /\ leg = "reload" /\ Ok
    /\ gate' = drop_scope(gate)
    /\ Goto("enable")
    /\ UNCHANGED <<queueVars, now, left, until, child, pool, reserved, heard,
                   systemctlHistory, fixed, deadline, turn, exit>>

AfterEnable ==
    /\ pc = "answer" /\ verb = "install_start" /\ leg = "enable"
    /\ Goto("start")
    /\ UNCHANGED <<queueVars, now, left, until, child, gate, pool, reserved, heard,
                   systemctlHistory, fixed, deadline, turn, exit>>

\* The greatest code of the turn.
worst == IF \E l \in Legs : code(answers[l]) = 1 THEN 1
         ELSE IF \E l \in Legs : code(answers[l]) = 4 THEN 4 ELSE 0

Continues == \/ leg = "reload" /\ Ok
             \/ verb = "restart" /\ leg = "stop" /\ Ok
             \/ verb = "install_start" /\ leg = "enable"

\* Broken: one of two scopes stays open.
DropAll_Leaks(g) == IF g.open = 0 THEN g ELSE drop_scope(g)

\* Every scope still open ends with the turn.
DropAll(g) == IF g.open = 0 THEN g
              ELSE IF g.open = 1 THEN drop_scope(g)
              ELSE drop_scope(drop_scope(g))

Settle ==
    /\ pc = "answer" /\ ~Continues
    /\ exit' = worse(exit, worst)
    /\ gate' = DropAll(gate)
    /\ pool' = 0 /\ reserved' = 0
    /\ IF turn < Ids THEN turn' = turn + 1 /\ Turn
       ELSE /\ pc' = "ended"
            /\ UNCHANGED <<leg, answers, arrived, vetted, asks, since, ours, child, heard,
                           now, deadline, left, until, turn>>
    /\ UNCHANGED <<active, loaded, supported, job, meddled, loose, fixed>>

-----------------------------------------------------------------------------
(* Next.                                                                     *)

Step == \/ (Door \/ AskGate \/ Spawn \/ Hear \/ WaitOut \/ Reap \/ Output)
           /\ UNCHANGED <<verb, budget, deadline, turn, exit>>
        \/ Prepare \/ Own \/ Write \/ AfterStop \/ AfterReload \/ AfterEnable \/ Settle

Child_ == /\ ChildAsks \/ ChildAnnounces \/ ChildHasResult
          /\ UNCHANGED <<verb, budget, deadline, turn, exit>>

\* The clock is watched for MaxNow, and to the deadline of a request under way.
Tick == /\ pc # "ended" /\ (now < MaxNow \/ \E t \in until : now < t)
        /\ now' = now + 1
        /\ UNCHANGED <<queueVars, host, clientVars, systemctlHistory, verb, budget, deadline, turn, exit>>

World == /\ pc # "ended"
         /\ RunJob \/ Meddle
         /\ Watches
         /\ UNCHANGED <<host, now, clientVars, arrived, vetted, asks, loose, verb, budget,
                        deadline, turn, exit>>

Ended == pc = "ended" /\ UNCHANGED vars

Next == Step \/ Child_ \/ Tick \/ World \/ Ended

\* A step that no failed wait or read stands behind.
Sound == Step /\ ~(pc \in {"hear", "wait", "reap", "output"} /\ answers'[leg] \in {"in_doubt", "not_run"})

\* goetia is not stopped, systemctl is not, and the clock runs. No wait has to
\* fail, and nothing makes systemd run a job it queued.
Fairness == WF_vars(Sound) /\ WF_vars(Child_) /\ WF_vars(Tick)

Spec == Init /\ [][Next]_vars /\ Fairness

-----------------------------------------------------------------------------
(* Properties.                                                               *)

\* Types.
TypeOK ==
    /\ QueueTypeOK
    /\ host \in Hosts /\ now \in 0..MaxInstant
    /\ pc \in {"prepare", "own", "door", "gate", "spawn", "hear", "wait", "reap", "output", "answer", "ended"}
    /\ leg \in Legs
    /\ IsBudget(left) /\ \A t \in until : t \in 0..MaxInstant
    /\ child \in [phase : Phases, verb : Requests \cup Reads \cup {"none"}, waits : BOOLEAN, announced : BOOLEAN, code : Codes]
    /\ gate \in [open : 0..2, passed : BOOLEAN]
    /\ pool \in Nat /\ reserved \in 0..1 /\ heard \in BOOLEAN
    /\ answers \in [Legs -> Answers]
    /\ arrived \subseteq Requests \cup Reads /\ since \subseteq {"down", "up", "fresh"}
    /\ turn \in 1..Ids /\ exit \in {0, 1, 4}

\* No request reaches a manager from a root that is not the system's, except
\* from a mount's whose PID 1 is hidden from goetia and systemctl alike; and
\* goetia refuses unasked only where there is no manager, or it is told so.
HostIsJudged ==
    /\ arrived # {} => host.root = "init" \/ (host.root = "mount" /\ host.proc = "self")
    /\ evidence(host) # "none" => host.offline \/ host.root # "init" \/ ~host.booted

\* A request goetia calls not sent never reached systemd, whatever failed
\* before or after its systemctl started.
UnsentNeverArrived == \A l \in Requests : answers[l] \in Unsent => l \notin arrived

\* A wait that timed out was for a request systemd had: the deadline bounds the
\* wait for the job, never whether it is asked for.
ExpiryWasQueued == \A l \in Requests : answers[l] = "timed_out" => l \in arrived

\* A success was earned. Under a budget of the command's that waits a start saw
\* the unit up and a stop saw it down since systemd had the request, and a
\* restart saw it up after it was down, whatever the clock left for its start:
\* it is never downgraded to a request nobody watched. Without a wait systemd
\* had the request; a kill ended a process, and a status tells of a state the
\* unit had since it was asked.
OkIsEarned ==
    pc = "answer" =>
        /\ Ok /\ leg = "start" /\ waits(budget) =>
               (IF verb = "restart" THEN "fresh" ELSE "up") \in since
        /\ Ok /\ leg = "stop" /\ waits(budget) => "down" \in since
        /\ Ok /\ leg \in Requests => leg \in arrived
        /\ Ok /\ leg = "kill" => {"up", "down"} \subseteq since
        /\ answers[leg] \in {"not_running", "stopped"} => "down" \in since
        /\ answers[leg] = "running" => "up" \in since

\* A restart that waits sends its start, or says that the budget was spent
\* before it, only once the unit has been down since it asked for the stop.
StartFollowsStop ==
    verb = "restart" /\ ("start" \in arrived \/ answers["start"] = "spent") => "down" \in since

\* Where goetia exits with 1 for a request, no job of its own is still queued:
\* what is still to come is always reported as 4.
ErrorIsSettled ==
    pc = "answer" /\ leg \in JobVerbs /\ code(answers[leg]) = 1 => ours # "pending"

\* No request is short of the threads that were made ready before the first,
\* and none are left once the command ended.
ReservedFirst == ~loose /\ (pc = "ended" => pool = 0 /\ gate.open = 0)

\* Every request went out under a version gate that passed in the same id's
\* turn: what an earlier turn was told is forgotten.
GateIsFresh == arrived \cap Requests # {} => vetted

\* The gate is asked once for all the requests of a turn (an install without a
\* start enables after its own scope has ended).
GateAskedOnce == asks <= IF verb = "install" THEN 2 ELSE 1

\* A wait given in milliseconds gives up exactly when its deadline has passed.
MillisKeepDeadline == gives_up(until, now) <=> expired(until, now)

\* Under a bound a command ends even if systemd never runs a job it queued.
BoundedEnds == budget # Unbounded /\ start_at(budget, 0) # {} => <>(pc = "ended")

\* A turn has what it needs before its first request, and trusts nothing that an
\* earlier turn made or learned.
TurnsAreSound == TypeOK /\ ReservedFirst /\ GateIsFresh /\ GateAskedOnce

\* What goetia says of a request that did not end well is what became of it.
AnswersAreTrue == UnsentNeverArrived /\ ExpiryWasQueued /\ ErrorIsSettled
=============================================================================
