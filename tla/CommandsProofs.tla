--------------------------- MODULE CommandsProofs ---------------------------
(* The safety of Commands for every set of hosts, budgets and faults, any    *)
(* number of ids and of other clients' acts, and every clock. A property of  *)
(* a request's end rests on how the request began, so the invariant follows  *)
(* it: its scope and gate, its threads, its child, the child's job, and what *)
(* the history can tell of them when goetia answers.                         *)
EXTENDS Commands, BudgetProofs, TLAPS
-----------------------------------------------------------------------------
(* The inductive invariant.                                                  *)

Early == {"prepare", "own", "door", "gate", "spawn"}
Watching == {"hear", "wait", "reap", "output"}
Witnessed == JobVerbs \cup {"kill", "show"}

\* A command is at a request of its own, with a deadline of its own.
OnCourse ==
    /\ \/ leg = First
       \/ verb = "restart" /\ waits(budget) /\ leg = "start"
       \/ Installs /\ leg \in {"reload", "enable"}
       \/ verb = "install_start" /\ leg = "start"
    /\ pc = "prepare" => Prepares /\ leg = First
    /\ leg = "begin" => pc \notin Watching
    /\ verb \in PossibleVerbs /\ IsBudget(budget)
    /\ deadline = start_at(budget, 0)
    /\ until = {} \/ \E t \in 0..MaxInstant : until = {t}

-----------------------------------------------------------------------------
(* Scopes, the version gate and the threads.                                 *)

\* The scope of an install, from its begin to its reload.
InScope == /\ Installs
           /\ \/ leg = "reload"
              \/ leg = "begin" /\ pc \in {"door", "gate", "spawn"}
              \/ leg = "begin" /\ pc = "answer" /\ answers[leg] # "reservation"

\* Every scope open is the reservation's or the install's, and only an open scope
\* remembers a pass.
ScopesAreOpen ==
    /\ pc # "ended" => gate.open = reserved + (IF InScope THEN 1 ELSE 0)
    /\ pc = "ended" => gate.open = 0 /\ reserved = 0 /\ pool = 0
    /\ pc = "prepare" \/ (pc = "own" /\ ~Prepares) => reserved = 0
    /\ reserved = 1 => Prepares \/ verb \in {"start", "stop", "kill"}
    /\ Prepares /\ pc \notin {"prepare", "ended"} =>
           reserved = 1 \/ (pc = "answer" /\ leg = First /\ answers[leg] = "reservation")
    /\ gate.passed => gate.open > 0

\* What a command is past goes with a gate that passed.
Past == \/ verb = "restart" /\ leg = "start"
        \/ verb = "install_start" /\ leg \in {"enable", "start"}
        \/ leg = "reload"
GatePassed ==
    /\ gate.passed => vetted
    /\ pc \in {"spawn"} \cup Watching /\ leg \notin Reads => vetted
    /\ (pc \in {"spawn"} \cup Watching \/ (pc = "answer" /\ Ok)) /\ gate.open > 0 => gate.passed
    /\ Past /\ pc # "ended" => gate.passed

\* How often the gate can have been asked before it is.
Earlier == IF verb = "install" /\ leg = "enable" THEN 1 ELSE 0
AsksCounted ==
    /\ asks \in Nat
    /\ pc \in {"prepare", "own", "door", "gate"} /\ ~gate.passed => asks <= Earlier
    /\ pc = "gate" => ~gate.passed /\ leg \notin Reads
    /\ asks <= Earlier + 1

\* The threads that the rest of the turn will need.
Need == IF leg = "stop" /\ verb = "restart" THEN (IF pc \in Early THEN 4 ELSE 2)
        ELSE IF leg \in {"start", "stop"} THEN (IF pc \in Early THEN 2 ELSE 0)
        ELSE IF verb = "install_start" THEN 2 ELSE 0
ThreadsSuffice ==
    /\ leg # "restart" /\ watched(left) => watched(budget)
    /\ reserved = 1 /\ watched(budget) => pool >= Need
    /\ ~loose

-----------------------------------------------------------------------------
(* The requests that went out, and the child.                                *)

\* The requests that can have gone out.
Before == {l \in {"stop"} : verb = "restart" /\ leg = "start"}
          \cup {l \in {"reload"} : Installs /\ leg \in {"enable", "start"}}
          \cup {l \in {"enable"} : verb = "install_start" /\ leg = "start"}
Sent == Before \cup {l \in {leg} : pc \notin Early}

SentInOrder ==
    /\ arrived \subseteq Sent
    /\ child.verb = "none" \/ child.verb \in Sent
    /\ \A l \in Legs : answers[l] # "none" => l \in Before \/ (l = leg /\ pc \in {"answer", "ended"})

\* Nothing goes out where no manager can be asked, nor before the gate passed.
HostAsked ==
    /\ pc \in {"gate", "spawn"} \cup Watching => evidence(host) = "none"
    /\ child.phase # "none" => evidence(host) = "none"
    /\ child.phase # "none" /\ child.verb \in Requests => vetted
    /\ arrived # {} => Answered(host) /\ evidence(host) = "none"
    /\ arrived \cap Requests # {} => vetted

\* How far a child has come.
ChildComes ==
    /\ child.verb = "none" <=> child.phase = "none"
    /\ child.phase = "asking" => child.verb \notin arrived /\ ~child.announced
    /\ child.phase \in {"queued", "waiting"} \/ child.announced => child.verb \in JobVerbs \cap arrived
    /\ child.phase = "queued" => ~child.announced
    /\ child.phase = "none" => ~child.announced
    /\ child.phase = "waiting" => child.waits
    /\ child.phase = "exited" /\ (child.code # "ok" \/ (child.verb \notin JobVerbs /\ ~Ignored(host))) =>
           child.verb \in arrived

\* What goetia waits for is the child of its request.
ChildWatched ==
    /\ pc \in Watching => child.verb = leg /\ child.waits = waits(left)
    /\ pc \in {"hear", "wait", "reap"} => Bounds
    /\ pc = "output" => ~Bounds
    /\ pc \in {"wait", "reap"} => (child.announced \/ child.phase = "exited") /\ (heard => child.announced)
    /\ pc = "answer" /\ child.phase = "asking" => answers[leg] \in Unsent \cup InDoubt

-----------------------------------------------------------------------------
(* What became of the job and of the unit.                                   *)

\* A request that systemd still may act on is the child's.
JobIsChilds ==
    /\ pc \in Early \/ leg \notin JobVerbs => ours # "pending" /\ child.verb \notin JobVerbs
    /\ child.phase = "asking" => ours # "pending"
    /\ child.phase = "exited" /\ (child.waits \/ child.code # "ok" \/ ~child.announced) => ours # "pending"
    /\ pc = "answer" /\ leg \in JobVerbs /\ code(answers[leg]) = 1 => ours # "pending" /\ child.verb \notin JobVerbs
    /\ pc = "answer" /\ verb = "restart" /\ leg = "stop" /\ Ok => ours # "pending" /\ child.verb \notin JobVerbs
    /\ child.phase \in {"queued", "waiting"} /\ ours = "pending" =>
           job \in IF child.verb = "stop" THEN {"stop"} ELSE {"start", "restart"}
    /\ ~loaded => ~active /\ job = "none"

\* The state a verb leaves the unit in has been seen.
Reached(v) == /\ v = "start" => (IF verb = "restart" THEN "fresh" ELSE "up") \in since
              /\ v = "stop" => "down" \in since

\* The history is of the unit as it is, and of what a child exits with.
HistoryTells ==
    /\ since # {} <=> arrived # {}
    /\ since # {} /\ active => "up" \in since /\ ("down" \in since => "fresh" \in since)
    /\ since # {} /\ ~active => "down" \in since
    /\ child.phase \in {"queued", "waiting"} /\ ours = "done" => Reached(child.verb)
    /\ child.phase = "exited" /\ child.announced /\ child.waits /\ child.code = "ok" => Reached(child.verb)
    /\ child.phase = "exited" /\ child.code = "not_loaded" /\ child.verb = "stop" => "down" \in since
    /\ child.phase = "exited" /\ child.code \in {"no_process", "stopped"} => "down" \in since
    /\ child.phase = "exited" /\ child.code = "running" => "up" \in since
    /\ child.phase = "exited" /\ child.verb = "kill" /\ child.code = "ok" /\ ~Ignored(host) =>
           {"up", "down"} \subseteq since

\* A request that its command waits for is made under a budget that waits, from
\* where that is fixed: in Own, and before it for a restart's start, which comes
\* after its stop.
StopsFirst ==
    /\ waits(budget) /\ leg \in {"start", "stop"} =>
           \/ waits(left)
           \/ pc \in {"prepare", "own"} /\ ~(verb = "restart" /\ leg = "start")
           \/ pc \in {"answer", "ended"} /\ ~Ok
    /\ verb = "restart" /\ leg = "start" => "stop" \in arrived /\ "down" \in since

\* What goetia has said.
UnsentIsUnsent ==
    \A l \in Requests : answers[l] \in Unsent =>
        l \notin arrived /\ ~(child.verb = l /\ child.phase = "asking")

IInv == /\ TypeOK /\ OnCourse
        /\ ScopesAreOpen /\ GatePassed /\ AsksCounted /\ ThreadsSuffice
        /\ SentInOrder /\ HostAsked /\ ChildComes /\ ChildWatched
        /\ JobIsChilds /\ HistoryTells /\ StopsFirst
        /\ UnsentIsUnsent /\ ExpiryWasQueued /\ OkIsEarned

-----------------------------------------------------------------------------
(* Lemmas about what the actions are built from.                             *)

\* The deadline of a budget is one instant, or none.
LEMMA StartsOnce ==
    ASSUME NEW b, IsBudget(b), NEW n \in 0..MaxInstant
    PROVE  start_at(b, n) = {} \/ \E t \in 0..MaxInstant : start_at(b, n) = {t}
<1>1. CASE b = Immediate
  BY <1>1 DEF start_at
<1>2. CASE b # Immediate /\ b # Unbounded
  <2>1. b.d \in Nat
    BY <1>2 DEF IsBudget
  <2>2. n + b.d \in Nat
    BY <2>1, BudgetAssumption
  <2>3. CASE n + b.d <= MaxInstant
    BY <1>2, <2>2, <2>3, BudgetAssumption DEF start_at
  <2>4. CASE ~(n + b.d <= MaxInstant)
    BY <1>2, <2>4 DEF start_at
  <2> QED
    BY <2>3, <2>4
<1>3. CASE b = Unbounded
  BY <1>3 DEF start_at, Unbounded, Immediate
<1> QED
  BY <1>1, <1>2, <1>3

\* What is left of a turn's budget is a budget, and unbounded if the turn's is.
LEMMA LeftIsBudget ==
    ASSUME TypeOK, OnCourse
    PROVE  /\ IsBudget(budget_for_at(deadline, now))
           /\ budget_for_at(deadline, now) # Unbounded => budget # Unbounded
<1>1. CASE deadline = {}
  BY <1>1 DEF budget_for_at, IsBudget
<1>2. CASE deadline # {}
  <2>1. PICK t \in 0..MaxInstant : deadline = {t}
    BY <1>2, StartsOnce, BudgetAssumption DEF OnCourse
  <2>2. budget # Unbounded
    BY <1>2 DEF OnCourse, start_at, Unbounded, Immediate
  <2>3. now \in Nat /\ t \in Nat
    BY <2>1, BudgetAssumption DEF TypeOK
  <2> DEFINE r == IF t > now THEN t - now ELSE 0
  <2>4. r \in Nat /\ remaining_at({t}, now) = {r}
    BY <2>3, RemainingOf
  <2> HIDE DEF r
  <2>5. budget_for_at(deadline, now) \in {Unbounded, Immediate, Bounded(r)}
    BY <2>1, <2>4 DEF budget_for_at
  <2> QED
    BY <2>2, <2>4, <2>5 DEF IsBudget, Bounded
<1> QED
  BY <1>1, <1>2

\* A restart in two legs is one that its command waits for.
LEMMA LegsAreWaitedFor ==
    ASSUME OnCourse, verb = "restart", leg \in {"start", "stop"}
    PROVE  waits(budget)
BY DEF OnCourse, First, Installs

\* The budget of a request is a budget, bounded only if the command's is, and
\* one that waits if the command's is, given that a restart's start was judged.
LEMMA BudgetOfRequest ==
    ASSUME TypeOK, OnCourse, ThreadsSuffice
    PROVE  /\ IsBudget(Budget_of(leg))
           /\ leg \in {"start", "stop"} /\ watched(Budget_of(leg)) => watched(budget)
           /\ waits(budget) /\ leg \in {"start", "stop"}
                /\ (verb = "restart" /\ leg = "start" => waits(left)) => waits(Budget_of(leg))
<1> DEFINE later == budget_for_at(deadline, now)
<1>1. IsBudget(later) /\ (later # Unbounded => budget # Unbounded)
  BY LeftIsBudget
<1>2. IsBudget(budget) /\ IsBudget(Unbounded) /\ IsBudget(SPENT) /\ IsBudget(left)
  BY DEF OnCourse, IsBudget, SPENT, Bounded, TypeOK
<1>3. waits(SPENT) /\ waits(Unbounded)
  BY DEF waits, SPENT, Bounded, Immediate, Unbounded
<1> HIDE DEF later
<1>4. CASE verb = "restart" /\ leg = "stop"
  <2>1. Budget_of(leg) = stop_leg(later)
    BY <1>4 DEF Budget_of, JobVerbs, later
  <2>2. waits(budget)
    BY <1>4, LegsAreWaitedFor
  <2>3. stop_leg(later) = IF waits(later) THEN later ELSE SPENT
    BY <2>2 DEF stop_leg, Spent
  <2>4. waits(later) => (watched(later) => watched(budget))
    BY <1>1, <2>2 DEF watched
  <2>5. ~waits(later) => watched(budget)
    BY <1>1, <1>3, <2>2 DEF watched
  <2> QED
    BY <1>1, <1>2, <1>3, <1>4, <2>1, <2>3, <2>4, <2>5
<1>5. CASE verb = "restart" /\ leg = "start"
  <2>1. Budget_of(leg) = left
    BY <1>5 DEF Budget_of, JobVerbs
  <2> QED
    BY <1>2, <1>5, <2>1 DEF ThreadsSuffice
<1>6. CASE ~(verb = "restart" /\ leg \in {"start", "stop"})
  <2>1. Budget_of(leg) \in {budget, Unbounded}
    BY <1>6 DEF Budget_of
  <2>2. leg \in {"start", "stop"} => Budget_of(leg) = budget
    BY <1>6 DEF Budget_of, JobVerbs
  <2> QED
    BY <1>2, <2>1, <2>2
<1> QED
  BY <1>4, <1>5, <1>6

-----------------------------------------------------------------------------
(* What a child becomes.                                                     *)

ChildRecords == [phase : Phases, verb : Requests \cup Reads \cup {"none"}, waits : BOOLEAN,
                 announced : BOOLEAN, code : Codes]

\* No child is a record like any other.
LEMMA NoChildFields ==
    /\ NoChild \in ChildRecords
    /\ NoChild.phase = "none" /\ NoChild.verb = "none" /\ ~NoChild.announced
BY DEF NoChild, ChildRecords, Phases, Codes

\* A child as it starts.
LEMMA ChildFields ==
    ASSUME TypeOK, leg \in Requests \cup Reads
    PROVE  /\ Child \in ChildRecords
           /\ Child.phase = "asking" /\ Child.verb = leg /\ Child.waits = waits(left)
           /\ ~Child.announced
<1> DEFINE w == waits(left)
<1>1. w \in BOOLEAN
  BY DEF waits
<1>2. Child = [NoChild EXCEPT !.phase = "asking", !.verb = leg, !.waits = w]
  BY DEF Child
<1> HIDE DEF w
<1>3. Child = [phase |-> "asking", verb |-> leg, waits |-> w, announced |-> FALSE, code |-> "none"]
  BY <1>2 DEF NoChild
<1>4. /\ Child \in ChildRecords
      /\ Child.phase = "asking" /\ Child.verb = leg /\ Child.waits = w /\ ~Child.announced
  BY <1>1, <1>3 DEF ChildRecords, Phases, Codes
<1> QED
  BY <1>4 DEF w

\* What stays of a child when it exits.
LEMMA ExitFields ==
    ASSUME child \in ChildRecords, NEW c \in Codes, ChildExits(c)
    PROVE  /\ child' \in ChildRecords
           /\ child'.phase = "exited" /\ child'.code = c
           /\ child'.verb = child.verb /\ child'.waits = child.waits
           /\ child'.announced = child.announced
<1>1. child' = [phase |-> "exited", verb |-> child.verb, waits |-> child.waits,
                announced |-> child.announced, code |-> c]
  BY DEF ChildExits, ChildRecords
<1>2. /\ child.verb \in Requests \cup Reads \cup {"none"}
      /\ child.waits \in BOOLEAN /\ child.announced \in BOOLEAN
  BY DEF ChildRecords
<1> QED
  BY <1>1, <1>2 DEF ChildRecords, Phases

\* systemd does what the child asked, refuses it, or never heard of it.
Queues == child'.phase = "queued" /\ child.verb \in JobVerbs /\ EnqueueOurs(child.verb)
Kills == /\ child'.phase = "exited" /\ child.verb = "kill" /\ active' = FALSE
         /\ child'.code = IF active THEN "ok" ELSE "no_process"
         /\ UNCHANGED <<loaded, supported, job, ours, meddled>>
Tells == /\ child'.phase = "exited"
         /\ \/ child.verb \in JobVerbs /\ ~loaded /\ child'.code = "not_loaded"
            \/ child.verb = "show" /\ child'.code = "not_loaded"
            \/ child.verb = "show" /\ active /\ child'.code = "running"
            \/ child.verb = "show" /\ ~active /\ child'.code = "stopped"
            \/ child.verb = "show" /\ child'.code = "unknown"
            \/ child.verb \notin JobVerbs \cup {"kill", "show"} /\ child'.code = "ok"
            \/ child'.code = "fail"
         /\ UNCHANGED queueVars
Unheard == /\ child'.phase = "exited" /\ child'.code = "ok"
           /\ child.verb \in JobVerbs \/ Ignored(host)
           /\ UNCHANGED <<queueVars, arrived, since>>

LEMMA AskingDoes ==
    ASSUME TypeOK, ChildAsks
    PROVE  /\ child.phase = "asking" /\ child' \in ChildRecords
           /\ child'.verb = child.verb /\ child'.waits = child.waits
           /\ child'.announced = child.announced
           /\ (Answered(host) /\ Notes /\ (Queues \/ Kills \/ Tells)) \/ Unheard
<1>1. child \in ChildRecords /\ child.phase = "asking"
  BY DEF TypeOK, ChildRecords, ChildAsks
<1> DEFINE Kept == /\ child' \in ChildRecords
                   /\ child'.verb = child.verb /\ child'.waits = child.waits
                   /\ child'.announced = child.announced
<1>2. ASSUME NEW c \in Codes, ChildExits(c)
      PROVE  Kept /\ child'.phase = "exited" /\ child'.code = c
  BY <1>1, <1>2, ExitFields
<1>3. ASSUME child' = [child EXCEPT !.phase = "queued"]
      PROVE  Kept /\ child'.phase = "queued"
  <2>1. child' = [phase |-> "queued", verb |-> child.verb, waits |-> child.waits,
                  announced |-> child.announced, code |-> child.code]
    BY <1>1, <1>3 DEF ChildRecords
  <2>2. /\ child.verb \in Requests \cup Reads \cup {"none"}
        /\ child.waits \in BOOLEAN /\ child.announced \in BOOLEAN /\ child.code \in Codes
    BY <1>1 DEF ChildRecords
  <2> QED
    BY <2>1, <2>2 DEF ChildRecords, Phases
<1> HIDE DEF Kept
<1>4. CASE Answered(host) /\ Carried /\ Notes
  <2>1. CASE child.verb \in JobVerbs /\ EnqueueOurs(child.verb) /\ child' = [child EXCEPT !.phase = "queued"]
    BY <1>1, <1>3, <1>4, <2>1 DEF Queues, Kept
  <2>2. CASE child.verb \in JobVerbs /\ ~loaded /\ ChildExits("not_loaded") /\ UNCHANGED queueVars
    BY <1>1, <1>2, <1>4, <2>2 DEF Tells, Kept, Codes
  <2>3. CASE /\ child.verb = "kill" /\ active' = FALSE
             /\ ChildExits(IF active THEN "ok" ELSE "no_process")
             /\ UNCHANGED <<loaded, supported, job, ours, meddled>>
    BY <1>1, <1>2, <1>4, <2>3 DEF Kills, Kept, Codes
  <2>4. CASE /\ child.verb = "show"
             /\ \E state \in ShownAs : ChildExits(state)
             /\ UNCHANGED queueVars
    <3>1. PICK state \in ShownAs : ChildExits(state)
      BY <2>4
    <3>2. state \in Codes
      BY <3>1 DEF ShownAs, Codes, States
    <3>3. Kept /\ child'.phase = "exited" /\ child'.code = state
      BY <1>2, <3>1, <3>2
    <3>4. state = "not_loaded" \/ (active /\ state = "running") \/ (~active /\ state = "stopped") \/ state = "unknown"
      BY <3>1 DEF ShownAs
    <3> QED
      BY <1>1, <1>4, <2>4, <3>3, <3>4 DEF Tells, Kept
  <2>5. CASE child.verb \notin JobVerbs \cup {"kill", "show"} /\ ChildExits("ok") /\ UNCHANGED queueVars
    BY <1>1, <1>2, <1>4, <2>5 DEF Tells, Kept, Codes
  <2>6. CASE ChildExits("fail") /\ UNCHANGED queueVars
    BY <1>1, <1>2, <1>4, <2>6 DEF Tells, Kept, Codes
  <2> QED
    BY <1>4, <2>1, <2>2, <2>3, <2>4, <2>5, <2>6 DEF Carried
<1>5. CASE /\ (Faulty("silent") /\ child.verb \in JobVerbs) \/ Ignored(host)
           /\ ChildExits("ok") /\ UNCHANGED <<queueVars, arrived, since>>
  BY <1>1, <1>2, <1>5 DEF Unheard, Kept, Codes
<1> QED
  BY <1>4, <1>5 DEF ChildAsks

\* An announcement tells of the job, and systemctl waits on or exits.
LEMMA AnnouncingDoes ==
    ASSUME TypeOK, ChildAnnounces
    PROVE  /\ child.phase = "queued" /\ child' \in ChildRecords
           /\ child'.verb = child.verb /\ child'.waits = child.waits /\ child'.announced
           /\ child'.phase = IF child.waits THEN "waiting" ELSE "exited"
           /\ child'.phase = "exited" => child'.code = "ok"
<1>1. child \in ChildRecords /\ Speaks(host)
  BY DEF TypeOK, ChildRecords, Speaks, environment, Switches
<1>2. child' = [phase |-> IF child.waits THEN "waiting" ELSE "exited", verb |-> child.verb,
                waits |-> child.waits, announced |-> TRUE, code |-> IF child.waits THEN "none" ELSE "ok"]
  BY <1>1 DEF ChildAnnounces, ChildRecords
<1>3. child.verb \in Requests \cup Reads \cup {"none"} /\ child.waits \in BOOLEAN
  BY <1>1 DEF ChildRecords
<1>4. child.phase = "queued"
  BY DEF ChildAnnounces
<1>5. CASE child.waits
  BY <1>2, <1>3, <1>4, <1>5 DEF ChildRecords, Phases, Codes
<1>6. CASE ~child.waits
  BY <1>2, <1>3, <1>4, <1>6 DEF ChildRecords, Phases, Codes
<1> QED
  BY <1>5, <1>6

\* What goetia makes of an exit.
LEMMA JudgedSays ==
    ASSUME NEW c \in Codes
    PROVE  /\ Judged(c) \in Answers \ (Unsent \cup {"timed_out"})
           /\ Judged(c) = "ok" => \/ c = "ok" /\ (leg \in JobVerbs => captured)
                                  \/ c = "not_loaded" /\ leg = "stop"
           /\ Judged(c) = "not_enqueued" => c = "ok" /\ ~captured
           /\ Judged(c) = "not_running" => c = "no_process"
           /\ Judged(c) \in States => c = Judged(c)
BY DEF Judged, Shown, Answers, Unsent, InDoubt, States, Codes

\* A wait ends with what the exit says, or with the deadline's answer, or in
\* doubt; or goes on to reap.
Verdict == IF Ignored(host) THEN "no_manager" ELSE Judged(child.code)
WaitEnds ==
    /\ pc \in {"wait", "reap", "output"}
    /\ \/ child.phase = "exited" /\ Answer(Verdict) /\ child' = NoChild
       \/ pc = "reap" /\ child.phase # "exited" /\ Answer("timed_out") /\ child' = NoChild
       \/ Answer("in_doubt") /\ child' \in {child, NoChild}
       \/ leg \in Reads /\ Answer("not_run") /\ UNCHANGED child
       \/ pc = "wait" /\ pc' = "reap" /\ UNCHANGED <<child, answers>>
    /\ UNCHANGED <<queueVars, host, now, leg, left, until, gate, pool, reserved, heard,
                   systemctlHistory>>

LEMMA WaitsDo ==
    ASSUME WaitOut \/ Reap \/ Output
    PROVE  WaitEnds
<1>1. CASE WaitOut
  BY <1>1 DEF WaitOut, WaitEnds, Collected, Finished, Verdict, Lives, Lost
<1>2. CASE Reap
  BY <1>2 DEF Reap, WaitEnds, Collected, Finished, Verdict, Lives
<1>3. CASE Output
  BY <1>3 DEF Output, WaitEnds, Finished, Verdict, Lives
<1> QED
  BY <1>1, <1>2, <1>3

\* What the verdict can be.
LEMMA VerdictSays ==
    ASSUME IInv
    PROVE  /\ Verdict \in Answers \ {"timed_out"}
           /\ Verdict \in Unsent => Ignored(host)
           /\ Verdict = "ok" => /\ ~Ignored(host)
                                /\ \/ child.code = "ok" /\ (leg \in JobVerbs => captured)
                                   \/ child.code = "not_loaded" /\ leg = "stop"
           /\ Verdict = "not_enqueued" => child.code = "ok" /\ ~captured
           /\ Verdict = "not_running" => child.code = "no_process"
           /\ Verdict \in States => child.code = Verdict
<1>1. child.code \in Codes
  BY DEF IInv, TypeOK
<1>2. CASE Ignored(host)
  BY <1>2 DEF Verdict, Answers, Unsent, InDoubt, States
<1>3. CASE ~Ignored(host)
  BY <1>1, <1>3, JudgedSays
  DEF Verdict, Judged, Shown, Answers, Codes, States, Unsent, InDoubt
<1> QED
  BY <1>2, <1>3

\* One scope less, and no pass once the last is closed.
LEMMA DropsOne ==
    ASSUME NEW g, NEW n \in {1, 2}, g.open = n
    PROVE  /\ drop_scope(g).open = n - 1
           /\ n = 1 => ~drop_scope(g).passed
<1> DEFINE o == g.open - 1
           q == g.passed /\ g.open > 1
<1>1. drop_scope(g) = [open |-> o, passed |-> q]
  BY DEF drop_scope
<1>2. o = n - 1 /\ (n = 1 => ~q)
  OBVIOUS
<1> HIDE DEF o, q
<1> QED
  BY <1>1, <1>2

\* The turn's end closes every scope, and with the last one the gate's pass goes.
LEMMA DropsAll ==
    ASSUME TypeOK, ScopesAreOpen
    PROVE  DropAll(gate).open = 0 /\ ~DropAll(gate).passed
<1>1. gate.open \in {0, 1, 2}
  BY DEF TypeOK
<1>2. CASE gate.open = 0
  <2>1. ~gate.passed /\ DropAll(gate) = gate
    BY <1>2 DEF DropAll, ScopesAreOpen
  <2> QED
    BY <1>2, <2>1
<1>3. CASE gate.open = 1
  <2>1. DropAll(gate) = drop_scope(gate)
    BY <1>3 DEF DropAll
  <2> QED
    BY <1>3, <2>1, DropsOne
<1>4. CASE gate.open = 2
  <2>1. DropAll(gate) = drop_scope(drop_scope(gate))
    BY <1>4 DEF DropAll
  <2>2. drop_scope(gate).open = 1
    BY <1>4, DropsOne
  <2> QED
    BY <2>1, <2>2, DropsOne
<1> QED
  BY <1>1, <1>2, <1>3, <1>4

-----------------------------------------------------------------------------
(* One lemma per action.                                                      *)

\* The door refuses, or leads to the gate.
LEMMA DoorKeeps ==
    ASSUME IInv, Door, UNCHANGED <<verb, budget, deadline, turn, exit>>
    PROVE  IInv'
<1>10. ChildComes' /\ HistoryTells'
  BY DEF IInv, Door, ChildComes, HistoryTells, Reached, queueVars, systemctlHistory
<1>11. TypeOK'
  BY DEF IInv, Door, Answer, TypeOK, QueueTypeOK, Unsent, Answers, queueVars,
     systemctlHistory
<1>12. OnCourse'
  BY DEF IInv, Door, Answer, OnCourse, First, Installs, Watching
<1>13. ScopesAreOpen'
  BY DEF IInv, Door, Answer, TypeOK, ScopesAreOpen, Installs, Prepares, InScope
<1>14. GatePassed'
  BY DEF IInv, Door, Answer, TypeOK, OnCourse, ScopesAreOpen, GatePassed, First, Prepares,
     InScope, Past, Ok, Reads, Watching, systemctlHistory
<1>15. AsksCounted'
  BY DEF IInv, Door, Answer, AsksCounted, Earlier, systemctlHistory
<1>16. ThreadsSuffice'
  BY DEF IInv, Door, TypeOK, ThreadsSuffice, Need, Early, systemctlHistory
<1>17. SentInOrder'
  BY DEF IInv, Door, Answer, TypeOK, SentInOrder, Installs, Sent, Before, Early,
     systemctlHistory
<1>18. HostAsked'
  BY DEF IInv, Door, Answer, HostAsked, Watching, systemctlHistory
<1>19. ChildWatched'
  BY DEF IInv, Door, Answer, TypeOK, ChildWatched, Unsent, Watching
<1>20. JobIsChilds'
  BY DEF IInv, Door, JobIsChilds, Early, queueVars
<1>21. StopsFirst'
  BY DEF IInv, Door, StopsFirst, systemctlHistory
<1>22. UnsentIsUnsent'
  BY DEF IInv, Door, HostAsked, UnsentIsUnsent, systemctlHistory
<1>23. ExpiryWasQueued'
  BY DEF IInv, Door, Answer, TypeOK, ExpiryWasQueued, Legs, systemctlHistory
<1>24. OkIsEarned'
  BY DEF IInv, Door, Answer, TypeOK, OkIsEarned, Ok
<1> QED
  BY <1>10, <1>11, <1>12, <1>13, <1>14, <1>15, <1>16, <1>17, <1>18, <1>19, <1>20, <1>21,
     <1>22, <1>23, <1>24
  DEF IInv

\* The version gate is asked once, and its pass is kept while a scope is open.
LEMMA AskGateKeeps ==
    ASSUME IInv, AskGate, UNCHANGED <<verb, budget, deadline, turn, exit>>
    PROVE  IInv'
<1>10. ChildComes' /\ HistoryTells'
  BY DEF IInv, AskGate, ChildComes, HistoryTells, Reached, queueVars
<1>11. TypeOK'
  BY DEF IInv, AskGate, Answer, gated, TypeOK, ScopesAreOpen, QueueTypeOK, Unsent, Answers,
     queueVars
<1>12. OnCourse'
  BY DEF IInv, AskGate, Answer, OnCourse, First, Installs, Watching
<1>13. ScopesAreOpen'
  BY DEF IInv, AskGate, Answer, gated, TypeOK, ScopesAreOpen, Installs, Prepares, InScope
<1>14. GatePassed'
  BY DEF IInv, AskGate, Answer, gated, TypeOK, GatePassed, AsksCounted, QueueTypeOK, Past,
     Ok, Watching
<1>15. AsksCounted'
  BY DEF IInv, AskGate, Answer, AsksCounted, Earlier
<1>16. ThreadsSuffice'
  BY DEF IInv, AskGate, TypeOK, ThreadsSuffice, Need, Early
<1>17. SentInOrder'
  BY DEF IInv, AskGate, Answer, TypeOK, SentInOrder, Installs, Sent, Before, Early
<1>18. HostAsked'
  BY DEF IInv, AskGate, HostAsked
<1>19. ChildWatched'
  BY DEF IInv, AskGate, Answer, TypeOK, ChildWatched, Unsent, Watching
<1>20. JobIsChilds'
  BY DEF IInv, AskGate, JobIsChilds, Early, queueVars
<1>21. StopsFirst'
  BY DEF IInv, AskGate, StopsFirst
<1>22. UnsentIsUnsent'
  BY DEF IInv, AskGate, Answer, TypeOK, SentInOrder, UnsentIsUnsent, Sent, Before, Requests,
     JobVerbs, Legs, Early
<1>23. ExpiryWasQueued'
  BY DEF IInv, AskGate, Answer, TypeOK, ExpiryWasQueued, Legs
<1>24. OkIsEarned'
  BY DEF IInv, AskGate, Answer, TypeOK, OkIsEarned, Ok
<1> QED
  BY <1>10, <1>11, <1>12, <1>13, <1>14, <1>15, <1>16, <1>17, <1>18, <1>19, <1>20, <1>21,
     <1>22, <1>23, <1>24
  DEF IInv

\* A child starts with a thread for each of its streams.
LEMMA SpawnKeeps ==
    ASSUME IInv, Spawn, UNCHANGED <<verb, budget, deadline, turn, exit>>
    PROVE  IInv'
<1>1. /\ Child \in ChildRecords
      /\ Child.phase = "asking" /\ Child.verb = leg /\ Child.waits = waits(left)
      /\ ~Child.announced
  BY ChildFields DEF IInv, Spawn
<1>10. TypeOK'
  <2>1. pool' \in Nat
    <3>1. pool \in Nat /\ (pool < 2 \/ pool - 2 \in Nat)
      BY DEF IInv, TypeOK
    <3>2. \/ pool' = pool
          \/ ~(pool < 2) /\ pool' = pool - 2
      BY DEF Spawn, STREAMS
    <3> QED
      BY <3>1, <3>2
  <2>2. child' \in ChildRecords
    BY <1>1 DEF Spawn, IInv, TypeOK, ChildRecords
  <2>3. answers' \in [Legs -> Answers] /\ pc' \in {"answer", "hear", "output"} /\ heard' = FALSE
    BY DEF Spawn, Answer, SpawnFailed, IInv, TypeOK, Answers, Unsent, InDoubt
  <2> QED
    BY <2>1, <2>2, <2>3 DEF Spawn, IInv, TypeOK, QueueTypeOK, ChildRecords, queueVars
<1>11. OnCourse'
  BY DEF IInv, Spawn, Answer, OnCourse, First, Installs, Requests, Reads, JobVerbs
<1>12. ScopesAreOpen'
  BY DEF IInv, Spawn, Answer, ScopesAreOpen, Installs, Prepares, InScope, Requests, Reads,
     JobVerbs
<1>13. GatePassed'
  BY DEF IInv, Spawn, GatePassed, Past
<1>14. AsksCounted'
  BY DEF IInv, Spawn, Answer, AsksCounted, Earlier
<1>15. ThreadsSuffice'
  BY <1>1
  DEF IInv, Spawn, Answer, Bounds, SpawnFailed, STREAMS, TypeOK, ThreadsSuffice,
      ChildRecords, Need, Early
<1>16. SentInOrder'
  BY <1>1
  DEF IInv, Spawn, Answer, SpawnFailed, TypeOK, SentInOrder, Installs, Sent, Before, Early
<1>17. HostAsked'
  BY <1>1 DEF IInv, Spawn, GatePassed, HostAsked, Requests, Reads, JobVerbs
<1>18. ChildComes'
  BY <1>1
  DEF IInv, Spawn, SentInOrder, ChildComes, Sent, Before, Requests, Reads, JobVerbs, Early
<1>19. ChildWatched'
  BY <1>1
  DEF IInv, Spawn, Answer, Bounds, SpawnFailed, TypeOK, ChildWatched, Unsent, InDoubt,
      Watching
<1>20. JobIsChilds'
  BY <1>1
  DEF IInv, Spawn, Answer, SpawnFailed, TypeOK, JobIsChilds, Ok, code, InDoubt, Early,
      queueVars
<1>21. HistoryTells'
  BY <1>1 DEF IInv, Spawn, HistoryTells, Reached, queueVars
<1>22. StopsFirst'
  BY DEF IInv, Spawn, StopsFirst
<1>23. UnsentIsUnsent'
  BY <1>1
  DEF IInv, Spawn, Answer, SpawnFailed, TypeOK, SentInOrder, UnsentIsUnsent, Sent, Before,
      Requests, JobVerbs, Legs, Unsent, Early
<1>24. ExpiryWasQueued'
  BY DEF IInv, Spawn, Answer, SpawnFailed, TypeOK, ExpiryWasQueued, Legs
<1>25. OkIsEarned'
  BY DEF IInv, Spawn, Answer, SpawnFailed, TypeOK, OkIsEarned, Ok
<1> QED
  BY <1>10, <1>11, <1>12, <1>13, <1>14, <1>15, <1>16, <1>17, <1>18, <1>19, <1>20, <1>21,
     <1>22, <1>23, <1>24, <1>25
  DEF IInv

\* goetia hears the child's announcement, its exit or nothing in time.
LEMMA HearKeeps ==
    ASSUME IInv, Hear, UNCHANGED <<verb, budget, deadline, turn, exit>>
    PROVE  IInv'
<1>10. TypeOK'
  <2>1. child' \in ChildRecords
    BY NoChildFields DEF Hear, Lost, IInv, TypeOK, ChildRecords
  <2>2. heard' \in BOOLEAN /\ pc' \in {"wait", "answer"} /\ answers' \in [Legs -> Answers]
    BY DEF Hear, Lost, Answer, IInv, TypeOK, Answers, InDoubt
  <2> QED
    BY <2>1, <2>2
    DEF Hear, IInv, TypeOK, QueueTypeOK, ChildRecords, queueVars, systemctlHistory
<1>11. OnCourse'
  BY DEF IInv, Hear, Lost, Answer, OnCourse, First, Installs, Watching
<1>12. ScopesAreOpen'
  BY DEF IInv, Hear, Lost, Answer, OnCourse, ScopesAreOpen, Installs, Prepares, InScope,
     Watching
<1>13. GatePassed'
  BY DEF IInv, Hear, GatePassed, Past, Watching, systemctlHistory
<1>14. AsksCounted'
  BY DEF IInv, Hear, Lost, Answer, AsksCounted, Earlier, systemctlHistory
<1>15. ThreadsSuffice'
  BY DEF IInv, Hear, Lost, Answer, ThreadsSuffice, Need, Early, systemctlHistory
<1>16. SentInOrder'
  BY NoChildFields
  DEF IInv, Hear, Lost, Answer, TypeOK, SentInOrder, Installs, Sent, Before, Early,
      systemctlHistory
<1>17. HostAsked'
  BY NoChildFields DEF IInv, Hear, Lost, HostAsked, Watching, systemctlHistory
<1>18. ChildComes'
  BY NoChildFields DEF IInv, Hear, Lost, ChildComes, systemctlHistory
<1>19. ChildWatched'
  BY NoChildFields DEF IInv, Hear, Lives, Lost, Answer, ChildWatched, Bounds, Watching
<1>20. JobIsChilds'
  BY NoChildFields
  DEF IInv, Hear, Lost, Answer, TypeOK, JobIsChilds, Ok, code, JobVerbs, InDoubt, Early,
      queueVars
<1>21. HistoryTells'
  BY NoChildFields DEF IInv, Hear, Lost, HistoryTells, Reached, queueVars, systemctlHistory
<1>22. StopsFirst'
  BY DEF IInv, Hear, StopsFirst, systemctlHistory
<1>23. UnsentIsUnsent'
  BY NoChildFields
  DEF IInv, Hear, Lost, Answer, TypeOK, UnsentIsUnsent, Legs, Unsent, systemctlHistory
<1>24. ExpiryWasQueued'
  BY DEF IInv, Hear, Lost, Answer, TypeOK, ExpiryWasQueued, Legs, systemctlHistory
<1>25. OkIsEarned'
  BY DEF IInv, Hear, Lost, Answer, TypeOK, OkIsEarned, Ok
<1> QED
  BY <1>10, <1>11, <1>12, <1>13, <1>14, <1>15, <1>16, <1>17, <1>18, <1>19, <1>20, <1>21,
     <1>22, <1>23, <1>24, <1>25
  DEF IInv

\* A turn that needs several requests reserves for all of them.
LEMMA PrepareKeeps ==
    ASSUME IInv, Prepare
    PROVE  IInv'
<1>10. ChildComes' /\ HistoryTells'
  BY DEF IInv, Prepare, ChildComes, HistoryTells, Reached, queueVars, systemctlHistory,
     fixed
<1>11. TypeOK'
  BY DEF IInv, Prepare, Answer, Reserve, gate_scope, spares, Steps, STREAMS, TypeOK,
     ScopesAreOpen, QueueTypeOK, Unsent, Answers, queueVars, systemctlHistory, fixed
<1>12. OnCourse'
  BY DEF IInv, Prepare, Answer, OnCourse, First, Installs, Watching, fixed
<1>13. ScopesAreOpen'
  BY DEF IInv, Prepare, Answer, Reserve, gate_scope, Prepares, TypeOK, OnCourse,
     ScopesAreOpen, First, Installs, InScope, fixed
<1>14. GatePassed'
  BY DEF IInv, Prepare, Answer, Reserve, gate_scope, TypeOK, GatePassed, Past, Ok, Watching,
     systemctlHistory, fixed
<1>15. AsksCounted'
  BY DEF IInv, Prepare, Prepares, OnCourse, ScopesAreOpen, AsksCounted, First, InScope,
     Earlier, Reads, systemctlHistory
<1>16. ThreadsSuffice'
  BY DEF IInv, Prepare, Reserve, spares, Steps, STREAMS, TypeOK, ThreadsSuffice, Need,
     Early, systemctlHistory, fixed
<1>17. SentInOrder'
  BY DEF IInv, Prepare, Answer, TypeOK, SentInOrder, Installs, Sent, Before, Early,
     systemctlHistory, fixed
<1>18. HostAsked'
  BY DEF IInv, Prepare, Answer, HostAsked, Watching, systemctlHistory, fixed
<1>19. ChildWatched'
  BY DEF IInv, Prepare, Answer, OnCourse, ChildComes, ChildWatched, SentInOrder, First,
     Sent, Before, Early, Watching
<1>20. JobIsChilds'
  BY DEF IInv, Prepare, JobIsChilds, Early, queueVars
<1>21. StopsFirst'
  BY DEF IInv, Prepare, Answer, TypeOK, StopsFirst, Ok, systemctlHistory, fixed
<1>22. UnsentIsUnsent'
  BY DEF IInv, Prepare, OnCourse, SentInOrder, UnsentIsUnsent, First, Sent, Before,
     Requests, JobVerbs, Early, systemctlHistory
<1>23. ExpiryWasQueued'
  BY DEF IInv, Prepare, Answer, TypeOK, ExpiryWasQueued, Legs, systemctlHistory
<1>24. OkIsEarned'
  BY DEF IInv, Prepare, Answer, TypeOK, OkIsEarned, Ok
<1> QED
  BY <1>10, <1>11, <1>12, <1>13, <1>14, <1>15, <1>16, <1>17, <1>18, <1>19, <1>20, <1>21,
     <1>22, <1>23, <1>24
  DEF IInv

\* A request takes its budget and its deadline.
LEMMA OwnKeeps ==
    ASSUME IInv, Own
    PROVE  IInv'
<1>1. /\ IsBudget(Budget_of(leg))
      /\ leg \in {"start", "stop"} /\ watched(Budget_of(leg)) => watched(budget)
      /\ waits(budget) /\ leg \in {"start", "stop"} => waits(Budget_of(leg))
      /\ start_at(Budget_of(leg), now) = {} \/ \E t \in 0..MaxInstant : start_at(Budget_of(leg), now) = {t}
  BY BudgetOfRequest, StartsOnce DEF IInv, TypeOK, StopsFirst, Own
<1>10. ChildComes' /\ HistoryTells'
  BY DEF IInv, Own, ChildComes, HistoryTells, Reached, queueVars, systemctlHistory, fixed
<1>11. TypeOK'
  BY <1>1
  DEF IInv, Own, Answer, Reserve, gate_scope, spares, STREAMS, TypeOK, ScopesAreOpen,
      QueueTypeOK, InScope, Unsent, Answers, queueVars, systemctlHistory, fixed
<1>12. OnCourse'
  BY <1>1 DEF IInv, Own, Answer, OnCourse, First, Installs, Watching, fixed
<1>13. ScopesAreOpen'
  BY DEF IInv, Own, Answer, Reserve, gate_scope, Prepares, TypeOK, OnCourse, ScopesAreOpen,
     First, Installs, InScope, PossibleVerbs, fixed
<1>14. GatePassed'
  BY DEF IInv, Own, Answer, Reserve, gate_scope, TypeOK, GatePassed, Past, Ok, Watching,
     systemctlHistory, fixed
<1>15. AsksCounted'
  BY DEF IInv, Own, Answer, Reserve, gate_scope, TypeOK, AsksCounted, Earlier,
     systemctlHistory, fixed
<1>16. ThreadsSuffice'
  <2>1. UNCHANGED <<verb, budget, leg, loose>> /\ pc = "own" /\ pc' \in {"door", "answer"}
    BY DEF Own, Answer, fixed, systemctlHistory
  <2>2. leg # "restart" /\ watched(left') => watched(budget)
    <3>1. leg \notin JobVerbs => ~watched(Budget_of(leg))
      BY DEF Budget_of, watched
    <3> QED
      BY <1>1, <3>1 DEF Own, IInv, ThreadsSuffice, JobVerbs
  <2>3. ASSUME reserved' = 1, watched(budget)
        PROVE  pool' >= Need
    <3>1. pool \in Nat /\ Need \in {0, 2, 4}
      BY DEF IInv, TypeOK, Need
    <3>2. CASE reserved = 1 /\ pool' = pool
      BY <2>3, <3>2 DEF IInv, ThreadsSuffice
    <3>3. CASE reserved # 1 \/ pool' # pool
      <4>1. ~Prepares /\ verb \in {"start", "stop", "kill"} /\ Reserve(IF verb = "kill" THEN 0 ELSE 1)
        BY <2>3, <3>3 DEF Own
      <4>2. leg = verb
        BY <4>1 DEF IInv, OnCourse, First, Installs, Prepares
      <4>3. verb = "kill" => Need = 0
        BY <4>2 DEF Need
      <4>4. verb # "kill" => Need = 2 /\ pool' = pool + 2
        BY <2>1, <2>3, <4>1, <4>2 DEF Need, Reserve, spares, STREAMS, Early, Prepares
      <4>5. verb = "kill" => pool' = pool
        BY <2>3, <3>1, <4>1 DEF Reserve, spares, STREAMS
      <4> QED
        BY <3>1, <4>1, <4>3, <4>4, <4>5
    <3> QED
      BY <3>2, <3>3
  <2>4. Need' \in Nat /\ Need \in Nat /\ Need' <= Need /\ pool' \in Nat
    BY <2>1 DEF Need, Early, Own, Reserve, spares, STREAMS, IInv, TypeOK
  <2> QED
    BY <2>1, <2>2, <2>3, <2>4 DEF ThreadsSuffice, IInv
<1>17. SentInOrder'
  BY DEF IInv, Own, Answer, TypeOK, SentInOrder, Installs, Sent, Before, Early,
     systemctlHistory, fixed
<1>18. HostAsked'
  BY DEF IInv, Own, Answer, HostAsked, Watching, systemctlHistory, fixed
<1>19. ChildWatched'
  BY DEF IInv, Own, Answer, TypeOK, ChildWatched, Unsent, Watching
<1>20. JobIsChilds'
  BY DEF IInv, Own, JobIsChilds, Early, queueVars
<1>21. StopsFirst'
  BY <1>1 DEF IInv, Own, Answer, TypeOK, StopsFirst, Ok, systemctlHistory, fixed
<1>22. UnsentIsUnsent'
  BY DEF IInv, Own, Answer, TypeOK, SentInOrder, UnsentIsUnsent, Sent, Before, Requests,
     JobVerbs, Legs, Early, systemctlHistory
<1>23. ExpiryWasQueued'
  BY DEF IInv, Own, Answer, TypeOK, ExpiryWasQueued, Legs, systemctlHistory
<1>24. OkIsEarned'
  BY DEF IInv, Own, Answer, TypeOK, OkIsEarned, Ok
<1> QED
  BY <1>10, <1>11, <1>12, <1>13, <1>14, <1>15, <1>16, <1>17, <1>18, <1>19, <1>20, <1>21,
     <1>22, <1>23, <1>24
  DEF IInv

\* An install writes the unit before it reloads.
LEMMA WriteKeeps ==
    ASSUME IInv, Write
    PROVE  IInv'
<1>10. ChildComes' /\ HistoryTells'
  BY DEF IInv, Write, ChildComes, HistoryTells, Reached, systemctlHistory, fixed
<1>11. TypeOK'
  <2>1. answers' \in [Legs -> Answers] /\ pc' \in {"answer", "door"} /\ leg' \in Legs /\ loaded' \in BOOLEAN
    BY DEF Write, Answer, IInv, TypeOK, QueueTypeOK, Answers, Unsent, InDoubt, Legs,
       Requests
  <2> QED
    BY <2>1 DEF Write, IInv, TypeOK, QueueTypeOK, systemctlHistory, fixed
<1>12. OnCourse'
  BY DEF IInv, Write, Answer, OnCourse, First, Installs, PossibleVerbs, Watching, fixed
<1>13. ScopesAreOpen'
  BY DEF IInv, Write, Answer, TypeOK, ScopesAreOpen, Installs, Prepares, InScope, fixed
<1>14. GatePassed'
  BY DEF IInv, Write, TypeOK, OnCourse, ScopesAreOpen, GatePassed, First, InScope,
     PossibleVerbs, systemctlHistory
<1>15. AsksCounted'
  BY DEF IInv, Write, Answer, TypeOK, OnCourse, ScopesAreOpen, GatePassed, AsksCounted,
     First, InScope, Earlier, PossibleVerbs, systemctlHistory
<1>16. ThreadsSuffice'
  BY DEF IInv, Write, ThreadsSuffice, Need, systemctlHistory, fixed
<1>17. SentInOrder'
  BY DEF IInv, Write, Answer, TypeOK, SentInOrder, Sent, Before, Early, systemctlHistory
<1>18. HostAsked'
  BY DEF IInv, Write, HostAsked, systemctlHistory, fixed
<1>19. ChildWatched'
  BY DEF IInv, Write, Answer, ChildComes, ChildWatched, SentInOrder, Sent, Before, Early,
     Watching
<1>20. JobIsChilds'
  BY DEF IInv, Write, JobIsChilds, Early
<1>21. StopsFirst'
  BY DEF IInv, Write, StopsFirst
<1>22. UnsentIsUnsent'
  BY DEF IInv, Write, SentInOrder, UnsentIsUnsent, Sent, Before, Requests, JobVerbs,
     systemctlHistory
<1>23. ExpiryWasQueued'
  BY DEF IInv, Write, Answer, TypeOK, ExpiryWasQueued, Legs, systemctlHistory
<1>24. OkIsEarned'
  BY DEF IInv, Write, Answer, TypeOK, OkIsEarned, Requests, JobVerbs
<1> QED
  BY <1>10, <1>11, <1>12, <1>13, <1>14, <1>15, <1>16, <1>17, <1>18, <1>19, <1>20, <1>21,
     <1>22, <1>23, <1>24
  DEF IInv

\* A restart goes on to its start.
LEMMA AfterStopKeeps ==
    ASSUME IInv, AfterStop
    PROVE  IInv'
<1>1. IsBudget(left') /\ (watched(left') => watched(budget))
  <2>1. waits(budget)
    BY LegsAreWaitedFor DEF IInv, AfterStop
  <2> QED
    BY <2>1, LeftIsBudget DEF IInv, AfterStop, watched
<1>10. ChildComes' /\ HistoryTells'
  BY DEF IInv, AfterStop, ChildComes, HistoryTells, Reached, queueVars, systemctlHistory,
     fixed
<1>11. TypeOK'
  BY <1>1
  DEF IInv, AfterStop, Goto, TypeOK, QueueTypeOK, Requests, Reads, JobVerbs, Legs,
     Unsent, Answers, queueVars, systemctlHistory, fixed
<1>12. OnCourse'
  BY DEF IInv, AfterStop, Goto, OnCourse, First, fixed
<1>13. ScopesAreOpen'
  BY DEF IInv, AfterStop, Goto, Ok, ScopesAreOpen, Prepares, InScope, fixed
<1>14. GatePassed'
  BY DEF IInv, AfterStop, Ok, ScopesAreOpen, GatePassed, Prepares, systemctlHistory
<1>15. AsksCounted'
  BY DEF IInv, AfterStop, Goto, Ok, ScopesAreOpen, GatePassed, AsksCounted, Prepares,
     Earlier, systemctlHistory
<1>16. ThreadsSuffice'
  BY <1>1
  DEF IInv, AfterStop, Goto, TypeOK, ThreadsSuffice, Need, systemctlHistory, fixed
<1>17. SentInOrder'
  BY DEF IInv, AfterStop, Goto, TypeOK, SentInOrder, Sent, Before, systemctlHistory, fixed
<1>18. HostAsked'
  BY DEF IInv, AfterStop, Goto, HostAsked, Watching, systemctlHistory, fixed
<1>19. ChildWatched'
  BY DEF IInv, AfterStop, Goto, Ok, ChildWatched, Unsent, InDoubt, Watching
<1>20. JobIsChilds'
  BY DEF IInv, AfterStop, JobIsChilds, queueVars
<1>21. StopsFirst'
  BY LegsAreWaitedFor
  DEF IInv, AfterStop, Goto, TypeOK, Spent, StopsFirst, OkIsEarned, Ok, Requests, JobVerbs, Legs,
      systemctlHistory, fixed
<1>22. UnsentIsUnsent'
  BY DEF IInv, AfterStop, Goto, TypeOK, SentInOrder, UnsentIsUnsent, Sent, Before, Legs,
     systemctlHistory
<1>23. ExpiryWasQueued'
  BY DEF IInv, AfterStop, Goto, TypeOK, ExpiryWasQueued, Legs, systemctlHistory
<1>24. OkIsEarned'
  BY DEF IInv, AfterStop, Goto, Ok, TypeOK, OkIsEarned, Requests, JobVerbs, Legs
<1> QED
  BY <1>10, <1>11, <1>12, <1>13, <1>14, <1>15, <1>16, <1>17, <1>18, <1>19, <1>20, <1>21,
     <1>22, <1>23, <1>24
  DEF IInv

\* An install leaves its scope with the reload.
LEMMA AfterReloadKeeps ==
    ASSUME IInv, AfterReload
    PROVE  IInv'
<1>10. ChildComes' /\ HistoryTells' /\ UnsentIsUnsent' /\ ExpiryWasQueued'
  BY DEF IInv, AfterReload, Goto, ChildComes, HistoryTells, Reached, UnsentIsUnsent,
     ExpiryWasQueued, queueVars, systemctlHistory, fixed
<1>11. TypeOK'
  BY DEF IInv, AfterReload, Goto, drop_scope, TypeOK, OnCourse, ScopesAreOpen, QueueTypeOK,
     First, InScope, Requests, Legs, PossibleVerbs, queueVars, systemctlHistory, fixed
<1>12. OnCourse'
  BY DEF IInv, AfterReload, Goto, OnCourse, First, Installs, PossibleVerbs, fixed
<1>13. ScopesAreOpen'
  <2>1. leg = "reload" /\ leg' = "enable" /\ pc = "answer" /\ pc' = "own" /\ Installs
    BY DEF AfterReload, Goto, IInv, OnCourse, First, Installs, PossibleVerbs
  <2>2. gate.open = reserved + 1 /\ gate'.open = reserved /\ (gate'.passed => gate'.open > 0)
    <3>1. gate.open = reserved + 1 /\ reserved \in {0, 1}
      BY <2>1 DEF IInv, TypeOK, ScopesAreOpen, InScope
    <3>2. gate' = [open |-> gate.open - 1, passed |-> gate.passed /\ gate.open > 1]
      BY DEF AfterReload, drop_scope
    <3>3. gate'.open = gate.open - 1 /\ (gate'.passed => gate.open > 1)
      BY <3>2
    <3> QED
      BY <3>1, <3>3
  <2>3. UNCHANGED <<reserved, pool, verb, answers>> /\ reserved \in {0, 1}
    BY DEF AfterReload, Goto, fixed, IInv, TypeOK
  <2>4. Prepares => reserved = 1
    BY <2>1 DEF IInv, ScopesAreOpen, First, Installs, Prepares
  <2>5. ~Prepares => reserved = 0
    BY <2>1, <2>3 DEF IInv, ScopesAreOpen, Installs, Prepares
  <2> QED
    BY <2>1, <2>2, <2>3, <2>4, <2>5 DEF ScopesAreOpen, InScope, Installs, Prepares
<1>14. GatePassed'
  BY DEF IInv, AfterReload, Goto, drop_scope, TypeOK, ScopesAreOpen, GatePassed, First,
     Installs, Prepares, InScope, Past, systemctlHistory, fixed
<1>15. AsksCounted'
  BY DEF IInv, AfterReload, Goto, drop_scope, TypeOK, OnCourse, ScopesAreOpen, GatePassed,
     AsksCounted, First, Installs, Prepares, InScope, Past, Earlier, systemctlHistory, fixed
<1>16. ThreadsSuffice'
  BY DEF IInv, AfterReload, Goto, ThreadsSuffice, Need, systemctlHistory, fixed
<1>17. SentInOrder'
  BY DEF IInv, AfterReload, Goto, OnCourse, SentInOrder, First, Installs, Sent, Before,
     PossibleVerbs, systemctlHistory, fixed
<1>18. HostAsked'
  BY DEF IInv, AfterReload, Goto, HostAsked, Watching, systemctlHistory, fixed
<1>19. ChildWatched'
  BY DEF IInv, AfterReload, Goto, ChildWatched, Watching
<1>20. JobIsChilds'
  BY DEF IInv, AfterReload, JobIsChilds, JobVerbs, queueVars
<1>21. StopsFirst'
  BY DEF IInv, AfterReload, Goto, StopsFirst
<1>22. OkIsEarned'
  BY DEF IInv, AfterReload, Goto, OkIsEarned
<1> QED
  BY <1>10, <1>11, <1>12, <1>13, <1>14, <1>15, <1>16, <1>17, <1>18, <1>19, <1>20, <1>21,
     <1>22
  DEF IInv

\* An install that starts goes on to the start.
LEMMA AfterEnableKeeps ==
    ASSUME IInv, AfterEnable
    PROVE  IInv'
<1>10. ChildComes' /\ HistoryTells' /\ UnsentIsUnsent' /\ ExpiryWasQueued'
  BY DEF IInv, AfterEnable, Goto, ChildComes, HistoryTells, Reached, UnsentIsUnsent,
     ExpiryWasQueued, queueVars, systemctlHistory, fixed
<1>11. TypeOK'
  BY DEF IInv, AfterEnable, Goto, TypeOK, QueueTypeOK, Requests, JobVerbs, Legs, queueVars,
     systemctlHistory, fixed
<1>12. OnCourse'
  BY DEF IInv, AfterEnable, Goto, OnCourse, fixed
<1>13. ScopesAreOpen'
  BY DEF IInv, AfterEnable, Goto, ScopesAreOpen, First, Prepares, InScope, fixed
<1>14. GatePassed'
  BY DEF IInv, AfterEnable, GatePassed, Past, systemctlHistory
<1>15. AsksCounted'
  BY DEF IInv, AfterEnable, Goto, GatePassed, AsksCounted, Past, Earlier, systemctlHistory
<1>16. ThreadsSuffice'
  BY DEF IInv, AfterEnable, Goto, ThreadsSuffice, Need, Early, systemctlHistory, fixed
<1>17. SentInOrder'
  BY DEF IInv, AfterEnable, Goto, SentInOrder, Installs, Sent, Before, systemctlHistory,
     fixed
<1>18. HostAsked'
  BY DEF IInv, AfterEnable, Goto, HostAsked, Watching, systemctlHistory, fixed
<1>19. ChildWatched'
  BY DEF IInv, AfterEnable, Goto, ChildWatched, Watching
<1>20. JobIsChilds'
  BY DEF IInv, AfterEnable, JobIsChilds, JobVerbs, queueVars
<1>21. StopsFirst'
  BY DEF IInv, AfterEnable, Goto, StopsFirst, fixed
<1>22. OkIsEarned'
  BY DEF IInv, AfterEnable, Goto, OkIsEarned
<1> QED
  BY <1>10, <1>11, <1>12, <1>13, <1>14, <1>15, <1>16, <1>17, <1>18, <1>19, <1>20, <1>21,
     <1>22
  DEF IInv

\* A turn ends, and with it its scopes; the next one knows nothing of it.
LEMMA SettleKeeps ==
    ASSUME IInv, Settle
    PROVE  IInv'
<1>10. TypeOK'
  <2>1. gate' \in [open : 0..2, passed : BOOLEAN]
    BY DEF Settle, DropAll, drop_scope, IInv, TypeOK
  <2>2. exit' \in {0, 1, 4} /\ pool' \in Nat /\ reserved' \in 0..1
    BY DEF Settle, worse, IInv, TypeOK
  <2>3. CASE turn < Ids /\ turn' = turn + 1 /\ Turn
    <3>1. turn' \in 1..Ids
      BY <2>3, CommandsAssumption DEF IInv, TypeOK
    <3>2. child' \in ChildRecords
      BY <2>3, NoChildFields DEF Turn
    <3>3. leg' \in Legs
      BY <2>3
      DEF Turn, First, Installs, Legs, Requests, Reads, JobVerbs, IInv, OnCourse,
          PossibleVerbs
    <3>4. answers' \in [Legs -> Answers]
      BY <2>3 DEF Turn, NoAnswers, Answers
    <3>5. now' = 0 /\ now' \in 0..MaxInstant /\ until' = {} /\ left' = Unbounded
      BY <2>3, BudgetAssumption DEF Turn
    <3>6. /\ pc' \in {"prepare", "own"} /\ arrived' = {} /\ since' = {} /\ heard' = FALSE
          /\ ours' = "none"
      BY <2>3 DEF Turn
    <3> QED
      BY <2>1, <2>2, <3>1, <3>2, <3>3, <3>4, <3>5, <3>6
      DEF Settle, IInv, TypeOK, QueueTypeOK, ChildRecords, IsBudget, fixed
  <2>4. CASE ~(turn < Ids) /\ pc' = "ended"
    BY <2>1, <2>2, <2>4 DEF Settle, IInv, TypeOK, QueueTypeOK, fixed
  <2> QED
    BY <2>3, <2>4 DEF Settle
<1>11. OnCourse'
  BY DEF IInv, Settle, Turn, First, Installs, Prepares, OnCourse, Watching, fixed
<1>12. ScopesAreOpen'
  <2>1. gate'.open = 0 /\ ~gate'.passed
    BY DropsAll DEF Settle, IInv
  <2>2. pool' = 0 /\ reserved' = 0 /\ UNCHANGED verb
    BY DEF Settle, fixed
  <2>3. CASE Turn
    <3>1. pc' = IF Prepares THEN "prepare" ELSE "own"
      BY <2>3 DEF Turn
    <3>2. leg' = First /\ First # "reload"
      BY <2>3 DEF Turn, First, Installs, PossibleVerbs, IInv, OnCourse
    <3> QED
      BY <2>1, <2>2, <3>1, <3>2 DEF ScopesAreOpen, InScope, Installs, Prepares
  <2>4. CASE pc' = "ended"
    BY <2>1, <2>2, <2>4 DEF ScopesAreOpen
  <2> QED
    BY <2>3, <2>4 DEF Settle
<1>13. GatePassed'
  <2>1. gate'.open = 0 /\ ~gate'.passed
    BY DropsAll DEF Settle, IInv
  <2>2. CASE Turn
    <3>1. pc' \in {"prepare", "own"} /\ leg' = First /\ UNCHANGED verb
      BY <2>2 DEF Turn, Settle, fixed
    <3>2. ~Past'
      BY <3>1 DEF Past, First, Installs, PossibleVerbs, IInv, OnCourse
    <3> QED
      BY <2>1, <3>1, <3>2 DEF GatePassed, Watching
  <2>3. CASE pc' = "ended"
    BY <2>1, <2>3 DEF GatePassed, Watching
  <2> QED
    BY <2>2, <2>3 DEF Settle
<1>14. AsksCounted'
  BY DEF IInv, Settle, Turn, AsksCounted, Earlier, fixed
<1>15. ThreadsSuffice'
  <2>1. reserved' = 0 /\ UNCHANGED <<loose, budget>>
    BY DEF Settle, fixed
  <2>2. left' = Unbounded \/ UNCHANGED <<leg, left>>
    BY DEF Settle, Turn
  <2> QED
    BY <2>1, <2>2 DEF IInv, ThreadsSuffice, watched
<1>16. SentInOrder'
  <2>1. CASE Turn
    BY <2>1, NoChildFields DEF Turn, NoAnswers, SentInOrder
  <2>2. CASE /\ pc' = "ended"
             /\ UNCHANGED <<leg, answers, arrived, child, verb>>
    BY <2>2 DEF Settle, IInv, SentInOrder, Sent, Before, Installs, Early
  <2> QED
    BY <2>1, <2>2 DEF Settle, fixed
<1>17. HostAsked'
  BY NoChildFields DEF IInv, Settle, Turn, HostAsked, Watching, fixed
<1>18. ChildComes'
  BY NoChildFields DEF IInv, Settle, Turn, ChildComes, fixed
<1>19. ChildWatched'
  BY DEF IInv, Settle, Turn, ChildWatched, Watching
<1>20. JobIsChilds'
  BY NoChildFields DEF IInv, Settle, Turn, JobIsChilds, JobVerbs, Early
<1>21. HistoryTells'
  BY NoChildFields DEF IInv, Settle, Turn, HistoryTells, Reached, fixed
<1>22. StopsFirst'
  BY DEF IInv, Settle, Turn, Ok, First, StopsFirst, fixed
<1>23. UnsentIsUnsent'
  BY DEF IInv, Settle, Turn, NoAnswers, UnsentIsUnsent, Legs, Unsent
<1>24. ExpiryWasQueued'
  BY DEF IInv, Settle, Turn, NoAnswers, ExpiryWasQueued, Legs
<1>25. OkIsEarned'
  BY DEF IInv, Settle, Turn, OkIsEarned
<1> QED
  BY <1>10, <1>11, <1>12, <1>13, <1>14, <1>15, <1>16, <1>17, <1>18, <1>19, <1>20, <1>21,
     <1>22, <1>23, <1>24, <1>25
  DEF IInv

\* The child asks systemd.
LEMMA ChildAsksKeeps ==
    ASSUME IInv, ChildAsks, UNCHANGED <<verb, budget, deadline, turn, exit>>
    PROVE  IInv'
<1>1. /\ child.phase = "asking" /\ child' \in ChildRecords
      /\ child'.verb = child.verb /\ child'.waits = child.waits
      /\ child'.announced = child.announced
      /\ (Answered(host) /\ Notes /\ (Queues \/ Kills \/ Tells)) \/ Unheard
  BY AskingDoes DEF IInv
<1>2. UNCHANGED <<host, now, pc, leg, left, until, gate, pool, reserved, heard, answers,
                  vetted, asks, loose>>
  BY DEF ChildAsks
<1>10. OnCourse' /\ ScopesAreOpen' /\ GatePassed' /\ AsksCounted' /\ ThreadsSuffice'
  BY <1>2
  DEF IInv, OnCourse, First, Installs, Prepares, ScopesAreOpen, InScope, GatePassed, Past,
      Ok, AsksCounted, Earlier, ThreadsSuffice, Need
<1>11. TypeOK'
  <2>1. QueueTypeOK'
    <3>1. QueueTypeOK
      BY DEF IInv, TypeOK
    <3>2. CASE Unheard \/ Tells
      BY <3>1, <3>2 DEF Unheard, Tells, QueueTypeOK, queueVars
    <3>3. CASE Kills
      BY <3>1, <3>3, <1>1 DEF Kills, QueueTypeOK
    <3>4. CASE Queues
      BY <3>1, <3>4 DEF Queues, EnqueueOurs, Enqueue, Joined, QueueTypeOK, JobVerbs
    <3> QED
      BY <1>1, <3>2, <3>3, <3>4
  <2>2. arrived' \subseteq Requests \cup Reads
    BY <1>1 DEF Unheard, Notes, IInv, TypeOK, ChildComes
  <2>3. since' \subseteq {"down", "up", "fresh"}
    <3>1. CASE Unheard
      BY <3>1 DEF Unheard, IInv, TypeOK
    <3>2. CASE Notes
      <4>1. since' = since \/ since' = {IF a THEN "up" ELSE "down" : a \in {active, active'}}
        BY <3>2 DEF Notes
      <4>2. since \subseteq {"down", "up", "fresh"}
        BY DEF IInv, TypeOK
      <4>3. {IF a THEN "up" ELSE "down" : a \in {active, active'}} \subseteq {"down", "up", "fresh"}
        OBVIOUS
      <4> QED
        BY <4>1, <4>2, <4>3
    <3> QED
      BY <1>1, <3>1, <3>2
  <2> QED
    BY <1>1, <1>2, <2>1, <2>2, <2>3 DEF IInv, TypeOK, ChildRecords
<1>12. SentInOrder'
  <2>1. arrived' \subseteq arrived \cup {child.verb} /\ child.verb # "none"
    BY <1>1 DEF Unheard, Notes, IInv, ChildComes
  <2> QED
    BY <1>1, <1>2, <2>1 DEF IInv, SentInOrder, Sent, Before, Installs
<1>13. HostAsked'
  BY <1>1, <1>2 DEF IInv, Notes, Unheard, HostAsked
<1>14. ChildComes'
  BY <1>1, <1>2 DEF IInv, Notes, Queues, Kills, Tells, Unheard, ChildComes
<1>15. ChildWatched'
  BY <1>1, <1>2 DEF IInv, ChildWatched, Bounds
<1>16. JobIsChilds'
  BY <1>1, <1>2
  DEF IInv, Queues, Kills, Tells, Unheard, EnqueueOurs, Enqueue, Joined, JobIsChilds, Ok,
      code, JobVerbs, queueVars
<1>17. HistoryTells'
  BY <1>1, <1>2
  DEF IInv, Notes, Queues, Kills, Tells, Unheard, EnqueueOurs, Enqueue, SentInOrder,
      ChildComes, JobIsChilds, HistoryTells, Sent, Before, JobVerbs, queueVars
<1>18. StopsFirst'
  BY <1>1, <1>2 DEF IInv, Notes, Unheard, StopsFirst, Ok, JobVerbs
<1>19. UnsentIsUnsent'
  BY <1>1, <1>2 DEF IInv, Notes, Unheard, UnsentIsUnsent
<1>20. ExpiryWasQueued'
  BY <1>1, <1>2 DEF IInv, Notes, Unheard, ExpiryWasQueued
<1>21. OkIsEarned'
  BY <1>1, <1>2 DEF IInv, ChildWatched, OkIsEarned, Ok, Unsent, InDoubt
<1> QED
  BY <1>10, <1>11, <1>12, <1>13, <1>14, <1>15, <1>16, <1>17, <1>18, <1>19, <1>20, <1>21
  DEF IInv

\* The child announces what it queued.
LEMMA ChildAnnouncesKeeps ==
    ASSUME IInv, ChildAnnounces, UNCHANGED <<verb, budget, deadline, turn, exit>>
    PROVE  IInv'
<1>1. /\ child.phase = "queued" /\ child' \in ChildRecords
      /\ child'.verb = child.verb /\ child'.waits = child.waits /\ child'.announced
      /\ child'.phase = IF child.waits THEN "waiting" ELSE "exited"
      /\ child'.phase = "exited" => child'.code = "ok"
  BY AnnouncingDoes DEF IInv
<1>2. UNCHANGED <<queueVars, host, now, pc, leg, left, until, gate, pool, reserved, heard,
                  answers, systemctlHistory>>
  BY DEF ChildAnnounces
<1>10. OnCourse' /\ ScopesAreOpen' /\ GatePassed' /\ AsksCounted' /\ ThreadsSuffice' /\
       StopsFirst' /\ ExpiryWasQueued' /\ OkIsEarned'
  BY <1>2
  DEF IInv, OnCourse, First, Installs, Prepares, ScopesAreOpen, InScope, GatePassed, Past,
      Ok, AsksCounted, Earlier, ThreadsSuffice, Need, StopsFirst, ExpiryWasQueued,
      OkIsEarned, systemctlHistory
<1>11. TypeOK'
  BY <1>1, <1>2 DEF IInv, TypeOK, QueueTypeOK, ChildRecords, queueVars, systemctlHistory
<1>12. SentInOrder'
  BY <1>1, <1>2 DEF IInv, SentInOrder, Installs, Sent, Before, systemctlHistory
<1>13. HostAsked'
  BY <1>1, <1>2 DEF IInv, HostAsked, systemctlHistory
<1>14. ChildComes'
  BY <1>1, <1>2 DEF IInv, ChildComes, systemctlHistory
<1>15. ChildWatched'
  BY <1>1, <1>2 DEF IInv, ChildWatched, Bounds
<1>16. JobIsChilds'
  BY <1>1, <1>2 DEF IInv, JobIsChilds, Ok, code, queueVars
<1>17. HistoryTells'
  BY <1>1, <1>2
  DEF IInv, ChildComes, HistoryTells, Reached, JobVerbs, queueVars, systemctlHistory
<1>18. UnsentIsUnsent'
  BY <1>1, <1>2 DEF IInv, UnsentIsUnsent, systemctlHistory
<1> QED
  BY <1>10, <1>11, <1>12, <1>13, <1>14, <1>15, <1>16, <1>17, <1>18 DEF IInv

\* The child ends with its job.
LEMMA ChildHasResultKeeps ==
    ASSUME IInv, ChildHasResult, UNCHANGED <<verb, budget, deadline, turn, exit>>
    PROVE  IInv'
<1>1. /\ child.phase = "waiting" /\ ours # "pending"
      /\ UNCHANGED <<queueVars, host, now, pc, leg, left, until, gate, pool, reserved, heard,
                     answers, systemctlHistory>>
      /\ ChildExits(IF ours = "done" THEN "ok" ELSE "fail")
  BY DEF ChildHasResult
<1>2. child \in ChildRecords
  BY DEF IInv, TypeOK, ChildRecords
<1>3. /\ child' \in ChildRecords
      /\ child'.phase = "exited" /\ child'.code = IF ours = "done" THEN "ok" ELSE "fail"
      /\ child'.verb = child.verb /\ child'.waits = child.waits
      /\ child'.announced = child.announced
  BY <1>1, <1>2, ExitFields DEF Codes
<1>10. OnCourse' /\ ScopesAreOpen' /\ GatePassed' /\ AsksCounted' /\ ThreadsSuffice' /\
       StopsFirst' /\ ExpiryWasQueued' /\ OkIsEarned'
  BY <1>1
  DEF IInv, OnCourse, First, Installs, Prepares, ScopesAreOpen, InScope, GatePassed, Past,
      Ok, AsksCounted, Earlier, ThreadsSuffice, Need, StopsFirst, ExpiryWasQueued,
      OkIsEarned, systemctlHistory
<1>11. TypeOK'
  BY <1>1, <1>3 DEF IInv, TypeOK, QueueTypeOK, ChildRecords, queueVars, systemctlHistory
<1>12. SentInOrder'
  BY <1>1, <1>3 DEF IInv, SentInOrder, Installs, Sent, Before, systemctlHistory
<1>13. HostAsked'
  BY <1>1, <1>3 DEF IInv, HostAsked, systemctlHistory
<1>14. ChildComes'
  BY <1>1, <1>3 DEF IInv, ChildComes, systemctlHistory
<1>15. ChildWatched'
  BY <1>1, <1>3 DEF IInv, ChildWatched, Bounds
<1>16. JobIsChilds'
  BY <1>1, <1>3 DEF IInv, JobIsChilds, Ok, code, queueVars
<1>17. HistoryTells'
  BY <1>1, <1>3
  DEF IInv, ChildComes, HistoryTells, Reached, JobVerbs, queueVars, systemctlHistory
<1>18. UnsentIsUnsent'
  BY <1>1, <1>3 DEF IInv, UnsentIsUnsent, systemctlHistory
<1> QED
  BY <1>10, <1>11, <1>12, <1>13, <1>14, <1>15, <1>16, <1>17, <1>18 DEF IInv

\* The clock.
LEMMA TickKeeps ==
    ASSUME IInv, Tick
    PROVE  IInv'
<1>10. OnCourse' /\ ScopesAreOpen' /\ GatePassed' /\ AsksCounted' /\ ThreadsSuffice' /\
       SentInOrder' /\ HostAsked' /\ ChildComes' /\ ChildWatched' /\ JobIsChilds' /\
       HistoryTells' /\ StopsFirst' /\ UnsentIsUnsent' /\ ExpiryWasQueued' /\ OkIsEarned'
  BY DEF IInv, Tick, OnCourse, First, Installs, Prepares, ScopesAreOpen, InScope,
     GatePassed, Past, Ok, AsksCounted, Earlier, ThreadsSuffice, Need, SentInOrder, Sent,
     Before, HostAsked, ChildComes, ChildWatched, Bounds, JobIsChilds, code, HistoryTells,
     Reached, StopsFirst, UnsentIsUnsent, ExpiryWasQueued, OkIsEarned, queueVars,
     clientVars, systemctlHistory
<1>11. TypeOK'
  BY SystemctlAssumption, BudgetAssumption
  DEF IInv, Tick, TypeOK, QueueTypeOK, queueVars, clientVars, systemctlHistory
<1> QED
  BY <1>10, <1>11 DEF IInv

\* systemd runs the job, or the unit ends.
LEMMA RunStepKeeps ==
    ASSUME IInv, RunJob /\ Watches /\ UNCHANGED <<host, now, clientVars, arrived, vetted, asks,
                                                  loose, verb, budget, deadline, turn, exit>>
    PROVE  IInv'
<1>10. OnCourse' /\ ScopesAreOpen' /\ GatePassed' /\ AsksCounted' /\ ThreadsSuffice' /\
       SentInOrder' /\ HostAsked' /\ ChildComes' /\ ChildWatched' /\ UnsentIsUnsent' /\
       ExpiryWasQueued'
  BY DEF IInv, OnCourse, First, Installs, Prepares, ScopesAreOpen, InScope, GatePassed,
     Past, Ok, AsksCounted, Earlier, ThreadsSuffice, Need, SentInOrder, Sent, Before,
     HostAsked, ChildComes, ChildWatched, Bounds, UnsentIsUnsent, ExpiryWasQueued,
     clientVars
<1>11. TypeOK'
  <2>1. QueueTypeOK'
    BY DEF RunJob, Ends, IInv, TypeOK, QueueTypeOK, JobVerbs
  <2>2. since' \subseteq {"down", "up", "fresh"}
    BY DEF Watches, IInv, TypeOK
  <2> QED
    BY <2>1, <2>2 DEF IInv, TypeOK, clientVars
<1>12. JobIsChilds'
  BY DEF IInv, RunJob, Ends, JobIsChilds, Ok, code, clientVars
<1>13. HistoryTells'
  BY DEF IInv, RunJob, Ends, Watches, SentInOrder, ChildComes, JobIsChilds, HistoryTells,
     StopsFirst, Sent, Before, Reached, clientVars
<1>14. StopsFirst'
  BY DEF IInv, Watches, StopsFirst, Ok, clientVars
<1>15. OkIsEarned'
  BY DEF IInv, Watches, OkIsEarned, Ok, clientVars
<1> QED
  BY <1>10, <1>11, <1>12, <1>13, <1>14, <1>15 DEF IInv

\* What other clients of systemd do.
LEMMA MeddleStepKeeps ==
    ASSUME IInv, Meddle /\ Watches /\ UNCHANGED <<host, now, clientVars, arrived, vetted, asks,
                                                  loose, verb, budget, deadline, turn, exit>>
    PROVE  IInv'
<1>10. OnCourse' /\ ScopesAreOpen' /\ GatePassed' /\ AsksCounted' /\ ThreadsSuffice' /\
       SentInOrder' /\ HostAsked' /\ ChildComes' /\ ChildWatched' /\ UnsentIsUnsent' /\
       ExpiryWasQueued'
  BY DEF IInv, OnCourse, First, Installs, Prepares, ScopesAreOpen, InScope, GatePassed,
     Past, Ok, AsksCounted, Earlier, ThreadsSuffice, Need, SentInOrder, Sent, Before,
     HostAsked, ChildComes, ChildWatched, Bounds, UnsentIsUnsent, ExpiryWasQueued,
     clientVars
<1>11. TypeOK'
  <2>1. QueueTypeOK'
    <3>1. meddled' \in 0..MaxMeddling
      BY JobQueueAssumption DEF Meddle, IInv, TypeOK, QueueTypeOK
    <3>2. active' \in BOOLEAN /\ loaded' \in BOOLEAN /\ supported' \in BOOLEAN
      BY DEF Meddle, Enqueue, IInv, TypeOK, QueueTypeOK
    <3>3. job' \in JobVerbs \cup {"none"} /\ ours' \in {"none", "pending", "done", "failed", "canceled"}
      BY DEF Meddle, Enqueue, Joined, IInv, TypeOK, QueueTypeOK, JobVerbs
    <3> QED
      BY <3>1, <3>2, <3>3 DEF QueueTypeOK
  <2>2. since' \subseteq {"down", "up", "fresh"}
    BY DEF Watches, IInv, TypeOK
  <2> QED
    BY <2>1, <2>2 DEF IInv, TypeOK, clientVars
<1>12. JobIsChilds'
  BY DEF IInv, Meddle, Enqueue, Joined, Replaces, JobIsChilds, Ok, code, clientVars
<1>13. HistoryTells'
  BY DEF IInv, Meddle, Watches, HistoryTells, Reached, clientVars
<1>14. StopsFirst'
  BY DEF IInv, Watches, StopsFirst, Ok, clientVars
<1>15. OkIsEarned'
  BY DEF IInv, Watches, OkIsEarned, Ok, clientVars
<1> QED
  BY <1>10, <1>11, <1>12, <1>13, <1>14, <1>15 DEF IInv

\* A wait ends with the verdict on what the child did.
LEMMA WaitedKeeps ==
    ASSUME IInv, WaitOut \/ Reap \/ Output, UNCHANGED <<verb, budget, deadline, turn, exit>>
    PROVE  IInv'
<1>1. WaitEnds
  BY WaitsDo
<1>2. /\ Verdict \in Answers \ {"timed_out"}
      /\ Verdict \in Unsent => Ignored(host)
      /\ Verdict = "ok" => /\ ~Ignored(host)
                           /\ \/ child.code = "ok" /\ (leg \in JobVerbs => captured)
                              \/ child.code = "not_loaded" /\ leg = "stop"
      /\ Verdict = "not_enqueued" => child.code = "ok" /\ ~captured
      /\ Verdict = "not_running" => child.code = "no_process"
      /\ Verdict \in States => child.code = Verdict
  BY VerdictSays
<1>3. child' \in {child, NoChild}
  BY <1>1 DEF WaitEnds
<1>10. TypeOK'
  <2>1. child' \in ChildRecords
    BY <1>3, NoChildFields DEF IInv, TypeOK, ChildRecords
  <2>2. pc' \in {"reap", "answer"} /\ answers' \in [Legs -> Answers]
    BY <1>1, <1>2 DEF WaitEnds, Answer, IInv, TypeOK, Answers, InDoubt, Unsent
  <2> QED
    BY <1>1, <2>1, <2>2
    DEF WaitEnds, IInv, TypeOK, QueueTypeOK, ChildRecords, queueVars, systemctlHistory
<1>11. OnCourse'
  BY <1>1 DEF IInv, WaitEnds, Answer, OnCourse, First, Installs, Watching
<1>12. ScopesAreOpen'
  BY <1>1
  DEF IInv, WaitEnds, Answer, OnCourse, ScopesAreOpen, Installs, Prepares, InScope, Watching
<1>13. GatePassed'
  BY <1>1 DEF IInv, WaitEnds, GatePassed, Past, Watching, systemctlHistory
<1>14. AsksCounted'
  BY <1>1 DEF IInv, WaitEnds, Answer, AsksCounted, Earlier, systemctlHistory
<1>15. ThreadsSuffice'
  BY <1>1 DEF IInv, WaitEnds, Answer, ThreadsSuffice, Need, Early, systemctlHistory
<1>16. SentInOrder'
  BY <1>1, NoChildFields
  DEF IInv, WaitEnds, Answer, TypeOK, SentInOrder, Installs, Sent, Before, Early,
      systemctlHistory
<1>17. HostAsked'
  BY <1>1, NoChildFields DEF IInv, WaitEnds, HostAsked, Watching, systemctlHistory
<1>18. ChildComes'
  BY <1>1, NoChildFields DEF IInv, WaitEnds, ChildComes, systemctlHistory
<1>19. ChildWatched'
  BY <1>1, NoChildFields
  DEF IInv, WaitEnds, Answer, Bounds, TypeOK, ChildWatched, Unsent, InDoubt, Watching
<1>20. JobIsChilds'
  <2>1. ours' = ours /\ UNCHANGED <<leg, verb, active, loaded, job>>
    BY <1>1 DEF WaitEnds, queueVars
  <2>2. pc' \notin Early
    BY <1>1 DEF WaitEnds, Answer, Early
  <2>3. child' = child \/ (child'.phase = "none" /\ child'.verb \notin JobVerbs)
    BY <1>3, NoChildFields DEF JobVerbs
  <2>4. ASSUME pc' = "answer", leg \in JobVerbs,
               code(answers[leg])' = 1 \/ (verb = "restart" /\ leg = "stop" /\ answers'[leg] = "ok")
        PROVE  ours # "pending" /\ child'.verb \notin JobVerbs
    <3>1. /\ answers'[leg] \notin InDoubt \cup {"none"}
          /\ answers'[leg] = "ok" => verb = "restart" /\ leg = "stop"
      BY <2>1, <2>4 DEF code, InDoubt
    <3>2. child.phase = "exited" /\ answers'[leg] = Verdict /\ child' = NoChild
      BY <1>1, <2>4, <3>1
      DEF WaitEnds, Answer, IInv, TypeOK, Legs, Requests, Reads, JobVerbs, InDoubt
    <3>3. child.verb = leg /\ child.waits = waits(left)
      BY <1>1 DEF WaitEnds, IInv, ChildWatched, Watching
    <3>4. child.code = "ok" => child.waits \/ ~child.announced
      <4>1. CASE verb = "restart" /\ leg = "stop"
        BY <1>1, <3>3, <4>1, LegsAreWaitedFor DEF WaitEnds, IInv, StopsFirst, Watching
      <4>2. CASE child.waits
        BY <4>2
      <4>3. CASE ~child.waits /\ answers'[leg] = "not_enqueued"
        BY <1>2, <3>2, <3>3, <4>3 DEF captured, Bounds, watched
      <4>4. CASE Ignored(host)
        BY <4>4, <2>4, <3>3 DEF IInv, HostAsked, ChildComes, Answered
      <4> QED
        BY <4>1, <4>2, <4>3, <4>4, <3>1, <3>2 DEF Verdict, Judged
    <3> QED
      BY <3>2, <3>3, <3>4, NoChildFields DEF IInv, JobIsChilds, JobVerbs
  <2> QED
    BY <2>1, <2>2, <2>3, <2>4 DEF IInv, JobIsChilds, Ok
<1>21. HistoryTells'
  BY <1>1, NoChildFields
  DEF IInv, WaitEnds, HistoryTells, Reached, queueVars, systemctlHistory
<1>22. StopsFirst'
  BY <1>1 DEF IInv, WaitEnds, StopsFirst, systemctlHistory
<1>23. UnsentIsUnsent'
  <2>1. SUFFICES ASSUME NEW l \in Requests, answers'[l] \in Unsent
                 PROVE  l \notin arrived' /\ ~(child'.verb = l /\ child'.phase = "asking")
    BY DEF UnsentIsUnsent
  <2>2. UNCHANGED arrived
    BY <1>1 DEF WaitEnds, systemctlHistory
  <2>3. CASE answers'[l] = answers[l]
    BY <1>3, <2>1, <2>2, <2>3, NoChildFields DEF IInv, UnsentIsUnsent
  <2>4. CASE answers'[l] # answers[l]
    <3>1. l = leg
      BY <1>1, <2>4 DEF WaitEnds, Answer, IInv, TypeOK, Legs
    <3>2. child' = NoChild /\ answers'[l] = Verdict
      BY <1>1, <2>1, <2>4, <3>1
      DEF WaitEnds, Answer, IInv, TypeOK, Legs, Requests, Reads, JobVerbs, Unsent
    <3>3. arrived = {}
      BY <1>2, <2>1, <3>2 DEF IInv, HostAsked, Answered
    <3> QED
      BY <2>2, <3>2, <3>3, NoChildFields
  <2> QED
    BY <2>3, <2>4
<1>24. ExpiryWasQueued'
  BY <1>1, <1>2
  DEF IInv, WaitEnds, Answer, TypeOK, ChildComes, ChildWatched, ExpiryWasQueued, Legs,
      Watching, systemctlHistory
<1>25. OkIsEarned'
  BY <1>1, <1>2
  DEF IInv, WaitEnds, Answer, captured, TypeOK, ChildComes, ChildWatched, HistoryTells,
      OkIsEarned, StopsFirst, Reached, Ok, JobVerbs, Unsent, InDoubt, Answers, Watching,
      systemctlHistory
<1> QED
  BY <1>10, <1>11, <1>12, <1>13, <1>14, <1>15, <1>16, <1>17, <1>18, <1>19, <1>20, <1>21,
     <1>22, <1>23, <1>24, <1>25
  DEF IInv

-----------------------------------------------------------------------------
(* The properties.                                                           *)

LEMMA InitHolds ==
    ASSUME Init
    PROVE  IInv
<1>1. /\ child \in ChildRecords /\ child.phase = "none" /\ child.verb = "none"
      /\ ~child.announced
  BY NoChildFields DEF Init
<1>2. leg \in Legs /\ verb \in PossibleVerbs /\ IsBudget(budget)
  BY CommandsAssumption
  DEF Init, First, Installs, Legs, Requests, Reads, JobVerbs, PossibleVerbs
<1>3. answers \in [Legs -> Answers] /\ \A l \in Legs : answers[l] = "none"
  BY DEF Init, NoAnswers, Answers
<1>4. pc \in {"prepare", "own"}
  BY DEF Init
<1>5. TypeOK
  <2>1. QueueTypeOK
    BY JobQueueAssumption DEF Init, QueueInit, QueueTypeOK
  <2>2. /\ host \in Hosts /\ now = 0 /\ pool = 0 /\ reserved = 0 /\ heard = FALSE
        /\ exit = 0 /\ turn = 1 /\ until = {} /\ arrived = {} /\ since = {}
    BY DEF Init
  <2>3. gate \in [open : 0..2, passed : BOOLEAN]
    BY DEF Init
  <2>4. IsBudget(left)
    BY DEF Init, IsBudget
  <2>5. now \in 0..MaxInstant /\ turn \in 1..Ids
    BY <2>2, BudgetAssumption, CommandsAssumption
  <2>6. arrived \subseteq Requests \cup Reads /\ since \subseteq {"down", "up", "fresh"} /\ heard \in BOOLEAN
    BY <2>2
  <2>7. pool \in Nat /\ reserved \in 0..1 /\ exit \in {0, 1, 4} /\ \A t \in until : t \in 0..MaxInstant
    BY <2>2
  <2> QED
    BY <1>1, <1>2, <1>3, <1>4, <2>1, <2>2, <2>3, <2>4, <2>5, <2>6, <2>7
    DEF TypeOK, ChildRecords
<1>6. OnCourse
  BY <1>2, <1>4 DEF Init, OnCourse, First, Watching
<1>7. ScopesAreOpen /\ ThreadsSuffice
  BY <1>4
  DEF Init, ScopesAreOpen, InScope, First, Installs, PossibleVerbs, Prepares,
      ThreadsSuffice, watched
<1>8. GatePassed /\ AsksCounted
  BY <1>2, <1>4
  DEF Init, GatePassed, Past, First, Installs, PossibleVerbs, AsksCounted, Earlier, Watching
<1>9. SentInOrder /\ HostAsked /\ ChildComes /\ ChildWatched
  BY <1>1, <1>3, <1>4 DEF Init, SentInOrder, HostAsked, ChildComes, ChildWatched, Watching
<1>10. JobIsChilds /\ HistoryTells /\ StopsFirst
  BY <1>1, <1>2, <1>4
  DEF Init, QueueInit, JobIsChilds, HistoryTells, StopsFirst, First, Installs, JobVerbs
<1>11. UnsentIsUnsent /\ ExpiryWasQueued /\ OkIsEarned
  BY <1>3, <1>4 DEF Init, UnsentIsUnsent, ExpiryWasQueued, OkIsEarned, Legs, Unsent
<1> QED
  BY <1>5, <1>6, <1>7, <1>8, <1>9, <1>10, <1>11 DEF IInv

LEMMA StutterKeeps ==
    ASSUME IInv, UNCHANGED vars
    PROVE  IInv'
<1>1. /\ UNCHANGED <<active, loaded, supported, job, ours, meddled, host, now, verb, budget,
                     deadline, turn, exit>>
      /\ UNCHANGED <<pc, leg, left, until, child, gate, pool, reserved, heard, answers>>
      /\ UNCHANGED <<arrived, vetted, asks, loose, since>>
  BY DEF vars, queueVars, clientVars, systemctlHistory
<1>2. TypeOK' /\ OnCourse' /\ ScopesAreOpen' /\ GatePassed' /\ AsksCounted' /\ ThreadsSuffice'
  BY <1>1
  DEF IInv, TypeOK, QueueTypeOK, OnCourse, First, Installs, Prepares, ScopesAreOpen,
      InScope,
              GatePassed, Past, Ok, AsksCounted, Earlier, ThreadsSuffice, Need
<1>3. SentInOrder' /\ HostAsked' /\ ChildComes' /\ ChildWatched'
  BY <1>1
  DEF IInv, SentInOrder, Sent, Before, Installs, HostAsked, ChildComes, ChildWatched, Bounds
<1>4. JobIsChilds' /\ HistoryTells' /\ StopsFirst' /\ UnsentIsUnsent' /\ ExpiryWasQueued' /\ OkIsEarned'
  BY <1>1
  DEF IInv, JobIsChilds, code, Ok, HistoryTells, Reached, StopsFirst, UnsentIsUnsent,
      ExpiryWasQueued, OkIsEarned
<1> QED
  BY <1>2, <1>3, <1>4 DEF IInv

LEMMA IInvHolds == Spec => []IInv
<1>1. Init => IInv
  BY InitHolds
<1>2. IInv /\ [Next]_vars => IInv'
  <2> SUFFICES ASSUME IInv, [Next]_vars
               PROVE  IInv'
    OBVIOUS
  <2> DEFINE Same == UNCHANGED <<verb, budget, deadline, turn, exit>>
  <2>1. CASE Step
    <3>1. CASE Door /\ Same
      BY <3>1, DoorKeeps
    <3>2. CASE AskGate /\ Same
      BY <3>2, AskGateKeeps
    <3>3. CASE Spawn /\ Same
      BY <3>3, SpawnKeeps
    <3>4. CASE Hear /\ Same
      BY <3>4, HearKeeps
    <3>5. CASE (WaitOut \/ Reap \/ Output) /\ Same
      BY <3>5, WaitedKeeps
    <3>6. CASE Prepare
      BY <3>6, PrepareKeeps
    <3>7. CASE Own
      BY <3>7, OwnKeeps
    <3>8. CASE Write
      BY <3>8, WriteKeeps
    <3>9. CASE AfterStop
      BY <3>9, AfterStopKeeps
    <3>10. CASE AfterReload
      BY <3>10, AfterReloadKeeps
    <3>11. CASE AfterEnable
      BY <3>11, AfterEnableKeeps
    <3>12. CASE Settle
      BY <3>12, SettleKeeps
    <3> QED
      BY <2>1, <3>1, <3>2, <3>3, <3>4, <3>5, <3>6, <3>7, <3>8, <3>9, <3>10, <3>11, <3>12
      DEF Step
  <2>2. CASE Child_
    <3>1. CASE ChildAsks /\ Same
      BY <3>1, ChildAsksKeeps
    <3>2. CASE ChildAnnounces /\ Same
      BY <3>2, ChildAnnouncesKeeps
    <3>3. CASE ChildHasResult /\ Same
      BY <3>3, ChildHasResultKeeps
    <3> QED
      BY <2>2, <3>1, <3>2, <3>3 DEF Child_
  <2>3. CASE Tick
    BY <2>3, TickKeeps
  <2>4. CASE World
    <3>1. CASE RunJob
      BY <2>4, <3>1, RunStepKeeps DEF World
    <3>2. CASE Meddle
      BY <2>4, <3>2, MeddleStepKeeps DEF World
    <3> QED
      BY <2>4, <3>1, <3>2 DEF World
  <2>5. CASE Ended \/ UNCHANGED vars
    BY <2>5, StutterKeeps DEF Ended
  <2> QED
    BY <2>1, <2>2, <2>3, <2>4, <2>5 DEF Next
<1> QED
  BY <1>1, <1>2, PTL DEF Spec

\* TurnsAreSound for every host, budget and number of ids: the threads and the
\* version gate of a turn are there before its first request, and nothing of an
\* earlier turn is relied on (contract.rs, bounded/spares.rs, systemctl.rs).
THEOREM TurnsStaySound == Spec => []TurnsAreSound
<1>1. IInv => TurnsAreSound
  BY DEF IInv, TurnsAreSound, ScopesAreOpen, ThreadsSuffice, ReservedFirst, HostAsked,
     GateIsFresh,
         AsksCounted, Earlier, GateAskedOnce
<1> QED
  BY <1>1, IInvHolds, PTL

\* What goetia finds on a host, by the rules of systemctl.rs.
LEMMA EvidenceIsSound ==
    ASSUME NEW h \in PossibleHosts
    PROVE  /\ evidence(h) # "none" => h.offline \/ h.root # "init" \/ ~h.booted
           /\ evidence(h) = "none" /\ Answered(h) => h.root = "init" \/ (h.root = "mount" /\ h.proc = "self")
<1>1. /\ h.root \in {"init", "mount", "directory"}
      /\ h.proc \in {"traced", "tables", "self", "none"}
      /\ h.root = "init" => h.run # (IF h.booted THEN "absent" ELSE "dir")
  BY DEF PossibleHosts
<1>2. h.root = "init" => ~chroot_from(h)
  BY <1>1 DEF chroot_from, identity, mounts_differ, own_mounts, init_mounts, Unread
<1>3. h.root = "directory" /\ h.proc \in {"tables", "self"} => chroot_from(h)
  BY DEF chroot_from, identity, mounts_differ, own_mounts, init_mounts, Unread
<1>4. h.root = "mount" /\ h.proc = "tables" => chroot_from(h)
  BY DEF chroot_from, identity, mounts_differ, own_mounts, init_mounts, Unread
<1>5. Answered(h) /\ h.root # "init" => h.proc \in {"tables", "self"}
  BY <1>1 DEF Answered, Ignored, environment, Switches
<1>6. evidence(h) # "none" => h.offline \/ h.root # "init" \/ ~h.booted
  BY <1>1, <1>2 DEF evidence, established_absent
<1>7. evidence(h) = "none" => ~chroot_from(h)
  BY DEF evidence
<1> QED
  BY <1>1, <1>3, <1>4, <1>5, <1>6, <1>7

\* HostIsJudged on every host there can be: no request reaches a manager from a
\* root that is not its own, but for a mount whose PID 1 is hidden.
THEOREM HostsAreJudged == Spec => []HostIsJudged
<1>1. IInv => HostIsJudged
  <2> SUFFICES ASSUME IInv PROVE HostIsJudged
    OBVIOUS
  <2>1. host \in PossibleHosts
    BY SystemctlAssumption DEF IInv, TypeOK
  <2>2. arrived # {} => Answered(host) /\ evidence(host) = "none"
    BY DEF IInv, HostAsked
  <2> QED
    BY <2>1, <2>2, EvidenceIsSound DEF HostIsJudged
<1> QED
  BY <1>1, IInvHolds, PTL

\* AnswersAreTrue for any number of others' steps and any clock: a request called
\* not sent never reached systemd, one that timed out did, and after an error no
\* job of goetia's own is still queued.
THEOREM AnswersStayTrue == Spec => []AnswersAreTrue
<1>1. IInv => AnswersAreTrue
  BY DEF IInv, UnsentIsUnsent, JobIsChilds, AnswersAreTrue, UnsentNeverArrived,
     ErrorIsSettled
<1> QED
  BY <1>1, IInvHolds, PTL

\* OkIsEarned for every command: the unit was seen as a success says it was, by
\* every command whose budget waits.  A bounded restart's start is no exception:
\* what the clock left of its budget still waits when it is sent.
THEOREM SuccessIsEarned == Spec => []OkIsEarned
<1>1. IInv => OkIsEarned
  BY DEF IInv
<1> QED
  BY <1>1, IInvHolds, PTL

\* StartFollowsStop for every budget that waits: a restart's start goes out, or is
\* called spent, only after the unit has been down (cli/restart.rs).
THEOREM StartsFollowStops == Spec => []StartFollowsStop
<1>1. IInv => StartFollowsStop
  BY DEF IInv, StopsFirst, SentInOrder, Sent, Before, Installs, OnCourse, First,
     StartFollowsStop, Legs, Requests, JobVerbs
<1> QED
  BY <1>1, IInvHolds, PTL

\* MillisKeepDeadline in every state the commands reach, from GivesUpWhenExpired.
THEOREM MillisKeepTheDeadline == Spec => []MillisKeepDeadline
<1>1. IInv => MillisKeepDeadline
  <2> SUFFICES ASSUME IInv PROVE MillisKeepDeadline
    OBVIOUS
  <2>1. now \in Nat
    BY BudgetAssumption DEF IInv, TypeOK
  <2>2. CASE until = {}
    <3>1. remaining_at(until, now) = {}
      BY <2>2 DEF remaining_at
    <3>2. remaining_millis_capped_at(until, now) = {}
      BY <3>1 DEF remaining_millis_capped_at
    <3> QED
      BY <3>1, <3>2 DEF MillisKeepDeadline, gives_up, expired
  <2>3. CASE until # {}
    <3>1. PICK t \in 0..MaxInstant : until = {t}
      BY <2>3 DEF IInv, OnCourse
    <3>2. t \in Nat
      BY <3>1, BudgetAssumption
    <3>3. gives_up({t}, now) <=> expired({t}, now)
      BY <2>1, <3>2, GivesUpWhenExpired
    <3> QED
      BY <3>1, <3>3 DEF MillisKeepDeadline
  <2> QED
    BY <2>2, <2>3
<1> QED
  BY <1>1, IInvHolds, PTL
=============================================================================
